----------------------------- MODULE PartyContent -----------------------------
(***************************************************************************)
(* The content of a party request: guests, wishes and start, extras.  Its  *)
(* number fields take whatever Number() makes of the text, fractions too:  *)
(* what is typed into them is counted in halves here.                      *)
(***************************************************************************)
EXTENDS RequestContent

CONSTANTS
    GuestsTyped,    \* numbers typed for participants, in halves
    ParentsTyped,   \* for accompanying parents
    AgesTyped       \* for the age of the birthday child

ASSUME PartyContentAssumption == GuestsTyped \cup ParentsTyped \cup AgesTyped \subseteq Int

Whole(n) == n % 2 = 0
NoExtras == [cake |-> FALSE, cutting |-> FALSE]

BlankParty ==
    [kind |-> "party", step |-> 1, picks |-> [c \in Choices |-> 0],
     people |-> [participants |-> 8, parents |-> 2, age |-> 10],
     start |-> NoStart, contact |-> "missing", extra |-> NoExtras, consent |-> NoConsent]

PartyContentInit == draft = BlankParty

OnPartyStep(step) == draft.kind = "party" /\ draft.step = step

(* Contact, numbers: validatePeople.  It compares and does not count.      *)
validatePeople(d) ==
    /\ d.contact # "missing"
    /\ 8 <= d.people.participants /\ d.people.participants <= 16
    /\ 2 <= d.people.parents /\ d.people.parents <= 4
    /\ 10 <= d.people.age

validatePlan(d) == Picked(d.picks) # {} /\ d.start # NoStart

(* The schema of submitPartyBooking, and assertPartyInput of the API.      *)
WholeNumbers(people) == \A field \in DOMAIN people : Whole(people[field])

PartyWithin(people) ==
    /\ WholeNumbers(people)
    /\ people.participants \in 8 .. 16 /\ people.parents \in 2 .. 4 /\ people.age >= 10

(* toggleProject: "not sure yet" stands alone.                             *)
toggleProject(picks, c) ==
    [o \in Choices |->
        IF o = c THEN 1 - picks[c]
        ELSE IF picks[c] = 0 /\ Decide \in {c, o} THEN 0 ELSE picks[o]]

ChangeGuestNumbers ==
    /\ OnPartyStep(1) /\ Editing
    /\ \/ \E people \in {[draft.people EXCEPT !.participants = n] : n \in GuestsTyped}
                   \cup {[draft.people EXCEPT !.parents = n] : n \in ParentsTyped}
                   \cup {[draft.people EXCEPT !.age = n] : n \in AgesTyped} :
            draft' = [draft EXCEPT !.people = people]
       \/ \E contact \in ContactFields \ {draft.contact} : draft' = [draft EXCEPT !.contact = contact]

ChangePlan ==
    /\ OnPartyStep(2) /\ Editing
    /\ \/ \E c \in Choices : draft' = [draft EXCEPT !.picks = toggleProject(draft.picks, c)]
       \/ \E start \in {NoStart, "chosen"} : draft' = [draft EXCEPT !.start = start]

(* Without a cake of their own there is nothing to cut.                    *)
ChangeExtras ==
    /\ OnPartyStep(3) /\ Editing
    /\ \/ ChangeConsent
       \/ draft' = [draft EXCEPT !.extra = [cake |-> ~ @.cake, cutting |-> FALSE]]
       \/ /\ draft.extra.cake
          /\ draft' = [draft EXCEPT !.extra.cutting = ~ @]

ContinueParty ==
    /\ Editing
    /\ \/ OnPartyStep(1) /\ validatePeople(draft) /\ draft' = [draft EXCEPT !.step = 2]
       \/ OnPartyStep(2) /\ validatePlan(draft) /\ draft' = [draft EXCEPT !.step = 3]

BackParty ==
    /\ Editing /\ draft.kind = "party" /\ draft.step > 1
    /\ draft' = [draft EXCEPT !.step = @ - 1]

(* onSubmit: the first step with an error is shown, or the copy goes to    *)
(* the schema at once, which knows fractions.                              *)
SubmitPartyContent ==
    /\ OnPartyStep(3)
    /\ \/ /\ validatePeople(draft) /\ validatePlan(draft) /\ ConsentGiven(draft.consent)
          /\ Click("schema")
       \/ /\ ~ Underway
          /\ ~ validatePeople(draft) \/ ~ validatePlan(draft)
          /\ draft' = [draft EXCEPT !.step = IF validatePeople(draft) THEN 2 ELSE 1]
          /\ UNCHANGED <<sending, late, verdict, stored, around>>

SchemaAnswered ==
    /\ Underway /\ sending.stage = "schema"
    /\ IF WholeNumbers(sending.draft.people) /\ sending.draft.contact = "good"
       THEN /\ sending' = [sending EXCEPT !.stage = "posted"]
            /\ UNCHANGED <<draft, late, verdict, around>>
       ELSE /\ Conclude("incomplete")
            /\ draft' = [draft EXCEPT !.step = 1]
    /\ UNCHANGED stored

(* createPartyRequest.  Package, hours and window may refuse it as well.   *)
PartyPosted ==
    LET d == sending.draft IN
    /\ Underway /\ sending.stage = "posted" /\ d.kind = "party"
    /\ IF PartyWithin(d.people) /\ Picked(d.picks) # {} /\ ConsentGiven(d.consent) /\ ~ outdated
       THEN \/ /\ Conclude("stored")
               /\ stored' = [picks |-> d.picks, people |-> d.people, consent |-> d.consent,
                             extra |-> d.extra]
            \/ Conclude("refused") /\ UNCHANGED stored
       ELSE Conclude("invalid") /\ UNCHANGED stored
    /\ UNCHANGED draft

PartyContentNext ==
    \/ ChangeGuestNumbers \/ ChangePlan \/ ChangeExtras \/ ContinueParty \/ BackParty
    \/ SubmitPartyContent \/ SchemaAnswered \/ PartyPosted

-----------------------------------------------------------------------------
(* A stored party is the one the customer saw when clicking, with a number *)
(* of people that can come, and either projects or "not sure yet".         *)
PartyAsShown ==
    (draft.kind = "party" /\ stored # Unsent) =>
        LET seen == sending.draft IN
        /\ stored = [picks |-> seen.picks, people |-> seen.people, consent |-> seen.consent,
                     extra |-> seen.extra]
        /\ WholeNumbers(stored.people)
        /\ stored.extra.cutting => stored.extra.cake
        /\ stored.picks[Decide] = 0 \/ Picked(stored.picks) = {Decide}
        /\ stored.consent.signed = (stored.consent.photo # "declined")

(* Page, schema and API differ in two things: only the schema, and the API *)
(* behind it, know that people are whole, and how an address looks.        *)
PartyChecksAgree ==
    draft.kind = "party" =>
        /\ verdict = "invalid" => outdated
        /\ verdict = "incomplete" =>
            ~ WholeNumbers(sending.draft.people) \/ sending.draft.contact = "odd"
=============================================================================
