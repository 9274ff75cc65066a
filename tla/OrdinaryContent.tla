---------------------------- MODULE OrdinaryContent ----------------------------
(***************************************************************************)
(* The content of an ordinary booking: projects, people, start, contact.   *)
(* Every person of the group makes one project, so each of the first two   *)
(* steps changes the fields of the other.                                  *)
(***************************************************************************)
EXTENDS RequestContent

CONSTANTS
    Quantities,     \* numbers typed as the quantity of a project
    PeopleTyped,    \* numbers typed into the fields for participants,
    ChildrenTyped,  \* children aged five to eight,
    AdultsTyped     \* and accompanying adults

ASSUME OrdinaryContentAssumption == AdultsTyped \subseteq Int

ORDINARY_CAPACITY == 8

BlankOrdinary(picks) ==
    [kind |-> "experience", step |-> 1, picks |-> picks,
     people |-> [participants |-> 1, children |-> 0, adults |-> 0],
     start |-> NoStart, contact |-> "missing", consent |-> NoConsent]

(* A link from a project's page starts the form with that project.         *)
OrdinaryContentInit ==
    \E picks \in {[c \in Choices |-> 0]}
            \cup {[c \in Choices |-> IF c = o THEN 1 ELSE 0] : o \in Offerings} :
        draft = BlankOrdinary(picks)

OnStep(step) == draft.kind = "experience" /\ draft.step = step

attendanceCount(people) == people.participants + people.adults

(* validateOrdinaryAttendance, of the page, the schema and the API alike.  *)
validateOrdinaryAttendance(people) ==
    /\ people.participants >= 1 /\ people.adults >= 0
    /\ people.children \in 0 .. people.participants
    /\ people.children > 0 => people.adults >= 1
    /\ attendanceCount(people) <= ORDINARY_CAPACITY

ProjectForEach(d) ==
    Assigned(d.picks) = d.people.participants /\ Longest(d.picks, offered) > 0

(* A plausible bug: the group grows and the start chosen before stays.     *)
RequantifyOnly(d, picks) ==
    LET n == Assigned(picks)
        joining == [d.people EXCEPT !.participants = n, !.children = IF @ < n THEN @ ELSE n]
    IN  [d EXCEPT !.picks = picks,
                  !.people = IF n \in {0, @.participants} THEN @ ELSE joining]

(* The onChange of the picker: the number of participants follows.         *)
Requantify(d, picks) ==
    LET n == Assigned(picks)
        joining == [d.people EXCEPT !.participants = n, !.children = IF @ < n THEN @ ELSE n]
    IN  [d EXCEPT !.start = NoStart, !.picks = picks,
                  !.people = IF n \in {0, @.participants} THEN @ ELSE joining]

(* setQuantity: deciding in store and choosing projects exclude each other.*)
setQuantity ==
    /\ OnStep(1) /\ Editing
    /\ \E c \in Choices, q \in Quantities :
        LET others == IF c = Decide /\ q > 0 THEN {} ELSE Offerings \ {c} IN
        draft' = Requantify(draft,
            [o \in Choices |-> IF o = c THEN q ELSE IF o \in others THEN draft.picks[o] ELSE 0])

(* setField and updateAttendance: a single kind of project that everybody  *)
(* makes is made by everybody who joins.                                   *)
updateAttendance ==
    /\ OnStep(2) /\ Editing
    /\ \E people \in {[draft.people EXCEPT !.participants = n] : n \in PeopleTyped}
                \cup {[draft.people EXCEPT !.children = n] : n \in ChildrenTyped}
                \cup {[draft.people EXCEPT !.adults = n] : n \in AdultsTyped} :
        LET follows ==
                /\ Cardinality(Picked(draft.picks)) = 1 /\ people.participants > 0
                /\ Assigned(draft.picks) = draft.people.participants IN
        draft' = [draft EXCEPT !.people = people, !.start = NoStart,
            !.picks = [c \in Choices |->
                IF follows /\ @[c] > 0 THEN people.participants ELSE @[c]]]

(* The calendar lists starts for the group as it is.                       *)
ChooseStart ==
    /\ OnStep(3) /\ Editing
    /\ validateOrdinaryAttendance(draft.people) /\ ProjectForEach(draft)
    /\ \E mode \in {"booking", "waitlist"} :
        draft' = [draft EXCEPT !.start =
            [mode |-> mode, attendance |-> attendanceCount(draft.people),
             minutes |-> Longest(draft.picks, offered)]]

DropStart == OnStep(3) /\ Editing /\ draft' = [draft EXCEPT !.start = NoStart]

(* Name, phone and email are fields of the fourth step and go with it.     *)
EnterContact ==
    OnStep(4) /\ Editing /\ \E contact \in ContactFields \ {draft.contact} :
        draft' = [draft EXCEPT !.contact = contact]

ContinueOrdinary ==
    /\ Editing
    /\ \/ OnStep(1) /\ ProjectForEach(draft) /\ draft' = [draft EXCEPT !.step = 2]
       \/ /\ OnStep(2) /\ validateOrdinaryAttendance(draft.people)
          /\ draft' = [draft EXCEPT !.step =
                IF Assigned(draft.picks) = draft.people.participants THEN 3 ELSE 1]
       \/ OnStep(3) /\ draft.start # NoStart /\ draft' = [draft EXCEPT !.step = 4]

BackOrdinary ==
    /\ Editing /\ draft.kind = "experience" /\ draft.step > 1
    /\ draft' = [draft EXCEPT !.step = @ - 1, !.contact = "missing"]

(* validateContact, which looks at every step again.                       *)
SubmitContent ==
    /\ OnStep(4) /\ draft.contact # "missing" /\ ConsentGiven(draft.consent) /\ draft.start # NoStart
    /\ validateOrdinaryAttendance(draft.people) /\ ProjectForEach(draft)
    /\ Click("checking")

(* The schema of submitOrdinaryBooking.                                    *)
SchemaAccepts(d) ==
    /\ ConsentGiven(d.consent)
    /\ validateOrdinaryAttendance(d.people)
    /\ Picked(d.picks) # {} /\ Assigned(d.picks) = d.people.participants

(* The chosen start is asked for again.  If it is still there, the schema  *)
(* sees the copy, but name, phone and email as the page has them now.      *)
FreshAnswered ==
    /\ Underway /\ sending.stage = "checking"
    /\ \/ /\ draft.contact = "good" /\ SchemaAccepts(sending.draft)
          /\ sending' = [sending EXCEPT !.stage = "posted"]
          /\ UNCHANGED <<draft, verdict, late, around>>
       \/ /\ ~ (draft.contact = "good" /\ SchemaAccepts(sending.draft))
          /\ Conclude("incomplete") /\ UNCHANGED draft
       \/ /\ Conclude("gone") /\ draft' = [draft EXCEPT !.start = NoStart]
    /\ UNCHANGED stored

(* assertOrdinaryInput and normalizePhotoConsent.                          *)
Admissible(d) == SchemaAccepts(d) /\ ~ outdated

(* createOrdinaryRequest: projects are looked up as they are now, and the  *)
(* interval is as long as the longest of them now takes.  The studio may   *)
(* have closed that day meanwhile, or only at that time.                   *)
OrdinaryPosted ==
    LET d == sending.draft IN
    /\ Underway /\ sending.stage = "posted" /\ d.kind = "experience"
    /\ \/ /\ ~ Admissible(d)
          /\ Conclude("invalid") /\ UNCHANGED <<draft, stored>>
       \/ /\ Admissible(d) /\ \E o \in Picked(d.picks) \ {Decide} : catalogue[o] = 0
          /\ Conclude("not bookable") /\ UNCHANGED <<draft, stored>>
       \/ /\ Admissible(d) /\ \A o \in Picked(d.picks) \ {Decide} : catalogue[o] > 0
          /\ \/ /\ Conclude("stored") /\ UNCHANGED draft
                /\ stored' = [picks |-> d.picks, people |-> d.people, consent |-> d.consent,
                              mode |-> d.start.mode, attendance |-> attendanceCount(d.people),
                              minutes |-> Longest(d.picks, catalogue)]
             \/ /\ Conclude("gone") /\ UNCHANGED stored
                /\ draft' = [draft EXCEPT !.start = NoStart, !.step = 3, !.contact = "missing"]
             \/ Conclude("refused") /\ UNCHANGED <<draft, stored>>

OrdinaryContentNext ==
    \/ setQuantity \/ updateAttendance \/ ChooseStart \/ DropStart \/ EnterContact
    \/ ContinueOrdinary \/ BackOrdinary \/ SubmitContent \/ FreshAnswered \/ OrdinaryPosted
    \/ OnStep(4) /\ Editing /\ ChangeConsent

-----------------------------------------------------------------------------
(* A stored booking is the one the customer saw when clicking: the same    *)
(* projects, people, permission and kind of request, in a start that was   *)
(* listed for as many people and for as long, unless staff changed the     *)
(* project meanwhile.                                                      *)
OrdinaryAsShown ==
    (draft.kind = "experience" /\ stored # Unsent) =>
        LET seen == sending.draft IN
        /\ <<stored.picks, stored.people, stored.consent>> =
            <<seen.picks, seen.people, seen.consent>>
        /\ <<stored.mode, stored.attendance>> = <<seen.start.mode, seen.start.attendance>>
        /\ stored.minutes = seen.start.minutes \/ catalogue # offered
        /\ stored.consent.signed = (stored.consent.photo # "declined")
        /\ stored.people.children > 0 => stored.people.adults > 0

(* Page, schema and API ask for the same: what the page lets through comes *)
(* back as invalid only if the texts were replaced, and as incomplete only *)
(* for an odd address, or if the contact fields were emptied or left while *)
(* the start was checked.                                                  *)
OrdinaryChecksAgree ==
    draft.kind = "experience" =>
        /\ verdict = "invalid" => outdated
        /\ verdict = "not bookable" => catalogue # offered
        /\ verdict = "incomplete" => draft.contact # "good"
=============================================================================
