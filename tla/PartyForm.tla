------------------------------- MODULE PartyForm -------------------------------
(***************************************************************************)
(* PartyBookingForm: people, plan (date and start), extras.  The list of   *)
(* starts belongs to the form and survives its steps; it is not fetched    *)
(* again before the POST, since a party start is a wish.                   *)
(***************************************************************************)
EXTENDS RequestForm

OpenParty == Mount("party", "people")

(* Guests, parents and age do not matter to the starts on offer.           *)
ChangeGuests(n) ==
    /\ Editable("party") /\ form.step = "people"
    /\ form' = [form EXCEPT !.size = n]
    /\ UNCHANGED <<loads, mounts, intake>>

PartyStep ==
    /\ Editable("party")
    /\ \/ form.step \in {"people", "extras"} /\ form' = [form EXCEPT !.step = "plan"]
       \/ form.step = "plan" /\ form' = [form EXCEPT !.step = "people"]
       \/ /\ form.step = "plan" /\ form.date # NoDate /\ form.slot # NoSlot
          /\ form' = [form EXCEPT !.step = "extras"]
    /\ UNCHANGED <<loads, mounts, intake>>

(* A plausible bug: the start chosen for another day stays chosen.         *)
ChangePartyDateOnly(d) ==
    /\ Editable("party") /\ form.step = "plan" /\ RoomToLoad
    /\ form' = [form EXCEPT !.date = d, !.shown = d, !.offers = IF d = NoDate THEN {} ELSE @]
    /\ loads' = IF d = NoDate THEN loads
                ELSE Outdated \cup {[date |-> d, size |-> 1, current |-> TRUE]}
    /\ UNCHANGED <<mounts, intake>>

(* The date field and loadAvailability.  An empty date starts no request   *)
(* and outdates none.                                                      *)
ChangePartyDate(d) ==
    /\ Editable("party") /\ form.step = "plan" /\ RoomToLoad
    /\ form' = [form EXCEPT !.date = d, !.shown = d, !.slot = NoSlot,
                    !.offers = IF d = NoDate THEN {} ELSE @]
    /\ loads' = IF d = NoDate THEN loads
                ELSE Outdated \cup {[date |-> d, size |-> 1, current |-> TRUE]}
    /\ UNCHANGED <<mounts, intake>>

(* A plausible bug: an answer is shown whatever was asked after it.        *)
PartyLoadAnyAnswered(l, offers) ==
    /\ Editable("party")
    /\ loads' = loads \ {l}
    /\ form' = [form EXCEPT !.offers = offers]
    /\ UNCHANGED <<mounts, intake>>

PartyLoadAnswered(l, offers) ==
    /\ Editable("party")
    /\ loads' = loads \ {l}
    /\ form' = IF l.current THEN [form EXCEPT !.offers = offers] ELSE form
    /\ UNCHANGED <<mounts, intake>>

(* The button that appears when the list could not be loaded.              *)
RetryPartyLoad ==
    /\ Editable("party") /\ form.step = "plan"
    /\ form.date # NoDate /\ form.offers = {} /\ ~ Loading /\ RoomToLoad
    /\ form' = [form EXCEPT !.slot = NoSlot]
    /\ loads' = Outdated \cup {[date |-> form.date, size |-> 1, current |-> TRUE]}
    /\ UNCHANGED <<mounts, intake>>

(* While a list is being loaded the old one is hidden.                     *)
ChoosePartySlot(o) ==
    /\ Editable("party") /\ form.step = "plan"
    /\ ~ Loading /\ o \in form.offers
    /\ form' = [form EXCEPT !.slot = o]
    /\ UNCHANGED <<loads, mounts, intake>>

(* onSubmit and the schema of submitPartyBooking, which may refuse: the    *)
(* step of the first wrong field is shown again.                           *)
SubmitParty ==
    /\ Editable("party") /\ form.step = "extras" /\ form.status = "idle"
    /\ form.date # NoDate /\ form.slot # NoSlot
    /\ LET body == [kind |-> "party", date |-> form.date, size |-> form.size,
                    slot |-> form.slot, items |-> {}] IN
        \/ form' = [form EXCEPT !.status = "posting", !.sent = body] /\ Send(form.key, body)
        \/ \E step \in {"people", "plan", "extras"} :
            form' = [form EXCEPT !.step = step] /\ UNCHANGED posts
    /\ UNCHANGED <<rows, past, used, made, loads, mounts>>

(* Whatever the API refuses, the message stands under the form.            *)
ReceiveParty(p) ==
    /\ On("party") /\ Answered(p)
    /\ Taken(p)
    /\ \/ /\ p.answer = "stored"
          /\ form' = Succeeded(form)
          /\ loads' = {}
       \/ /\ p.answer # "stored"
          /\ form' = Failed(form)
          /\ UNCHANGED loads
    /\ UNCHANGED <<rows, past, used, made, mounts>>

PartyNext ==
    \/ OpenParty \/ PartyStep \/ RetryPartyLoad \/ SubmitParty
    \/ \E n \in 1 .. MaxSize : ChangeGuests(n)
    \/ \E d \in Dates \cup {NoDate} : ChangePartyDate(d)
    \/ \E l \in loads : \E offers \in Answers(l.date, l.size) : PartyLoadAnswered(l, offers)
    \/ \E o \in Offer : ChoosePartySlot(o)
    \/ \E p \in posts : ReceiveParty(p)
=============================================================================
