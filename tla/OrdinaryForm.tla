------------------------------ MODULE OrdinaryForm ------------------------------
(***************************************************************************)
(* OrdinaryBookingForm with the calendar of its third step: people, then   *)
(* schedule, then contact.  Only the submit button is disabled while a     *)
(* submission runs; going back and changing everything is possible.        *)
(***************************************************************************)
EXTENDS RequestForm

OpenOrdinary == Mount("experience", "people")

(* Projects and attendance: any change of them drops the chosen start.     *)
ChangePeople(n) ==
    /\ Editable("experience") /\ form.step = "people"
    /\ form' = [form EXCEPT !.size = n, !.slot = NoSlot]
    /\ UNCHANGED <<loads, mounts, intake>>

(* The calendar is mounted with its step and goes with it: its date field  *)
(* starts empty, while the form keeps its date and start.                  *)
AtStep(f, step) == [f EXCEPT !.step = step, !.shown = NoDate, !.offers = {}]

goToNextStep ==
    /\ Editable("experience")
    /\ \/ form.step = "people" /\ form' = AtStep(form, "schedule")
       \/ /\ form.step = "schedule" /\ form.slot # NoSlot /\ form.date # NoDate
          /\ form' = AtStep(form, "contact")
    /\ loads' = {}
    /\ UNCHANGED <<mounts, intake>>

goToPreviousStep ==
    /\ Editable("experience")
    /\ \/ form.step = "schedule" /\ form' = AtStep(form, "people")
       \/ form.step = "contact" /\ form' = AtStep(form, "schedule")
    /\ loads' = {}
    /\ UNCHANGED <<mounts, intake>>

Ask(d) == Outdated \cup IF d = NoDate THEN {} ELSE {[date |-> d, size |-> form.size, current |-> TRUE]}

(* onChange of the date field, handleDateChange, and the effect that loads.*)
ChangeDate(d) ==
    /\ Editable("experience") /\ form.step = "schedule" /\ RoomToLoad
    /\ form' = [form EXCEPT !.date = d, !.slot = NoSlot, !.shown = d, !.offers = {}]
    /\ loads' = Ask(d)
    /\ UNCHANGED <<mounts, intake>>

(* A plausible bug: an answer is shown whatever was asked after it.        *)
LoadAnyAnswered(l, offers) ==
    /\ Editable("experience")
    /\ loads' = loads \ {l}
    /\ form' = [form EXCEPT !.offers = offers]
    /\ UNCHANGED <<mounts, intake>>

(* The answer to load(), or its failure, which shows no start either.      *)
LoadAnswered(l, offers) ==
    /\ Editable("experience")
    /\ loads' = loads \ {l}
    /\ form' = IF l.current THEN [form EXCEPT !.offers = offers] ELSE form
    /\ UNCHANGED <<mounts, intake>>

RetryLoad ==
    /\ Editable("experience") /\ form.step = "schedule"
    /\ form.shown # NoDate /\ form.offers = {} /\ ~ Loading /\ RoomToLoad
    /\ loads' = Ask(form.shown)
    /\ UNCHANGED <<form, mounts, intake>>

ChooseSlot(o) ==
    /\ Editable("experience") /\ form.step = "schedule"
    /\ o \in form.offers
    /\ form' = [form EXCEPT !.slot = o]
    /\ UNCHANGED <<loads, mounts, intake>>

(* onSubmit up to its first await: the fields are those of this render.    *)
Submit ==
    /\ Editable("experience") /\ form.step = "contact" /\ form.status = "idle"
    /\ form.slot # NoSlot /\ form.date # NoDate
    /\ form' = [form EXCEPT !.status = "checking",
                    !.sent = [kind |-> "experience", date |-> form.date, size |-> form.size,
                              slot |-> form.slot, items |-> {}]]
    /\ UNCHANGED <<loads, mounts, intake>>

(* setCalendarRevision: a calendar on the screen loads its day again.      *)
Revised == IF form.step = "schedule" THEN Ask(form.shown) ELSE loads

(* Availability is asked again.  If the chosen start is still offered, the *)
(* contact fields are read, which are there only at their step, and the    *)
(* POST goes out unless the schema refuses; if it is not, the choice is    *)
(* dropped.                                                                *)
CheckAnswered(offers) ==
    LET asked == form.sent
        offer == [date |-> asked.date, size |-> asked.size] IN
    /\ On("experience") /\ form.status = "checking"
    /\ \/ /\ offer \in offers /\ form.step = "contact"
          /\ form' = [form EXCEPT !.status = "posting"]
          /\ Send(form.key, asked)
          /\ UNCHANGED loads
       \/ /\ offer \in offers
          /\ form' = Failed(form)
          /\ UNCHANGED <<loads, posts>>
       \/ /\ offer \notin offers
          /\ form' = [form EXCEPT !.status = "idle", !.sent = NoBody, !.slot = NoSlot]
          /\ loads' = Revised
          /\ UNCHANGED posts
    /\ UNCHANGED <<rows, past, used, made, mounts>>

CheckFailed ==
    /\ On("experience") /\ form.status = "checking"
    /\ form' = [form EXCEPT !.status = "idle", !.sent = NoBody]
    /\ UNCHANGED <<loads, mounts, intake>>

(* onSubmit after submitBooking: success, a start that is gone (back to    *)
(* the calendar), or a message under the form.                             *)
ReceiveOrdinary(p) ==
    /\ On("experience") /\ Answered(p)
    /\ Taken(p)
    /\ \/ /\ p.answer = "stored"
          /\ form' = Succeeded(form)
          /\ loads' = {}
       \/ /\ p.answer = "gone"
          /\ LET failedForm == [Failed(form) EXCEPT !.slot = NoSlot] IN
             IF form.step = "schedule" THEN form' = failedForm /\ loads' = Revised
             ELSE form' = AtStep(failedForm, "schedule") /\ loads' = {}
       \/ /\ p.answer \notin {"stored", "gone"}
          /\ form' = Failed(form)
          /\ UNCHANGED loads
    /\ UNCHANGED <<rows, past, used, made, mounts>>

OrdinaryNext ==
    \/ OpenOrdinary \/ goToNextStep \/ goToPreviousStep \/ RetryLoad \/ Submit \/ CheckFailed
    \/ \E n \in 1 .. MaxSize : ChangePeople(n)
    \/ \E d \in Dates \cup {NoDate} : ChangeDate(d)
    \/ \E l \in loads : \E offers \in Answers(l.date, l.size) : LoadAnswered(l, offers)
    \/ \E o \in Offer : ChooseSlot(o)
    \/ \E d \in Dates, n \in 1 .. MaxSize : \E offers \in Answers(d, n) :
        form # Nowhere /\ form.sent # NoBody /\ d = form.sent.date /\ n = form.sent.size
        /\ CheckAnswered(offers)
    \/ \E p \in posts : ReceiveOrdinary(p)
=============================================================================
