------------------------------ MODULE RequestForm ------------------------------
(***************************************************************************)
(* A form that is mounted in the customer's tab, as far as the forms for   *)
(* ordinary bookings, parties and carts have it in common: the attempt     *)
(* with its key, the one POST it waits for, and the fields of the request. *)
(* Handlers that run after an await change the form as it is then; what    *)
(* they captured before is in sent.                                        *)
(***************************************************************************)
EXTENDS RequestIntake

CONSTANTS
    NoSlot,         \* no start chosen
    Nowhere         \* no form is mounted
ASSUME NoSlotAssumption == NoSlot \notin Offer

VARIABLES
    form,           \* the mounted form
    loads,          \* availability the form has asked for
    mounts          \* forms mounted so far

client == <<form, loads, mounts>>

Steps == {"people", "schedule", "contact", "plan", "extras", "cart"}

(* date is the form's field, shown the day its calendar displays; offers   *)
(* are the starts on the screen.                                           *)
Form ==
    [kind : Kinds, key : Mounts \X Nat, step : Steps, size : 1 .. MaxSize,
     date : Dates \cup {NoDate}, slot : Offer \cup {NoSlot},
     shown : Dates \cup {NoDate}, offers : SUBSET Offer,
     status : {"idle", "checking", "posting", "done"}, sent : Body \cup {NoBody}]
ASSUME NowhereAssumption == Nowhere \notin Form

(* A request for the starts of a day: current while its sequence number    *)
(* is the latest one, that is, while its answer will be used.              *)
Load == [date : Dates, size : 1 .. MaxSize, current : BOOLEAN]

FormTypeOK ==
    /\ form \in Form \cup {Nowhere}
    /\ loads \in SUBSET Load
    /\ mounts \in 0 .. MaxMounts

FormInit == form = Nowhere /\ loads = {} /\ mounts = 0

On(kind) == form # Nowhere /\ form.kind = kind
(* The success page replaces the form.                                     *)
Editable(kind) == On(kind) /\ form.status # "done"

(* useState(createBookingAttempt): a new key for each mount.               *)
Mount(kind, step) ==
    /\ form = Nowhere /\ mounts < LastMount[kind]
    /\ mounts' = mounts + 1
    /\ form' = [kind |-> kind, key |-> <<mounts + 1, 1>>, step |-> step, size |-> 1,
                date |-> NoDate, slot |-> NoSlot, shown |-> NoDate, offers |-> {},
                status |-> "idle", sent |-> NoBody]
    /\ loads' = {}
    /\ UNCHANGED intake

(* Nobody waits for these POSTs any more; what was sent stays sent.        *)
Abandon(gone) ==
    posts' = (posts \ gone)
        \cup {[p EXCEPT !.live = FALSE] : p \in {q \in gone : q.answer \in {"none", "counted"}}}

(* The customer goes to another page.  Only a cart order still has         *)
(* something to do when its answer comes: it empties the cart of the tab.  *)
LeaveForm ==
    /\ form # Nowhere
    /\ form' = Nowhere /\ loads' = {}
    /\ Abandon({p \in posts : p.body.kind # "cart"})
    /\ UNCHANGED <<rows, past, used, made, mounts>>

(* ++requestSequence: answers to earlier loads will be dropped.            *)
Outdated == {[l EXCEPT !.current = FALSE] : l \in loads}
Loading == \E l \in loads : l.current
RoomToLoad == Cardinality(loads) < MaxLoads

(* The answers the availability endpoints may give: no start on that day,  *)
(* or one.  Others book and cancel all the time.                           *)
Answers(date, size) == {{}, {[date |-> date, size |-> size]}}

Send(key, body) ==
    /\ Cardinality(posts) < MaxPosts
    /\ posts' = posts \cup {[key |-> key, body |-> body, live |-> TRUE, answer |-> "none"]}

(* The mounted form waits for this POST; and has its answer.               *)
Mine(p) == p.live /\ form # Nowhere /\ p.key = form.key
Answered(p) == Mine(p) /\ p.answer \in Outcomes
Taken(p) == posts' = posts \ {p}

(* RequestAttempt: succeeded() mints a new key, failed() keeps the old one.*)
(* A plausible bug: failed() mints one as well.                            *)
succeeded(key) == <<key[1], key[2] + 1>>
failedRotates(key) == succeeded(key)
failed(key) == key
Failed(f) == [f EXCEPT !.status = "idle", !.sent = NoBody, !.key = failed(@)]
Succeeded(f) == [f EXCEPT !.status = "done", !.offers = {}, !.shown = NoDate, !.key = succeeded(@)]

(* fetch rejects, or the answer is no JSON: the catch clause.  The server  *)
(* may know the request already, or meet it later.                         *)
GiveUp ==
    \E p \in posts :
        /\ p.live
        /\ form' = IF Mine(p) THEN Failed(form) ELSE form
        /\ Abandon({p})
        /\ UNCHANGED <<rows, past, used, made, loads, mounts>>
=============================================================================
