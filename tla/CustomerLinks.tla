---------------------------- MODULE CustomerLinks ----------------------------
(***************************************************************************)
(* The secure e-mail link of a confirmed customer (requestStatusChange):   *)
(* it asks for a cancellation or another time.  It takes neither the       *)
(* operation lock nor the schedule lock, and the link stays usable.        *)
(***************************************************************************)
EXTENDS BookingStore

(* allowedActions.                                                         *)
Answerable == {"confirmed", "confirmed_paid"}

BeginCustomerRequest(s, b, to) ==
    /\ rows[b].status \in Answerable
    /\ to \in {"cancellation_requested", "reschedule_requested"}
    /\ Begin(s, Ask(b, to, rows[b].start, rows[b].due, "customer", NoOp))

CommitCustomerRequest(s) ==
    LET r == req[s] IN
    /\ pc[s] # "idle" /\ Ready(s) /\ r.by = "customer" /\ r.from \in Answerable
    /\ compareAndSet(s, rows[r.booking].start, rows[r.booking].due)
    /\ createEvent(s, r.was)
    /\ Finish(s)
    /\ UNCHANGED <<ledger, token, calendar, now>>
=============================================================================
