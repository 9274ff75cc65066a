--------------------------- MODULE StudioOccupancy ---------------------------
(***************************************************************************)
(* What the booking services promise about the studio floor, without       *)
(* statuses, transactions or locks: an interval is reserved in one step,   *)
(* only if it fits what is held at that very moment, and released at will. *)
(***************************************************************************)
EXTENDS Occupancy

VARIABLE held       \* the calendar: the interval each booking holds

Init == held = [b \in Bookings |-> NoSlot]

(* Confirm a booking, hold a party time, or move a reservation.            *)
Reserve(b, x) == Fits(held, b, x) /\ held' = [held EXCEPT ![b] = x]

(* Cancel, expire, refund, complete or mark as no-show.                    *)
Release(b) == held' = [held EXCEPT ![b] = NoSlot]

Next == \E b \in Bookings : Release(b) \/ \E x \in Cells : Reserve(b, x)

Spec == Init /\ [][Next]_held

TypeOK == held \in Calendar
Safe == SafeCalendar(held)
=============================================================================
