--------------------------- MODULE OrdinaryWorkflow ---------------------------
(***************************************************************************)
(* Ordinary DIY bookings: public creation (createOrdinaryRequest) and the  *)
(* staff transition (transitionOrdinary).                                  *)
(***************************************************************************)
EXTENDS BookingStore, Transitions

(* buildOrdinaryInterval: the interval ends on the day it starts.          *)
EndsSameDay(b, x) == HeldCells(b, x) \subseteq Cells

(* The studio is open for the requested interval; nobody asks whether it   *)
(* is taken.                                                               *)
Admits(b, x) == EndsSameDay(b, x) /\ OpenFor(b, x) /\ InWindow(b, x)

(* Everything a creation reads, the schedule, it reads under the schedule  *)
(* lock it holds to its commit, so the whole transaction is one step.  The *)
(* booking is its idempotency key: a second create with the key replays.   *)
CreateOrdinary(b, x, status) ==
    /\ lock = Free
    /\ b \in Ordinary /\ rows[b].status = "absent"
    /\ status \in {"pending_review", "waitlisted"}
    /\ Admits(b, x)
    /\ rows' = [rows EXCEPT ![b] = [status |-> status, start |-> x, due |-> 0]]
    /\ events' = [events EXCEPT ![b] =
            IF status = "waitlisted"
            THEN Append(@, [op |-> NoOp, from |-> "pending_review", to |-> status,
                            told |-> x, at |-> 0])
            ELSE @]
    /\ UNCHANGED <<ledger, token, calendar, sessions, now>>

(* The staff names a target status, and a start if it is "confirmed".      *)
BeginOrdinary(s, op, b, to, x) ==
    /\ b \in Ordinary
    /\ <<rows[b].status, to>> \in ORDINARY_TRANSITIONS
    /\ IF to = "confirmed" THEN EndsSameDay(b, x) ELSE x = rows[b].start
    /\ Begin(s, Ask(b, to, x, 0, "staff", op))

CheckConfirmation(s) ==
    LET r == req[s] IN
    /\ pc[s] = "locked" /\ r.to = "confirmed"
    /\ OpenFor(r.booking, r.at) /\ InWindow(r.booking, r.at)
    /\ OrdinaryFits(Held, r.booking, r.at)
    /\ Checked(s)

(* updateOrdinaryInterval runs only if the new start differs from the one  *)
(* read before the locks were taken.                                       *)
NewStart(r) == IF r.at # r.was THEN r.at ELSE rows[r.booking].start

CommitOrdinary(s) ==
    LET r == req[s] IN
    /\ pc[s] # "idle" /\ Ready(s)
    /\ r.booking \in Ordinary /\ r.by = "staff"
    /\ compareAndSet(s, IF r.to = "confirmed" THEN NewStart(r)
                        ELSE rows[r.booking].start, 0)
    /\ createEvent(s, r.at)
    /\ Finish(s)
    /\ UNCHANGED <<ledger, token, calendar, now>>
=============================================================================
