----------------------------- MODULE BookingStore -----------------------------
(***************************************************************************)
(* The tables, locks and transactions every booking service works on.      *)
(*                                                                         *)
(* A session is one HTTP request (or one maintenance run) inside its       *)
(* database transaction.  Postgres runs it at READ COMMITTED: a statement  *)
(* sees what is committed when it runs, a row that was read is not locked, *)
(* and an UPDATE ... WHERE status = expected re-checks the row it locks.   *)
(* A session therefore reads the row (pc "read"), may take the global      *)
(* schedule lock ("locked"), may evaluate the calendar under it            *)
(* ("checked"), and then writes: from the first UPDATE to the COMMIT the   *)
(* row is locked and nothing of the transaction is visible, so that part   *)
(* is one step.  Advisory locks are released by COMMIT and ROLLBACK.       *)
(***************************************************************************)
EXTENDS Occupancy, Sequences

CONSTANTS
    Sessions,       \* concurrent transactions
    Clerk,          \* the transaction of the schedule editor
    Free,           \* the schedule lock is not held
    NoRequest,      \* a session that runs nothing
    Ops,            \* operation ids chosen by the admin client
    NoOp,           \* an operation id minted by the server, never repeated
    LeadTime,       \* MINIMUM_LEAD_MINUTES, in cells
    RefundNotice    \* the 48 hours of the refund rule, in cells

ASSUME SessionsAssumption ==
    Clerk \notin Sessions /\ Free \notin Sessions \cup {Clerk}
ASSUME RequestAssumption == NoOp \notin Ops /\ LeadTime \in Nat /\ RefundNotice \in Nat

VARIABLES
    rows,           \* bookings and booking_party_details
    events,         \* request_status_events of each booking, oldest first
    ledger,         \* booking_charges of each party
    token,          \* the accept_time customer action token of each party
    hours,          \* cells inside the opening hours of the day
    closures,       \* studio closures, each the set of cells it covers
    lock,           \* holder of pg_advisory_xact_lock(149978, 1126)
    pc, req,        \* progress and request of each session
    now             \* the server clock

tables == <<rows, events, ledger, token>>
calendar == <<hours, closures>>
sessions == <<pc, req, lock>>

-----------------------------------------------------------------------------
Statuses ==
    {"absent", "pending_review", "waitlisted", "time_proposed",
     "awaiting_in_store_payment", "confirmed", "confirmed_paid",
     "reschedule_requested", "cancellation_requested", "payment_expired",
     "rejected", "cancelled", "refunded", "no_show", "completed"}

OccupyingExperience == {"confirmed", "cancellation_requested", "reschedule_requested"}
OccupyingParty ==
    OccupyingExperience \cup {"awaiting_in_store_payment", "confirmed_paid"}

occupiesStudioSchedule(b, status) ==
    status \in IF b \in Parties THEN OccupyingParty ELSE OccupyingExperience

(* The calendar the availability queries read from the bookings table.     *)
Held ==
    [b \in Bookings |->
        IF occupiesStudioSchedule(b, rows[b].status) THEN rows[b].start ELSE NoSlot]

Row == [status : Statuses, start : Cells \cup {NoSlot}, due : Nat]
Event ==
    [op : Ops \cup {NoOp}, from : Statuses, to : Statuses, told : Cells \cup {NoSlot}, at : Nat]
Charges == [venue_fee : Nat, extra : Nat, refund : Nat]
Request ==
    [booking : Bookings, from : Statuses, to : Statuses, was : Cells \cup {NoSlot},
     at : Cells \cup {NoSlot}, due : Nat, by : {"staff", "customer", "system"},
     op : Ops \cup {NoOp}]

StoreTypeOK ==
    /\ rows \in [Bookings -> Row]
    /\ events \in [Bookings -> Seq(Event)]
    /\ ledger \in [Parties -> Charges]
    /\ token \in [Parties -> {"none", "active", "revoked"}]
    /\ hours \in SUBSET Cells /\ closures \in SUBSET SUBSET Cells
    /\ lock \in Sessions \cup {Clerk, Free}
    /\ pc \in [Sessions -> {"idle", "read", "locked", "checked"}]
    /\ req \in [Sessions -> Request \cup {NoRequest}]
    /\ now \in Nat

StoreInit ==
    /\ rows = [b \in Bookings |-> [status |-> "absent", start |-> NoSlot, due |-> 0]]
    /\ events = [b \in Bookings |-> << >>]
    /\ ledger = [p \in Parties |-> [venue_fee |-> 0, extra |-> 0, refund |-> 0]]
    /\ token = [p \in Parties |-> "none"]
    /\ hours = Cells /\ closures = {}
    /\ lock = Free
    /\ pc = [s \in Sessions |-> "idle"]
    /\ req = [s \in Sessions |-> NoRequest]
    /\ now = 0

-----------------------------------------------------------------------------
(* No event carries this operation id yet: findByOperationId, and the      *)
(* unique index on operation_id behind it.  With an event the handler      *)
(* replays or answers 409 and changes nothing.                             *)
(* A plausible bug: only the latest event of a booking is looked at.       *)
OperationUnusedLately(op) ==
    op # NoOp => \A b \in Bookings :
        events[b] # << >> => events[b][Len(events[b])].op # op

OperationUnused(op) ==
    op # NoOp => \A b \in Bookings : \A i \in DOMAIN events[b] : events[b][i].op # op

(* lockOperation: one running transaction per operation id.                *)
OperationFree(s, op) ==
    op # NoOp => \A r \in Sessions \ {s} : pc[r] # "idle" => req[r].op # op

Ask(b, to, x, due, by, op) ==
    [booking |-> b, from |-> rows[b].status, to |-> to, was |-> rows[b].start,
     at |-> x, due |-> due, by |-> by, op |-> op]

(* The transaction opens: operation lock, replay check and the read of the *)
(* row whose status the client expects.  Nothing read here is locked.      *)
Begin(s, r) ==
    /\ pc[s] = "idle"
    /\ OperationFree(s, r.op) /\ OperationUnused(r.op)
    /\ pc' = [pc EXCEPT ![s] = "read"]
    /\ req' = [req EXCEPT ![s] = r]
    /\ UNCHANGED <<lock, tables, calendar, now>>

(* Only a transition that starts to hold, or moves, an interval takes the  *)
(* schedule lock: confirmations and party holds.                           *)
NeedsSchedule(r) == r.to \in {"confirmed", "awaiting_in_store_payment"}

(* A plausible bug: the transaction does not wait for the lock.            *)
LockScheduleAtOnce(s) ==
    /\ pc[s] = "read" /\ NeedsSchedule(req[s])
    /\ lock' = s
    /\ pc' = [pc EXCEPT ![s] = "locked"]
    /\ UNCHANGED <<req, tables, calendar, now>>

LockSchedule(s) ==
    /\ pc[s] = "read" /\ NeedsSchedule(req[s])
    /\ lock = Free /\ lock' = s
    /\ pc' = [pc EXCEPT ![s] = "locked"]
    /\ UNCHANGED <<req, tables, calendar, now>>

(* A plausible bug: the lock is given back before the transaction commits. *)
CheckedAndUnlocked(s) ==
    /\ pc' = [pc EXCEPT ![s] = "checked"]
    /\ lock' = Free
    /\ UNCHANGED <<req, tables, calendar, now>>

Checked(s) ==
    /\ pc' = [pc EXCEPT ![s] = "checked"]
    /\ UNCHANGED <<req, lock, tables, calendar, now>>

(* The session may write: with the calendar evaluated if it needs it.      *)
Ready(s) ==
    IF NeedsSchedule(req[s]) THEN pc[s] = "checked" ELSE pc[s] = "read"

(* A plausible bug: a session-level lock that nobody releases.             *)
FinishLocked(s) ==
    /\ pc' = [pc EXCEPT ![s] = "idle"]
    /\ req' = [req EXCEPT ![s] = NoRequest]
    /\ lock' = lock

Finish(s) ==
    /\ pc' = [pc EXCEPT ![s] = "idle"]
    /\ req' = [req EXCEPT ![s] = NoRequest]
    /\ lock' = IF lock = s THEN Free ELSE lock

(* A validation failure, a conflict, or the death of the process or of its *)
(* connection: Postgres rolls back and drops the advisory locks.           *)
Abort(s) ==
    /\ pc[s] # "idle"
    /\ Finish(s)
    /\ UNCHANGED <<tables, calendar, now>>

(* A plausible bug: UPDATE ... WHERE id, the status is not compared.       *)
setUncompared(s, start, due) ==
    LET r == req[s] IN
    rows' = [rows EXCEPT ![r.booking] = [status |-> r.to, start |-> start, due |-> due]]

(* UPDATE bookings SET status, ... WHERE id AND status = expected.         *)
compareAndSet(s, start, due) ==
    LET r == req[s] IN
    /\ rows[r.booking].status = r.from
    /\ rows' = [rows EXCEPT ![r.booking] = [status |-> r.to, start |-> start, due |-> due]]

(* INSERT INTO request_status_events, and the e-mail enqueued with it: told*)
(* is the start the e-mail names.  created_at is kept for the one kind of  *)
(* event whose time is ever read.                                          *)
createEvent(s, told) ==
    LET r == req[s] IN
    /\ OperationUnused(r.op)
    /\ events' = [events EXCEPT ![r.booking] = Append(@,
            [op |-> r.op, from |-> r.from, to |-> r.to, told |-> told,
             at |-> IF r.to = "cancellation_requested" THEN now ELSE 0])]

(* The interval lies inside opening hours and outside every closure.       *)
OpenFor(b, x) ==
    PublicCells(b, x) \subseteq hours /\ HeldCells(b, x) \cap UNION closures = {}

(* validateBookingWindow: two hours of lead time, and not past the day.    *)
InWindow(b, x) == x >= now + LeadTime /\ PublicCells(b, x) \subseteq hours

Tick ==
    /\ now < LastCell
    /\ now' = now + 1
    /\ UNCHANGED <<tables, calendar, sessions>>
=============================================================================
