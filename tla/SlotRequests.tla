----------------------------- MODULE SlotRequests -----------------------------
(***************************************************************************)
(* Time slots and the requests that reserve a place in one: the earlier    *)
(* booking form and the cart orders.  Staff edits the slots, the public    *)
(* creates requests, staff moves them on and cancels them.                 *)
(*                                                                         *)
(* As in BookingStore, a transaction is one step from its first write to   *)
(* its COMMIT, and the steps before are what it read or locked.            *)
(***************************************************************************)
EXTENDS Transitions, Integers, Sequences, FiniteSets

CONSTANTS
    Slots,          \* ids of time_slots
    SlotBookings,   \* bookings created with a timeSlotId
    Orders,         \* cart orders
    People,         \* numberOfPeople of each request
    Categories,     \* category of a slot, or the global one
    Windows,        \* pairs <<startTime, endTime>> of a slot
    Capacities,     \* capacities staff may give a slot
    Sessions,       \* concurrent transactions
    ProductOpen,    \* cart orders get past their route: FALSE as the code is
    NoSlot,         \* a slot id with no row; a request without a slot
    NoTask,         \* a session that runs nothing
    Free            \* a lock nobody holds

Requests == SlotBookings \cup Orders

ASSUME RequestsAssumption ==
    /\ SlotBookings \cap Orders = {} /\ IsFiniteSet(Requests)
    /\ People \in [Requests -> Nat \ {0}] /\ ProductOpen \in BOOLEAN
ASSUME SlotsAssumption ==
    /\ NoSlot \notin Slots /\ Free \notin Sessions
    /\ Windows \subseteq {w \in Nat \X Nat : w[1] < w[2]}
    /\ Capacities \subseteq Nat \ {0}

VARIABLES
    slots,          \* time_slots
    requests,       \* bookings and cart_orders
    log,            \* request_status_events of each request, oldest first
    open,           \* the request switches of site_settings
    task,           \* what each session does
    rowLock,        \* holder of SELECT ... FOR UPDATE on a slot row
    keyLock         \* holder of the advisory lock of date and category

vars == <<slots, requests, log, open, task, rowLock, keyLock>>

Slot ==
    [window : Windows, category : Categories, capacity : Nat, booked : Nat, isAvailable : BOOLEAN]
OrderStatuses == {"new", "contacted", "confirmed", "cancelled"}
BookingStatuses == {"pending_review", "confirmed", "cancelled"}
Request ==
    [status : OrderStatuses \cup BookingStatuses \cup {"absent"},
     slot : Slots \cup {NoSlot}, window : Windows \cup {NoSlot}]

ASSUME NoSlotAssumption == NoSlot \notin Slot

(* Stages: a create that has read the switch, a transition that has read   *)
(* the row and begun its UPDATE, an edit that has the slot row ("row") or  *)
(* also the keys and no overlap ("keys").                                  *)
Task ==
    [stage : {"create"}, request : Requests, slot : Slots]
    \cup [stage : {"update"}, request : Requests, from : OrderStatuses, to : OrderStatuses]
    \cup [stage : {"row", "keys"}, slot : Slots, new : Slot]

TypeOK ==
    /\ slots \in [Slots -> Slot \cup {NoSlot}]
    /\ requests \in [Requests -> Request]
    /\ \A r \in Requests : requests[r].status \in
            {"absent"} \cup IF r \in Orders THEN OrderStatuses ELSE BookingStatuses
    /\ log \in [Requests -> Seq([from : OrderStatuses, to : OrderStatuses])]
    /\ open \in BOOLEAN
    /\ task \in [Sessions -> Task \cup {NoTask}]
    /\ rowLock \in [Slots -> Sessions \cup {Free}]
    /\ keyLock \in [Categories -> Sessions \cup {Free}]

Init ==
    /\ slots = [i \in Slots |-> NoSlot]
    /\ requests = [r \in Requests |-> [status |-> "absent", slot |-> NoSlot, window |-> NoSlot]]
    /\ log = [r \in Requests |-> << >>]
    /\ open = FALSE
    /\ task = [s \in Sessions |-> NoTask]
    /\ rowLock = [i \in Slots |-> Free]
    /\ keyLock = [c \in Categories |-> Free]

-----------------------------------------------------------------------------
Live(r) == requests[r].status \notin {"absent", "cancelled"}

(* The bookings table knows no "contacted": it stays pending_review, and   *)
(* the latest event tells the two apart.  Orders store the status itself.  *)
Stored(r, status) ==
    IF r \in SlotBookings /\ status \in {"new", "contacted"} THEN "pending_review" ELSE status

(* A session ends: COMMIT, ROLLBACK or death drops its locks.              *)
End(s) ==
    /\ task' = [task EXCEPT ![s] = NoTask]
    /\ rowLock' = [i \in Slots |-> IF rowLock[i] = s THEN Free ELSE rowLock[i]]
    /\ keyLock' = [c \in Categories |-> IF keyLock[c] = s THEN Free ELSE keyLock[c]]

Running(s, stage) == task[s] # NoTask /\ task[s].stage = stage

Abort(s) ==
    /\ task[s] # NoTask
    /\ End(s)
    /\ UNCHANGED <<slots, requests, log, open>>

-----------------------------------------------------------------------------
(* Creation of a request.  A booking share-locks the switch row until its  *)
(* end; the route of cart orders reads it before their transaction, without*)
(* a lock, and then refuses: effectiveRequestCapabilities closes product   *)
(* whatever the row says.  Their service, behind that gate, does not look  *)
(* at the row again.                                                       *)
requirePublicRequestCapability(r) == open /\ (r \in Orders => ProductOpen)

(* Of either, the idempotency key is locked until the end: a second create *)
(* of the key waits and replays.                                           *)
BeginCreate(s, r, i) ==
    /\ task[s] = NoTask /\ requirePublicRequestCapability(r)
    /\ requests[r].status = "absent"
    /\ \A t \in Sessions : Running(t, "create") => task[t].request # r
    /\ task' = [task EXCEPT ![s] = [stage |-> "create", request |-> r, slot |-> i]]
    /\ UNCHANGED <<slots, requests, log, open, rowLock, keyLock>>

(* UPDATE time_slots ... WHERE is_available AND booked + people <= capacity. *)
Reservable(i, people) ==
    slots[i] # NoSlot /\ slots[i].isAvailable /\ slots[i].booked + people <= slots[i].capacity

Create(s) ==
    /\ Running(s, "create")
    /\ LET r == task[s].request
           i == task[s].slot IN
        /\ rowLock[i] = Free
        /\ Reservable(i, People[r])
        /\ slots' = [slots EXCEPT ![i].booked = @ + People[r]]
        /\ requests' = [requests EXCEPT ![r] =
                [status |-> Stored(r, "new"), slot |-> i, window |-> slots[i].window]]
    /\ End(s)
    /\ UNCHANGED <<log, open>>

(* A plausible bug: bookings read the switch without the share lock.       *)
FlipSwitchAtOnce == open' = ~ open /\ UNCHANGED <<slots, requests, log, task, rowLock, keyLock>>

(* updateRequestSwitches: its UPDATE waits for the share locks.            *)
FlipSwitch ==
    /\ \A s \in Sessions : Running(s, "create") => task[s].request \in Orders
    /\ open' = ~ open
    /\ UNCHANGED <<slots, requests, log, task, rowLock, keyLock>>

-----------------------------------------------------------------------------
(* Transitions.                                                            *)
LatestTo(r) == IF log[r] = << >> THEN "none" ELSE log[r][Len(log[r])].to

(* legacyBookingStatusCondition; for an order, status = expected.          *)
HasStatus(r, status) ==
    /\ requests[r].status = Stored(r, status)
    /\ r \in SlotBookings => /\ status = "contacted" => LatestTo(r) = "contacted"
                             /\ status = "new" => LatestTo(r) # "contacted"

(* The status read first, and then the UPDATE, which evaluates the same    *)
(* condition in the snapshot of its statement ...  Operation ids are those *)
(* of BookingStore: a repeated one replays and changes nothing, so each    *)
(* transaction here has a new one.                                         *)
BeginTransition(s, r, from, to) ==
    /\ task[s] = NoTask
    /\ <<from, to>> \in VALID_TRANSITIONS /\ HasStatus(r, from)
    /\ task' = [task EXCEPT ![s] = [stage |-> "update", request |-> r, from |-> from, to |-> to]]
    /\ UNCHANGED <<slots, requests, log, open, rowLock, keyLock>>

(* A plausible bug: the expected status is not compared.                   *)
StillStoredAnyway(r, status) == TRUE

(* ... and, if it had to wait for the row, again on the row's new version: *)
(* the events are still those of the snapshot.                             *)
StillStored(r, status) == requests[r].status = Stored(r, status)

(* A cancellation gives the places back, in the same transaction.          *)
Transition(s) ==
    /\ Running(s, "update")
    /\ LET r == task[s].request
           i == requests[r].slot IN
        /\ StillStored(r, task[s].from)
        /\ requests' = [requests EXCEPT ![r].status = Stored(r, task[s].to)]
        /\ log' = [log EXCEPT ![r] = Append(@, [from |-> task[s].from, to |-> task[s].to])]
        /\ IF task[s].to = "cancelled"
           THEN /\ rowLock[i] = Free
                /\ slots[i] # NoSlot /\ slots[i].booked >= People[r]
                /\ slots' = [slots EXCEPT ![i].booked = @ - People[r]]
           ELSE UNCHANGED slots
    /\ End(s)
    /\ UNCHANGED open

-----------------------------------------------------------------------------
(* The slot editor.                                                        *)
Clash(a, b) ==
    /\ a.category = b.category
    /\ a.window[1] < b.window[2] /\ a.window[2] > b.window[1]

(* findOverlapping.                                                        *)
Overlapping(new, excluded) ==
    \E j \in Slots \ excluded : slots[j] # NoSlot /\ Clash(slots[j], new)

NewSlot(w, c, n) ==
    [window |-> w, category |-> c, capacity |-> n, booked |-> 0, isAvailable |-> TRUE]

(* create and createBatch take the key locks first and read and write      *)
(* under them: one step.  new maps the new ids to their rows.              *)
CreateSlots(new) ==
    /\ \A i \in DOMAIN new :
        /\ slots[i] = NoSlot
        /\ keyLock[new[i].category] = Free
        /\ ~ Overlapping(new[i], {})
        /\ \A j \in DOMAIN new \ {i} : ~ Clash(new[i], new[j])
    /\ slots' = [i \in Slots |-> IF i \in DOMAIN new THEN new[i] ELSE slots[i]]
    /\ UNCHANGED <<requests, log, open, task, rowLock, keyLock>>

Rescheduled(i, new) ==
    new.window # slots[i].window \/ new.category # slots[i].category

(* update of capacity or availability: under the row lock, in one step.    *)
EditInPlace(i, new) ==
    /\ rowLock[i] = Free
    /\ slots[i] # NoSlot /\ new # slots[i] /\ new.booked = slots[i].booked
    /\ ~ Rescheduled(i, new)
    /\ new.capacity >= slots[i].booked
    /\ slots' = [slots EXCEPT ![i] = new]
    /\ UNCHANGED <<requests, log, open, task, rowLock, keyLock>>

(* A plausible bug: the slot row is read and not locked.                   *)
BeginEditUnlocked(s, i, new) ==
    /\ task[s] = NoTask /\ rowLock[i] = Free
    /\ slots[i] # NoSlot /\ Rescheduled(i, new) /\ slots[i].booked = 0
    /\ task' = [task EXCEPT ![s] = [stage |-> "row", slot |-> i, new |-> new]]
    /\ UNCHANGED <<slots, requests, log, open, rowLock, keyLock>>

(* update of time or category: the row is locked and has no reservation.   *)
BeginEdit(s, i, new) ==
    /\ task[s] = NoTask /\ rowLock[i] = Free
    /\ slots[i] # NoSlot /\ Rescheduled(i, new) /\ slots[i].booked = 0
    /\ rowLock' = [rowLock EXCEPT ![i] = s]
    /\ task' = [task EXCEPT ![s] = [stage |-> "row", slot |-> i, new |-> new]]
    /\ UNCHANGED <<slots, requests, log, open, keyLock>>

(* A plausible bug: slots move without the key locks.                      *)
LockNoKeys(s) ==
    /\ Running(s, "row")
    /\ ~ Overlapping(task[s].new, {task[s].slot})
    /\ task' = [task EXCEPT ![s].stage = "keys"]
    /\ UNCHANGED <<slots, requests, log, open, rowLock, keyLock>>

(* acquireScheduleLocks, for the old and the new category in one order for *)
(* everybody, and then the overlap check.                                  *)
LockKeys(s) ==
    /\ Running(s, "row") /\ slots[task[s].slot] # NoSlot
    /\ LET i == task[s].slot
           keys == {slots[i].category, task[s].new.category} IN
        /\ \A c \in keys : keyLock[c] = Free
        /\ ~ Overlapping(task[s].new, {i})
        /\ keyLock' = [c \in Categories |-> IF c \in keys THEN s ELSE keyLock[c]]
    /\ task' = [task EXCEPT ![s].stage = "keys"]
    /\ UNCHANGED <<slots, requests, log, open, rowLock>>

(* UPDATE time_slots SET the fields of the input; booked_count is not one. *)
Edit(s) ==
    /\ Running(s, "keys") /\ slots[task[s].slot] # NoSlot
    /\ LET i == task[s].slot IN
        slots' = [slots EXCEPT ![i] = [task[s].new EXCEPT !.booked = slots[i].booked]]
    /\ End(s)
    /\ UNCHANGED <<requests, log, open>>

(* remove: a slot any request refers to stays.                             *)
RemoveSlot(i) ==
    /\ rowLock[i] = Free /\ slots[i] # NoSlot
    /\ \A r \in Requests : requests[r].slot # i
    /\ slots' = [slots EXCEPT ![i] = NoSlot]
    /\ UNCHANGED <<requests, log, open, task, rowLock, keyLock>>

-----------------------------------------------------------------------------
Public(s) ==
    \/ \E r \in Requests, i \in Slots : BeginCreate(s, r, i)
    \/ Create(s)

Staff(s) ==
    \/ \E r \in Requests, from, to \in OrderStatuses : BeginTransition(s, r, from, to)
    \/ Transition(s)
    \/ \E i \in Slots, w \in Windows, c \in Categories :
            slots[i] # NoSlot /\ BeginEdit(s, i, [slots[i] EXCEPT !.window = w, !.category = c])
    \/ LockKeys(s) \/ Edit(s)

NewSlots == {NewSlot(w, c, n) : w \in Windows, c \in Categories, n \in Capacities}

Next ==
    \/ \E s \in Sessions : Public(s) \/ Staff(s) \/ Abort(s)
    \/ FlipSwitch
    \/ \E ids \in SUBSET Slots \ {{}} : \E new \in [ids -> NewSlots] : CreateSlots(new)
    \/ \E i \in Slots : slots[i] # NoSlot /\
            \/ \E n \in Capacities, available \in BOOLEAN :
                    EditInPlace(i, [slots[i] EXCEPT !.capacity = n, !.isAvailable = available])
            \/ RemoveSlot(i)

Spec == Init /\ [][Next]_vars

-----------------------------------------------------------------------------
(* One pair for each place the live requests of a slot take.               *)
Seats(i) == UNION {{r} \X (1 .. People[r]) : r \in {q \in Requests : Live(q) /\ requests[q].slot = i}}

(* The counter of a slot is the number of places its live requests take,   *)
(* and within its capacity: creates, cancellations and edits that race     *)
(* reserve once and release once.                                          *)
CapacityBalanced ==
    \A i \in Slots : slots[i] # NoSlot =>
        slots[i].booked = Cardinality(Seats(i)) /\ slots[i].booked <= slots[i].capacity

(* The slot of a live request exists and is still at the time the request, *)
(* and the customer's e-mail, says.                                        *)
ReservationsMatchSlots ==
    \A r \in Requests : Live(r) =>
        LET row == slots[requests[r].slot] IN row # NoSlot /\ row.window = requests[r].window

(* No two slots of a category overlap, however creations and edits race.   *)
SlotsDisjoint ==
    \A i, j \in Slots : (i # j /\ slots[i] # NoSlot /\ slots[j] # NoSlot) => ~ Clash(slots[i], slots[j])

(* Closing the request switch is final: no booking is created after it, not*)
(* even by a create that had read the switch before.  A cart order behind  *)
(* its closed route has no such promise: it does not lock what was read.   *)
CreatedWhileOpen ==
    [][\A r \in SlotBookings :
        requests[r].status = "absent" /\ requests'[r].status # "absent" => open]_vars

(* A transition is committed only from the status the request is in: the   *)
(* events of a request are a walk from "new".                              *)
TransitionsFresh ==
    \A r \in Requests : \A i \in DOMAIN log[r] :
        log[r][i].from = IF i = 1 THEN "new" ELSE log[r][i - 1].to
=============================================================================
