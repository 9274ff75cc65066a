-------------------------- MODULE SlotRequestsProofs --------------------------
(***************************************************************************)
(* SlotRequests for any number of slots, requests, categories and          *)
(* transactions: the counters agree with the requests, reservations keep   *)
(* their time, and the slots of a category stay apart.                     *)
(***************************************************************************)
EXTENDS SlotRequests, FiniteSetTheorems, TLAPS

-----------------------------------------------------------------------------
(* Places, and how many they are.                                          *)
Places(R) == UNION {{r} \X (1 .. People[r]) : r \in R}

LEMMA PlacesOfOne ==
    ASSUME NEW r \in Requests
    PROVE  /\ IsFiniteSet({r} \X (1 .. People[r]))
           /\ Cardinality({r} \X (1 .. People[r])) = People[r]
           /\ People[r] \in Nat \ {0}
<1>1. People[r] \in Nat \ {0}  BY RequestsAssumption
<1>2. IsFiniteSet({r}) /\ Cardinality({r}) = 1  BY FS_Singleton
<1>3. IsFiniteSet(1 .. People[r]) /\ Cardinality(1 .. People[r]) = People[r]
  <2>1. 1 \in Int /\ People[r] \in Int /\ ~ (1 > People[r]) /\ People[r] - 1 + 1 = People[r]
    BY <1>1
  <2> QED  BY <2>1, FS_Interval, Zenon
<1>4. /\ IsFiniteSet({r} \X (1 .. People[r]))
      /\ Cardinality({r} \X (1 .. People[r])) = 1 * People[r]
  <2> DEFINE T == 1 .. People[r]
  <2>1. IsFiniteSet(T) /\ Cardinality(T) = People[r]  BY <1>3
  <2> SUFFICES IsFiniteSet({r} \X T) /\ Cardinality({r} \X T) = 1 * People[r]  OBVIOUS
  <2> HIDE DEF T
  <2> QED  BY <1>2, <2>1, FS_Product
<1> QED  BY <1>1, <1>4

LEMMA PlacesFinite ==
    ASSUME NEW R \in SUBSET Requests
    PROVE  IsFiniteSet(Places(R)) /\ Cardinality(Places(R)) \in Nat
<1> DEFINE place == [r \in R |-> {r} \X (1 .. People[r])]
           groups == {place[r] : r \in R}
<1>1. IsFiniteSet(R)  BY RequestsAssumption, FS_Subset
<1>2. place \in Surjection(R, groups)  BY Zenon DEF Surjection
<1>3. IsFiniteSet(groups)  BY <1>1, <1>2, FS_Surjection
<1>4. \A g \in groups : IsFiniteSet(g)  BY PlacesOfOne
<1>5. IsFiniteSet(UNION groups)  BY <1>3, <1>4, FS_UNION
<1>6. UNION groups = Places(R)  BY DEF Places
<1> QED  BY <1>5, <1>6, FS_CardinalityType

LEMMA PlacesAdd ==
    ASSUME NEW R \in SUBSET Requests, NEW r \in Requests \ R
    PROVE  Cardinality(Places(R \cup {r})) = Cardinality(Places(R)) + People[r]
<1> DEFINE own == {r} \X (1 .. People[r])
<1>1. Places(R \cup {r}) = Places(R) \cup own  BY DEF Places
<1>2. Places(R) \cap own = {}
  <2>1. \A g \in Places(R) : g[1] \in R  BY DEF Places
  <2> QED  BY <2>1
<1>3. IsFiniteSet(own) /\ Cardinality(own) = People[r] /\ People[r] \in Nat  BY PlacesOfOne
<1>4. IsFiniteSet(Places(R)) /\ Cardinality(Places(R)) \in Nat  BY PlacesFinite
<1>5. Cardinality(Places(R) \cup own) =
        Cardinality(Places(R)) + Cardinality(own) - Cardinality(Places(R) \cap own)
  BY <1>3, <1>4, FS_Union
<1>6. Cardinality(Places(R) \cap own) = 0  BY <1>2, FS_EmptySet
<1>7. Cardinality(Places(R \cup {r})) = Cardinality(Places(R)) + Cardinality(own) - 0
  BY <1>1, <1>5, <1>6, Zenon
<1> HIDE DEF own
<1> QED  BY <1>3, <1>4, <1>7

LEMMA PlacesNone ==
    ASSUME NEW R \in SUBSET Requests
    PROVE  Cardinality(Places(R)) = 0 <=> R = {}
<1>1. Cardinality(Places(R)) = 0 <=> Places(R) = {}  BY PlacesFinite, FS_EmptySet
<1>2. ASSUME NEW r \in R  PROVE <<r, 1>> \in Places(R)
  <2>1. People[r] \in Nat \ {0}  BY PlacesOfOne, Zenon
  <2>2. 1 \in 1 .. People[r]  BY <2>1
  <2> QED  BY <2>2 DEF Places
<1>3. Places({}) = {}  BY DEF Places
<1> QED  BY <1>1, <1>2, <1>3

-----------------------------------------------------------------------------
(* The inductive invariant.                                                *)
Takers(i) == {r \in Requests : Live(r) /\ requests[r].slot = i}

Placed == \A r \in Requests : Live(r) => requests[r].slot \in Slots

(* A create that runs: nobody else creates the request, and the switch,    *)
(* whose row a booking shares, is on.                                      *)
Creating(s) ==
    Running(s, "create") =>
        /\ task[s].request \in SlotBookings => open
        /\ requests[task[s].request].status = "absent"
        /\ \A t \in Sessions \ {s} :
            Running(t, "create") => task[t].request # task[s].request

Updating(s) ==
    Running(s, "update") => <<task[s].from, task[s].to>> \in VALID_TRANSITIONS

(* An edit that runs: the slot it has locked is still empty, and what it   *)
(* writes differs in time and category only.                               *)
Editing(s) ==
    (Running(s, "row") \/ Running(s, "keys")) =>
        LET i == task[s].slot
            new == task[s].new IN
        /\ rowLock[i] = s
        /\ slots[i] # NoSlot /\ slots[i].booked = 0
        /\ new.booked = 0 /\ new.capacity = slots[i].capacity

(* The category it moves the slot to is locked, and has room.              *)
Moving(s) ==
    Running(s, "keys") =>
        /\ keyLock[task[s].new.category] = s
        /\ ~ Overlapping(task[s].new, {task[s].slot})

Relies(s) == Creating(s) /\ Updating(s) /\ Editing(s) /\ Moving(s)

(* Where the requests take their places.                                   *)
Floor == CapacityBalanced /\ ReservationsMatchSlots /\ Placed

IInv == TypeOK /\ Floor /\ SlotsDisjoint /\ \A s \in Sessions : Relies(s)

LEMMA SeatsOfTakers ==
    ASSUME NEW i
    PROVE  Seats(i) = Places(Takers(i))
BY DEF Seats, Places, Takers

LEMMA InitInv == Init => IInv
<1> SUFFICES ASSUME Init  PROVE IInv  OBVIOUS
<1>1. TypeOK
  <2>1. requests \in [Requests -> Request]  BY DEF Init, Request
  <2>2. \A r \in Requests : log[r] = << >>  BY DEF Init
  <2>3. log \in [Requests -> Seq([from : OrderStatuses, to : OrderStatuses])]
    BY <2>2 DEF Init
  <2> QED  BY <2>1, <2>3 DEF Init, TypeOK
<1> QED
  BY <1>1 DEF Init, IInv, Floor, CapacityBalanced, ReservationsMatchSlots, SlotsDisjoint, Placed,
     Relies, Creating, Updating, Editing, Moving, Running, Live

-----------------------------------------------------------------------------
(* What a running task holds.                                              *)
LEMMA TaskTypes ==
    ASSUME TypeOK, NEW s \in Sessions
    PROVE  /\ Running(s, "create") => task[s].request \in Requests /\ task[s].slot \in Slots
           /\ Running(s, "update") => /\ task[s].request \in Requests
                                      /\ task[s].from \in OrderStatuses
                                      /\ task[s].to \in OrderStatuses
           /\ (Running(s, "row") \/ Running(s, "keys")) =>
                 task[s].slot \in Slots /\ task[s].new \in Slot
<1>1. Running(s, "create") \/ Running(s, "update") \/ Running(s, "row") \/ Running(s, "keys")
        => task[s] \in Task
  BY DEF TypeOK, Running
<1> QED  BY <1>1 DEF Running, Task

(* A session that ends runs nothing and keeps no lock; others keep theirs. *)
LEMMA EndEffect ==
    ASSUME TypeOK, NEW s \in Sessions, End(s)
    PROVE  /\ task' \in [Sessions -> Task \cup {NoTask}]
           /\ rowLock' \in [Slots -> Sessions \cup {Free}]
           /\ keyLock' \in [Categories -> Sessions \cup {Free}]
           /\ task'[s] = NoTask
           /\ \A t \in Sessions \ {s} :
                /\ task'[t] = task[t]
                /\ \A i \in Slots : rowLock[i] = t => rowLock'[i] = t
                /\ \A c \in Categories : keyLock[c] = t => keyLock'[c] = t
BY DEF TypeOK, End

(* Nothing on the floor changes: the same rows, and the same takers.       *)
LEMMA FloorStays ==
    ASSUME Floor, UNCHANGED <<slots, requests>>
    PROVE  Floor'
BY DEF Floor, CapacityBalanced, ReservationsMatchSlots, Placed, Seats, Live

(* Slots change in what is not counted; requests stay.                     *)
LEMMA FloorKeeps ==
    ASSUME Floor, UNCHANGED requests, TypeOK,
           \A i \in Slots : slots'[i] # NoSlot =>
               \/ slots[i] # NoSlot /\ slots'[i].booked = slots[i].booked
                                    /\ slots'[i].booked <= slots'[i].capacity
               \/ /\ slots[i] = NoSlot /\ slots'[i].booked = 0
                  /\ slots'[i].booked <= slots'[i].capacity,
           \A r \in Requests : Live(r) =>
               LET i == requests[r].slot IN
               slots'[i] # NoSlot /\ slots'[i].window = slots[i].window
    PROVE  Floor'
<1>1. /\ ReservationsMatchSlots /\ Placed /\ CapacityBalanced  BY DEF Floor
<1>2. \A r \in Requests : Live(r)' <=> Live(r)  BY DEF Live
<1>3. Placed' /\ ReservationsMatchSlots'
  BY <1>1, <1>2 DEF Placed, ReservationsMatchSlots
<1>4. ASSUME NEW i \in Slots, slots'[i] # NoSlot
      PROVE  slots'[i].booked = Cardinality(Seats(i))'
                /\ slots'[i].booked <= slots'[i].capacity
  <2>1. Seats(i)' = Seats(i)  BY DEF Seats, Live
  <2>2. CASE slots[i] # NoSlot  BY <1>1, <1>4, <2>1, <2>2 DEF CapacityBalanced
  <2>3. CASE slots[i] = NoSlot
    <3>1. Takers(i) = {}  BY <1>1, <2>3 DEF Takers, ReservationsMatchSlots
    <3>2. Cardinality(Seats(i)) = 0  BY <3>1, SeatsOfTakers, PlacesNone
    <3> QED  BY <1>4, <2>1, <2>3, <3>2
  <2> QED  BY <2>2, <2>3
<1>5. CapacityBalanced'  BY <1>4 DEF CapacityBalanced
<1> QED  BY <1>3, <1>5 DEF Floor

(* A slot with nobody in it: no live request refers to it.                 *)
LEMMA NobodyThere ==
    ASSUME Floor, NEW i \in Slots, slots[i] # NoSlot, slots[i].booked = 0
    PROVE  \A r \in Requests : Live(r) => requests[r].slot # i
<1>1. Cardinality(Seats(i)) = 0  BY DEF Floor, CapacityBalanced
<1>2. Takers(i) = {}  BY <1>1, SeatsOfTakers, PlacesNone DEF Takers
<1> QED  BY <1>2 DEF Takers

-----------------------------------------------------------------------------
(* The steps.                                                              *)
LEMMA AbortInv ==
    ASSUME IInv, NEW s \in Sessions, Abort(s)
    PROVE  IInv'
<1>1. End(s) /\ UNCHANGED <<slots, requests, log, open>>  BY DEF Abort
<1>2. TypeOK'  BY <1>1, EndEffect DEF IInv, TypeOK
<1>3. Floor' /\ SlotsDisjoint'  BY <1>1, FloorStays DEF IInv, SlotsDisjoint
<1>4. ASSUME NEW t \in Sessions \ {s}  PROVE Relies(t)'
  <2>1. Relies(t) /\ \A st : Running(t, st)' <=> Running(t, st)
    BY <1>1, EndEffect DEF IInv, Running
  <2> QED
    BY <2>1, <1>1, EndEffect, TaskTypes
       DEF IInv, Relies, Creating, Updating, Editing, Moving, Overlapping, Slot, Running
<1>5. Relies(s)'
  BY <1>1, EndEffect DEF IInv, Relies, Creating, Updating, Editing, Moving, Running
<1> QED  BY <1>2, <1>3, <1>4, <1>5 DEF IInv

LEMMA BeginCreateInv ==
    ASSUME IInv, NEW s \in Sessions, NEW r \in Requests, NEW i \in Slots, BeginCreate(s, r, i)
    PROVE  IInv'
<1> DEFINE new == [stage |-> "create", request |-> r, slot |-> i]
<1>1. /\ task[s] = NoTask /\ open /\ requests[r].status = "absent"
      /\ \A t \in Sessions : Running(t, "create") => task[t].request # r
      /\ task' = [task EXCEPT ![s] = new]
      /\ UNCHANGED <<slots, requests, log, open, rowLock, keyLock>>
  BY DEF BeginCreate, requirePublicRequestCapability
<1>2. new \in Task  BY DEF Task
<1>3. TypeOK'  BY <1>1, <1>2 DEF IInv, TypeOK
<1>4. Floor' /\ SlotsDisjoint'  BY <1>1, FloorStays DEF IInv, SlotsDisjoint
<1>5. \A t \in Sessions : task'[t] = IF t = s THEN new ELSE task[t]
  BY <1>1 DEF IInv, TypeOK
<1>6. ASSUME NEW t \in Sessions \ {s}  PROVE Relies(t)'
  BY <1>1, <1>5, <1>6
     DEF IInv, Relies, Creating, Updating, Editing, Moving, Overlapping, Running
<1>7. Relies(s)'
  BY <1>1, <1>5 DEF Relies, Creating, Updating, Editing, Moving, Running
<1> QED  BY <1>3, <1>4, <1>6, <1>7 DEF IInv

LEMMA BeginTransitionInv ==
    ASSUME IInv, NEW s \in Sessions, NEW r \in Requests,
           NEW from \in OrderStatuses, NEW to \in OrderStatuses, BeginTransition(s, r, from, to)
    PROVE  IInv'
<1> DEFINE new == [stage |-> "update", request |-> r, from |-> from, to |-> to]
<1>1. /\ task[s] = NoTask /\ <<from, to>> \in VALID_TRANSITIONS
      /\ task' = [task EXCEPT ![s] = new]
      /\ UNCHANGED <<slots, requests, log, open, rowLock, keyLock>>
  BY DEF BeginTransition
<1>2. new \in Task  BY DEF Task
<1>3. TypeOK'  BY <1>1, <1>2 DEF IInv, TypeOK
<1>4. Floor' /\ SlotsDisjoint'  BY <1>1, FloorStays DEF IInv, SlotsDisjoint
<1>5. \A t \in Sessions : task'[t] = IF t = s THEN new ELSE task[t]
  BY <1>1 DEF IInv, TypeOK
<1>6. ASSUME NEW t \in Sessions \ {s}  PROVE Relies(t)'
  BY <1>1, <1>5, <1>6
     DEF IInv, Relies, Creating, Updating, Editing, Moving, Overlapping, Running
<1>7. Relies(s)'
  BY <1>1, <1>5 DEF Relies, Creating, Updating, Editing, Moving, Running
<1> QED  BY <1>3, <1>4, <1>6, <1>7 DEF IInv

LEMMA FlipSwitchInv ==
    ASSUME IInv, FlipSwitch
    PROVE  IInv'
<1>1. /\ \A s \in Sessions : Running(s, "create") => task[s].request \in Orders
      /\ open' = ~ open /\ UNCHANGED <<slots, requests, log, task, rowLock, keyLock>>
  BY DEF FlipSwitch
<1>2. TypeOK'  BY <1>1 DEF IInv, TypeOK
<1>3. Floor' /\ SlotsDisjoint'  BY <1>1, FloorStays DEF IInv, SlotsDisjoint
<1>4. ASSUME NEW t \in Sessions  PROVE Relies(t)'
  BY <1>1, RequestsAssumption
     DEF IInv, Relies, Creating, Updating, Editing, Moving, Overlapping, Running
<1> QED  BY <1>2, <1>3, <1>4 DEF IInv

LEMMA BeginEditInv ==
    ASSUME IInv, NEW s \in Sessions, NEW i \in Slots, NEW w \in Windows, NEW c \in Categories,
           slots[i] # NoSlot,
           BeginEdit(s, i, [slots[i] EXCEPT !.window = w, !.category = c])
    PROVE  IInv'
<1> DEFINE row == [slots[i] EXCEPT !.window = w, !.category = c]
           new == [stage |-> "row", slot |-> i, new |-> row]
<1>1. /\ task[s] = NoTask /\ rowLock[i] = Free /\ slots[i].booked = 0
      /\ rowLock' = [rowLock EXCEPT ![i] = s]
      /\ task' = [task EXCEPT ![s] = new]
      /\ UNCHANGED <<slots, requests, log, open, keyLock>>
  BY DEF BeginEdit
<1>2. slots[i] \in Slot  BY DEF IInv, TypeOK
<1>3. row \in Slot /\ row.booked = 0 /\ row.capacity = slots[i].capacity
  BY <1>1, <1>2 DEF Slot
<1>4. new \in Task  BY <1>3 DEF Task
<1>5. TypeOK'  BY <1>1, <1>4 DEF IInv, TypeOK
<1>6. Floor' /\ SlotsDisjoint'  BY <1>1, FloorStays DEF IInv, SlotsDisjoint
<1> HIDE DEF row
<1>7. /\ \A t \in Sessions : task'[t] = IF t = s THEN new ELSE task[t]
      /\ rowLock'[i] = s /\ \A j \in Slots \ {i} : rowLock'[j] = rowLock[j]
  BY <1>1 DEF IInv, TypeOK
<1>8. ASSUME NEW t \in Sessions \ {s}  PROVE Relies(t)'
  <2>1. Relies(t) /\ \A st : Running(t, st)' <=> Running(t, st)
    BY <1>7 DEF IInv, Running
  <2>2. (Running(t, "row") \/ Running(t, "keys")) => task[t].slot \in Slots \ {i}
    BY <1>1, <2>1, TaskTypes, SlotsAssumption DEF IInv, Relies, Editing
  <2> QED
    BY <1>1, <1>7, <2>1, <2>2
       DEF Relies, Creating, Updating, Editing, Moving, Overlapping, Running
<1>9. Relies(s)'
  BY <1>1, <1>3, <1>7 DEF Relies, Creating, Updating, Editing, Moving, Running
<1> QED  BY <1>5, <1>6, <1>8, <1>9 DEF IInv

LEMMA LockKeysInv ==
    ASSUME IInv, NEW s \in Sessions, LockKeys(s)
    PROVE  IInv'
<1> DEFINE i == task[s].slot
           keys == {slots[i].category, task[s].new.category}
           new == [task[s] EXCEPT !.stage = "keys"]
<1>1. /\ Running(s, "row") /\ slots[i] # NoSlot
      /\ \A c \in keys : keyLock[c] = Free
      /\ ~ Overlapping(task[s].new, {i})
      /\ keyLock' = [c \in Categories |-> IF c \in keys THEN s ELSE keyLock[c]]
      /\ task' = [task EXCEPT ![s] = new]
      /\ UNCHANGED <<slots, requests, log, open, rowLock>>
  BY DEF LockKeys
<1>2. /\ i \in Slots /\ task[s].new \in Slot /\ task[s] \in Task
      /\ new = [stage |-> "keys", slot |-> i, new |-> task[s].new]
  <2>1. i \in Slots /\ task[s].new \in Slot  BY <1>1, TaskTypes DEF IInv
  <2>2. task[s] \in Task /\ task[s].stage = "row"  BY <1>1 DEF IInv, TypeOK, Running
  <2>3. task[s] \in [stage : {"row", "keys"}, slot : Slots, new : Slot]  BY <2>2 DEF Task
  <2> QED  BY <2>1, <2>2, <2>3
<1>3. new \in Task  BY <1>2 DEF Task
<1> HIDE DEF new
<1>4. TypeOK'  BY <1>1, <1>3 DEF IInv, TypeOK
<1>5. Floor' /\ SlotsDisjoint'  BY <1>1, FloorStays DEF IInv, SlotsDisjoint
<1>6. \A t \in Sessions : task'[t] = IF t = s THEN new ELSE task[t]
  BY <1>1 DEF IInv, TypeOK
<1>7. ASSUME NEW t \in Sessions \ {s}  PROVE Relies(t)'
  <2>1. Relies(t) /\ \A st : Running(t, st)' <=> Running(t, st)
    BY <1>6 DEF IInv, Running
  <2>2. \A u \in Sessions : Running(u, "create")' => Running(u, "create") /\ task'[u] = task[u]
    BY <1>1, <1>2, <1>6 DEF Running
  <2>3. Creating(t)'  BY <1>1, <1>6, <2>1, <2>2 DEF Relies, Creating
  <2>4. Updating(t)'  BY <1>6, <2>1 DEF Relies, Updating
  <2>5. Editing(t)'  BY <1>1, <1>6, <2>1 DEF Relies, Editing
  <2>6. Moving(t)'
    <3>1. ASSUME Running(t, "keys")  PROVE keyLock'[task[t].new.category] = t
      BY <1>1, <2>1, <3>1, TaskTypes, SlotsAssumption DEF IInv, Relies, Moving, Slot
    <3> QED  BY <1>1, <1>6, <2>1, <3>1 DEF Relies, Moving, Overlapping
  <2> QED  BY <2>3, <2>4, <2>5, <2>6 DEF Relies
<1>8. Relies(s)'
  <2>1. ~ Running(s, "create")' /\ ~ Running(s, "update")'  BY <1>2, <1>6 DEF Running
  <2>2. task'[s].slot = i /\ task'[s].new = task[s].new  BY <1>2, <1>6
  <2>3. Editing(s)'  BY <1>1, <2>2 DEF IInv, Relies, Editing
  <2>4. task[s].new.category \in Categories  BY <1>2 DEF Slot
  <2>5. Moving(s)'  BY <1>1, <2>2, <2>4 DEF Moving, Overlapping
  <2> QED  BY <2>1, <2>3, <2>5 DEF Relies, Creating, Updating
<1> QED  BY <1>4, <1>5, <1>7, <1>8 DEF IInv

(* What an edit in progress relies on, in a step that changes only slots.  *)
LEMMA EditsRely ==
    ASSUME IInv, UNCHANGED <<requests, open, task, rowLock, keyLock>>,
           ASSUME NEW t \in Sessions, Running(t, "row") \/ Running(t, "keys")
           PROVE  slots'[task[t].slot] = slots[task[t].slot],
           ASSUME NEW t \in Sessions, Running(t, "keys"), ~ Overlapping(task[t].new, {task[t].slot})
           PROVE  ~ Overlapping(task[t].new, {task[t].slot})'
    PROVE  \A t \in Sessions : Relies(t)'
<1> SUFFICES ASSUME NEW t \in Sessions  PROVE Relies(t)'  OBVIOUS
<1>1. Relies(t) /\ \A u \in Sessions : \A st : Running(u, st)' <=> Running(u, st)
  BY DEF IInv, Running
<1>2. Creating(t)' /\ Updating(t)'  BY <1>1 DEF Relies, Creating, Updating
<1>3. Editing(t)'  BY <1>1 DEF Relies, Editing
<1>4. Moving(t)'  BY <1>1 DEF Relies, Moving
<1> QED  BY <1>2, <1>3, <1>4 DEF Relies

LEMMA EditInPlaceInv ==
    ASSUME IInv, NEW i \in Slots, slots[i] # NoSlot, NEW n \in Capacities, NEW available \in BOOLEAN,
           EditInPlace(i, [slots[i] EXCEPT !.capacity = n, !.isAvailable = available])
    PROVE  IInv'
<1> DEFINE new == [slots[i] EXCEPT !.capacity = n, !.isAvailable = available]
<1>1. /\ rowLock[i] = Free /\ new.capacity >= slots[i].booked
      /\ slots' = [slots EXCEPT ![i] = new]
      /\ UNCHANGED <<requests, log, open, task, rowLock, keyLock>>
  BY DEF EditInPlace
<1>2. slots[i] \in Slot /\ n \in Nat  BY SlotsAssumption DEF IInv, TypeOK
<1>3. /\ new \in Slot /\ new # NoSlot /\ new.booked = slots[i].booked
      /\ new.window = slots[i].window /\ new.category = slots[i].category
  BY <1>2, NoSlotAssumption DEF Slot
<1>4. new.booked \in Nat /\ new.capacity \in Nat  BY <1>3 DEF Slot
<1> HIDE DEF new
<1>5. slots'[i] = new /\ \A j \in Slots \ {i} : slots'[j] = slots[j]
  BY <1>1 DEF IInv, TypeOK
<1>6. TypeOK'  BY <1>1, <1>3 DEF IInv, TypeOK
<1>7. Floor'
  <2>1. ASSUME NEW j \in Slots, slots'[j] # NoSlot
        PROVE  /\ slots[j] # NoSlot /\ slots'[j].booked = slots[j].booked
               /\ slots'[j].booked <= slots'[j].capacity
    BY <1>1, <1>3, <1>4, <1>5, <2>1 DEF IInv, Floor, CapacityBalanced
  <2>2. ASSUME NEW r \in Requests, Live(r)
        PROVE  LET j == requests[r].slot IN
               slots'[j] # NoSlot /\ slots'[j].window = slots[j].window
    BY <1>3, <1>5, <2>2 DEF IInv, Floor, Placed, ReservationsMatchSlots
  <2> QED  BY <1>1, <2>1, <2>2, FloorKeeps DEF IInv
<1>8. /\ \A j \in Slots : slots'[j] # NoSlot <=> slots[j] # NoSlot
      /\ \A j \in Slots : slots'[j].window = slots[j].window
                        /\ slots'[j].category = slots[j].category
  BY <1>3, <1>5
<1>9. SlotsDisjoint'  BY <1>8 DEF IInv, SlotsDisjoint, Clash
<1>10. \A t \in Sessions : Relies(t)'
  <2>1. ASSUME NEW t \in Sessions, Running(t, "row") \/ Running(t, "keys")
        PROVE  slots'[task[t].slot] = slots[task[t].slot]
    BY <1>1, <1>5, <2>1, TaskTypes, SlotsAssumption DEF IInv, Relies, Editing
  <2>2. ASSUME NEW t \in Sessions, ~ Overlapping(task[t].new, {task[t].slot})
        PROVE  ~ Overlapping(task[t].new, {task[t].slot})'
    BY <1>1, <1>8, <2>2 DEF Overlapping, Clash
  <2> QED  BY <1>1, <2>1, <2>2, EditsRely
<1> QED  BY <1>6, <1>7, <1>9, <1>10 DEF IInv

LEMMA RemoveSlotInv ==
    ASSUME IInv, NEW i \in Slots, slots[i] # NoSlot, RemoveSlot(i)
    PROVE  IInv'
<1>1. /\ rowLock[i] = Free /\ \A r \in Requests : requests[r].slot # i
      /\ slots' = [slots EXCEPT ![i] = NoSlot]
      /\ UNCHANGED <<requests, log, open, task, rowLock, keyLock>>
  BY DEF RemoveSlot
<1>2. slots'[i] = NoSlot /\ \A j \in Slots \ {i} : slots'[j] = slots[j]
  BY <1>1 DEF IInv, TypeOK
<1>3. TypeOK'  BY <1>1 DEF IInv, TypeOK
<1>4. Floor'
  <2>1. ASSUME NEW j \in Slots, slots'[j] # NoSlot
        PROVE  /\ slots[j] # NoSlot /\ slots'[j].booked = slots[j].booked
               /\ slots'[j].booked <= slots'[j].capacity
    BY <1>2, <2>1 DEF IInv, Floor, CapacityBalanced
  <2>2. ASSUME NEW r \in Requests, Live(r)
        PROVE  LET j == requests[r].slot IN
               slots'[j] # NoSlot /\ slots'[j].window = slots[j].window
    BY <1>1, <1>2, <2>2 DEF IInv, Floor, Placed, ReservationsMatchSlots
  <2> QED  BY <1>1, <2>1, <2>2, FloorKeeps DEF IInv
<1>5. \A j \in Slots : slots'[j] # NoSlot => slots[j] # NoSlot /\ slots'[j] = slots[j]
  BY <1>2
<1>6. SlotsDisjoint'  BY <1>5 DEF IInv, SlotsDisjoint
<1>7. \A t \in Sessions : Relies(t)'
  <2>1. ASSUME NEW t \in Sessions, Running(t, "row") \/ Running(t, "keys")
        PROVE  slots'[task[t].slot] = slots[task[t].slot]
    BY <1>1, <1>2, <2>1, TaskTypes, SlotsAssumption DEF IInv, Relies, Editing
  <2>2. ASSUME NEW t \in Sessions, ~ Overlapping(task[t].new, {task[t].slot})
        PROVE  ~ Overlapping(task[t].new, {task[t].slot})'
    BY <1>1, <1>5, <2>2 DEF Overlapping
  <2> QED  BY <1>1, <2>1, <2>2, EditsRely
<1> QED  BY <1>3, <1>4, <1>6, <1>7 DEF IInv

LEMMA CreateSlotsInv ==
    ASSUME IInv, NEW ids \in SUBSET Slots, NEW new \in [ids -> NewSlots], CreateSlots(new)
    PROVE  IInv'
<1>1. /\ \A i \in ids :
            /\ slots[i] = NoSlot /\ keyLock[new[i].category] = Free
            /\ ~ Overlapping(new[i], {})
            /\ \A j \in ids \ {i} : ~ Clash(new[i], new[j])
      /\ slots' = [i \in Slots |-> IF i \in ids THEN new[i] ELSE slots[i]]
      /\ UNCHANGED <<requests, log, open, task, rowLock, keyLock>>
  BY DEF CreateSlots
<1>2. ASSUME NEW i \in ids
      PROVE  new[i] \in Slot /\ new[i] # NoSlot /\ new[i].booked = 0 /\ new[i].capacity \in Nat
  <2>1. PICK w \in Windows, c \in Categories, n \in Capacities : new[i] = NewSlot(w, c, n)
    BY DEF NewSlots
  <2>2. n \in Nat  BY SlotsAssumption
  <2>3. new[i] = [window |-> w, category |-> c, capacity |-> n, booked |-> 0, isAvailable |-> TRUE]
    BY <2>1 DEF NewSlot
  <2>4. new[i] \in Slot  BY <2>2, <2>3 DEF Slot
  <2>5. new[i] # NoSlot  BY <2>4, NoSlotAssumption, Zenon
  <2>6. new[i].booked = 0 /\ new[i].capacity = n  BY <2>3, SMT
  <2> QED  BY <2>2, <2>4, <2>5, <2>6
<1>3. TypeOK'  BY <1>1, <1>2 DEF IInv, TypeOK
<1>4. Floor'
  <2>1. ASSUME NEW i \in Slots, slots'[i] # NoSlot
        PROVE  \/ slots[i] # NoSlot /\ slots'[i].booked = slots[i].booked
                                    /\ slots'[i].booked <= slots'[i].capacity
               \/ /\ slots[i] = NoSlot /\ slots'[i].booked = 0
                  /\ slots'[i].booked <= slots'[i].capacity
    BY <1>1, <1>2, <2>1 DEF IInv, Floor, CapacityBalanced
  <2>2. ASSUME NEW r \in Requests, Live(r)
        PROVE  LET i == requests[r].slot IN
               slots'[i] # NoSlot /\ slots'[i].window = slots[i].window
    BY <1>1, <2>2 DEF IInv, Floor, Placed, ReservationsMatchSlots
  <2> QED  BY <1>1, <2>1, <2>2, FloorKeeps DEF IInv
<1>5. \A i \in Slots : slots'[i] = IF i \in ids THEN new[i] ELSE slots[i]  BY <1>1
<1>6. SlotsDisjoint'
  <2> SUFFICES ASSUME NEW i \in Slots, NEW j \in Slots, i # j,
                      slots'[i] # NoSlot, slots'[j] # NoSlot
               PROVE  ~ Clash(slots'[i], slots'[j])
    BY DEF SlotsDisjoint, Clash
  <2>1. CASE i \in ids /\ j \in ids  BY <1>1, <1>5, <2>1
  <2>2. CASE i \notin ids /\ j \notin ids  BY <1>5, <2>2 DEF IInv, SlotsDisjoint
  <2>3. CASE i \notin ids /\ j \in ids  BY <1>1, <1>5, <2>3 DEF Overlapping
  <2>4. CASE i \in ids /\ j \notin ids
    <3>1. ~ Clash(slots[j], new[i])  BY <1>1, <1>5, <2>4 DEF Overlapping
    <3>2. slots[j] \in Slot /\ new[i] \in Slot  BY <1>2, <1>5, <2>4 DEF IInv, TypeOK
    <3>3. ~ Clash(new[i], slots[j])
      BY <3>1, <3>2, SlotsAssumption DEF Clash, Slot
    <3> QED  BY <1>5, <2>4, <3>3
  <2> QED  BY <2>1, <2>2, <2>3, <2>4
<1>7. \A t \in Sessions : Relies(t)'
  <2>1. ASSUME NEW t \in Sessions, Running(t, "row") \/ Running(t, "keys")
        PROVE  slots'[task[t].slot] = slots[task[t].slot]
    BY <1>1, <1>5, <2>1, TaskTypes DEF IInv, Relies, Editing
  <2>2. ASSUME NEW t \in Sessions, Running(t, "keys"), ~ Overlapping(task[t].new, {task[t].slot})
        PROVE  ~ Overlapping(task[t].new, {task[t].slot})'
    <3>1. keyLock[task[t].new.category] = t /\ t # Free
      BY <2>2, SlotsAssumption DEF IInv, Relies, Moving
    <3>2. \A i \in ids : new[i].category # task[t].new.category  BY <1>1, <3>1
    <3> QED  BY <1>1, <1>5, <2>2, <3>2 DEF Overlapping, Clash
  <2> QED  BY <1>1, <2>1, <2>2, EditsRely
<1> QED  BY <1>3, <1>4, <1>6, <1>7 DEF IInv

LEMMA EditInv ==
    ASSUME IInv, NEW s \in Sessions, Edit(s)
    PROVE  IInv'
<1> DEFINE i == task[s].slot
           new == [task[s].new EXCEPT !.booked = slots[i].booked]
<1>1. /\ Running(s, "keys") /\ slots[i] # NoSlot
      /\ slots' = [slots EXCEPT ![i] = new]
      /\ End(s) /\ UNCHANGED <<requests, log, open>>
  BY DEF Edit
<1>2. i \in Slots /\ task[s].new \in Slot /\ slots[i] \in Slot
  BY <1>1, TaskTypes DEF IInv, TypeOK
<1>3. /\ slots[i].booked = 0 /\ task[s].new.booked = 0 /\ slots[i].capacity \in Nat
      /\ task[s].new.capacity = slots[i].capacity
      /\ keyLock[task[s].new.category] = s /\ ~ Overlapping(task[s].new, {i})
      /\ rowLock[i] = s
  BY <1>1, <1>2 DEF IInv, Relies, Editing, Moving, Slot
<1>4. new = task[s].new  BY <1>2, <1>3 DEF Slot
<1> HIDE DEF new
<1>5. PICK row \in Slot : row = task[s].new  BY <1>2
<1>6. slots'[i] = row /\ \A j \in Slots \ {i} : slots'[j] = slots[j]
  BY <1>1, <1>2, <1>4, <1>5 DEF IInv, TypeOK
<1>7. TypeOK'
  <2>1. slots' \in [Slots -> Slot \cup {NoSlot}]  BY <1>1, <1>2, <1>4 DEF IInv, TypeOK
  <2> QED  BY <1>1, <2>1, EndEffect DEF IInv, TypeOK
<1>8. Floor'
  <2>1. ASSUME NEW j \in Slots, slots'[j] # NoSlot
        PROVE  /\ slots[j] # NoSlot /\ slots'[j].booked = slots[j].booked
               /\ slots'[j].booked <= slots'[j].capacity
    BY <1>1, <1>3, <1>5, <1>6, <2>1 DEF IInv, Floor, CapacityBalanced
  <2>2. ASSUME NEW r \in Requests, Live(r)
        PROVE  LET j == requests[r].slot IN
               slots'[j] # NoSlot /\ slots'[j].window = slots[j].window
    <3>1. requests[r].slot \in Slots \ {i}
      BY <1>1, <1>2, <1>3, <2>2, NobodyThere DEF IInv, Floor, Placed
    <3> QED  BY <1>6, <2>2, <3>1 DEF IInv, Floor, ReservationsMatchSlots
  <2> QED  BY <1>1, <2>1, <2>2, FloorKeeps DEF IInv
<1>9. SlotsDisjoint'
  <2> SUFFICES ASSUME NEW j \in Slots, NEW k \in Slots, j # k,
                      slots'[j] # NoSlot, slots'[k] # NoSlot
               PROVE  ~ Clash(slots'[j], slots'[k])
    BY DEF SlotsDisjoint, Clash
  <2>1. CASE j # i /\ k # i  BY <1>6, <2>1 DEF IInv, SlotsDisjoint
  <2>2. CASE k = i  BY <1>3, <1>5, <1>6, <2>2 DEF Overlapping
  <2>3. CASE j = i
    <3>1. ~ Clash(slots[k], row)  BY <1>3, <1>5, <1>6, <2>3 DEF Overlapping
    <3>2. slots[k] \in Slot  BY <1>6, <2>3 DEF IInv, TypeOK
    <3>3. ~ Clash(row, slots[k])  BY <3>1, <3>2, SlotsAssumption DEF Clash, Slot
    <3> QED  BY <1>6, <2>3, <3>3
  <2> QED  BY <2>1, <2>2, <2>3
<1>10. ASSUME NEW t \in Sessions \ {s}  PROVE Relies(t)'
  <2>1. Relies(t) /\ task'[t] = task[t] /\ \A st : Running(t, st)' <=> Running(t, st)
    BY <1>1, EndEffect DEF IInv, Running
  <2>2. \A u \in Sessions : Running(u, "create")' => Running(u, "create") /\ task'[u] = task[u]
    BY <1>1, EndEffect DEF IInv, Running
  <2>3. Creating(t)' /\ Updating(t)'
    BY <1>1, <2>1, <2>2 DEF Relies, Creating, Updating
  <2>4. (Running(t, "row") \/ Running(t, "keys")) => task[t].slot \in Slots \ {i}
    BY <1>3, <2>1, TaskTypes DEF IInv, Relies, Editing
  <2>5. Editing(t)'
    BY <1>1, <1>6, <2>1, <2>4, EndEffect DEF IInv, Relies, Editing
  <2>6. ASSUME Running(t, "keys")
        PROVE  /\ keyLock'[task[t].new.category] = t
               /\ ~ Overlapping(task[t].new, {task[t].slot})'
    <3>1. keyLock[task[t].new.category] = t /\ ~ Overlapping(task[t].new, {task[t].slot})
      BY <2>1, <2>6 DEF Relies, Moving
    <3>2. task[t].new \in Slot  BY <2>6, TaskTypes DEF IInv
    <3>3. keyLock'[task[t].new.category] = t
      BY <1>1, <3>1, <3>2, EndEffect DEF IInv, Slot
    <3>4. row.category # task[t].new.category  BY <1>3, <1>5, <3>1
    <3>5. ~ Overlapping(task[t].new, {task[t].slot})'
      BY <1>6, <2>1, <3>1, <3>4 DEF Overlapping, Clash
    <3> QED  BY <3>3, <3>5
  <2>7. Moving(t)'  BY <2>1, <2>6 DEF Moving
  <2> QED  BY <2>3, <2>5, <2>7 DEF Relies
<1>11. Relies(s)'
  BY <1>1, EndEffect DEF IInv, Relies, Creating, Updating, Editing, Moving, Running
<1> QED  BY <1>7, <1>8, <1>9, <1>10, <1>11 DEF IInv

(* One request takes its places in slot i, and the others keep theirs.     *)
LEMMA CreateInv ==
    ASSUME IInv, NEW s \in Sessions, Create(s)
    PROVE  IInv'
<1>0. Running(s, "create")  BY DEF Create
<1> PICK r \in Requests, i \in Slots : r = task[s].request /\ i = task[s].slot
  BY <1>0, TaskTypes DEF IInv
<1> DEFINE row == [slots[i] EXCEPT !.booked = @ + People[r]]
           new == [status |-> Stored(r, "new"), slot |-> i, window |-> slots[i].window]
<1>1. /\ Running(s, "create") /\ rowLock[i] = Free /\ Reservable(i, People[r])
      /\ slots' = [slots EXCEPT ![i] = row]
      /\ requests' = [requests EXCEPT ![r] = new]
      /\ End(s) /\ UNCHANGED <<log, open>>
  BY DEF Create
<1>2. /\ r \in Requests /\ i \in Slots /\ slots[i] \in Slot /\ slots[i] # NoSlot
      /\ People[r] \in Nat \ {0}
  BY <1>1, TaskTypes, RequestsAssumption DEF IInv, TypeOK, Reservable
<1>3. /\ row \in Slot /\ row.booked = slots[i].booked + People[r] /\ row.booked <= row.capacity
      /\ row.window = slots[i].window /\ row.category = slots[i].category
  BY <1>1, <1>2 DEF Slot, Reservable
<1>4. row # NoSlot  BY <1>3, NoSlotAssumption
<1>5. requests[r].status = "absent"  BY <1>1 DEF IInv, Relies, Creating
<1>6. /\ new \in Request /\ new.slot = i /\ new.window = row.window
      /\ new.status \notin {"absent", "cancelled"}
      /\ new.status \in IF r \in Orders THEN OrderStatuses ELSE BookingStatuses
  BY <1>2, <1>3, RequestsAssumption
     DEF Request, Requests, Stored, Slot, OrderStatuses, BookingStatuses
<1> HIDE DEF row, new
<1>7. /\ slots'[i] = row /\ \A j \in Slots \ {i} : slots'[j] = slots[j]
      /\ requests'[r] = new /\ \A q \in Requests \ {r} : requests'[q] = requests[q]
  BY <1>1, <1>2 DEF IInv, TypeOK
<1>8. TypeOK'
  <2>1. slots' \in [Slots -> Slot \cup {NoSlot}]  BY <1>1, <1>2, <1>3 DEF IInv, TypeOK
  <2>2. requests' \in [Requests -> Request]  BY <1>1, <1>2, <1>6 DEF IInv, TypeOK
  <2>3. \A q \in Requests : requests'[q].status \in
            {"absent"} \cup IF q \in Orders THEN OrderStatuses ELSE BookingStatuses
    BY <1>6, <1>7 DEF IInv, TypeOK
  <2> QED  BY <1>1, <2>1, <2>2, <2>3, EndEffect DEF IInv, TypeOK
<1>9. ~ Live(r) /\ Live(r)' /\ \A q \in Requests \ {r} : Live(q)' <=> Live(q)
  BY <1>5, <1>6, <1>7 DEF Live
<1>10. Placed' /\ ReservationsMatchSlots'
  <2>1. ASSUME NEW q \in Requests, Live(q)'
        PROVE  /\ requests'[q].slot \in Slots
               /\ slots'[requests'[q].slot] # NoSlot
               /\ slots'[requests'[q].slot].window = requests'[q].window
    <3>1. CASE q = r  BY <1>2, <1>4, <1>6, <1>7, <3>1
    <3>2. CASE q # r
      <4>1. /\ requests'[q] = requests[q] /\ requests[q].slot \in Slots
            /\ slots[requests[q].slot] # NoSlot
            /\ slots[requests[q].slot].window = requests[q].window
        BY <1>7, <1>9, <2>1, <3>2 DEF IInv, Floor, Placed, ReservationsMatchSlots
      <4> QED  BY <1>3, <1>4, <1>7, <4>1
    <3> QED  BY <3>1, <3>2
  <2> QED  BY <2>1 DEF Placed, ReservationsMatchSlots
<1>11. CapacityBalanced'
  <2> SUFFICES ASSUME NEW j \in Slots, slots'[j] # NoSlot
               PROVE  /\ slots'[j].booked = Cardinality(Seats(j))'
                      /\ slots'[j].booked <= slots'[j].capacity
    BY DEF CapacityBalanced
  <2>1. Seats(j)' = Places({q \in Requests : Live(q)' /\ requests'[q].slot = j})
    BY DEF Seats, Places
  <2>2. CASE j = i
    <3>1. {q \in Requests : Live(q)' /\ requests'[q].slot = j} = Takers(i) \cup {r}
      BY <1>2, <1>6, <1>7, <1>9, <2>2 DEF Takers
    <3>2. r \in Requests \ Takers(i) /\ Takers(i) \in SUBSET Requests
      BY <1>2, <1>9 DEF Takers
    <3>3. Cardinality(Places(Takers(i) \cup {r})) = Cardinality(Places(Takers(i))) + People[r]
      BY <3>2, PlacesAdd
    <3>4. slots[i].booked = Cardinality(Places(Takers(i)))
      BY <1>2, SeatsOfTakers DEF IInv, Floor, CapacityBalanced
    <3>5. Cardinality(Seats(j))' = slots[i].booked + People[r]  BY <2>1, <3>1, <3>3, <3>4
    <3> QED  BY <1>3, <1>7, <2>2, <3>5
  <2>3. CASE j # i
    <3>1. {q \in Requests : Live(q)' /\ requests'[q].slot = j} = Takers(j)
      BY <1>6, <1>7, <1>9, <2>3 DEF Takers
    <3>2. Seats(j)' = Seats(j)  BY <2>1, <3>1, SeatsOfTakers
    <3> QED  BY <1>7, <2>3, <3>2 DEF IInv, Floor, CapacityBalanced
  <2> QED  BY <2>2, <2>3
<1>12. /\ \A j \in Slots : slots'[j] # NoSlot <=> slots[j] # NoSlot
       /\ \A j \in Slots : slots'[j].window = slots[j].window
                         /\ slots'[j].category = slots[j].category
  BY <1>2, <1>3, <1>4, <1>7
<1>13. SlotsDisjoint'  BY <1>12 DEF IInv, SlotsDisjoint, Clash
<1>14. ASSUME NEW t \in Sessions \ {s}  PROVE Relies(t)'
  <2>1. Relies(t) /\ task'[t] = task[t] /\ \A st : Running(t, st)' <=> Running(t, st)
    BY <1>1, EndEffect DEF IInv, Running
  <2>2. \A u \in Sessions : Running(u, "create")' => Running(u, "create") /\ task'[u] = task[u]
    BY <1>1, EndEffect DEF IInv, Running
  <2>3. Creating(t)'
    <3>1. Running(t, "create") => task[t].request \in Requests \ {r}
      BY <1>1, <2>1, TaskTypes DEF IInv, Relies, Creating
    <3> QED  BY <1>1, <1>7, <2>1, <2>2, <3>1 DEF Relies, Creating
  <2>4. Updating(t)'  BY <2>1 DEF Relies, Updating
  <2>5. (Running(t, "row") \/ Running(t, "keys")) => task[t].slot \in Slots \ {i}
    BY <1>1, <2>1, TaskTypes, SlotsAssumption DEF IInv, Relies, Editing
  <2>6. Editing(t)'  BY <1>1, <1>7, <2>1, <2>5, EndEffect DEF IInv, Relies, Editing
  <2>7. ASSUME Running(t, "keys")
        PROVE  /\ keyLock'[task[t].new.category] = t
               /\ ~ Overlapping(task[t].new, {task[t].slot})'
    <3>1. keyLock[task[t].new.category] = t /\ ~ Overlapping(task[t].new, {task[t].slot})
      BY <2>1, <2>7 DEF Relies, Moving
    <3>2. task[t].new \in Slot  BY <2>7, TaskTypes DEF IInv
    <3>3. keyLock'[task[t].new.category] = t
      BY <1>1, <3>1, <3>2, EndEffect DEF IInv, Slot
    <3>4. ~ Overlapping(task[t].new, {task[t].slot})'
      BY <1>12, <2>1, <3>1 DEF Overlapping, Clash
    <3> QED  BY <3>3, <3>4
  <2>8. Moving(t)'  BY <2>1, <2>7 DEF Moving
  <2> QED  BY <2>3, <2>4, <2>6, <2>8 DEF Relies
<1>15. Relies(s)'
  BY <1>1, EndEffect DEF IInv, Relies, Creating, Updating, Editing, Moving, Running
<1> QED  BY <1>8, <1>10, <1>11, <1>13, <1>14, <1>15 DEF IInv, Floor

(* A transition other than a cancellation leaves a live request live; a    *)
(* cancellation takes one request, and its places, from a slot.            *)
LEMMA TransitionInv ==
    ASSUME IInv, NEW s \in Sessions, Transition(s)
    PROVE  IInv'
<1>0. Running(s, "update")  BY DEF Transition
<1> PICK r \in Requests, from \in OrderStatuses, to \in OrderStatuses :
        r = task[s].request /\ from = task[s].from /\ to = task[s].to
  BY <1>0, TaskTypes DEF IInv
<1>1. PICK i \in Slots \cup {NoSlot} : i = requests[r].slot  BY DEF IInv, TypeOK, Request
<1> DEFINE new == [requests[r] EXCEPT !.status = Stored(r, to)]
           row == [slots[i] EXCEPT !.booked = @ - People[r]]
           freed == to = "cancelled"
<1>2. /\ StillStored(r, from) /\ requests' = [requests EXCEPT ![r] = new]
      /\ log' = [log EXCEPT ![r] = Append(@, [from |-> from, to |-> to])]
      /\ IF freed THEN /\ rowLock[i] = Free
                       /\ slots[i] # NoSlot /\ slots[i].booked >= People[r]
                       /\ slots' = [slots EXCEPT ![i] = row]
         ELSE UNCHANGED slots
      /\ End(s) /\ UNCHANGED open
  BY <1>1, Zenon DEF Transition
<1>3. <<from, to>> \in VALID_TRANSITIONS  BY <1>0 DEF IInv, Relies, Updating
<1>4. from \in {"new", "contacted", "confirmed"} /\ to \in {"contacted", "confirmed", "cancelled"}
  BY <1>3 DEF VALID_TRANSITIONS
<1>5. Live(r) /\ i \in Slots /\ slots[i] # NoSlot /\ slots[i] \in Slot
  <2>1. Live(r)  BY <1>2, <1>4 DEF StillStored, Stored, Live
  <2> QED  BY <1>1, <2>1 DEF IInv, TypeOK, Floor, Placed, ReservationsMatchSlots
<1>6. /\ new \in Request /\ new.slot = i /\ new.window = requests[r].window
      /\ new.status \in IF r \in Orders THEN OrderStatuses ELSE BookingStatuses
      /\ new.status # "absent" /\ (new.status = "cancelled" <=> freed)
  <2>1. requests[r] \in Request  BY DEF IInv, TypeOK
  <2>2. /\ Stored(r, to) \in IF r \in Orders THEN OrderStatuses ELSE BookingStatuses
        /\ Stored(r, to) # "absent" /\ (Stored(r, to) = "cancelled" <=> freed)
    BY <1>4, RequestsAssumption DEF Stored, Requests, OrderStatuses, BookingStatuses
  <2>3. Stored(r, to) \in OrderStatuses \cup BookingStatuses \cup {"absent"}  BY <2>2
  <2> QED  BY <1>1, <2>1, <2>2, <2>3 DEF Request
<1>7. freed => /\ row \in Slot /\ row.booked = slots[i].booked - People[r]
               /\ row.capacity = slots[i].capacity
               /\ row.window = slots[i].window /\ row.category = slots[i].category
  <2>1. People[r] \in Nat /\ slots[i].booked \in Nat  BY <1>5, RequestsAssumption DEF Slot
  <2>2. freed => slots[i].booked - People[r] \in Nat  BY <1>2, <2>1
  <2>3. slots[i] = [window |-> slots[i].window, category |-> slots[i].category,
                    capacity |-> slots[i].capacity, booked |-> slots[i].booked,
                    isAvailable |-> slots[i].isAvailable]
    BY <1>5 DEF Slot
  <2>4. row.booked = slots[i].booked - People[r] /\ row.capacity = slots[i].capacity
        /\ row.window = slots[i].window /\ row.category = slots[i].category
    BY <2>3
  <2>5. freed => row \in Slot  BY <1>5, <2>2 DEF Slot
  <2> QED  BY <2>4, <2>5
<1>8. freed => row # NoSlot  BY <1>7, NoSlotAssumption
<1> HIDE DEF new, row
<1>9. /\ requests'[r] = new /\ \A q \in Requests \ {r} : requests'[q] = requests[q]
      /\ freed => slots'[i] = row
      /\ \A j \in Slots : (freed => j # i) => slots'[j] = slots[j]
  BY <1>2, <1>5 DEF IInv, TypeOK
<1>10. /\ \A j \in Slots : slots'[j] # NoSlot <=> slots[j] # NoSlot
       /\ \A j \in Slots : slots'[j].window = slots[j].window
                         /\ slots'[j].category = slots[j].category
  BY <1>5, <1>7, <1>8, <1>9
<1>11. Live(r)' = ~ freed /\ \A q \in Requests \ {r} : Live(q)' <=> Live(q)
  BY <1>4, <1>6, <1>9 DEF Live
<1>12. TypeOK'
  <2>1. slots' \in [Slots -> Slot \cup {NoSlot}]  BY <1>2, <1>5, <1>7 DEF IInv, TypeOK
  <2>2. requests' \in [Requests -> Request]  BY <1>2, <1>6 DEF IInv, TypeOK
  <2>3. \A q \in Requests : requests'[q].status \in
            {"absent"} \cup IF q \in Orders THEN OrderStatuses ELSE BookingStatuses
    BY <1>6, <1>9 DEF IInv, TypeOK
  <2>4. log' \in [Requests -> Seq([from : OrderStatuses, to : OrderStatuses])]
    <3> DEFINE Event == [from : OrderStatuses, to : OrderStatuses]
    <3>1. log \in [Requests -> Seq(Event)]  BY DEF IInv, TypeOK
    <3>2. [from |-> from, to |-> to] \in Event  OBVIOUS
    <3> HIDE DEF Event
    <3>3. Append(log[r], [from |-> from, to |-> to]) \in Seq(Event)  BY <3>1, <3>2
    <3>4. log' \in [Requests -> Seq(Event)]  BY <1>2, <3>1, <3>3
    <3> QED  BY <3>4 DEF Event
  <2> QED  BY <1>2, <2>1, <2>2, <2>3, <2>4, EndEffect DEF IInv, TypeOK
<1>13. Placed' /\ ReservationsMatchSlots'
  <2>1. ASSUME NEW q \in Requests, Live(q)'
        PROVE  /\ requests'[q].slot = requests[q].slot /\ requests'[q].window = requests[q].window
               /\ Live(q)
    BY <1>1, <1>5, <1>6, <1>9, <1>11, <2>1
  <2>2. ASSUME NEW q \in Requests, Live(q)
        PROVE  /\ requests[q].slot \in Slots /\ slots[requests[q].slot] # NoSlot
               /\ slots[requests[q].slot].window = requests[q].window
    BY <2>2 DEF IInv, Floor, Placed, ReservationsMatchSlots
  <2> QED  BY <1>10, <2>1, <2>2 DEF Placed, ReservationsMatchSlots
<1>14. CapacityBalanced'
  <2> SUFFICES ASSUME NEW j \in Slots, slots'[j] # NoSlot
               PROVE  /\ slots'[j].booked = Cardinality(Seats(j))'
                      /\ slots'[j].booked <= slots'[j].capacity
    BY DEF CapacityBalanced
  <2>1. Seats(j)' = Places({q \in Requests : Live(q)' /\ requests'[q].slot = j})
    BY DEF Seats, Places
  <2>2. CASE freed /\ j = i
    <3> DEFINE rest == Takers(i) \ {r}
    <3>1. {q \in Requests : Live(q)' /\ requests'[q].slot = j} = rest
      <4>1. \A q \in Requests : (Live(q)' /\ requests'[q].slot = j) <=> (q \in Takers(i) /\ q # r)
        BY <1>9, <1>11, <2>2 DEF Takers
      <4>2. rest \subseteq Requests  BY DEF Takers
      <4> QED  BY <4>1, <4>2
    <3>2. r \in Requests \ rest /\ rest \in SUBSET Requests /\ rest \cup {r} = Takers(i)
      BY <1>1, <1>5 DEF Takers
    <3>3. Cardinality(Places(Takers(i))) = Cardinality(Places(rest)) + People[r]
      <4> HIDE DEF rest
      <4>1. Cardinality(Places(rest \cup {r})) = Cardinality(Places(rest)) + People[r]
        BY <3>2, PlacesAdd
      <4> QED  BY <3>2, <4>1
    <3>4. /\ slots[i].booked = Cardinality(Places(Takers(i)))
          /\ slots[i].booked <= slots[i].capacity
      BY <1>5, SeatsOfTakers DEF IInv, Floor, CapacityBalanced
    <3>5. Cardinality(Places(rest)) \in Nat /\ People[r] \in Nat /\ slots[i].capacity \in Nat
      BY <1>5, <3>2, PlacesFinite, RequestsAssumption DEF Slot
    <3>6. Cardinality(Seats(j))' = Cardinality(Places(rest))  BY <2>1, <3>1
    <3>7. slots'[j].booked = slots[i].booked - People[r] /\ slots'[j].capacity = slots[i].capacity
      BY <1>7, <1>9, <2>2
    <3> HIDE DEF rest
    <3> QED  BY <3>3, <3>4, <3>5, <3>6, <3>7
  <2>3. CASE ~ (freed /\ j = i)
    <3>1. {q \in Requests : Live(q)' /\ requests'[q].slot = j} = Takers(j)
      <4>1. \A q \in Requests : requests'[q].slot = requests[q].slot  BY <1>1, <1>6, <1>9
      <4>2. \A q \in Requests : requests[q].slot = j => (Live(q)' <=> Live(q))
        BY <1>1, <1>5, <1>11, <2>3
      <4> QED  BY <4>1, <4>2 DEF Takers
    <3>2. Seats(j)' = Seats(j)  BY <2>1, <3>1, SeatsOfTakers
    <3> QED  BY <1>9, <2>3, <3>2 DEF IInv, Floor, CapacityBalanced
  <2> QED  BY <2>2, <2>3
<1>15. SlotsDisjoint'  BY <1>10 DEF IInv, SlotsDisjoint, Clash
<1>16. ASSUME NEW t \in Sessions \ {s}  PROVE Relies(t)'
  <2>1. Relies(t) /\ task'[t] = task[t] /\ \A st : Running(t, st)' <=> Running(t, st)
    BY <1>2, EndEffect DEF IInv, Running
  <2>2. \A u \in Sessions : Running(u, "create")' => Running(u, "create") /\ task'[u] = task[u]
    BY <1>2, EndEffect DEF IInv, Running
  <2>3. Creating(t)'
    <3>1. Running(t, "create") => task[t].request \in Requests \ {r}
      BY <1>5, <2>1, TaskTypes DEF IInv, Relies, Creating, Live
    <3> QED  BY <1>2, <1>9, <2>1, <2>2, <3>1 DEF Relies, Creating
  <2>4. Updating(t)'  BY <2>1 DEF Relies, Updating
  <2>5. Running(t, "row") \/ Running(t, "keys") =>
            task[t].slot \in Slots /\ (freed => task[t].slot # i)
    BY <1>2, <2>1, TaskTypes, SlotsAssumption DEF IInv, Relies, Editing
  <2>6. Editing(t)'  BY <1>2, <1>9, <2>1, <2>5, EndEffect DEF IInv, Relies, Editing
  <2>7. ASSUME Running(t, "keys")
        PROVE  /\ keyLock'[task[t].new.category] = t
               /\ ~ Overlapping(task[t].new, {task[t].slot})'
    <3>1. keyLock[task[t].new.category] = t /\ ~ Overlapping(task[t].new, {task[t].slot})
      BY <2>1, <2>7 DEF Relies, Moving
    <3>2. task[t].new \in Slot  BY <2>7, TaskTypes DEF IInv
    <3>3. keyLock'[task[t].new.category] = t
      BY <1>2, <3>1, <3>2, EndEffect DEF IInv, Slot
    <3>4. ~ Overlapping(task[t].new, {task[t].slot})'
      BY <1>10, <2>1, <3>1 DEF Overlapping, Clash
    <3> QED  BY <3>3, <3>4
  <2>8. Moving(t)'  BY <2>1, <2>7 DEF Moving
  <2> QED  BY <2>3, <2>4, <2>6, <2>8 DEF Relies
<1>17. Relies(s)'
  BY <1>2, EndEffect DEF IInv, Relies, Creating, Updating, Editing, Moving, Running
<1> QED  BY <1>12, <1>13, <1>14, <1>15, <1>16, <1>17 DEF IInv, Floor

-----------------------------------------------------------------------------
LEMMA NextInv == IInv /\ [Next]_vars => IInv'
<1> SUFFICES ASSUME IInv, [Next]_vars  PROVE IInv'  OBVIOUS
<1>1. ASSUME NEW s \in Sessions, Public(s)  PROVE IInv'
  BY <1>1, BeginCreateInv, CreateInv DEF Public
<1>2. ASSUME NEW s \in Sessions, Staff(s)  PROVE IInv'
  BY <1>2, BeginTransitionInv, TransitionInv, BeginEditInv, LockKeysInv, EditInv DEF Staff
<1>3. ASSUME NEW ids \in SUBSET Slots \ {{}}, NEW new \in [ids -> NewSlots], CreateSlots(new)
      PROVE  IInv'
  BY <1>3, CreateSlotsInv
<1>4. ASSUME NEW i \in Slots, slots[i] # NoSlot, NEW n \in Capacities, NEW available \in BOOLEAN,
             EditInPlace(i, [slots[i] EXCEPT !.capacity = n, !.isAvailable = available])
      PROVE  IInv'
  BY <1>4, EditInPlaceInv
<1>5. CASE UNCHANGED vars
  <2>1. \A t \in Sessions : Relies(t)'
    BY <1>5 DEF vars, IInv, Relies, Creating, Updating, Editing, Moving, Overlapping, Running
  <2>2. Floor'  BY <1>5, FloorStays DEF vars, IInv
  <2> QED  BY <1>5, <2>1, <2>2 DEF vars, IInv, TypeOK, SlotsDisjoint
<1> QED
  BY <1>1, <1>2, <1>3, <1>4, <1>5, AbortInv, FlipSwitchInv, RemoveSlotInv DEF Next

LEMMA Inductive == Spec => []IInv
BY InitInv, NextInv, PTL DEF Spec

(* Slots, requests, events, tasks and locks are well typed.                *)
THEOREM TypeCorrect == Spec => []TypeOK
BY Inductive, PTL DEF IInv

(* The counter of a slot is the number of places its live requests take,   *)
(* whatever creates, cancellations and edits overlap.                      *)
THEOREM CountersBalance == Spec => []CapacityBalanced
<1>1. IInv => CapacityBalanced  BY DEF IInv, Floor
<1> QED  BY <1>1, Inductive, PTL

(* A slot with a reservation is neither moved nor removed.                 *)
THEOREM ReservationsStay == Spec => []ReservationsMatchSlots
<1>1. IInv => ReservationsMatchSlots  BY DEF IInv, Floor
<1> QED  BY <1>1, Inductive, PTL

(* No creation, batch or move makes two slots of a category overlap.       *)
THEOREM SlotsStayApart == Spec => []SlotsDisjoint
BY Inductive, PTL DEF IInv

(* No booking is created, however long its transaction takes, once the     *)
(* request switch is off.                                                  *)
THEOREM NothingAfterClosing == Spec => CreatedWhileOpen
<1> DEFINE Opened == \A r \in SlotBookings :
              requests[r].status = "absent" /\ requests'[r].status # "absent" => open
<1>1. ASSUME IInv, [Next]_vars  PROVE Opened
  <2>1. ASSUME NEW s \in Sessions, Create(s)  PROVE Opened
    <3>1. /\ Running(s, "create") /\ task[s].request \in Requests
          /\ \A q \in Requests \ {task[s].request} : requests'[q] = requests[q]
      BY <1>1, <2>1, TaskTypes DEF Create, IInv, TypeOK
    <3>2. task[s].request \in SlotBookings => open
      BY <1>1, <3>1 DEF IInv, Relies, Creating
    <3> QED  BY <3>1, <3>2 DEF Requests
  <2>2. ASSUME NEW s \in Sessions, Transition(s)  PROVE Opened
    <3>1. /\ Running(s, "update") /\ StillStored(task[s].request, task[s].from)
          /\ \A q \in Requests \ {task[s].request} : requests'[q] = requests[q]
      BY <1>1, <2>2 DEF Transition, IInv, TypeOK
    <3>2. requests[task[s].request].status # "absent"
      BY <1>1, <3>1 DEF StillStored, Stored, IInv, Relies, Updating, VALID_TRANSITIONS
    <3> QED  BY <3>1, <3>2 DEF Requests
  <2>3. \/ \E s \in Sessions : Create(s) \/ Transition(s)
        \/ UNCHANGED requests
    BY <1>1 DEF Next, Public, Staff, BeginCreate, BeginTransition, BeginEdit, LockKeys, Edit,
       Abort, FlipSwitch, CreateSlots, EditInPlace, RemoveSlot, vars
  <2> QED  BY <2>1, <2>2, <2>3
<1> QED  BY <1>1, Inductive, PTL DEF Spec, CreatedWhileOpen
=============================================================================
