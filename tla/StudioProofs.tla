----------------------------- MODULE StudioProofs -----------------------------
(***************************************************************************)
(* The booking services implement atomic reservations (StudioOccupancy)    *)
(* for any number of bookings, sessions and operation ids, any durations,  *)
(* any attendance and any schedule; overbooking and shared parties are     *)
(* excluded as a consequence, and customers and staff see the same room.   *)
(***************************************************************************)
EXTENDS StudioViews, FiniteSetTheorems, TLAPS

-----------------------------------------------------------------------------
(* The calendar: what reserving an interval that fits, and releasing one,  *)
(* do.  Everything about the people in the studio is a statement about     *)
(* cardinalities of sets of seats.                                         *)

(* The people of ordinary bookings are finitely many.                      *)
LEMMA PeopleFinite ==
    ASSUME NEW B \in SUBSET Ordinary
    PROVE  IsFiniteSet(People(B)) /\ HeadCount(B) \in Nat
<1>1. IsFiniteSet(B)  BY FiniteBookings, FS_Subset
<1>2. IsFiniteSet(1 .. Capacity)  BY AttendanceAssumption, FS_Interval
<1>3. IsFiniteSet(B \X (1 .. Capacity))  BY <1>1, <1>2, FS_Product
<1>4. IsFiniteSet(People(B))  BY <1>3, FS_Subset DEF People
<1> QED  BY <1>4, FS_CardinalityType DEF HeadCount

(* More bookings never bring fewer people.                                 *)
LEMMA HeadCountMonotone ==
    ASSUME NEW C \in SUBSET Ordinary, NEW B \in SUBSET C
    PROVE  HeadCount(B) <= HeadCount(C)
<1>1. IsFiniteSet(People(C))  BY PeopleFinite
<1>2. People(B) \in SUBSET People(C)  BY DEF People
<1> QED  BY <1>1, <1>2, FS_Subset DEF HeadCount

(* One booking brings its attendance, and no more.                         *)
LEMMA HeadCountSingle ==
    ASSUME NEW b \in Ordinary
    PROVE  HeadCount({b}) <= Attendance[b]
<1> DEFINE seats == 1 .. Attendance[b]
           seat == [i \in seats |-> <<b, i>>]
<1>1. Attendance[b] \in 1 .. Capacity /\ Capacity \in Nat  BY AttendanceAssumption
<1>2. People({b}) = {seat[i] : i \in seats}
  <2>1. ASSUME NEW g \in People({b})  PROVE g \in {seat[i] : i \in seats}
    <3>1. g \in {b} \X (1 .. Capacity) /\ g[2] <= Attendance[g[1]]  BY DEF People
    <3>2. g[1] = b /\ g[2] \in seats /\ g = <<b, g[2]>>  BY <3>1, <1>1
    <3> QED  BY <3>2
  <2>2. ASSUME NEW i \in seats  PROVE seat[i] \in People({b})
    BY <1>1 DEF People
  <2> QED  BY <2>1, <2>2
<1>3. seat \in Surjection(seats, People({b}))
  BY <1>2, Zenon DEF Surjection
<1>4. IsFiniteSet(seats) /\ Cardinality(seats) = Attendance[b]
  BY <1>1, FS_Interval
<1> QED  BY <1>3, <1>4, FS_Surjection DEF HeadCount

(* Adding a booking adds at most its attendance.                           *)
LEMMA HeadCountAdd ==
    ASSUME NEW B \in SUBSET Ordinary, NEW b \in Ordinary
    PROVE  HeadCount(B \cup {b}) <= HeadCount(B) + Attendance[b]
<1>1. People(B \cup {b}) = People(B) \cup People({b})  BY DEF People
<1>2. IsFiniteSet(People(B)) /\ IsFiniteSet(People({b}))  BY PeopleFinite
<1>3. Cardinality(People(B) \cap People({b})) \in Nat
  BY <1>2, FS_Intersection, FS_CardinalityType
<1>4. HeadCount(B) \in Nat /\ HeadCount({b}) \in Nat  BY PeopleFinite
<1>5. HeadCount(B \cup {b}) =
        HeadCount(B) + HeadCount({b}) - Cardinality(People(B) \cap People({b}))
  BY <1>1, <1>2, FS_Union DEF HeadCount
<1>6. Attendance[b] \in Nat  BY AttendanceAssumption
<1> QED  BY <1>3, <1>4, <1>5, <1>6, HeadCountSingle

(* A count of zero means that nobody is there.                             *)
LEMMA HeadCountZero ==
    ASSUME NEW B \in SUBSET Ordinary, HeadCount(B) = 0
    PROVE  B = {}
<1>1. People(B) = {}  BY PeopleFinite, FS_EmptySet DEF HeadCount
<1>2. ASSUME NEW b \in B  PROVE <<b, 1>> \in People(B)
  BY AttendanceAssumption DEF People
<1> QED  BY <1>1, <1>2

-----------------------------------------------------------------------------
(* The ends of an interval are integers.                                   *)
LEMMA EndsType ==
    ASSUME NEW b \in Bookings, NEW x \in Int
    PROVE  Lo(b, x) \in Int /\ Hi(b, x) \in Int
BY DurationAssumption DEF Lo, Hi, Bookings

LEMMA PresentType ==
    ASSUME NEW h \in Calendar, NEW b \in Present(h)
    PROVE  b \in Bookings /\ h[b] \in Int
BY DEF Calendar, Present

(* Making less of a calendar leaves it safe ...                            *)
Below(h, g) ==
    \A b \in Bookings : h[b] = g[b] \/ h[b] = NoSlot

LEMMA BelowSafe ==
    ASSUME NEW g \in Calendar, NEW h \in Calendar, Below(h, g), SafeCalendar(g)
    PROVE  SafeCalendar(h)
<1>1. Present(h) \subseteq Present(g) /\ \A b \in Present(h) : h[b] = g[b]
  BY DEF Present, Below
<1>2. ASSUME NEW t \in Cells  PROVE HeadCount(InStudio(h, t)) <= Capacity
  <2>1. InStudio(h, t) \in SUBSET InStudio(g, t)  BY <1>1 DEF InStudio
  <2>2. InStudio(g, t) \in SUBSET Ordinary  BY DEF InStudio
  <2>3. HeadCount(InStudio(h, t)) <= HeadCount(InStudio(g, t))
    BY <2>1, <2>2, HeadCountMonotone
  <2>4. HeadCount(InStudio(g, t)) <= Capacity  BY DEF SafeCalendar, WithinCapacity
  <2>5. HeadCount(InStudio(h, t)) \in Nat /\ HeadCount(InStudio(g, t)) \in Nat
    BY <2>1, <2>2, PeopleFinite
  <2> QED  BY <2>3, <2>4, <2>5, AttendanceAssumption
<1>3. PartiesAlone(h)  BY <1>1 DEF SafeCalendar, PartiesAlone
<1> QED  BY <1>2, <1>3 DEF SafeCalendar, WithinCapacity

(* ... and whatever fitted it fits it still: a session that evaluated the  *)
(* calendar is not misled by the releases that happen before it writes.    *)
LEMMA BelowFits ==
    ASSUME NEW g \in Calendar, NEW h \in Calendar, Below(h, g),
           NEW b \in Bookings, NEW x \in Int, Fits(g, b, x)
    PROVE  Fits(h, b, x)
<1>1. Present(h) \subseteq Present(g) /\ \A c \in Present(h) : h[c] = g[c]
  BY DEF Present, Below
<1>2. hasExclusivePartyOverlap(h, b, x) => hasExclusivePartyOverlap(g, b, x)
  BY <1>1 DEF hasExclusivePartyOverlap
<1>3. OrdinaryOverlapping(h, b, x) \in SUBSET OrdinaryOverlapping(g, b, x)
  BY <1>1 DEF OrdinaryOverlapping
<1>4. OrdinaryOverlapping(g, b, x) \in SUBSET Ordinary  BY DEF OrdinaryOverlapping
<1>5. /\ sumConfirmedAttendance(h, b, x) <= sumConfirmedAttendance(g, b, x)
      /\ sumConfirmedAttendance(h, b, x) \in Nat
      /\ sumConfirmedAttendance(g, b, x) \in Nat
  BY <1>3, <1>4, HeadCountMonotone, PeopleFinite DEF sumConfirmedAttendance
<1>6. b \in Ordinary => Attendance[b] \in Nat  BY AttendanceAssumption
<1> QED  BY <1>2, <1>5, <1>6, AttendanceAssumption
         DEF Fits, PartyFits, OrdinaryFits, Bookings

(* An interval that fits can be reserved: the calendar stays safe.         *)
LEMMA ReserveSafe ==
    ASSUME NEW g \in Calendar, SafeCalendar(g), NEW b \in Bookings, NEW x \in Cells,
           Fits(g, b, x)
    PROVE  SafeCalendar([g EXCEPT ![b] = x])
<1> DEFINE h == [g EXCEPT ![b] = x]
<1>1. x \in Int /\ x # NoSlot  BY LastCellAssumption, NoSlotAssumption DEF Cells
<1>2. /\ h \in Calendar /\ h[b] = x
      /\ Present(h) = Present(g) \cup {b}
      /\ \A c \in Bookings \ {b} : h[c] = g[c]
  BY <1>1 DEF Calendar, Present
<1> HIDE DEF h
<1>3. ASSUME NEW t \in Cells  PROVE HeadCount(InStudio(h, t)) <= Capacity
  <2>1. t \in Int  BY LastCellAssumption DEF Cells
  <2>2. HeadCount(InStudio(g, t)) <= Capacity  BY DEF SafeCalendar, WithinCapacity
  <2>3. InStudio(g, t) \in SUBSET Ordinary /\ InStudio(h, t) \in SUBSET Ordinary
    BY DEF InStudio
  <2>4. HeadCount(InStudio(g, t)) \in Nat /\ HeadCount(InStudio(h, t)) \in Nat
    BY <2>3, PeopleFinite
  <2>5. CASE b \notin InStudio(h, t)
    <3>1. InStudio(h, t) \in SUBSET InStudio(g, t)
      BY <1>2, <2>5 DEF InStudio, Present
    <3> QED  BY <3>1, <2>2, <2>3, <2>4, HeadCountMonotone, AttendanceAssumption
  <2>6. CASE b \in InStudio(h, t)
    <3>1. b \in Ordinary /\ b \notin Parties /\ Lo(b, x) <= t /\ t < Hi(b, x)
      BY <1>2, <2>6, KindsDisjoint DEF InStudio
    <3> DEFINE others == OrdinaryOverlapping(g, b, x)
    <3>2. ASSUME NEW c \in InStudio(h, t), c # b  PROVE c \in others
      <4>1. /\ c \in Ordinary /\ c \in Bookings /\ c \in Present(g) /\ h[c] = g[c]
            /\ Lo(c, h[c]) <= t /\ t < Hi(c, h[c])
        BY <3>2, <1>2 DEF InStudio, Bookings
      <4>2. g[c] \in Int  BY <4>1, PresentType
      <4>3. /\ Lo(c, g[c]) \in Int /\ Hi(c, g[c]) \in Int
            /\ Lo(b, x) \in Int /\ Hi(b, x) \in Int
        BY <4>1, <4>2, <1>1, EndsType
      <4>4. Overlap(c, g[c], b, x)  BY <4>1, <4>3, <3>1, <2>1 DEF Overlap
      <4> QED  BY <4>1, <4>4, <3>2 DEF OrdinaryOverlapping
    <3>3. InStudio(h, t) \in SUBSET (others \cup {b})  BY <3>2
    <3>4. others \in SUBSET Ordinary /\ others \cup {b} \in SUBSET Ordinary
      BY <3>1 DEF OrdinaryOverlapping
    <3>5. HeadCount(InStudio(h, t)) <= HeadCount(others \cup {b})
      BY <3>3, <3>4, HeadCountMonotone
    <3>6. HeadCount(others \cup {b}) <= HeadCount(others) + Attendance[b]
      BY <3>1, <3>4, HeadCountAdd
    <3>7. HeadCount(others) + Attendance[b] <= Capacity
      BY <3>1 DEF Fits, OrdinaryFits, sumConfirmedAttendance
    <3>8. HeadCount(others) \in Nat /\ HeadCount(others \cup {b}) \in Nat
      BY <3>4, PeopleFinite
    <3> QED  BY <3>5, <3>6, <3>7, <3>8, <2>4, <3>1, AttendanceAssumption
  <2> QED  BY <2>5, <2>6
<1>4. ASSUME NEW p \in Parties \cap Present(h), NEW c \in Present(h) \ {p}
      PROVE  ~ Overlap(p, h[p], c, h[c])
  <2>1. p \in Bookings /\ c \in Bookings  BY PresentType, <1>2
  <2>2. CASE p # b /\ c # b
    BY <2>1, <2>2, <1>2 DEF SafeCalendar, PartiesAlone
  <2>3. CASE p # b /\ c = b
    <3>1. p \in Present(g) /\ h[p] = g[p] /\ h[c] = x  BY <2>1, <2>3, <1>2
    <3>2. ~ hasExclusivePartyOverlap(g, b, x)  BY DEF Fits, PartyFits, OrdinaryFits
    <3> QED  BY <3>1, <3>2, <2>3 DEF hasExclusivePartyOverlap
  <2>4. CASE p = b
    <3>1. c # b /\ c \in Present(g) /\ h[c] = g[c] /\ h[p] = x  BY <2>1, <2>4, <1>2
    <3>2. PartyFits(g, b, x)  BY <2>4 DEF Fits
    <3>3. ~ Overlap(c, g[c], b, x)
      <4>1. CASE c \in Parties
        BY <4>1, <3>1, <3>2 DEF PartyFits, hasExclusivePartyOverlap
      <4>2. CASE c \in Ordinary
        <5>1. OrdinaryOverlapping(g, b, x) \in SUBSET Ordinary  BY DEF OrdinaryOverlapping
        <5>2. OrdinaryOverlapping(g, b, x) = {}
          BY <5>1, <3>2, HeadCountZero DEF PartyFits, sumConfirmedAttendance
        <5> QED  BY <5>2, <4>2, <3>1 DEF OrdinaryOverlapping
      <4> QED  BY <4>1, <4>2, <2>1 DEF Bookings
    <3> QED  BY <3>1, <3>3, <2>4 DEF Overlap
  <2> QED  BY <2>2, <2>3, <2>4
<1> QED  BY <1>3, <1>4 DEF SafeCalendar, WithinCapacity, PartiesAlone, h

-----------------------------------------------------------------------------
(* The booking services.                                                   *)

IInv == TypeOK /\ ReservationProtocol

(* What a running session may rely on.                                     *)
LEMMA RunningRequest ==
    ASSUME IInv, NEW s \in Sessions, pc[s] # "idle"
    PROVE  MoveOf(req[s]) /\ ReadHolds(req[s]) /\ CheckStands(s)
BY DEF IInv, ReservationProtocol

LEMMA HeldType ==
    ASSUME StoreTypeOK
    PROVE  Held \in Calendar
BY LastCellAssumption DEF StoreTypeOK, Row, Held, Calendar, Cells

(* The moves, by what they do to the interval a booking holds.             *)
LEMMA MovesType ==
    ASSUME NEW r, MoveOf(r)
    PROVE  /\ r.booking \in Bookings /\ r.from \in Statuses /\ r.to \in Statuses
           /\ r.due \in Nat /\ r.was \in Cells \cup {NoSlot}
           /\ r.at \in Cells \cup {NoSlot} /\ r.op \in Ops \cup {NoOp}
           /\ r.to # "absent"
           /\ NeedsSchedule(r) => r.at \in Cells
BY DEF MoveOf, Request, ORDINARY_TRANSITIONS, PARTY_TRANSITIONS, PartyMoves,
       Answerable, NeedsSchedule

LEMMA MovesOccupy ==
    ASSUME NEW r, MoveOf(r), r.from # "confirmed_paid" \/ r.booking \notin Ordinary,
           occupiesStudioSchedule(r.booking, r.to)
    PROVE  occupiesStudioSchedule(r.booking, r.from) \/ NeedsSchedule(r)
<1>1. CASE r.booking \in Ordinary
  BY <1>1, KindsDisjoint DEF MoveOf, ORDINARY_TRANSITIONS, occupiesStudioSchedule,
     OccupyingExperience, NeedsSchedule
<1>2. CASE r.booking \notin Ordinary
  <2>1. r.booking \in Parties  BY <1>2, MovesType DEF Bookings
  <2>2. <<r.from, r.to>> \in PartyMoves  BY <1>2 DEF MoveOf
  <2> QED  BY <2>1, <2>2 DEF PARTY_TRANSITIONS, PartyMoves, Answerable,
     occupiesStudioSchedule, OccupyingParty, OccupyingExperience, NeedsSchedule
<1> QED  BY <1>1, <1>2

-----------------------------------------------------------------------------
(* The initial state.                                                      *)
LEMMA InitInv == Init => IInv
<1> SUFFICES ASSUME Init  PROVE IInv  OBVIOUS
<1> USE DEF Init, StoreInit, AdminInit
<1>1. StoreTypeOK
  <2>1. Cells \in SUBSET Cells /\ {} \in SUBSET SUBSET Cells  OBVIOUS
  <2> QED  BY <2>1 DEF StoreTypeOK, Row, Statuses, Charges
<1>2. AdminTypeOK  BY DEF AdminTypeOK, NoEdit
<1>3. ReservationProtocol
  BY DEF ReservationProtocol, LockHeld, RowsPlaced, EditCovered, NoEdit
<1> QED  BY <1>1, <1>2, <1>3 DEF IInv, TypeOK
-----------------------------------------------------------------------------
(* A step that leaves the bookings and the schedule alone leaves alone     *)
(* what the sessions that do not move rely on.                             *)
LEMMA OthersStand ==
    ASSUME IInv, UNCHANGED <<rows, hours, closures>>,
           NEW q \in Sessions, pc'[q] # "idle", UNCHANGED <<pc[q], req[q]>>
    PROVE  (MoveOf(req[q]) /\ ReadHolds(req[q]) /\ CheckStands(q))'
<1>1. pc[q] # "idle" /\ pc'[q] = pc[q] /\ req'[q] = req[q]  OBVIOUS
<1>2. MoveOf(req[q]) /\ ReadHolds(req[q]) /\ CheckStands(q)
  BY <1>1, RunningRequest
<1>3. Held' = Held  BY DEF Held
<1>4. ReadHolds(req[q])'  BY <1>1, <1>2 DEF ReadHolds
<1>5. CheckStands(q)'  BY <1>1, <1>2, <1>3 DEF CheckStands, OpenFor
<1> QED  BY <1>1, <1>2, <1>4, <1>5

LEMMA RowsStand ==
    ASSUME IInv, UNCHANGED rows
    PROVE  Held' = Held /\ RowsPlaced'
BY DEF Held, IInv, ReservationProtocol, RowsPlaced

LEMMA EditStands ==
    ASSUME IInv, UNCHANGED <<rows, edit>>
    PROVE  EditCovered'
<1>1. Held' = Held  BY DEF Held
<1> QED  BY <1>1 DEF IInv, ReservationProtocol, EditCovered, Affected

(* Opening a transaction.                                                  *)
LEMMA BeginInv ==
    ASSUME IInv, NEW s \in Sessions, NEW r, Begin(s, r), UNCHANGED <<edit, shown>>,
           MoveOf(r), ReadHolds(r)
    PROVE  IInv'
<1>1. /\ pc[s] = "idle" /\ pc' = [pc EXCEPT ![s] = "read"] /\ req' = [req EXCEPT ![s] = r]
      /\ UNCHANGED <<lock, rows, events, ledger, token, hours, closures, now, edit, shown>>
  BY DEF Begin, tables, calendar
<1>2. r \in Request  BY DEF MoveOf
<1>3. TypeOK'  BY <1>1, <1>2 DEF IInv, TypeOK, StoreTypeOK, AdminTypeOK
<1>4. /\ pc'[s] = "read" /\ req'[s] = r
      /\ \A q \in Sessions \ {s} : pc'[q] = pc[q] /\ req'[q] = req[q]
  BY <1>1 DEF IInv, TypeOK, StoreTypeOK
<1>5. LockHeld'
  BY <1>1, <1>4 DEF IInv, ReservationProtocol, LockHeld, NeedsSchedule
<1>6. ASSUME NEW q \in Sessions, pc'[q] # "idle"
      PROVE  (MoveOf(req[q]) /\ ReadHolds(req[q]) /\ CheckStands(q))'
  <2>1. CASE q = s
    <3>1. CheckStands(q)'  BY <2>1, <1>4 DEF CheckStands
    <3>2. ReadHolds(r)'  BY <1>1 DEF ReadHolds
    <3>3. ReadHolds(req[q])'  BY <3>2, <2>1, <1>4 DEF ReadHolds
    <3> QED  BY <2>1, <1>4, <3>1, <3>3
  <2>2. CASE q # s
    BY <2>2, <1>1, <1>4, <1>6, OthersStand
  <2> QED  BY <2>1, <2>2
<1> QED  BY <1>1, <1>3, <1>5, <1>6, RowsStand, EditStands DEF IInv, ReservationProtocol

(* Taking the schedule lock.                                               *)
LEMMA LockScheduleInv ==
    ASSUME IInv, NEW s \in Sessions, LockSchedule(s), UNCHANGED <<edit, shown>>
    PROVE  IInv'
<1>1. /\ pc[s] = "read" /\ NeedsSchedule(req[s]) /\ lock = Free /\ lock' = s
      /\ pc' = [pc EXCEPT ![s] = "locked"]
      /\ UNCHANGED <<req, rows, events, ledger, token, hours, closures, now, edit, shown>>
  BY DEF LockSchedule, tables, calendar
<1>2. TypeOK'  BY <1>1 DEF IInv, TypeOK, StoreTypeOK, AdminTypeOK
<1>3. /\ pc'[s] = "locked" /\ req'[s] = req[s]
      /\ \A q \in Sessions \ {s} : pc'[q] = pc[q] /\ req'[q] = req[q]
  BY <1>1 DEF IInv, TypeOK, StoreTypeOK
<1>4. LockHeld'
  BY <1>1, <1>3, SessionsAssumption
     DEF IInv, ReservationProtocol, LockHeld, NeedsSchedule
<1>5. ASSUME NEW q \in Sessions, pc'[q] # "idle"
      PROVE  (MoveOf(req[q]) /\ ReadHolds(req[q]) /\ CheckStands(q))'
  <2>1. CASE q = s
    <3>1. MoveOf(req[s]) /\ ReadHolds(req[s])  BY <1>1, RunningRequest
    <3>2. ReadHolds(req[q])'  BY <3>1, <2>1, <1>1 DEF ReadHolds
    <3> QED  BY <2>1, <1>3, <3>1, <3>2 DEF CheckStands
  <2>2. CASE q # s
    BY <2>2, <1>1, <1>3, <1>5, OthersStand
  <2> QED  BY <2>1, <2>2
<1> QED  BY <1>1, <1>2, <1>4, <1>5, RowsStand, EditStands DEF IInv, ReservationProtocol

(* Evaluating the calendar under the lock.                                 *)
LEMMA CheckInv ==
    ASSUME IInv, NEW s \in Sessions, CheckConfirmation(s) \/ CheckHold(s),
           UNCHANGED <<edit, shown>>
    PROVE  IInv'
<1>1. /\ pc[s] = "locked" /\ pc' = [pc EXCEPT ![s] = "checked"]
      /\ OpenFor(req[s].booking, req[s].at)
      /\ UNCHANGED <<req, lock, rows, events, ledger, token, hours, closures, now, edit, shown>>
  BY DEF CheckConfirmation, CheckHold, Checked, tables, calendar
<1>2. MoveOf(req[s]) /\ ReadHolds(req[s])  BY <1>1, RunningRequest
<1>3. Fits(Held, req[s].booking, req[s].at)
  <2>1. CASE CheckConfirmation(s)
    <3>1. req[s].to = "confirmed" /\ OrdinaryFits(Held, req[s].booking, req[s].at)
      BY <2>1 DEF CheckConfirmation
    <3>2. req[s].booking \in Ordinary
      BY <3>1, <1>2, MovesType DEF MoveOf, PartyMoves, PARTY_TRANSITIONS, Answerable
    <3> QED  BY <3>1, <3>2, KindsDisjoint DEF Fits
  <2>2. CASE CheckHold(s)
    <3>1. /\ req[s].to = "awaiting_in_store_payment"
          /\ PartyFits(Held, req[s].booking, req[s].at)
      BY <2>2 DEF CheckHold
    <3>2. req[s].booking \in Parties
      BY <3>1, <1>2 DEF MoveOf, Request, ORDINARY_TRANSITIONS, Bookings
    <3> QED  BY <3>1, <3>2 DEF Fits
  <2> QED  BY <2>1, <2>2
<1>4. TypeOK'  BY <1>1 DEF IInv, TypeOK, StoreTypeOK, AdminTypeOK
<1>5. /\ pc'[s] = "checked" /\ req'[s] = req[s]
      /\ \A q \in Sessions \ {s} : pc'[q] = pc[q] /\ req'[q] = req[q]
  BY <1>1 DEF IInv, TypeOK, StoreTypeOK
<1>6. LockHeld'
  BY <1>1, <1>5 DEF IInv, ReservationProtocol, LockHeld, NeedsSchedule
<1>7. ASSUME NEW q \in Sessions, pc'[q] # "idle"
      PROVE  (MoveOf(req[q]) /\ ReadHolds(req[q]) /\ CheckStands(q))'
  <2>1. CASE q = s
    <3>1. Held' = Held  BY <1>1 DEF Held
    <3>2. ReadHolds(req[q])'  BY <1>2, <2>1, <1>1 DEF ReadHolds
    <3>3. CheckStands(q)'  BY <1>1, <1>3, <2>1, <3>1 DEF CheckStands, OpenFor
    <3> QED  BY <2>1, <1>2, <1>5, <3>2, <3>3
  <2>2. CASE q # s
    BY <2>2, <1>1, <1>5, <1>7, OthersStand
  <2> QED  BY <2>1, <2>2
<1> QED  BY <1>1, <1>4, <1>6, <1>7, RowsStand, EditStands DEF IInv, ReservationProtocol

(* A transaction that ends without having changed a booking: it aborts, or *)
(* adds a charge.                                                          *)
LEMMA EndInv ==
    ASSUME IInv, NEW s \in Sessions, Finish(s), TypeOK',
           UNCHANGED <<rows, hours, closures, now, edit, shown>>
    PROVE  IInv'
<1>1. /\ pc'[s] = "idle"
      /\ \A q \in Sessions \ {s} : pc'[q] = pc[q] /\ req'[q] = req[q]
      /\ lock # s => lock' = lock
  BY DEF Finish, IInv, TypeOK, StoreTypeOK
<1>2. LockHeld'
  BY <1>1, SessionsAssumption
     DEF IInv, ReservationProtocol, LockHeld, NeedsSchedule
<1>3. ASSUME NEW q \in Sessions, pc'[q] # "idle"
      PROVE  (MoveOf(req[q]) /\ ReadHolds(req[q]) /\ CheckStands(q))'
  BY <1>1, <1>3, OthersStand
<1> QED  BY <1>2, <1>3, RowsStand, EditStands DEF IInv, ReservationProtocol

LEMMA AbortInv ==
    ASSUME IInv, NEW s \in Sessions, Abort(s), UNCHANGED <<edit, shown>>
    PROVE  IInv'
<1>1. /\ Finish(s)
      /\ UNCHANGED <<rows, events, ledger, token, hours, closures, now, edit, shown>>
  BY DEF Abort, tables, calendar
<1>2. TypeOK'  BY <1>1 DEF IInv, TypeOK, StoreTypeOK, AdminTypeOK, Finish
<1> QED  BY <1>1, <1>2, EndInv

(* Every public creation of an ordinary booking.                           *)
LEMMA CreateInv ==
    ASSUME IInv, NEW b \in Ordinary, NEW x \in Cells,
           NEW status \in {"pending_review", "waitlisted"},
           CreateOrdinary(b, x, status), UNCHANGED <<edit, shown>>
    PROVE  IInv' /\ Held' = Held
<1>1. /\ rows[b].status = "absent"
      /\ rows' = [rows EXCEPT ![b] = [status |-> status, start |-> x, due |-> 0]]
      /\ UNCHANGED <<ledger, token, hours, closures, pc, req, lock, now, edit, shown>>
  BY DEF CreateOrdinary, Admits, EndsSameDay, calendar, sessions
<1>2. StoreTypeOK /\ AdminTypeOK /\ b \in Bookings /\ b \notin Parties
  BY KindsDisjoint DEF IInv, TypeOK, Bookings
<1>3. events' \in [Bookings -> Seq(Event)]
  <2> DEFINE e == [op |-> NoOp, from |-> "pending_review", to |-> status,
                   told |-> x, at |-> 0]
  <2>1. e \in Event  BY DEF Event, Statuses
  <2>2. Append(events[b], e) \in Seq(Event) /\ events[b] \in Seq(Event)
    BY <2>1, <1>2 DEF StoreTypeOK
  <2> QED  BY <2>2, <1>2 DEF CreateOrdinary, StoreTypeOK
<1>4. /\ rows' \in [Bookings -> Row] /\ rows'[b].status = status /\ rows'[b].start = x
      /\ \A c \in Bookings \ {b} : rows'[c] = rows[c]
  BY <1>1, <1>2 DEF StoreTypeOK, Row, Statuses
<1>5. TypeOK'
  BY <1>1, <1>2, <1>3, <1>4 DEF TypeOK, StoreTypeOK, AdminTypeOK
<1>6. Held' = Held
  <2>1. ASSUME NEW c \in Bookings
        PROVE  (IF occupiesStudioSchedule(c, rows'[c].status) THEN rows'[c].start ELSE NoSlot)
             = (IF occupiesStudioSchedule(c, rows[c].status) THEN rows[c].start ELSE NoSlot)
    <3>1. CASE c = b
      BY <3>1, <1>1, <1>2, <1>4 DEF occupiesStudioSchedule, OccupyingExperience
    <3> QED  BY <3>1, <1>4
  <2> QED  BY <2>1 DEF Held
<1>7. ASSUME NEW q \in Sessions, pc'[q] # "idle"
      PROVE  (MoveOf(req[q]) /\ ReadHolds(req[q]) /\ CheckStands(q))'
  <2>1. pc[q] # "idle" /\ pc'[q] = pc[q] /\ req'[q] = req[q]  BY <1>1, <1>7
  <2>2. MoveOf(req[q]) /\ ReadHolds(req[q]) /\ CheckStands(q)
    BY <2>1, RunningRequest
  <2>3. ReadHolds(req[q])'
    <3>1. CASE req[q].booking = b
      <4>1. req[q].from = "absent"  BY <3>1, <2>2, <1>1 DEF ReadHolds
      <4> QED  BY <4>1, <2>1 DEF ReadHolds
    <3>2. CASE req[q].booking # b
      <4>1. rows'[req[q].booking] = rows[req[q].booking]
        BY <3>2, <2>2, <1>4, MovesType
      <4> QED  BY <4>1, <2>1, <2>2 DEF ReadHolds
    <3> QED  BY <3>1, <3>2
  <2>4. CheckStands(q)'  BY <2>1, <2>2, <1>1, <1>6 DEF CheckStands, OpenFor
  <2> QED  BY <2>1, <2>2, <2>3, <2>4
<1>8. LockHeld'
  BY <1>1 DEF IInv, ReservationProtocol, LockHeld, NeedsSchedule
<1>9. RowsPlaced'
  BY <1>4 DEF IInv, ReservationProtocol, RowsPlaced
<1>10. EditCovered'
  BY <1>1, <1>6 DEF IInv, ReservationProtocol, EditCovered, Affected
<1> QED  BY <1>5, <1>6, <1>7, <1>8, <1>9, <1>10 DEF IInv, ReservationProtocol

(* The clock.                                                              *)
LEMMA TickInv ==
    ASSUME IInv, Tick, UNCHANGED <<edit, shown>>
    PROVE  IInv'
<1>1. /\ now' = now + 1
      /\ UNCHANGED <<rows, events, ledger, token, hours, closures, pc, req, lock, edit, shown>>
  BY DEF Tick, tables, calendar, sessions
<1>2. TypeOK'  BY <1>1 DEF IInv, TypeOK, StoreTypeOK, AdminTypeOK
<1>3. LockHeld'
  BY <1>1 DEF IInv, ReservationProtocol, LockHeld, NeedsSchedule
<1>4. ASSUME NEW q \in Sessions, pc'[q] # "idle"
      PROVE  (MoveOf(req[q]) /\ ReadHolds(req[q]) /\ CheckStands(q))'
  BY <1>1, <1>4, OthersStand
<1> QED  BY <1>1, <1>2, <1>3, <1>4, RowsStand, EditStands DEF IInv, ReservationProtocol

-----------------------------------------------------------------------------
(* The schedule editor.                                                    *)
LEMMA AffectedType ==
    ASSUME TypeOK, NEW kind \in {"closure", "hours"}, NEW cells \in SUBSET Cells
    PROVE  Fingerprint(kind, cells) \in Fingerprints
<1>1. StoreTypeOK /\ Present(Held) \subseteq Bookings  BY DEF TypeOK, Present
<1>2. {<<b, rows[b].status, rows[b].start>> : b \in Present(Held)}
        \in SUBSET (Bookings \X Statuses \X (Cells \cup {NoSlot}))
  BY <1>1 DEF StoreTypeOK, Row
<1>3. Affected(kind, cells) \in SUBSET Bookings  BY <1>1 DEF Affected
<1>4. hours \in SUBSET Cells /\ closures \in SUBSET SUBSET Cells
  BY <1>1 DEF StoreTypeOK
<1> QED  BY <1>2, <1>3, <1>4 DEF Fingerprint, Fingerprints

LEMMA EditInv ==
    ASSUME IInv, EditSchedule
    PROVE  IInv'
<1>1. TypeOK /\ StoreTypeOK /\ AdminTypeOK /\ LockHeld /\ EditCovered
  BY DEF IInv, TypeOK, ReservationProtocol
<1>2. UNCHANGED <<rows, events, ledger, token, pc, req, now>>
  BY DEF EditSchedule, BeginEdit, LockEdit, CheckEdit, CommitEdit, AbortEdit,
         DeleteClosure, tables, calendar, sessions
<1>3. AdminTypeOK'
  <2>1. NoEdit \in [stage : {"idle", "asked", "locked", "write"}, kind : {"closure", "hours"},
                    cells : SUBSET Cells, ack : Fingerprints \cup {NoAck}]
    BY DEF NoEdit
  <2>2. ASSUME NEW e \in Edits, NEW ack \in {NoAck, shown}, BeginEdit(e[1], e[2], ack)
        PROVE  AdminTypeOK'
    <3>1. e[1] \in {"closure", "hours"} /\ e[2] \in SUBSET Cells
      BY ChoicesAssumption DEF Edits
    <3> QED  BY <2>2, <3>1, <1>1 DEF BeginEdit, AdminTypeOK
  <2>3. CASE LockEdit  BY <2>3, <1>1 DEF LockEdit, AdminTypeOK
  <2>4. CASE CheckEdit
    <3>1. Fingerprint(edit.kind, edit.cells) \in Fingerprints
      BY <1>1, AffectedType DEF AdminTypeOK
    <3> QED  BY <2>1, <2>4, <3>1, <1>1 DEF CheckEdit, AdminTypeOK
  <2>5. CASE CommitEdit \/ AbortEdit
    BY <2>1, <2>5, <1>1 DEF CommitEdit, AbortEdit, AdminTypeOK
  <2>6. ASSUME NEW cells \in closures, DeleteClosure(cells)  PROVE AdminTypeOK'
    BY <2>6, <1>1 DEF DeleteClosure, AdminTypeOK
  <2> QED  BY <2>2, <2>3, <2>4, <2>5, <2>6 DEF EditSchedule
<1>4. /\ hours' \in SUBSET Cells /\ closures' \in SUBSET SUBSET Cells
      /\ lock' \in {lock, Clerk, Free}
  BY <1>1 DEF EditSchedule, BeginEdit, LockEdit, CheckEdit, CommitEdit, AbortEdit,
     DeleteClosure, Release, calendar, sessions, StoreTypeOK, AdminTypeOK
<1>5. TypeOK'
  BY <1>1, <1>2, <1>3, <1>4 DEF TypeOK, StoreTypeOK
<1>6. /\ \A s \in Sessions : lock = s => UNCHANGED <<lock, hours, closures>>
      /\ edit'.stage \in {"locked", "write"} => lock' = Clerk
      /\ edit'.stage = "write" => CheckEdit \/ UNCHANGED edit
  <2> USE <1>1, SessionsAssumption DEF LockHeld, AdminTypeOK, calendar, sessions
  <2>1. ASSUME NEW e \in Edits, NEW ack \in {NoAck, shown}, BeginEdit(e[1], e[2], ack)
        PROVE  UNCHANGED <<lock, hours, closures>> /\ edit'.stage = "asked"
    BY <2>1 DEF BeginEdit
  <2>2. CASE LockEdit
    <3>1. lock = Free /\ lock' = Clerk /\ edit'.stage = "locked"  BY <2>2 DEF LockEdit
    <3> QED  BY <3>1
  <2>3. CASE CheckEdit
    BY <2>3 DEF CheckEdit, Release, NoEdit
  <2>4. CASE CommitEdit
    BY <2>4 DEF CommitEdit, Release, NoEdit
  <2>5. CASE AbortEdit
    BY <2>5 DEF AbortEdit, Release, NoEdit
  <2>6. ASSUME NEW cells \in closures, DeleteClosure(cells)
        PROVE  /\ edit'.stage = "idle" /\ UNCHANGED edit
               /\ \A s \in Sessions : lock # s
    BY <2>6 DEF DeleteClosure
  <2> QED  BY <2>1, <2>2, <2>3, <2>4, <2>5, <2>6 DEF EditSchedule
<1>7. LockHeld'
  BY <1>1, <1>2, <1>6 DEF LockHeld, NeedsSchedule
<1>8. Held' = Held  BY <1>2 DEF Held
<1>9. ASSUME NEW q \in Sessions, pc'[q] # "idle"
      PROVE  (MoveOf(req[q]) /\ ReadHolds(req[q]) /\ CheckStands(q))'
  <2>1. MoveOf(req[q]) /\ ReadHolds(req[q]) /\ CheckStands(q)
    BY <1>2, <1>9, RunningRequest
  <2>2. CheckStands(q)'
    BY <2>1, <1>1, <1>2, <1>6, <1>8 DEF CheckStands, LockHeld, OpenFor
  <2> QED  BY <2>1, <2>2, <1>2 DEF ReadHolds
<1>10. EditCovered'
  <2>1. SUFFICES ASSUME edit'.stage = "write"
        PROVE Affected(edit.kind, edit.cells)' \subseteq
                IF edit'.ack = NoAck THEN {} ELSE edit'.ack.affected
    BY DEF EditCovered
  <2>2. CASE CheckEdit
    <3> DEFINE mark == Fingerprint(edit.kind, edit.cells)
    <3>1. /\ edit'.kind = edit.kind /\ edit'.cells = edit.cells /\ edit'.ack = edit.ack
          /\ mark.affected = {} \/ edit.ack = mark
      BY <2>1, <2>2, <1>1 DEF CheckEdit, AdminTypeOK, NoEdit
    <3>2. mark.affected = Affected(edit.kind, edit.cells)  BY DEF Fingerprint
    <3>3. mark # NoAck
      BY <1>1, AffectedType, NoAckAssumption DEF AdminTypeOK
    <3> HIDE DEF mark
    <3>4. Affected(edit.kind, edit.cells)' = Affected(edit.kind, edit.cells)
      BY <3>1, <1>8 DEF Affected
    <3> QED  BY <3>1, <3>2, <3>3, <3>4
  <2>3. CASE UNCHANGED edit
    BY <2>1, <2>3, <1>1, <1>8 DEF EditCovered, Affected
  <2> QED  BY <2>1, <2>2, <2>3, <1>6
<1> QED  BY <1>2, <1>5, <1>7, <1>9, <1>10, RowsStand DEF IInv, ReservationProtocol

-----------------------------------------------------------------------------
(* Writing.  All commits but the extra charge change one row, from the     *)
(* status the session expects; a start is new only if it was checked, or   *)
(* if the target status holds no interval.                                 *)
Writes(s) ==
    LET r == req[s]
        b == r.booking IN
    /\ pc[s] # "idle" /\ Ready(s) /\ Finish(s)
    /\ rows[b].status = r.from
    /\ UNCHANGED <<hours, closures, now>>
    /\ \E x \in Cells, due \in Nat :
        /\ rows' = [rows EXCEPT ![b] = [status |-> r.to, start |-> x, due |-> due]]
        /\ \/ x = rows[b].start /\ (NeedsSchedule(r) => occupiesStudioSchedule(b, r.from))
           \/ x = r.at /\ (NeedsSchedule(r) \/ r.to \in {"pending_review", "time_proposed"})

LEMMA EventType ==
    ASSUME StoreTypeOK, NEW s \in Sessions, MoveOf(req[s]),
           NEW told \in Cells \cup {NoSlot}, createEvent(s, told)
    PROVE  events' \in [Bookings -> Seq(Event)]
<1> DEFINE r == req[s]
           e == [op |-> r.op, from |-> r.from, to |-> r.to, told |-> told,
                 at |-> IF r.to = "cancellation_requested" THEN now ELSE 0]
<1>1. /\ r.booking \in Bookings /\ r.from \in Statuses /\ r.to \in Statuses
      /\ r.op \in Ops \cup {NoOp}
  BY MovesType
<1>2. e \in Event  BY <1>1 DEF Event, StoreTypeOK
<1>3. Append(events[r.booking], e) \in Seq(Event)  BY <1>1, <1>2 DEF StoreTypeOK
<1>4. events' = [events EXCEPT ![r.booking] = Append(events[r.booking], e)]
  BY DEF createEvent
<1> QED  BY <1>1, <1>3, <1>4 DEF StoreTypeOK

LEMMA FinishType ==
    ASSUME TypeOK, NEW s \in Sessions, Finish(s)
    PROVE  /\ pc' \in [Sessions -> {"idle", "read", "locked", "checked"}]
           /\ req' \in [Sessions -> Request \cup {NoRequest}]
           /\ lock' \in Sessions \cup {Clerk, Free}
BY DEF Finish, TypeOK, StoreTypeOK

(* compareAndSet, when the start and deadline it writes are sensible.      *)
LEMMA CompareAndSetWrites ==
    ASSUME IInv, NEW s \in Sessions, pc[s] # "idle", Ready(s), Finish(s),
           UNCHANGED <<hours, closures, now>>,
           NEW x \in Cells, NEW due \in Nat, compareAndSet(s, x, due),
           \/ /\ x = rows[req[s].booking].start
              /\ NeedsSchedule(req[s]) =>
                    occupiesStudioSchedule(req[s].booking, req[s].from)
           \/ /\ x = req[s].at
              /\ NeedsSchedule(req[s]) \/ req[s].to \in {"pending_review", "time_proposed"}
    PROVE  Writes(s)
BY DEF Writes, compareAndSet

(* The row a running request writes to.                                    *)
LEMMA WrittenRow ==
    ASSUME IInv, NEW s \in Sessions, pc[s] # "idle", req[s].from # "absent",
           rows[req[s].booking].status = req[s].from
    PROVE  /\ rows[req[s].booking].start \in Cells
           /\ rows[req[s].booking].due \in Nat
<1>1. req[s].booking \in Bookings  BY RunningRequest, MovesType
<1> QED  BY <1>1 DEF IInv, ReservationProtocol, RowsPlaced, TypeOK, StoreTypeOK, Row

LEMMA CommitOrdinaryWrites ==
    ASSUME IInv, NEW s \in Sessions, CommitOrdinary(s)
    PROVE  Writes(s)
<1> DEFINE r == req[s]
<1>1. /\ pc[s] # "idle" /\ Ready(s) /\ Finish(s) /\ r.booking \in Ordinary
      /\ UNCHANGED <<hours, closures, now>>
  BY DEF CommitOrdinary, calendar
<1>2. MoveOf(r) /\ ReadHolds(r)  BY <1>1, RunningRequest
<1>3. rows[r.booking].status = r.from  BY DEF CommitOrdinary, compareAndSet
<1>4. <<r.from, r.to>> \in ORDINARY_TRANSITIONS  BY <1>1, <1>2 DEF MoveOf
<1>5. r.from # "absent"  BY <1>4 DEF ORDINARY_TRANSITIONS
<1>6. rows[r.booking].start \in Cells  BY <1>1, <1>3, <1>5, WrittenRow
<1>7. CASE r.to = "confirmed"
  <2>1. r.at \in Cells /\ NeedsSchedule(r)  BY <1>7, <1>2 DEF MoveOf, NeedsSchedule
  <2>2. compareAndSet(s, NewStart(r), 0)  BY <1>7 DEF CommitOrdinary
  <2>3. CASE NewStart(r) = r.at
    BY <1>1, <2>1, <2>2, <2>3, CompareAndSetWrites
  <2>4. CASE NewStart(r) # r.at
    <3>1. r.at = r.was /\ NewStart(r) = rows[r.booking].start
      BY <2>4 DEF NewStart
    <3>2. r.from \notin {"pending_review", "waitlisted"}
      BY <1>1, <1>2, <1>3, <2>4, <3>1 DEF ReadHolds
    <3>3. occupiesStudioSchedule(r.booking, r.from)
      BY <3>2, <1>1, <1>4, <1>7, KindsDisjoint
         DEF ORDINARY_TRANSITIONS, occupiesStudioSchedule, OccupyingExperience
    <3> QED  BY <1>1, <1>6, <2>2, <3>1, <3>3, CompareAndSetWrites
  <2> QED  BY <2>3, <2>4
<1>8. CASE r.to # "confirmed"
  <2>1. ~ NeedsSchedule(r)  BY <1>8, <1>4 DEF NeedsSchedule, ORDINARY_TRANSITIONS
  <2>2. compareAndSet(s, rows[r.booking].start, 0)  BY <1>8 DEF CommitOrdinary
  <2> QED  BY <1>1, <1>6, <2>1, <2>2, CompareAndSetWrites
<1> QED  BY <1>7, <1>8

(* The party commits that keep the interval: no schedule lock is needed.   *)
LEMMA PartyWrites ==
    ASSUME IInv, NEW s \in Sessions,
           \/ CommitCustomerRequest(s) \/ CommitCreateParty(s) \/ CommitProposal(s)
           \/ CommitAcceptance(s) \/ CommitPartyTransition(s) \/ CommitPayment(s)
           \/ CommitExpiry(s) \/ CommitRefund(s)
    PROVE  Writes(s)
<1> DEFINE r == req[s]
           row == rows[r.booking]
<1>1. /\ pc[s] # "idle" /\ Finish(s) /\ rows[r.booking].status = r.from
      /\ UNCHANGED <<hours, closures, now>>
  BY DEF CommitCustomerRequest, CommitCreateParty, CommitProposal, CommitAcceptance,
         CommitPartyTransition, CommitPayment, CommitExpiry, CommitRefund,
         compareAndSet, calendar
<1>2. MoveOf(r) /\ ReadHolds(r)  BY <1>1, RunningRequest
<1>3. r.from # "absent" => row.start \in Cells /\ row.due \in Nat
  BY <1>1, WrittenRow
<1>4. r.due \in Nat /\ (NeedsSchedule(r) => r.at \in Cells)  BY <1>2, MovesType
<1>5. CASE CommitCreateParty(s)
  <2>1. /\ pc[s] = "read" /\ r.from = "absent" /\ compareAndSet(s, r.at, 0)
    BY <1>5 DEF CommitCreateParty
  <2>2. r.to = "pending_review"
    BY <2>1, <1>2 DEF MoveOf, ORDINARY_TRANSITIONS, PartyMoves, PARTY_TRANSITIONS, Answerable
  <2>3. r.at \in Cells /\ Ready(s)
    BY <2>1, <2>2, <1>2 DEF MoveOf, Ready, NeedsSchedule
  <2> QED  BY <1>1, <2>1, <2>2, <2>3, CompareAndSetWrites
<1>6. CASE CommitProposal(s)
  <2>1. /\ Ready(s) /\ r.to \in {"time_proposed", "awaiting_in_store_payment"}
        /\ compareAndSet(s, r.at, r.due)
    BY <1>6 DEF CommitProposal
  <2>2. r.at \in Cells  BY <2>1, <1>2 DEF MoveOf
  <2>3. NeedsSchedule(r) \/ r.to = "time_proposed"  BY <2>1 DEF NeedsSchedule
  <2> QED  BY <1>1, <1>4, <2>1, <2>2, <2>3, CompareAndSetWrites
<1>7. CASE CommitAcceptance(s)
  <2>1. /\ Ready(s) /\ r.from = "time_proposed" /\ r.to = "awaiting_in_store_payment"
        /\ compareAndSet(s, row.start, row.due)
    BY <1>7 DEF CommitAcceptance
  <2>2. row.start = r.at /\ NeedsSchedule(r)
    BY <2>1, <1>2 DEF ReadHolds, NeedsSchedule
  <2> QED  BY <1>1, <1>3, <2>1, <2>2, CompareAndSetWrites
<1>8. CASE CommitCustomerRequest(s)
  <2>1. Ready(s) /\ r.from \in Answerable /\ compareAndSet(s, row.start, row.due)
    BY <1>8 DEF CommitCustomerRequest
  <2>2. ~ NeedsSchedule(r)
    BY <2>1, <1>2 DEF Answerable, MoveOf, ORDINARY_TRANSITIONS, PartyMoves,
       PARTY_TRANSITIONS, NeedsSchedule
  <2> QED  BY <1>1, <1>3, <2>1, <2>2, CompareAndSetWrites DEF Answerable
<1>9. CASE CommitPartyTransition(s)
  <2>1. Ready(s) /\ <<r.from, r.to>> \in PARTY_TRANSITIONS /\ compareAndSet(s, row.start, row.due)
    BY <1>9 DEF CommitPartyTransition
  <2>2. ~ NeedsSchedule(r) /\ r.from # "absent"
    BY <2>1 DEF PARTY_TRANSITIONS, NeedsSchedule
  <2> QED  BY <1>1, <1>3, <2>1, <2>2, CompareAndSetWrites
<1>10. CASE CommitPayment(s) \/ CommitExpiry(s) \/ CommitRefund(s)
  <2>1. /\ Ready(s) /\ compareAndSet(s, row.start, row.due)
        /\ r.to \in {"confirmed_paid", "payment_expired", "refunded"}
    BY <1>10 DEF CommitPayment, CommitExpiry, CommitRefund
  <2>2. ~ NeedsSchedule(r) /\ r.from # "absent"
    BY <2>1, <1>2 DEF MoveOf, ORDINARY_TRANSITIONS, PartyMoves, PARTY_TRANSITIONS,
       Answerable, NeedsSchedule
  <2> QED  BY <1>1, <1>3, <2>1, <2>2, CompareAndSetWrites
<1> QED  BY <1>5, <1>6, <1>7, <1>8, <1>9, <1>10

(* What writing does to the calendar: nothing, a release, or a reservation *)
(* of the interval that was checked.                                       *)
LEMMA WritesHeld ==
    ASSUME IInv, NEW s \in Sessions, Writes(s)
    PROVE  LET r == req[s] IN
           \/ Held' = Held
           \/ Held' = [Held EXCEPT ![r.booking] = NoSlot]
           \/ /\ Held' = [Held EXCEPT ![r.booking] = r.at]
              /\ pc[s] = "checked" /\ r.at \in Cells
<1> DEFINE r == req[s]
           b == r.booking
           held(c, row) == IF occupiesStudioSchedule(c, row.status) THEN row.start ELSE NoSlot
<1>1. pc[s] # "idle" /\ rows[b].status = r.from  BY DEF Writes
<1>2. MoveOf(r) /\ ReadHolds(r)  BY <1>1, RunningRequest
<1>3. b \in Bookings /\ (NeedsSchedule(r) => r.at \in Cells)  BY <1>2, MovesType
<1>4. PICK x \in Cells, due \in Nat :
        /\ rows' = [rows EXCEPT ![b] = [status |-> r.to, start |-> x, due |-> due]]
        /\ \/ x = rows[b].start /\ (NeedsSchedule(r) => occupiesStudioSchedule(b, r.from))
           \/ x = r.at /\ (NeedsSchedule(r) \/ r.to \in {"pending_review", "time_proposed"})
  BY DEF Writes
<1>5. rows \in [Bookings -> Row]  BY DEF IInv, TypeOK, StoreTypeOK
<1>6. /\ rows'[b].status = r.to /\ rows'[b].start = x
      /\ \A c \in Bookings \ {b} : rows'[c] = rows[c]
  BY <1>3, <1>4, <1>5
<1>7. /\ \A c \in Bookings : Held[c] = held(c, rows[c]) /\ Held'[c] = held(c, rows'[c])
      /\ Held = [c \in Bookings |-> Held[c]] /\ Held' = [c \in Bookings |-> Held'[c]]
  BY DEF Held
<1> HIDE DEF held
<1>8. \A c \in Bookings \ {b} : Held'[c] = Held[c]  BY <1>6, <1>7
<1>9. Held' = [Held EXCEPT ![b] = Held'[b]]  BY <1>7, <1>8, <1>3
<1>10. CASE ~ occupiesStudioSchedule(b, r.to)
  <2>1. Held'[b] = NoSlot  BY <1>10, <1>3, <1>6, <1>7 DEF held
  <2> QED  BY <2>1, <1>9
<1>11. CASE occupiesStudioSchedule(b, r.to)
  <2>1. Held'[b] = x  BY <1>11, <1>3, <1>6, <1>7 DEF held
  <2>2. r.from # "confirmed_paid" \/ b \notin Ordinary
    BY <1>1, <1>3 DEF IInv, ReservationProtocol, RowsPlaced
  <2>3. occupiesStudioSchedule(b, r.from) \/ NeedsSchedule(r)
    BY <1>2, <1>11, <2>2, MovesOccupy
  <2>4. CASE x = rows[b].start /\ occupiesStudioSchedule(b, r.from)
    <3>1. Held[b] = x  BY <2>4, <1>1, <1>3, <1>7 DEF held
    <3> QED  BY <3>1, <2>1, <1>7, <1>8
  <2>5. CASE x = r.at /\ NeedsSchedule(r)
    <3>1. pc[s] = "checked"  BY <2>5 DEF Writes, Ready
    <3> QED  BY <3>1, <2>1, <2>5, <1>3, <1>9
  <2>6. r.to \notin {"pending_review", "time_proposed"}
    BY <1>11 DEF occupiesStudioSchedule, OccupyingParty, OccupyingExperience
  <2> QED  BY <1>4, <2>3, <2>4, <2>5, <2>6
<1> QED  BY <1>10, <1>11

(* A session that relies on the row another session writes: it relied on a *)
(* start that this write does not change.                                  *)
LEMMA WritesReads ==
    ASSUME IInv, NEW s \in Sessions, Writes(s),
           NEW q \in Sessions \ {s}, pc[q] # "idle", req'[q] = req[q]
    PROVE  ReadHolds(req[q])'
<1> DEFINE r == req[s]
           p == req[q]
           b == r.booking
<1>1. pc[s] # "idle" /\ rows[b].status = r.from  BY DEF Writes
<1>2. MoveOf(r) /\ ReadHolds(r) /\ MoveOf(p) /\ ReadHolds(p)  BY <1>1, RunningRequest
<1>3. b \in Bookings /\ r.to # "absent" /\ p.booking \in Bookings  BY <1>2, MovesType
<1>4. PICK x \in Cells, due \in Nat :
        /\ rows' = [rows EXCEPT ![b] = [status |-> r.to, start |-> x, due |-> due]]
        /\ \/ x = rows[b].start /\ (NeedsSchedule(r) => occupiesStudioSchedule(b, r.from))
           \/ x = r.at /\ (NeedsSchedule(r) \/ r.to \in {"pending_review", "time_proposed"})
  BY DEF Writes
<1>5. rows \in [Bookings -> Row]  BY DEF IInv, TypeOK, StoreTypeOK
<1>6. /\ rows'[b].status = r.to /\ rows'[b].start = x
      /\ \A c \in Bookings \ {b} : rows'[c] = rows[c]
  BY <1>3, <1>4, <1>5
<1>7. CASE p.booking # b
  <2>1. rows'[p.booking] = rows[p.booking]  BY <1>7, <1>3, <1>6
  <2> QED  BY <2>1, <1>2 DEF ReadHolds
<1>8. CASE p.booking = b
  <2> DEFINE unplaced == {"pending_review", "waitlisted"}
  <2>1. p.from # "absent" => r.from # "absent"
    BY <1>8, <1>1, <1>2 DEF ReadHolds
  <2>2. ASSUME b \in Ordinary, p.from \in unplaced, r.to \in unplaced
        PROVE  rows'[b].start = p.was
    <3>1. r.from = "pending_review" /\ r.to = "waitlisted"
      BY <2>2, <1>2 DEF MoveOf, ORDINARY_TRANSITIONS
    <3>2. x = rows[b].start  BY <3>1, <1>4 DEF NeedsSchedule
    <3>3. rows[b].start = p.was  BY <3>1, <2>2, <1>1, <1>2, <1>8 DEF ReadHolds
    <3> QED  BY <3>2, <3>3, <1>6
  <2>3. ASSUME p.from = "time_proposed", p.to = "awaiting_in_store_payment"
        PROVE  rows'[b].start = p.at /\ r.to # "pending_review"
    <3>1. b \notin Ordinary
      BY <2>3, <1>2, <1>8 DEF MoveOf, ORDINARY_TRANSITIONS
    <3>2. <<r.from, r.to>> \in PartyMoves  BY <3>1, <1>2 DEF MoveOf
    <3>3. rows[b].start = p.at /\ r.from # "pending_review" /\ r.from # "absent"
      BY <2>1, <2>3, <1>1, <1>2, <1>8 DEF ReadHolds
    <3>4. r.to \notin {"pending_review", "time_proposed"}
      BY <3>2, <3>3 DEF PartyMoves, PARTY_TRANSITIONS, Answerable
    <3>5. NeedsSchedule(r) =>
            r.from = "time_proposed" /\ r.to = "awaiting_in_store_payment"
      BY <3>2, <3>3 DEF PartyMoves, PARTY_TRANSITIONS, Answerable, NeedsSchedule
    <3>6. x = rows[b].start  BY <3>4, <3>5, <1>2, <1>4 DEF ReadHolds
    <3> QED  BY <3>3, <3>4, <3>6, <1>6
  <2>4. ReadHolds(p)'
    BY <2>2, <2>3, <1>3, <1>6, <1>8 DEF ReadHolds
  <2> QED  BY <2>4 DEF ReadHolds
<1> QED  BY <1>7, <1>8

(* Writing keeps the protocol.                                             *)
LEMMA WritesInv ==
    ASSUME IInv, NEW s \in Sessions, Writes(s), TypeOK', UNCHANGED <<edit, shown>>
    PROVE  IInv'
<1> DEFINE r == req[s]
           b == r.booking
<1>1. /\ pc[s] # "idle" /\ Finish(s) /\ rows[b].status = r.from
      /\ UNCHANGED <<hours, closures, now>>
  BY DEF Writes
<1>2. MoveOf(r) /\ CheckStands(s)  BY <1>1, RunningRequest
<1>3. b \in Bookings /\ r.to # "absent"  BY <1>2, MovesType
<1>4. /\ pc'[s] = "idle"
      /\ \A q \in Sessions \ {s} : pc'[q] = pc[q] /\ req'[q] = req[q]
      /\ lock # s => lock' = lock
  BY <1>1 DEF Finish, IInv, TypeOK, StoreTypeOK
<1>5. LockHeld'
  BY <1>4, SessionsAssumption
     DEF IInv, ReservationProtocol, LockHeld, NeedsSchedule
<1>6. Held \in Calendar /\ Held' \in Calendar
  <2>1. StoreTypeOK /\ StoreTypeOK'  BY DEF IInv, TypeOK
  <2> QED  BY <2>1, LastCellAssumption DEF StoreTypeOK, Row, Held, Calendar, Cells
<1>7. lock # s => Below(Held', Held)
  <2>1. pc[s] = "checked" => lock = s
    BY DEF IInv, ReservationProtocol, LockHeld
  <2>2. \/ Held' = Held \/ Held' = [Held EXCEPT ![b] = NoSlot] \/ pc[s] = "checked"
    BY WritesHeld
  <2> QED  BY <2>1, <2>2, <1>3, <1>6 DEF Below, Calendar
<1>8. ASSUME NEW q \in Sessions, pc'[q] # "idle"
      PROVE  (MoveOf(req[q]) /\ ReadHolds(req[q]) /\ CheckStands(q))'
  <2>1. q # s /\ pc[q] # "idle" /\ pc'[q] = pc[q] /\ req'[q] = req[q]
    BY <1>4, <1>8
  <2>2. MoveOf(req[q]) /\ CheckStands(q)  BY <2>1, RunningRequest
  <2>3. ReadHolds(req[q])'  BY <2>1, WritesReads
  <2>4. CheckStands(q)'
    <3>1. SUFFICES ASSUME pc[q] = "checked"
          PROVE Fits(Held', req[q].booking, req[q].at) /\ OpenFor(req[q].booking, req[q].at)'
      BY <2>1 DEF CheckStands
    <3>2. lock = q /\ NeedsSchedule(req[q])
      BY <3>1 DEF IInv, ReservationProtocol, LockHeld
    <3>3. req[q].booking \in Bookings /\ req[q].at \in Int
      BY <2>2, <3>2, MovesType, LastCellAssumption DEF Cells
    <3>4. Fits(Held, req[q].booking, req[q].at) /\ OpenFor(req[q].booking, req[q].at)
      BY <2>2, <3>1 DEF CheckStands
    <3>5. Below(Held', Held)  BY <1>7, <2>1, <3>2
    <3>6. Fits(Held', req[q].booking, req[q].at)
      BY <1>6, <3>3, <3>4, <3>5, BelowFits
    <3> QED  BY <3>4, <3>6, <2>1, <1>1 DEF OpenFor
  <2> QED  BY <2>1, <2>2, <2>3, <2>4
<1>9. RowsPlaced'
  <2>1. rows \in [Bookings -> Row] /\ RowsPlaced
    BY DEF IInv, TypeOK, StoreTypeOK, ReservationProtocol
  <2>2. PICK x \in Cells, due \in Nat :
          rows' = [rows EXCEPT ![b] = [status |-> r.to, start |-> x, due |-> due]]
    BY DEF Writes
  <2>3. b \in Ordinary => r.to # "confirmed_paid"
    BY <1>2 DEF MoveOf, ORDINARY_TRANSITIONS
  <2> QED  BY <2>1, <2>2, <2>3, <1>3 DEF RowsPlaced
<1>10. EditCovered'
  <2>1. CASE edit.stage # "write"  BY <2>1 DEF EditCovered
  <2>2. CASE edit.stage = "write"
    <3>1. lock = Clerk /\ EditCovered
      BY <2>2 DEF IInv, ReservationProtocol, LockHeld
    <3>2. Below(Held', Held)  BY <3>1, <1>7, SessionsAssumption
    <3>3. Affected(edit.kind, edit.cells)' \subseteq Affected(edit.kind, edit.cells)
      BY <3>2, <1>6 DEF Affected, Below, Present
    <3> QED  BY <3>1, <3>3 DEF EditCovered
  <2> QED  BY <2>1, <2>2
<1> QED  BY <1>5, <1>8, <1>9, <1>10 DEF IInv, ReservationProtocol

-----------------------------------------------------------------------------
(* The types of the other tables after a commit.                           *)
LEMMA WriteType ==
    ASSUME IInv, NEW s \in Sessions, Write(s), UNCHANGED <<edit, shown>>
    PROVE  TypeOK'
<1> DEFINE r == req[s]
<1>1. /\ pc[s] # "idle" /\ Finish(s)
      /\ UNCHANGED <<hours, closures, now>>
  BY DEF Write, CommitOrdinary, CommitCustomerRequest, CommitCreateParty, CommitProposal,
         CommitAcceptance, CommitPartyTransition, CommitPayment, CommitExpiry,
         CommitCharge, CommitRefund, calendar
<1>2. StoreTypeOK /\ AdminTypeOK  BY DEF IInv, TypeOK
<1>3. MoveOf(r)  BY <1>1, RunningRequest
<1>4. r.booking \in Bookings /\ r.at \in Cells \cup {NoSlot} /\ r.was \in Cells \cup {NoSlot}
  BY <1>3, MovesType
<1>5. rows' \in [Bookings -> Row]
  <2>1. CASE CommitCharge(s)  BY <2>1, <1>2 DEF CommitCharge, StoreTypeOK
  <2>2. CASE Writes(s)
    <3>1. PICK x \in Cells, due \in Nat :
            rows' = [rows EXCEPT ![r.booking] = [status |-> r.to, start |-> x, due |-> due]]
      BY <2>2 DEF Writes
    <3>2. r.to \in Statuses  BY <1>3, MovesType
    <3>3. [status |-> r.to, start |-> x, due |-> due] \in Row  BY <3>2 DEF Row
    <3> QED  BY <3>1, <3>3, <1>2 DEF StoreTypeOK
  <2> QED  BY <2>1, <2>2, CommitOrdinaryWrites, PartyWrites DEF Write
<1>6. events' \in [Bookings -> Seq(Event)]
  <2>1. CASE CommitCreateParty(s)
    BY <2>1, <1>2 DEF CommitCreateParty, StoreTypeOK
  <2>2. CASE CommitPartyTransition(s)
    <3>1. rows[r.booking].start \in Cells \cup {NoSlot}
      BY <1>2, <1>4 DEF StoreTypeOK, Row
    <3> QED  BY <2>2, <3>1, <1>2, <1>3, EventType DEF CommitPartyTransition
  <2>3. CASE CommitCustomerRequest(s)
    BY <2>3, <1>2, <1>3, <1>4, EventType DEF CommitCustomerRequest
  <2>4. CASE \/ CommitOrdinary(s) \/ CommitProposal(s) \/ CommitAcceptance(s)
             \/ CommitPayment(s) \/ CommitExpiry(s) \/ CommitCharge(s) \/ CommitRefund(s)
    <3>1. createEvent(s, r.at)
      BY <2>4 DEF CommitOrdinary, CommitProposal, CommitAcceptance, CommitPayment,
         CommitExpiry, CommitCharge, CommitRefund
    <3> QED  BY <3>1, <1>2, <1>3, <1>4, EventType
  <2> QED  BY <2>1, <2>2, <2>3, <2>4 DEF Write
<1>7. ledger' \in [Parties -> Charges]
  <2>1. CASE CommitPayment(s) \/ CommitCharge(s) \/ CommitRefund(s)
    <3>1. ledger \in [Parties -> Charges]  BY <1>2 DEF StoreTypeOK
    <3>2. ASSUME NEW p \in Parties  PROVE ledger'[p] \in Charges
      <4>1. ledger[p].venue_fee \in Nat /\ ledger[p].extra \in Nat /\ ledger[p].refund \in Nat
        BY <3>1 DEF Charges
      <4> QED  BY <2>1, <3>1, <4>1 DEF CommitPayment, CommitCharge, CommitRefund, Charges
    <3>3. DOMAIN ledger' = Parties /\ ledger' = [p \in Parties |-> ledger'[p]]
      BY <2>1, <3>1 DEF CommitPayment, CommitCharge, CommitRefund
    <3> QED  BY <3>2, <3>3
  <2>2. CASE UNCHANGED ledger  BY <2>2, <1>2 DEF StoreTypeOK
  <2> QED  BY <2>1, <2>2 DEF Write, CommitOrdinary, CommitCustomerRequest, CommitCreateParty,
      CommitProposal, CommitAcceptance, CommitPartyTransition, CommitExpiry
<1>8. token' \in [Parties -> {"none", "active", "revoked"}]
  BY <1>2 DEF StoreTypeOK, Write, CommitOrdinary, CommitCustomerRequest, CommitCreateParty,
      CommitProposal, CommitAcceptance, CommitPartyTransition, CommitPayment, CommitExpiry,
      CommitCharge, CommitRefund
<1>9. /\ pc' \in [Sessions -> {"idle", "read", "locked", "checked"}]
      /\ req' \in [Sessions -> Request \cup {NoRequest}]
      /\ lock' \in Sessions \cup {Clerk, Free}
  BY <1>1, FinishType DEF IInv
<1> QED  BY <1>1, <1>2, <1>5, <1>6, <1>7, <1>8, <1>9 DEF TypeOK, StoreTypeOK, AdminTypeOK

LEMMA WriteInv ==
    ASSUME IInv, NEW s \in Sessions, Write(s), UNCHANGED <<edit, shown>>
    PROVE  IInv'
<1>1. TypeOK'  BY WriteType
<1>2. CASE CommitCharge(s)
  BY <1>1, <1>2, EndInv DEF CommitCharge, calendar
<1>3. CASE Writes(s)  BY <1>1, <1>3, WritesInv
<1> QED  BY <1>2, <1>3, CommitOrdinaryWrites, PartyWrites DEF Write

-----------------------------------------------------------------------------
(* Every request a session opens is a move, and what it read holds then.   *)
LEMMA AskInv ==
    ASSUME IInv, NEW s \in Sessions, UNCHANGED <<edit, shown>>,
           NEW b \in Bookings, NEW to \in Statuses, NEW x \in Cells \cup {NoSlot},
           NEW due \in Nat, NEW by \in {"staff", "customer", "system"},
           NEW op \in Ops \cup {NoOp},
           Begin(s, Ask(b, to, x, due, by, op)),
           IF b \in Ordinary THEN <<rows[b].status, to>> \in ORDINARY_TRANSITIONS
           ELSE <<rows[b].status, to>> \in PartyMoves,
           to \in {"pending_review", "confirmed", "time_proposed", "awaiting_in_store_payment"}
             => x \in Cells,
           (rows[b].status = "time_proposed" /\ to = "awaiting_in_store_payment")
             => x = rows[b].start
    PROVE  IInv'
<1> DEFINE r == Ask(b, to, x, due, by, op)
<1>1. /\ r.booking = b /\ r.from = rows[b].status /\ r.to = to /\ r.was = rows[b].start
      /\ r.at = x
  BY DEF Ask
<1>2. rows[b] \in Row  BY DEF IInv, TypeOK, StoreTypeOK
<1>3. r \in Request  BY <1>2 DEF Ask, Request, Row
<1>4. MoveOf(r)  BY <1>1, <1>3 DEF MoveOf
<1>5. ReadHolds(r)  BY <1>1 DEF ReadHolds
<1> QED  BY <1>4, <1>5, BeginInv

LEMMA RequestInv ==
    ASSUME IInv, NEW s \in Sessions, UNCHANGED <<edit, shown>>,
           \/ OrdinaryRequest(s) \/ PartyRequest(s)
           \/ MaintenanceRequest(s) \/ CustomerRequest(s)
    PROVE  IInv'
<1> USE DEF Bookings
<1>1. /\ \A b \in Bookings : rows[b].start \in Cells \cup {NoSlot} /\ rows[b].due \in Nat
      /\ \A b \in Bookings : rows[b].status # "absent" => rows[b].start \in Cells
      /\ \A p \in Parties : p \notin Ordinary
      /\ Cells \subseteq Nat
  BY KindsDisjoint, LastCellAssumption
     DEF IInv, TypeOK, StoreTypeOK, Row, ReservationProtocol, RowsPlaced, Cells
<1>2. CASE OrdinaryRequest(s)
  <2>1. PICK b \in Ordinary, op \in Ops, to \in Statuses, x \in Cells :
          BeginOrdinary(s, op, b, to, x)
    BY <1>2 DEF OrdinaryRequest
  <2> QED  BY <2>1, <1>1, AskInv DEF BeginOrdinary
<1>3. CASE CustomerRequest(s)
  <2>1. PICK b \in Bookings, to \in Statuses : BeginCustomerRequest(s, b, to)
    BY <1>3 DEF CustomerRequest
  <2>2. /\ rows[b].status \in Answerable
        /\ to \in {"cancellation_requested", "reschedule_requested"}
        /\ Begin(s, Ask(b, to, rows[b].start, rows[b].due, "customer", NoOp))
    BY <2>1 DEF BeginCustomerRequest
  <2>3. CASE b \in Ordinary
    <3>1. rows[b].status = "confirmed"
      BY <2>2, <2>3 DEF Answerable, IInv, ReservationProtocol, RowsPlaced
    <3>2. <<rows[b].status, to>> \in ORDINARY_TRANSITIONS
      BY <2>2, <3>1 DEF ORDINARY_TRANSITIONS
    <3> QED  BY <2>2, <2>3, <3>1, <3>2, <1>1, AskInv
  <2>4. CASE b \notin Ordinary
    <3>1. <<rows[b].status, to>> \in PartyMoves  BY <2>2 DEF PartyMoves
    <3> QED  BY <2>2, <2>4, <3>1, <1>1, AskInv DEF Answerable
  <2> QED  BY <2>3, <2>4
<1>4. CASE MaintenanceRequest(s)
  <2>1. PICK p \in Parties : BeginExpiry(s, p, "system", NoOp)
    BY <1>4 DEF MaintenanceRequest
  <2> QED  BY <2>1, <1>1, AskInv DEF BeginExpiry, PartyMoves, Statuses
<1>5. CASE PartyRequest(s)
  <2>1. PICK p \in Parties :
        \/ \E x \in Cells : BeginCreateParty(s, p, x)
        \/ \E op \in Ops, x \in Cells, due \in Cells : BeginProposal(s, op, p, x, due)
        \/ \E op \in Ops, to \in Statuses : BeginPartyTransition(s, op, p, to)
        \/ \E by \in {"staff", "customer"}, op \in Ops \cup {NoOp} : BeginAcceptance(s, p, by, op)
        \/ \E op \in Ops : \/ BeginPayment(s, op, p)
                           \/ BeginCharge(s, op, p)
                           \/ BeginRefund(s, op, p)
                           \/ BeginExpiry(s, p, "staff", op)
    BY <1>5 DEF PartyRequest
  <2> USE <1>1
  <2>2. ASSUME NEW x \in Cells, BeginCreateParty(s, p, x)  PROVE IInv'
    BY <2>2, AskInv DEF BeginCreateParty, PartyMoves, Statuses
  <2>3. ASSUME NEW op \in Ops, NEW x \in Cells, NEW due \in Cells,
               BeginProposal(s, op, p, x, due)
        PROVE  IInv'
    <3> DEFINE to == IF x = rows[p].start THEN "awaiting_in_store_payment"
                     ELSE "time_proposed"
    <3>1. to \in Statuses /\ <<"pending_review", to>> \in PartyMoves
      BY DEF Statuses, PartyMoves
    <3>2. rows[p].status = "pending_review" /\ Begin(s, Ask(p, to, x, due, "staff", op))
      BY <2>3 DEF BeginProposal
    <3> HIDE DEF to
    <3> QED  BY <3>1, <3>2, AskInv
  <2>4. ASSUME NEW op \in Ops, NEW to \in Statuses, BeginPartyTransition(s, op, p, to)
        PROVE  IInv'
    <3>1. <<rows[p].status, to>> \in PARTY_TRANSITIONS  BY <2>4 DEF BeginPartyTransition
    <3>2. to \notin {"pending_review", "confirmed", "time_proposed", "awaiting_in_store_payment"}
      BY <3>1 DEF PARTY_TRANSITIONS
    <3> QED  BY <2>4, <3>1, <3>2, AskInv DEF BeginPartyTransition, PartyMoves
  <2>5. ASSUME NEW by \in {"staff", "customer"}, NEW op \in Ops \cup {NoOp},
               BeginAcceptance(s, p, by, op)
        PROVE  IInv'
    BY <2>5, AskInv DEF BeginAcceptance, PartyMoves, Statuses
  <2>6. ASSUME NEW op \in Ops, BeginPayment(s, op, p)  PROVE IInv'
    BY <2>6, AskInv DEF BeginPayment, PartyMoves, Statuses
  <2>7. ASSUME NEW op \in Ops, BeginCharge(s, op, p)  PROVE IInv'
    BY <2>7, AskInv DEF BeginCharge, PartyMoves, Statuses
  <2>8. ASSUME NEW op \in Ops, BeginRefund(s, op, p)  PROVE IInv'
    BY <2>8, AskInv DEF BeginRefund, PartyMoves, Statuses
  <2>9. ASSUME NEW op \in Ops, BeginExpiry(s, p, "staff", op)  PROVE IInv'
    BY <2>9, AskInv DEF BeginExpiry, PartyMoves, Statuses
  <2> QED  BY <2>1, <2>2, <2>3, <2>4, <2>5, <2>6, <2>7, <2>8, <2>9
<1> QED  BY <1>2, <1>3, <1>4, <1>5

-----------------------------------------------------------------------------
(* Only these steps touch the bookings.                                    *)
LEMMA StepCases ==
    ASSUME [Next]_vars
    PROVE  \/ UNCHANGED vars
           \/ /\ UNCHANGED <<edit, shown>>
              /\ \/ \E b \in Ordinary, x \in Cells, status \in {"pending_review", "waitlisted"} :
                        CreateOrdinary(b, x, status)
                 \/ \E s \in Sessions :
                        \/ OrdinaryRequest(s) \/ PartyRequest(s)
                        \/ MaintenanceRequest(s) \/ CustomerRequest(s)
                 \/ \E s \in Sessions : LockSchedule(s)
                 \/ \E s \in Sessions : CheckConfirmation(s) \/ CheckHold(s)
                 \/ \E s \in Sessions : Abort(s)
                 \/ \E s \in Sessions : Write(s)
                 \/ Tick
           \/ EditSchedule
BY DEF Next, Transaction, Step

LEMMA NextInv ==
    ASSUME IInv, [Next]_vars
    PROVE  IInv'
<1>1. CASE UNCHANGED vars
  <2>1. UNCHANGED <<rows, events, ledger, token, hours, closures, pc, req, lock, now, edit, shown>>
    BY <1>1 DEF vars, tables, calendar, sessions
  <2>2. TypeOK'  BY <2>1 DEF IInv, TypeOK, StoreTypeOK, AdminTypeOK
  <2>3. LockHeld'
    BY <2>1 DEF IInv, ReservationProtocol, LockHeld, NeedsSchedule
  <2>4. ASSUME NEW q \in Sessions, pc'[q] # "idle"
        PROVE  (MoveOf(req[q]) /\ ReadHolds(req[q]) /\ CheckStands(q))'
    BY <2>1, <2>4, OthersStand
  <2> QED  BY <2>1, <2>2, <2>3, <2>4, RowsStand, EditStands DEF IInv, ReservationProtocol
<1>2. CASE EditSchedule  BY <1>2, EditInv
<1>3. CASE /\ UNCHANGED <<edit, shown>>
           /\ \/ \E b \in Ordinary, x \in Cells, status \in {"pending_review", "waitlisted"} :
                     CreateOrdinary(b, x, status)
              \/ \E s \in Sessions :
                     \/ OrdinaryRequest(s) \/ PartyRequest(s)
                     \/ MaintenanceRequest(s) \/ CustomerRequest(s)
              \/ \E s \in Sessions : LockSchedule(s)
              \/ \E s \in Sessions : CheckConfirmation(s) \/ CheckHold(s)
              \/ \E s \in Sessions : Abort(s)
              \/ \E s \in Sessions : Write(s)
              \/ Tick
  BY <1>3, CreateInv, RequestInv, LockScheduleInv, CheckInv, AbortInv, WriteInv, TickInv
<1> QED  BY <1>1, <1>2, <1>3, StepCases

(* Types and protocol are invariants.                                      *)
THEOREM TypeCorrect == Spec => []TypeOK
<1>1. IInv => TypeOK  BY DEF IInv
<1> QED  BY <1>1, InitInv, NextInv, PTL DEF Spec

(* Whatever a session read before it had a lock, and whatever it checked   *)
(* while it held it, still justifies what it writes.                       *)
THEOREM ProtocolKept == Spec => []ReservationProtocol
<1>1. IInv => ReservationProtocol  BY DEF IInv
<1> QED  BY <1>1, InitInv, NextInv, PTL DEF Spec

-----------------------------------------------------------------------------
(* Every step is a reservation that fits at that moment, a release, or     *)
(* nothing, and a reservation is made where the studio is open.            *)
LEMMA StepOnFloor ==
    ASSUME IInv, [Next]_vars
    PROVE  \/ Held' = Held
           \/ \E b \in Bookings : Held' = [Held EXCEPT ![b] = NoSlot]
           \/ \E b \in Bookings, x \in Cells :
                /\ Fits(Held, b, x) /\ OpenFor(b, x) /\ OpenFor(b, x)'
                /\ Held' = [Held EXCEPT ![b] = x]
<1>1. CASE UNCHANGED rows  BY <1>1, RowsStand
<1>2. CASE \E b \in Ordinary, x \in Cells, status \in {"pending_review", "waitlisted"} :
               CreateOrdinary(b, x, status) /\ UNCHANGED <<edit, shown>>
  BY <1>2, CreateInv
<1>3. ASSUME NEW s \in Sessions, Writes(s)
      PROVE  \/ Held' = Held
             \/ \E b \in Bookings : Held' = [Held EXCEPT ![b] = NoSlot]
             \/ \E b \in Bookings, x \in Cells :
                  /\ Fits(Held, b, x) /\ OpenFor(b, x) /\ OpenFor(b, x)'
                  /\ Held' = [Held EXCEPT ![b] = x]
  <2>1. MoveOf(req[s]) /\ CheckStands(s) /\ UNCHANGED <<hours, closures>>
    BY <1>3, RunningRequest DEF Writes
  <2>2. req[s].booking \in Bookings  BY <2>1, MovesType
  <2>3. pc[s] = "checked" =>
          /\ Fits(Held, req[s].booking, req[s].at)
          /\ OpenFor(req[s].booking, req[s].at)
    BY <2>1 DEF CheckStands
  <2>4. \A b, x : OpenFor(b, x) => OpenFor(b, x)'  BY <2>1 DEF OpenFor
  <2> QED  BY <1>3, <2>2, <2>3, <2>4, WritesHeld
<1>4. ASSUME NEW s \in Sessions, Write(s)  PROVE Writes(s) \/ UNCHANGED rows
  <2>1. CASE CommitCharge(s)  BY <2>1 DEF CommitCharge
  <2> QED  BY <1>4, <2>1, CommitOrdinaryWrites, PartyWrites DEF Write
<1>5. \/ UNCHANGED rows
      \/ \E b \in Ordinary, x \in Cells, status \in {"pending_review", "waitlisted"} :
             CreateOrdinary(b, x, status) /\ UNCHANGED <<edit, shown>>
      \/ \E s \in Sessions : Write(s)
  <2>1. UNCHANGED vars \/ EditSchedule \/ Tick => UNCHANGED rows
    BY DEF vars, tables, EditSchedule, BeginEdit, LockEdit, CheckEdit, CommitEdit,
           AbortEdit, DeleteClosure, Tick
  <2>2. ASSUME NEW s \in Sessions,
               LockSchedule(s) \/ CheckConfirmation(s) \/ CheckHold(s) \/ Abort(s)
        PROVE  UNCHANGED rows
    BY <2>2 DEF tables, LockSchedule, CheckConfirmation, CheckHold, Checked, Abort
  <2>3. ASSUME NEW s \in Sessions,
               \/ OrdinaryRequest(s) \/ PartyRequest(s)
               \/ MaintenanceRequest(s) \/ CustomerRequest(s)
        PROVE  UNCHANGED rows
    <3>1. \A r : Begin(s, r) => UNCHANGED rows  BY DEF Begin, tables
    <3>2. CASE PartyRequest(s)
      BY <3>1, <3>2 DEF PartyRequest, BeginCreateParty, BeginProposal,
         BeginPartyTransition, BeginAcceptance, BeginPayment, BeginCharge, BeginRefund,
         BeginExpiry
    <3> QED  BY <2>3, <3>1, <3>2 DEF OrdinaryRequest, MaintenanceRequest, CustomerRequest,
        BeginOrdinary, BeginExpiry, BeginCustomerRequest
  <2> QED  BY <2>1, <2>2, <2>3, StepCases
<1> QED  BY <1>1, <1>2, <1>3, <1>4, <1>5

LEMMA HeldIsTyped ==
    ASSUME IInv
    PROVE  Held \in Calendar
BY HeldType DEF IInv, TypeOK

(* The instance's names mean what the studio's do.                         *)
LEMMA FloorNames ==
    /\ Floor!Bookings = Bookings /\ Floor!Cells = Cells
    /\ \A h, b, x : Floor!Fits(h, b, x) <=> Fits(h, b, x)
<1>1. Floor!Bookings = Bookings /\ Floor!Cells = Cells
  BY DEF Floor!Bookings, Bookings, Floor!Cells, Cells
<1>2. /\ \A h : Floor!Present(h) = Present(h)
      /\ \A b, x : Floor!Lo(b, x) = Lo(b, x) /\ Floor!Hi(b, x) = Hi(b, x)
  BY <1>1 DEF Floor!Present, Present, Floor!Lo, Lo, Floor!Hi, Hi
<1>3. \A b, x, c, y : Floor!Overlap(b, x, c, y) <=> Overlap(b, x, c, y)
  BY <1>2 DEF Floor!Overlap, Overlap
<1>4. \A h, b, x :
        /\ Floor!OrdinaryOverlapping(h, b, x) = OrdinaryOverlapping(h, b, x)
        /\ Floor!hasExclusivePartyOverlap(h, b, x) <=> hasExclusivePartyOverlap(h, b, x)
  BY <1>2, <1>3 DEF Floor!OrdinaryOverlapping, OrdinaryOverlapping,
     Floor!hasExclusivePartyOverlap, hasExclusivePartyOverlap
<1>5. \A B : Floor!HeadCount(B) = HeadCount(B)
  <2>1. \A S : Floor!Cardinality(S) = Cardinality(S)
    BY DEF Floor!Cardinality, Cardinality
  <2> QED  BY <2>1 DEF Floor!HeadCount, HeadCount, Floor!People, People
<1>6. \A h, b, x : Floor!sumConfirmedAttendance(h, b, x) = sumConfirmedAttendance(h, b, x)
  BY <1>4, <1>5 DEF Floor!sumConfirmedAttendance, sumConfirmedAttendance
<1> QED  BY <1>1, <1>4, <1>6 DEF Floor!Fits, Fits, Floor!PartyFits, PartyFits,
    Floor!OrdinaryFits, OrdinaryFits

(* Unlocked reads, one lock and compare-and-set implement the abstract     *)
(* floor: every reservation is atomic.                                     *)
THEOREM FloorImplemented == Spec => ImplementsOccupancy
<1>1. Init => Floor!Init
  BY FloorNames DEF Init, StoreInit, Floor!Init, Held, occupiesStudioSchedule,
         OccupyingParty, OccupyingExperience
<1>2. IInv /\ [Next]_vars => [Floor!Next]_Held
  BY StepOnFloor, FloorNames DEF Floor!Next, Floor!Reserve, Floor!Release
<1> QED  BY <1>1, <1>2, InitInv, NextInv, PTL DEF Spec, ImplementsOccupancy, Floor!Spec

(* The abstract promise is sound: a calendar in which every step reserves  *)
(* what fits or releases never has too many people in the studio, nor a    *)
(* party in company.                                                       *)
THEOREM HeldIsSafe == Floor!Spec => []SafeCalendar(Held)
<1> DEFINE FloorStep ==
        \/ Held' = Held
        \/ \E b \in Bookings : Held' = [Held EXCEPT ![b] = NoSlot]
        \/ \E b \in Bookings, x \in Cells :
                Fits(Held, b, x) /\ Held' = [Held EXCEPT ![b] = x]
<1>1. Floor!Init => Held = [b \in Bookings |-> NoSlot]
  BY FloorNames DEF Floor!Init
<1>2. [Floor!Next]_Held => FloorStep
  BY FloorNames DEF Floor!Next, Floor!Reserve, Floor!Release
<1> HIDE DEF FloorStep
<1>3. Floor!Init => Held \in Calendar /\ SafeCalendar(Held)
  <2> SUFFICES ASSUME Floor!Init  PROVE Held \in Calendar /\ SafeCalendar(Held)
    OBVIOUS
  <2>1. Held \in Calendar /\ Present(Held) = {}
    BY <1>1 DEF Calendar, Present
  <2>2. ASSUME NEW t \in Cells  PROVE HeadCount(InStudio(Held, t)) <= Capacity
    <3>1. InStudio(Held, t) = {} /\ People({}) = {}  BY <2>1 DEF InStudio, People
    <3>2. HeadCount(InStudio(Held, t)) = 0  BY <3>1, FS_EmptySet DEF HeadCount
    <3> QED  BY <3>2, AttendanceAssumption
  <2> QED  BY <2>1, <2>2 DEF SafeCalendar, WithinCapacity, PartiesAlone
<1>4. ASSUME Held \in Calendar, SafeCalendar(Held), FloorStep
      PROVE  Held' \in Calendar /\ SafeCalendar(Held')
  <2>1. CASE Held' = Held  BY <1>4, <2>1
  <2>2. ASSUME NEW b \in Bookings, Held' = [Held EXCEPT ![b] = NoSlot]
        PROVE  Held' \in Calendar /\ SafeCalendar(Held')
    <3>1. Held' \in Calendar /\ Below(Held', Held)
      BY <1>4, <2>2 DEF Calendar, Below
    <3> QED  BY <1>4, <3>1, BelowSafe
  <2>3. ASSUME NEW b \in Bookings, NEW x \in Cells, Fits(Held, b, x),
               Held' = [Held EXCEPT ![b] = x]
        PROVE  Held' \in Calendar /\ SafeCalendar(Held')
    <3>1. Held' \in Calendar  BY <1>4, <2>3, LastCellAssumption DEF Calendar, Cells
    <3>2. SafeCalendar([Held EXCEPT ![b] = x])  BY <1>4, <2>3, ReserveSafe
    <3> QED  BY <2>3, <3>1, <3>2
  <2> QED  BY <1>4, <2>1, <2>2, <2>3 DEF FloorStep
<1> DEFINE CalInv == Held \in Calendar /\ SafeCalendar(Held)
<1>5. CalInv /\ [Floor!Next]_Held => CalInv'
  <2>1. Held' \in Calendar /\ SafeCalendar(Held') => CalInv'
    BY DEF SafeCalendar, WithinCapacity, PartiesAlone, InStudio, Present
  <2> QED  BY <1>2, <1>4, <2>1
<1>6. Floor!Init => CalInv  BY <1>3
<1>7. CalInv => SafeCalendar(Held)  OBVIOUS
<1> QED  BY <1>5, <1>6, <1>7, PTL DEF Floor!Spec

(* So what the services implement keeps the studio safe.                   *)
LEMMA CalendarSafe == Spec => []SafeCalendar(Held)
BY FloorImplemented, HeldIsSafe, PTL DEF ImplementsOccupancy

(* At no instant do the people of confirmed bookings exceed the capacity.  *)
THEOREM NoOverbooking == Spec => []NeverOverbooked
<1>1. SafeCalendar(Held) => NeverOverbooked  BY DEF SafeCalendar, NeverOverbooked
<1> QED  BY <1>1, CalendarSafe, PTL

(* A party that holds an interval is alone in it.                          *)
THEOREM PartiesShareNothing == Spec => []PartiesExclusive
<1>1. SafeCalendar(Held) => PartiesExclusive  BY DEF SafeCalendar, PartiesExclusive
<1> QED  BY <1>1, CalendarSafe, PTL

(* A reservation commits only for an interval that is open at its commit.  *)
THEOREM OpenWhenReserved == Spec => ReservedWhenOpen
<1> DEFINE Open == \A b \in Bookings :
                (Held'[b] # NoSlot /\ Held'[b] # Held[b]) => OpenFor(b, Held'[b])
<1>1. IInv /\ [Next]_vars => [Open]_vars
  <2> SUFFICES ASSUME IInv, [Next]_vars  PROVE Open  OBVIOUS
  <2>1. Held \in Calendar  BY HeldIsTyped
  <2> QED  BY <2>1, StepOnFloor DEF Calendar
<1> QED  BY <1>1, InitInv, NextInv, PTL DEF Spec, ReservedWhenOpen

(* An edit commits only with an acknowledgement of all it hits.            *)
THEOREM EditsAreAcknowledged == Spec => EditsAcknowledged
<1> DEFINE Covered == (edit.stage = "write" /\ <<hours, closures>>' # <<hours, closures>>) =>
                Affected(edit.kind, edit.cells) \subseteq
                    IF edit.ack = NoAck THEN {} ELSE edit.ack.affected
<1>1. IInv => Covered  BY DEF IInv, ReservationProtocol, EditCovered
<1> QED  BY <1>1, InitInv, NextInv, PTL DEF Spec, EditsAcknowledged
-----------------------------------------------------------------------------
(* What is shown.                                                          *)

LEMMA HeldFacts ==
    ASSUME StoreTypeOK
    PROVE  /\ \A b \in Present(Held) : b \in Bookings /\ Held[b] \in Cells
           /\ hours \subseteq Cells
           /\ LastCell \in Nat /\ Cells \subseteq Int /\ NoSlot \notin Int
           /\ now \in Nat
<1>1. ASSUME NEW b \in Bookings  PROVE Held[b] \in Cells \cup {NoSlot}
  BY <1>1 DEF StoreTypeOK, Row, Held
<1> QED  BY <1>1, LastCellAssumption, NoSlotAssumption DEF StoreTypeOK, Present, Cells

(* The people of a visit, as the list of starts and as a confirmation count*)
(* them: the one counts all that is held, the other all but the booking.   *)
LEMMA GroupFits ==
    ASSUME StoreTypeOK, NEW b \in Ordinary \ Present(Held), NEW x \in Cells
    PROVE  OrdinaryFits(Held, b, x)
              <=> ~ PartyDuring(x, Duration[b]) /\ Remaining(x, Duration[b]) >= Attendance[b]
<1> DEFINE d == Duration[b]
           during == {c \in Ordinary \cap Present(Held) :
                        Lo(c, Held[c]) < x + d /\ x < Hi(c, Held[c])}
<1>1. b \notin Parties  BY KindsDisjoint
<1>2. Lo(b, x) = x /\ Hi(b, x) = x + d  BY <1>1 DEF Lo, Hi
<1>3. hasExclusivePartyOverlap(Held, b, x) <=> PartyDuring(x, d)
  BY <1>1, <1>2 DEF hasExclusivePartyOverlap, Overlap, PartyDuring
<1>4. OrdinaryOverlapping(Held, b, x) = during
  BY <1>2 DEF OrdinaryOverlapping, Overlap
<1>5. sumConfirmedAttendance(Held, b, x) = OccupiedDuring(x, d)
  BY <1>4 DEF sumConfirmedAttendance, OccupiedDuring
<1>6. OccupiedDuring(x, d) \in Nat  BY PeopleFinite DEF OccupiedDuring
<1>7. Attendance[b] \in 1 .. Capacity /\ Capacity \in Nat  BY AttendanceAssumption
<1>8. Remaining(x, d) >= Attendance[b]
        <=> OccupiedDuring(x, d) + Attendance[b] <= Capacity
  BY <1>6, <1>7 DEF Remaining, Spare
<1> QED  BY <1>3, <1>5, <1>8 DEF OrdinaryFits

LEMMA OfferedToGroups ==
    ASSUME StoreTypeOK, NEW b \in Ordinary \ Present(Held), NEW x \in Cells
    PROVE  x \in Available(Attendance[b], Duration[b])
              <=> EndsSameDay(b, x) /\ OpenFor(b, x) /\ InWindow(b, x) /\ OrdinaryFits(Held, b, x)
<1> DEFINE d == Duration[b]
<1>1. b \notin Parties /\ d \in Nat \ {0} /\ x \in Int
  BY KindsDisjoint, DurationAssumption, HeldFacts
<1>2. PublicCells(b, x) = x .. (x + d - 1) /\ HeldCells(b, x) = x .. (x + d - 1)
  BY <1>1 DEF PublicCells, PublicHi, HeldCells, Lo, Hi
<1>3. overlapsClosure(x, d) <=> HeldCells(b, x) \cap UNION closures # {}
  BY <1>2 DEF overlapsClosure
<1>4. x \in Starts(d) <=> PublicCells(b, x) \subseteq hours /\ x >= now + LeadTime
  <2>1. x \in x .. (x + d - 1)  BY <1>1
  <2>2. x - now >= LeadTime <=> x >= now + LeadTime
    BY <1>1, HeldFacts, RequestAssumption
  <2> QED  BY <1>2, <2>1, <2>2 DEF Starts
<1>5. PublicCells(b, x) \subseteq hours => EndsSameDay(b, x)
  BY <1>2, HeldFacts DEF EndsSameDay
<1> QED
  BY <1>3, <1>4, <1>5, GroupFits DEF Available, listOrdinary, OpenFor, InWindow

LEMMA OfferedToParties ==
    ASSUME StoreTypeOK, NEW p \in Parties \ Present(Held), NEW x \in Cells
    PROVE  /\ InWindow(p, x) /\ OpenFor(p, x) /\ PartyFits(Held, p, x)
                => x \in listPartyCandidates
           /\ x \in listPartyCandidates => InWindow(p, x)
<1>1. /\ GuestTime \in Nat \ {0} /\ Setup \in Nat /\ Cleanup \in Nat /\ x \in Int
      /\ LeadTime \in Nat /\ now \in Nat
  BY DurationAssumption, HeldFacts, RequestAssumption
<1>2. /\ PublicCells(p, x) = x .. (x + GuestTime - 1)
      /\ HeldCells(p, x) = (x - Setup) .. (x + GuestTime + Cleanup - 1)
  <2>1. PublicHi(p, x) = x + GuestTime  BY DEF PublicHi
  <2>2. Lo(p, x) = x - Setup /\ Hi(p, x) = x + GuestTime + Cleanup  BY DEF Lo, Hi
  <2> QED  BY <1>1, <2>1, <2>2 DEF PublicCells, HeldCells
<1>3. x \in Starts(GuestTime) <=> InWindow(p, x)
  <2>1. x \in x .. (x + GuestTime - 1)  BY <1>1
  <2>2. x - now >= LeadTime <=> x >= now + LeadTime  BY <1>1
  <2> QED  BY <1>2, <2>1, <2>2 DEF Starts, InWindow
<1>4. OpenFor(p, x) => ~ overlapsClosure(x, GuestTime)
  <2>1. x .. (x + GuestTime - 1) \subseteq HeldCells(p, x)  BY <1>1, <1>2
  <2> QED  BY <2>1 DEF OpenFor, overlapsClosure
<1>5. PartyFits(Held, p, x) => ~ PartyDuring(x, GuestTime)
  <2> SUFFICES ASSUME NEW q \in Parties \cap Present(Held),
                      Lo(q, Held[q]) < x + GuestTime, x < Hi(q, Held[q])
               PROVE  hasExclusivePartyOverlap(Held, p, x)
    BY DEF PartyFits, PartyDuring
  <2>1. q # p /\ Held[q] \in Int  BY HeldFacts
  <2>2. Lo(q, Held[q]) \in Int /\ Hi(q, Held[q]) \in Int  BY <1>1, <2>1 DEF Lo, Hi
  <2>3. Lo(p, x) = x - Setup /\ Hi(p, x) = x + GuestTime + Cleanup  BY DEF Lo, Hi
  <2>4. Overlap(q, Held[q], p, x)  BY <1>1, <2>2, <2>3 DEF Overlap
  <2> QED  BY <2>1, <2>4 DEF hasExclusivePartyOverlap
<1> QED  BY <1>3, <1>4, <1>5 DEF listPartyCandidates

(* Intervals of present bookings are intervals of numbers.                 *)
LEMMA EndsAreNumbers ==
    ASSUME StoreTypeOK, NEW b \in Present(Held)
    PROVE  Lo(b, Held[b]) \in Int /\ Hi(b, Held[b]) \in Int
<1>1. Held[b] \in Int /\ b \in Bookings  BY HeldFacts
<1>2. b \notin Parties => Duration[b] \in Nat  BY <1>1, DurationAssumption DEF Bookings
<1> QED  BY <1>1, <1>2, DurationAssumption DEF Lo, Hi

LEMMA OffersAreFree ==
    ASSUME StoreTypeOK, NEW n \in Attending, NEW d \in Lengths, NEW x \in Available(n, d),
           NEW t \in x .. (x + d - 1)
    PROVE  /\ readDay[t].remainingOrdinaryCapacity >= n
           /\ HeadCount(InStudio(Held, t)) + n <= Capacity
<1> DEFINE during == {c \in Ordinary \cap Present(Held) :
                        Lo(c, Held[c]) < x + d /\ x < Hi(c, Held[c])}
           here == InStudio(Held, t)
           blocks == {p \in Parties \cap Present(Held) : t \in HeldCells(p, Held[p])}
<1>1. /\ x \in hours /\ (x .. (x + d - 1)) \subseteq hours
      /\ ~ overlapsClosure(x, d) /\ ~ PartyDuring(x, d) /\ Remaining(x, d) >= n
  BY DEF Available, listOrdinary, Starts
<1>2. x \in Int /\ t \in Int /\ t \in hours  BY <1>1, HeldFacts
<1>3. d \in Nat
  <2>1. IsFiniteSet(Cells)  BY LastCellAssumption, FS_Interval DEF Cells
  <2>2. Cardinality(Cells) \in Nat  BY <2>1, FS_CardinalityType
  <2> QED  BY <2>2 DEF Lengths
<1>4. x <= t /\ t < x + d  BY <1>2, <1>3
<1>5. here \subseteq during
  <2> SUFFICES ASSUME NEW c \in here  PROVE c \in during  OBVIOUS
  <2>1. c \in Ordinary \cap Present(Held) /\ Lo(c, Held[c]) <= t /\ t < Hi(c, Held[c])
    BY DEF InStudio
  <2>2. Lo(c, Held[c]) \in Int /\ Hi(c, Held[c]) \in Int  BY <2>1, EndsAreNumbers
  <2>3. Lo(c, Held[c]) < x + d /\ x < Hi(c, Held[c])  BY <1>2, <1>3, <1>4, <2>1, <2>2
  <2> QED  BY <2>1, <2>3
<1>6. blocks = {}
  <2> SUFFICES ASSUME NEW p \in blocks  PROVE FALSE  OBVIOUS
  <2>1. p \in Parties \cap Present(Held)  OBVIOUS
  <2>2. Lo(p, Held[p]) \in Int /\ Hi(p, Held[p]) \in Int  BY <2>1, EndsAreNumbers
  <2>3. Lo(p, Held[p]) <= t /\ t < Hi(p, Held[p])  BY <1>2, <2>2 DEF HeldCells
  <2>4. Lo(p, Held[p]) < x + d /\ x < Hi(p, Held[p])  BY <1>2, <1>3, <1>4, <2>2, <2>3
  <2> QED  BY <1>1, <2>1, <2>4 DEF PartyDuring
<1>7. t \notin UNION closures  BY <1>1 DEF overlapsClosure
<1>8. readDay[t].remainingOrdinaryCapacity = Spare(HeadCount(here))
  <2>1. readDay[t].remainingOrdinaryCapacity =
          IF blocks # {} \/ t \in UNION closures THEN 0 ELSE Spare(HeadCount(here))
    BY <1>2 DEF readDay
  <2> QED  BY <1>6, <1>7, <2>1
<1>9. /\ HeadCount(here) \in Nat /\ HeadCount(during) \in Nat
      /\ HeadCount(here) <= HeadCount(during)
  <2>1. during \in SUBSET Ordinary /\ here \in SUBSET during  BY <1>5
  <2>2. here \in SUBSET Ordinary  BY <2>1
  <2>3. HeadCount(here) \in Nat /\ HeadCount(during) \in Nat  BY <2>1, <2>2, PeopleFinite
  <2>4. HeadCount(here) <= HeadCount(during)  BY <2>1, HeadCountMonotone
  <2> QED  BY <2>3, <2>4
<1>10. n \in 1 .. Capacity /\ Capacity \in Nat  BY AttendanceAssumption DEF Attending
<1>11. Spare(HeadCount(during)) >= n  BY <1>1 DEF Remaining, OccupiedDuring
<1> HIDE DEF here, during
<1>12. HeadCount(during) + n <= Capacity  BY <1>9, <1>10, <1>11 DEF Spare
<1>13. HeadCount(here) + n <= Capacity  BY <1>9, <1>10, <1>12
<1>14. Spare(HeadCount(here)) >= n  BY <1>9, <1>10, <1>13 DEF Spare
<1> QED  BY <1>8, <1>13, <1>14 DEF here

LEMMA VisitorsAreDrawn ==
    ASSUME StoreTypeOK, PartiesAlone(Held), NEW t \in hours \ UNION closures
    PROVE  InStudio(Held, t) = Listed(t) /\ (Listed(t) = {} \/ Boxed(t) = {})
<1> DEFINE blocks == {p \in Parties \cap Present(Held) : t \in HeldCells(p, Held[p])}
<1>1. t \in Int  BY HeldFacts
<1>2. Listed(t) = IF blocks = {} THEN InStudio(Held, t) ELSE {}
  <2>1. /\ readDay[t].closed = (t \in UNION closures)
        /\ readDay[t].partyBookingIds = blocks
        /\ readDay[t].ordinaryBookings = InStudio(Held, t)
    BY DEF readDay
  <2> QED  BY <2>1 DEF Listed
<1>3. ASSUME NEW p \in blocks, NEW c \in InStudio(Held, t)  PROVE FALSE
  <2>1. /\ c \in Ordinary \cap Present(Held) /\ Lo(c, Held[c]) <= t /\ t < Hi(c, Held[c])
        /\ p \in Parties \cap Present(Held) /\ t \in HeldCells(p, Held[p])
    BY DEF InStudio
  <2>2. /\ Lo(c, Held[c]) \in Int /\ Hi(c, Held[c]) \in Int
        /\ Lo(p, Held[p]) \in Int /\ Hi(p, Held[p]) \in Int
    BY <2>1, EndsAreNumbers
  <2>3. Lo(p, Held[p]) <= t /\ t < Hi(p, Held[p])  BY <1>1, <2>1, <2>2 DEF HeldCells
  <2>4. Overlap(p, Held[p], c, Held[c])  BY <1>1, <2>1, <2>2, <2>3 DEF Overlap
  <2>5. c # p  BY <2>1, KindsDisjoint
  <2> QED  BY <2>1, <2>4, <2>5 DEF PartiesAlone
<1>4. Boxed(t) \subseteq blocks
  <2> SUFFICES ASSUME NEW p \in Boxed(t)  PROVE p \in blocks  OBVIOUS
  <2>1. p \in Parties \cap Present(Held) /\ \E phase \in Phases(p) : t \in phase
    BY DEF Boxed
  <2>2. /\ Held[p] \in Int /\ Setup \in Nat /\ Cleanup \in Nat /\ GuestTime \in Nat
    BY <2>1, HeldFacts, DurationAssumption
  <2>3. t \in (Held[p] - Setup) .. (Held[p] + GuestTime + Cleanup - 1)
    <3>1. \/ t \in (Held[p] - Setup) .. (Held[p] - 1)
          \/ t \in Held[p] .. (Held[p] + GuestTime - 1)
          \/ t \in (Held[p] + GuestTime) .. (Held[p] + GuestTime + Cleanup - 1)
      BY <2>1 DEF Phases
    <3> QED  BY <1>1, <2>2, <3>1
  <2>4. HeldCells(p, Held[p]) = (Held[p] - Setup) .. (Held[p] + GuestTime + Cleanup - 1)
    <3>1. /\ Lo(p, Held[p]) = Held[p] - Setup
          /\ Hi(p, Held[p]) = Held[p] + GuestTime + Cleanup
      BY <2>1 DEF Lo, Hi
    <3> QED  BY <2>2, <3>1 DEF HeldCells
  <2> QED  BY <2>1, <2>3, <2>4
<1> QED  BY <1>2, <1>3, <1>4

(* The list of the customers, the week page and the confirmations of staff *)
(* agree about room in the studio, in every state the services reach.      *)
THEOREM EveryoneSeesTheSame == Spec => []ViewsAgree
<1>1. IInv /\ SafeCalendar(Held) => ViewsAgree
  <2> SUFFICES ASSUME IInv, SafeCalendar(Held)  PROVE ViewsAgree  OBVIOUS
  <2>1. StoreTypeOK  BY DEF IInv, TypeOK
  <2>2. OfferedIsAccepted  BY <2>1, OfferedToGroups, OfferedToParties DEF OfferedIsAccepted
  <2>3. OfferedIsFree  BY <2>1, OffersAreFree DEF OfferedIsFree
  <2>4. EverybodyDrawn  BY <2>1, VisitorsAreDrawn DEF EverybodyDrawn, SafeCalendar
  <2> QED  BY <2>2, <2>3, <2>4 DEF ViewsAgree
<1> QED  BY <1>1, CalendarSafe, InitInv, NextInv, PTL DEF Spec
=============================================================================
