------------------------------ MODULE Occupancy ------------------------------
(***************************************************************************)
(* The arithmetic of the studio's floor: which intervals overlap, how many *)
(* people a set of ordinary bookings brings, and when a booking fits.      *)
(*                                                                         *)
(* A calendar is a function h from bookings to the start of the interval   *)
(* the booking holds, or NoSlot.  Time is counted in cells of one half     *)
(* hour; date and time of day are one axis, since intervals of two dates   *)
(* never overlap.                                                          *)
(***************************************************************************)
EXTENDS Integers, FiniteSets

CONSTANTS
    Ordinary,       \* ordinary DIY bookings (requestKind "experience")
    Parties,        \* party bookings
    NoSlot,         \* the start of a booking that holds no interval
    Attendance,     \* attendanceCount of each ordinary booking
    Duration,       \* durationMinutes of each ordinary booking, in cells
    Setup,          \* setupMinutes, guestDurationMinutes and cleanupMinutes
    GuestTime,      \* of the party package, in cells
    Cleanup,
    Capacity,       \* the 8 of booking-policy.ts
    LastCell        \* bound: the modelled days end with this cell

Bookings == Ordinary \cup Parties

Cells == 0 .. LastCell

(* bookings.schema and validateOrdinaryAttendance: every ordinary booking  *)
(* brings 1 to 8 people; package durations are positive.                   *)
ASSUME KindsDisjoint == Ordinary \cap Parties = {}
ASSUME FiniteBookings == IsFiniteSet(Ordinary) /\ IsFiniteSet(Parties)
ASSUME NoSlotAssumption == NoSlot \notin Int
ASSUME AttendanceAssumption ==
    Capacity \in Nat /\ Attendance \in [Ordinary -> 1 .. Capacity]
ASSUME DurationAssumption ==
    /\ Duration \in [Ordinary -> Nat \ {0}]
    /\ Setup \in Nat /\ Cleanup \in Nat /\ GuestTime \in Nat \ {0}
ASSUME LastCellAssumption == LastCell \in Nat

(* The half-open interval [Lo, Hi) of booking b when it starts at x.  The  *)
(* start of a party is its guest start; it also holds setup and cleanup.   *)
Lo(b, x) == IF b \in Parties THEN x - Setup ELSE x
Hi(b, x) == IF b \in Parties THEN x + GuestTime + Cleanup ELSE x + Duration[b]

Overlap(b, x, c, y) == Lo(b, x) < Hi(c, y) /\ Lo(c, y) < Hi(b, x)

(* The interval that must lie inside opening hours: a party's guests only. *)
PublicHi(b, x) == IF b \in Parties THEN x + GuestTime ELSE Hi(b, x)
PublicCells(b, x) == x .. (PublicHi(b, x) - 1)
HeldCells(b, x) == Lo(b, x) .. (Hi(b, x) - 1)

Calendar == [Bookings -> Int \cup {NoSlot}]
Present(h) == {b \in Bookings : h[b] # NoSlot}

(* One pair per person: SUM(attendance_count) as a cardinality.            *)
People(B) == {g \in B \X (1 .. Capacity) : g[2] <= Attendance[g[1]]}
HeadCount(B) == Cardinality(People(B))

OrdinaryOverlapping(h, b, x) ==
    {c \in (Ordinary \ {b}) \cap Present(h) : Overlap(c, h[c], b, x)}

sumConfirmedAttendance(h, b, x) == HeadCount(OrdinaryOverlapping(h, b, x))

hasExclusivePartyOverlap(h, b, x) ==
    \E p \in (Parties \ {b}) \cap Present(h) : Overlap(p, h[p], b, x)

(* An ordinary booking joins others up to the capacity; a party is alone.  *)
OrdinaryFits(h, b, x) ==
    /\ ~ hasExclusivePartyOverlap(h, b, x)
    /\ sumConfirmedAttendance(h, b, x) + Attendance[b] <= Capacity

(* A plausible bug: the hold looks at other parties only.                  *)
PartyFitsBesideGuests(h, b, x) == ~ hasExclusivePartyOverlap(h, b, x)

PartyFits(h, b, x) ==
    /\ ~ hasExclusivePartyOverlap(h, b, x)
    /\ sumConfirmedAttendance(h, b, x) = 0

Fits(h, b, x) == IF b \in Parties THEN PartyFits(h, b, x) ELSE OrdinaryFits(h, b, x)

-----------------------------------------------------------------------------
(* What every calendar must satisfy.                                       *)

InStudio(h, t) == {b \in Ordinary \cap Present(h) : Lo(b, h[b]) <= t /\ t < Hi(b, h[b])}

(* At no instant do more ordinary attendees hold the studio than fit.      *)
WithinCapacity(h) == \A t \in Cells : HeadCount(InStudio(h, t)) <= Capacity

(* A party that holds an interval shares no instant with another booking.  *)
PartiesAlone(h) ==
    \A p \in Parties \cap Present(h) : \A c \in Present(h) \ {p} :
        ~ Overlap(p, h[p], c, h[c])

SafeCalendar(h) == WithinCapacity(h) /\ PartiesAlone(h)
=============================================================================
