----------------------------- MODULE StudioViews -----------------------------
(***************************************************************************)
(* What the studio shows of its calendar: the starts offered to customers  *)
(* (availability.service), and the week page of the admin site, half hour  *)
(* by half hour (booking-calendar.repository and the page that draws it).  *)
(* Each computes free room in a way of its own, and none is the one by     *)
(* which a confirmation decides (OrdinaryWorkflow, PartyWorkflow).         *)
(***************************************************************************)
EXTENDS Studio

Attending == 1 .. Capacity
Lengths == 1 .. Cardinality(Cells)

(* generateThirtyMinuteStarts and validateBookingSlot for a visit of d     *)
(* half hours; a closed day (hours = {}) has none.                         *)
Starts(d) == {x \in hours : (x .. (x + d - 1)) \subseteq hours /\ x - now >= LeadTime}

overlapsClosure(x, d) == \E cells \in closures : (x .. (x + d - 1)) \cap cells # {}

(* A plausible bug: parties keep the studio while their guests are there.  *)
PartyWhileGuests(x, d) ==
    \E p \in Parties \cap Present(Held) :
        Held[p] < x + d /\ x < Held[p] + GuestTime

PartyDuring(x, d) ==
    \E p \in Parties \cap Present(Held) :
        Lo(p, Held[p]) < x + d /\ x < Hi(p, Held[p])

OccupiedDuring(x, d) ==
    HeadCount({c \in Ordinary \cap Present(Held) :
        Lo(c, Held[c]) < x + d /\ x < Hi(c, Held[c])})

Spare(n) == IF n < Capacity THEN Capacity - n ELSE 0

Remaining(x, d) == Spare(OccupiedDuring(x, d))

(* The starts listed for a group of n that stays d half hours, and those   *)
(* of them at which there is room for it now; the rest is a waitlist.      *)
listOrdinary(d) ==
    {x \in Starts(d) : ~ overlapsClosure(x, d) /\ ~ PartyDuring(x, d)}

Available(n, d) == {x \in listOrdinary(d) : Remaining(x, d) >= n}

(* A party asks for the time of its guests; the ordinary bookings in its   *)
(* way, and its own setup and cleanup, are looked at by staff.             *)
listPartyCandidates ==
    {x \in Starts(GuestTime) : ~ overlapsClosure(x, GuestTime) /\ ~ PartyDuring(x, GuestTime)}

-----------------------------------------------------------------------------
(* The calendar of the admin site: one record per opening half hour.       *)

readDay ==
    [t \in hours |->
        LET here == InStudio(Held, t)
            blocks == {p \in Parties \cap Present(Held) : t \in HeldCells(p, Held[p])}
            closed == t \in UNION closures IN
        [ordinaryBookings |-> here, partyBookingIds |-> blocks, closed |-> closed,
         remainingOrdinaryCapacity |->
            IF blocks # {} \/ closed THEN 0 ELSE Spare(HeadCount(here))]]

(* The page lists the visitors of a half hour on its capacity card, which  *)
(* it draws only where nothing is closed and no party is.                  *)
Listed(t) ==
    IF t \in hours /\ ~ readDay[t].closed /\ readDay[t].partyBookingIds = {}
    THEN readDay[t].ordinaryBookings ELSE {}

(* The boxes of a party: setup, guests, cleanup.                           *)
Phases(p) ==
    LET guests == Held[p] IN
    {(guests - Setup) .. (guests - 1), guests .. (guests + GuestTime - 1),
     (guests + GuestTime) .. (guests + GuestTime + Cleanup - 1)}

Boxed(t) == {p \in Parties \cap Present(Held) : \E phase \in Phases(p) : t \in phase}

-----------------------------------------------------------------------------
(* A start is offered to a group exactly if staff could confirm the group  *)
(* there this instant, and every start at which a party could be held is   *)
(* a candidate, at which a request would be taken.                         *)
OfferedIsAccepted ==
    /\ \A b \in Ordinary \ Present(Held), x \in Cells :
        x \in Available(Attendance[b], Duration[b])
            <=> EndsSameDay(b, x) /\ OpenFor(b, x) /\ InWindow(b, x) /\ OrdinaryFits(Held, b, x)
    /\ \A p \in Parties \ Present(Held), x \in Cells :
        /\ (InWindow(p, x) /\ OpenFor(p, x) /\ PartyFits(Held, p, x)) => x \in listPartyCandidates
        /\ x \in listPartyCandidates => InWindow(p, x)

(* A group that takes an offered start brings no half hour over capacity,  *)
(* and the week page shows seats for all of it in each of its half hours.  *)
OfferedIsFree ==
    \A n \in Attending, d \in Lengths : \A x \in Available(n, d) :
        \A t \in x .. (x + d - 1) :
            /\ readDay[t].remainingOrdinaryCapacity >= n
            /\ HeadCount(InStudio(Held, t)) + n <= Capacity

(* Whoever is in the studio while it is open is on the page: next to a     *)
(* party's boxes no visitor is listed, and none may be missing.            *)
EverybodyDrawn ==
    \A t \in hours \ UNION closures :
        /\ InStudio(Held, t) = Listed(t)
        /\ Listed(t) = {} \/ Boxed(t) = {}

(* Customers' list, the week page and the confirmations of staff, computed *)
(* by three pieces of code, agree about room in the studio.                *)
ViewsAgree == OfferedIsAccepted /\ OfferedIsFree /\ EverybodyDrawn
=============================================================================
