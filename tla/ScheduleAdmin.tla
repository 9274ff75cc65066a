---------------------------- MODULE ScheduleAdmin ----------------------------
(***************************************************************************)
(* The schedule editor: weekly and special hours and closures.  An edit    *)
(* that hits reservations is refused with their numbers and a fingerprint  *)
(* of the whole schedule state; repeating it with that fingerprint is the  *)
(* acknowledgement that lets it through.  One clerk edits at a time.       *)
(***************************************************************************)
EXTENDS BookingStore

CONSTANTS
    NoAck,          \* an edit sent without acknowledgement
    ClosureChoices, \* sets of cells a closure may cover
    HourChoices     \* sets of cells the hours of the day may be set to

(* What an acknowledgement quotes: the state a refused edit was shown.     *)
Fingerprints ==
    [kind : {"closure", "hours"}, cells : SUBSET Cells, affected : SUBSET Bookings,
     hours : SUBSET Cells, closures : SUBSET SUBSET Cells,
     bookings : SUBSET (Bookings \X Statuses \X (Cells \cup {NoSlot}))]

ASSUME ChoicesAssumption ==
    ClosureChoices \subseteq SUBSET Cells /\ HourChoices \subseteq SUBSET Cells
ASSUME NoAckAssumption == NoAck \notin Fingerprints

VARIABLES
    edit,           \* the edit in progress
    shown           \* the last conflict fingerprint the editor was shown

NoEdit == [stage |-> "idle", kind |-> "closure", cells |-> {}, ack |-> NoAck]

Edits == ({"closure"} \X ClosureChoices) \cup ({"hours"} \X HourChoices)

AdminTypeOK ==
    /\ edit \in [stage : {"idle", "asked", "locked", "write"}, kind : {"closure", "hours"},
                 cells : SUBSET Cells, ack : Fingerprints \cup {NoAck}]
    /\ shown \in Fingerprints \cup {NoAck}

AdminInit == edit = NoEdit /\ shown = NoAck

(* findAffectedBookingNumbers and findBookingsOutsideSpecialHours.         *)
Affected(kind, cells) ==
    {b \in Present(Held) :
        IF kind = "closure" THEN HeldCells(b, Held[b]) \cap cells # {}
        ELSE ~ (PublicCells(b, Held[b]) \subseteq cells)}

(* scheduleConflictFingerprint over the edit, the schedule and every       *)
(* booking that holds the studio.                                          *)
Fingerprint(kind, cells) ==
    [kind |-> kind, cells |-> cells, affected |-> Affected(kind, cells),
     hours |-> hours, closures |-> closures,
     bookings |-> {<<b, rows[b].status, rows[b].start>> : b \in Present(Held)}]

BeginEdit(kind, cells, ack) ==
    /\ edit.stage = "idle"
    /\ <<kind, cells>> \in Edits
    /\ ack \in {NoAck, shown}
    /\ edit' = [stage |-> "asked", kind |-> kind, cells |-> cells, ack |-> ack]
    /\ UNCHANGED <<shown, tables, calendar, sessions, now>>

(* A plausible bug: the editor does not wait for the lock.                 *)
LockEditAtOnce ==
    /\ edit.stage = "asked"
    /\ lock' = Clerk
    /\ edit' = [edit EXCEPT !.stage = "locked"]
    /\ UNCHANGED <<shown, pc, req, tables, calendar, now>>

LockEdit ==
    /\ edit.stage = "asked"
    /\ lock = Free /\ lock' = Clerk
    /\ edit' = [edit EXCEPT !.stage = "locked"]
    /\ UNCHANGED <<shown, pc, req, tables, calendar, now>>

Release == lock' = IF lock = Clerk THEN Free ELSE lock

(* Either the acknowledgement covers what is affected, or the edit is      *)
(* refused with the present fingerprint.                                   *)
CheckEdit ==
    LET mark == Fingerprint(edit.kind, edit.cells) IN
    /\ edit.stage = "locked"
    /\ \/ /\ mark.affected = {} \/ edit.ack = mark
          /\ edit' = [edit EXCEPT !.stage = "write"]
          /\ UNCHANGED <<shown, lock>>
       \/ /\ mark.affected # {} /\ edit.ack # mark
          /\ shown' = mark /\ edit' = NoEdit
          /\ Release
    /\ UNCHANGED <<pc, req, tables, calendar, now>>

CommitEdit ==
    /\ edit.stage = "write"
    /\ closures' = IF edit.kind = "closure" THEN closures \cup {edit.cells} ELSE closures
    /\ hours' = IF edit.kind = "hours" THEN edit.cells ELSE hours
    /\ edit' = NoEdit
    /\ Release
    /\ UNCHANGED <<shown, pc, req, tables, now>>

AbortEdit ==
    /\ edit.stage # "idle"
    /\ edit' = NoEdit
    /\ Release
    /\ UNCHANGED <<shown, pc, req, tables, calendar, now>>

(* deleteClosure runs under the lock and asks nobody.                      *)
DeleteClosure(cells) ==
    /\ lock = Free /\ edit.stage = "idle"
    /\ cells \in closures
    /\ closures' = closures \ {cells}
    /\ UNCHANGED <<edit, shown, hours, tables, sessions, now>>
=============================================================================
