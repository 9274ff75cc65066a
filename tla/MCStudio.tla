------------------------------- MODULE MCStudio -------------------------------
(***************************************************************************)
(* Small instances of Studio.  Bookings, sessions and operation ids are    *)
(* model values; the configurations choose how many of each there are.     *)
(***************************************************************************)
EXTENDS StudioViews, TLC

(* Two of these groups do not fit together; one fits with nobody else.     *)
MCAttendance == [o \in Ordinary |-> 2]
MCDuration == [o \in Ordinary |-> 1]

NoChoices == {}
MCClosure == {{1}}
MCHours == {{0}}

(* The schedule is edited before the first request: edits and requests that*)
(* overlap are what MCAdministration explores.                             *)
EditsFirst ==
    edit.stage # "idle" => \A b \in Bookings : rows[b].status = "absent"

Symmetry == Permutations(Sessions) \cup Permutations(Ops) \cup Permutations(Ordinary)
=============================================================================
