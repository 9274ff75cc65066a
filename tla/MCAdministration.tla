--------------------------- MODULE MCAdministration ---------------------------
(***************************************************************************)
(* A small instance of what administrators do: the schedule is edited while*)
(* customers and staff reserve; the page it is edited on; the catalogue and*)
(* the projects behind their cache; and the secrets of site and API.       *)
(***************************************************************************)
EXTENDS MCStudio, ScheduleDesk, SiteContent, InternalRequests

MCVisits == {{"v1"}, {"v1", "v2"}}

(* Whatever was edited, the earlier week is closed when "v2" is reserved.  *)
MCUndone(from, at) == IF from = at THEN {} ELSE {"v2"}

ClocksAgree == TransportInit /\ skew = [i \in Instances |-> 0]

(* The parts are independent: while one moves, the others stand still.  As *)
(* they start there is nothing to be fair to.                              *)
OnePartMoves ==
    \/ /\ DeskInit /\ ContentInit /\ ClocksAgree
       /\ Next /\ UNCHANGED <<deskVars, contentVars, transportVars>>
    \/ /\ Init /\ ContentInit /\ ClocksAgree
       /\ DeskNext /\ UNCHANGED <<vars, contentVars, transportVars>>
    \/ /\ Init /\ DeskInit /\ ClocksAgree
       /\ ContentNext /\ UNCHANGED <<vars, deskVars, transportVars>>
    \/ /\ Init /\ DeskInit /\ ContentInit
       /\ TransportNext /\ UNCHANGED <<vars, deskVars, contentVars>>

MCInit == Init /\ DeskInit /\ ContentInit /\ TransportInit

MCSpec ==
    /\ MCInit
    /\ [][OnePartMoves]_<<vars, deskVars, contentVars, transportVars>>
    /\ Fairness
=============================================================================
