---------------------------- MODULE MCBackOffice ----------------------------
(***************************************************************************)
(* A small instance of what runs behind the public site: two accounts, and *)
(* one tab of staff on one request of any kind.  They share no state but   *)
(* the session that the API compares with the account on each request; a   *)
(* request it refuses is one that fails, and any may.                      *)
(***************************************************************************)
EXTENDS Accounts, StaffDesk, TLC

Symmetry == Permutations(Requests) \cup Permutations(Links)

AccountsIdle ==
    /\ clock = 0 /\ session = [u \in Users |-> NoSession]
    /\ task = [s \in Requests |-> NoTask]

DeskIdle ==
    /\ \A d \in Desks : page[d] = "orders" /\ \A r \in reads : r.serial = 1 /\ ~ r.read
    /\ \A d \in Desks : shown[d] = NothingShown /\ loading[d]
    /\ \A i \in Items : kind[i] = "order" /\ Len(log[i]) = 1
    /\ Cardinality(reads) = Cardinality(Desks) /\ opened = 0

(* The parts are independent: while one moves, the other stands still.     *)
OnePartMoves ==
    \/ DeskIdle /\ Next /\ UNCHANGED deskVars
    \/ AccountsIdle /\ DeskNext /\ UNCHANGED vars

MCInit == Init /\ DeskInit

MCSpec == MCInit /\ [][OnePartMoves]_<<vars, deskVars>>

(* A queue opens one dialog and submits once; the page of a request may do *)
(* both twice.                                                             *)
QueuesOnce == \A d \in Desks : page[d] \in Queues => opened <= 1 /\ sent <= 1
=============================================================================
