------------------------------ MODULE MCWorkers ------------------------------
(***************************************************************************)
(* A small instance of everything about e-mail: the two workers that each  *)
(* process of the API starts beside its server, the one of the outbox, with*)
(* as many attempts as there are delays, as in the code, and batches that  *)
(* may take longer than a lease lasts, and the one of maintenance, whose   *)
(* reminders the first only finds in the outbox; and the transactions that *)
(* write the other messages.                                               *)
(***************************************************************************)
EXTENDS EmailOutbox, Maintenance, Notifications

MCDelays == <<1, 1, 2>>

OutboxIdle == excused = {} /\ \A m \in Messages : mail[m].status = "absent"

MaintenanceIdle ==
    minute = 0 /\ errors = 0 /\ (\A v \in Visits : visit[v].status = "requested")
    /\ (\A p \in Processes : ~ polled[p])

NothingWritten ==
    day = 0 /\ misfit = {} /\ refused = {} /\ \A r \in Customers : booking[r].status = "absent"

(* The parts are independent: while one moves, the others stand still.  An *)
(* empty outbox has nothing to be fair to.                                 *)
OnePartMoves ==
    \/ MaintenanceIdle /\ NothingWritten /\ Next /\ UNCHANGED <<maintenanceVars, notificationVars>>
    \/ OutboxIdle /\ NothingWritten /\ MaintenanceNext /\ UNCHANGED <<vars, notificationVars>>
    \/ OutboxIdle /\ MaintenanceIdle /\ NotificationsNext /\ UNCHANGED <<vars, maintenanceVars>>

MCInit == Init /\ MaintenanceInit /\ NotificationsInit

MCSpec ==
    /\ MCInit
    /\ [][OnePartMoves]_<<vars, maintenanceVars, notificationVars>>
    /\ Fairness

(* One of the visits is always at the earlier of two times.                *)
OneKeepsItsTime ==
    LET v == CHOOSE v \in Visits : TRUE IN visit[v].start \in {0, 3}

(* Requests never touch each other's rows: one customer at a time.         *)
OneCustomer ==
    \E r \in Customers : \A other \in Customers \ {r} : booking[other].status = "absent"

(* A refused step changes nothing: what can follow it is what can follow   *)
(* the state before it.                                                    *)
NothingRefused == refused = {}

(* The settings lack a text only in the first half of a request's life.    *)
SettingsLack == misfit = {} \/ \A r \in Customers : Len(history[r]) < 3

(* Decisions in flight hold at most three different reads of a booking.    *)
FewReads == \A r \in Experiences : Cardinality(reads[r]) <= 3
=============================================================================
