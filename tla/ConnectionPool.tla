---------------------------- MODULE ConnectionPool ----------------------------
(***************************************************************************)
(* The connections one API process has to Postgres, and the requests that  *)
(* share them.  A request keeps one connection from BEGIN to COMMIT.  The  *)
(* studio schedule, though, is read through the pool (resolveDay uses db,  *)
(* not tx): in the middle of its transaction, often under the schedule     *)
(* lock, a request asks for a second connection.  Nothing times out.       *)
(***************************************************************************)
EXTENDS Integers, Sequences, FiniteSets

CONSTANTS
    Requests,       \* requests served at the same time
    PoolSize,       \* the max of createDb
    Nobody          \* holder of a free schedule lock

VARIABLES
    kind,           \* what each request does
    pc,             \* how far it is
    rest,           \* what its transaction still does before COMMIT
    queue,          \* requests that wait for a connection, first come first served
    lock            \* holder of the schedule lock

vars == <<kind, pc, rest, queue, lock>>

(* What each transaction does that may have to wait: take the schedule     *)
(* lock, and read the schedule through the pool.                           *)
Program ==
    [createOrdinary |-> <<"lock", "read">>, confirm |-> <<"lock", "read">>,
     accept |-> <<"lock", "read">>, propose |-> <<"read", "lock", "read">>,
     createParty |-> <<"read">>, edit |-> <<"lock">>, other |-> << >>]

Kinds == DOMAIN Program

TypeOK ==
    /\ kind \in [Requests -> Kinds]
    /\ pc \in [Requests -> {"idle", "asked", "open", "asking", "reading"}]
    /\ rest \in [Requests -> Seq({"lock", "read"})]
    /\ queue \in Seq(Requests)
    /\ lock \in Requests \cup {Nobody}

Init ==
    /\ kind = [r \in Requests |-> "other"]
    /\ pc = [r \in Requests |-> "idle"]
    /\ rest = [r \in Requests |-> << >>]
    /\ queue = << >>
    /\ lock = Nobody

-----------------------------------------------------------------------------
(* Connections in use: one for each open transaction, and one more for     *)
(* each schedule read that runs beside it.                                 *)
InTransaction == {r \in Requests : pc[r] \in {"open", "asking", "reading"}}
Reading == {r \in Requests : pc[r] = "reading"}
InUse == Cardinality(InTransaction) + Cardinality(Reading)

To(r, place) == pc' = [pc EXCEPT ![r] = place]

(* A request arrives and begins its transaction when it gets a connection. *)
Ask(r, k) ==
    /\ pc[r] = "idle"
    /\ kind' = [kind EXCEPT ![r] = k]
    /\ rest' = [rest EXCEPT ![r] = Program[k]]
    /\ To(r, "asked") /\ queue' = Append(queue, r)
    /\ UNCHANGED lock

(* The pool hands a free connection to whoever has waited longest.         *)
Connect ==
    /\ queue # << >> /\ InUse < PoolSize
    /\ LET r == Head(queue) IN To(r, IF pc[r] = "asked" THEN "open" ELSE "reading")
    /\ queue' = Tail(queue)
    /\ UNCHANGED <<kind, rest, lock>>

Doing(r, what) == pc[r] = "open" /\ rest[r] # << >> /\ Head(rest[r]) = what

LockSchedule(r) ==
    /\ Doing(r, "lock")
    /\ lock = Nobody /\ lock' = r
    /\ rest' = [rest EXCEPT ![r] = Tail(@)]
    /\ UNCHANGED <<kind, pc, queue>>

ResolveDay(r) ==
    /\ Doing(r, "read")
    /\ To(r, "asking") /\ queue' = Append(queue, r)
    /\ UNCHANGED <<kind, rest, lock>>

Resolved(r) ==
    /\ pc[r] = "reading"
    /\ To(r, "open") /\ rest' = [rest EXCEPT ![r] = Tail(@)]
    /\ UNCHANGED <<kind, queue, lock>>

Unlocked(r) == IF lock = r THEN Nobody ELSE lock

(* COMMIT, or ROLLBACK after an error of a statement that is running.      *)
End(r) ==
    /\ pc[r] = "open" /\ ~ Doing(r, "lock")
    /\ To(r, "idle") /\ lock' = Unlocked(r)
    /\ rest' = [rest EXCEPT ![r] = << >>]
    /\ UNCHANGED <<kind, queue>>

(* The process dies and is started again: nobody waits any more.           *)
Restart ==
    /\ pc' = [r \in Requests |-> "idle"] /\ rest' = [r \in Requests |-> << >>]
    /\ queue' = << >> /\ lock' = Nobody
    /\ UNCHANGED kind

Step(r) == LockSchedule(r) \/ ResolveDay(r) \/ Resolved(r) \/ (rest[r] = << >> /\ End(r))

Next ==
    \/ \E r \in Requests : (\E k \in Kinds : Ask(r, k)) \/ Step(r) \/ End(r)
    \/ Connect \/ Restart

Spec == Init /\ [][Next]_vars

(* Statements that can run do run, the pool serves its queue, Postgres     *)
(* serves those who wait for the lock.  Nobody restarts a process because  *)
(* its requests wait.                                                      *)
Fairness ==
    /\ WF_vars(Connect)
    /\ \A r \in Requests : SF_vars(LockSchedule(r)) /\ WF_vars(Step(r))

LiveSpec == Spec /\ Fairness

(* Concurrent confirmations are serialized: each gets its turn and is      *)
(* answered, by a commit or by a conflict.                                 *)
ConfirmationsSerialized ==
    \A r \in Requests : (pc[r] = "asked" /\ kind[r] = "confirm") ~> (pc[r] = "idle")
=============================================================================
