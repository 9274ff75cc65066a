------------------------------ MODULE EmailOutbox ------------------------------
(***************************************************************************)
(* The transactional e-mail outbox: a row per message, workers (one per    *)
(* process of the API) that lease due rows, send them one after another    *)
(* and record the provider's answer, and the retry button of the admin.    *)
(*                                                                         *)
(* Every instant is kept relative to the present, one unit a minute, so    *)
(* that a run may go on for ever: due and lease count down with Tick.      *)
(***************************************************************************)
EXTENDS Integers, Sequences, FiniteSets

CONSTANTS
    Messages,       \* dedupe keys of the e-mails
    Workers,
    MAX_ATTEMPTS,
    RETRY_DELAYS,   \* RETRY_DELAYS_MINUTES, a sequence
    LEASE,          \* LEASE_MILLISECONDS
    BatchSize,      \* the 20 of claimDue
    Stale,          \* bound: a worker stalls at most this long past its lease
    NoCall          \* the worker has no row in hand

ASSUME OutboxAssumption ==
    MAX_ATTEMPTS \in Nat \ {0} /\ LEASE \in Nat \ {0} /\ BatchSize \in Nat /\ Stale \in Nat
ASSUME DelaysAssumption ==
    RETRY_DELAYS \in Seq(Nat \ {0}) /\ Len(RETRY_DELAYS) > 0

VARIABLES
    mail,           \* email_outbox
    batch,          \* rows a worker has claimed and not taken in hand yet
    call,           \* the row in hand and the provider's answer to it
    accepted,       \* how often the provider took the message, up to 2
    excused         \* messages of which an answer or a claim was lost

vars == <<mail, batch, call, accepted, excused>>

Least(a, b) == IF a <= b THEN a ELSE b
Greatest(a, b) == IF a >= b THEN a ELSE b

Mail ==
    [status : {"absent", "pending", "processing", "sent", "failed"},
     attempts : 0 .. MAX_ATTEMPTS, due : Nat, lease : (0 - Stale) .. LEASE]

(* A row as it was returned by the claim.                                  *)
Snapshot == [msg : Messages, lease : (0 - Stale) .. LEASE, attempts : Nat]

Call ==
    [row : Snapshot, age : Nat, answer : {"waiting", "accepted", "transient", "permanent"}]

ASSUME NoCallAssumption == NoCall \notin Call

TypeOK ==
    /\ mail \in [Messages -> Mail]
    /\ batch \in [Workers -> SUBSET Snapshot]
    /\ call \in [Workers -> Call \cup {NoCall}]
    /\ accepted \in [Messages -> 0 .. 2]
    /\ excused \in SUBSET Messages

Init ==
    /\ mail = [m \in Messages |-> [status |-> "absent", attempts |-> 0, due |-> 0, lease |-> 0]]
    /\ batch = [w \in Workers |-> {}]
    /\ call = [w \in Workers |-> NoCall]
    /\ accepted = [m \in Messages |-> 0]
    /\ excused = {}

-----------------------------------------------------------------------------
(* The rows a worker has in memory.                                        *)
InHand(w) == IF call[w] = NoCall THEN {} ELSE {call[w].row}
Live(w) == batch[w] \cup InHand(w)

(* The condition of markSent and markFailed: the row is still leased by    *)
(* the claim that returned this snapshot.                                  *)
Owns(row) == mail[row.msg].status = "processing" /\ mail[row.msg].lease = row.lease

(* A row nobody has tried yet.                                             *)
Fresh == [status |-> "pending", attempts |-> 0, due |-> 0, lease |-> 0]

(* INSERT ... ON CONFLICT DO NOTHING, in the transaction that changed the  *)
(* status of the booking.                                                  *)
Enqueue(m) ==
    /\ mail[m].status = "absent"
    /\ mail' = [mail EXCEPT ![m] = Fresh]
    /\ UNCHANGED <<batch, call, accepted, excused>>

(* Plausible bugs: the lease of another worker is not looked at, or only   *)
(* pending rows are.                                                       *)
ClaimableAnyway(m) ==
    /\ mail[m].attempts < MAX_ATTEMPTS
    /\ (mail[m].status = "pending" /\ mail[m].due = 0) \/ mail[m].status = "processing"

ClaimablePending(m) ==
    mail[m].attempts < MAX_ATTEMPTS /\ mail[m].status = "pending" /\ mail[m].due = 0

Claimable(m) ==
    /\ mail[m].attempts < MAX_ATTEMPTS
    /\ \/ mail[m].status = "pending" /\ mail[m].due = 0
       \/ mail[m].status = "processing" /\ mail[m].lease <= 0

(* The claim, if any, that the row belongs to is in some worker's memory.  *)
Contested(m) == \E w \in Workers : \E row \in Live(w) : row.msg = m /\ Owns(row)

(* drain is single-flight: a worker claims when its last batch is done.    *)
(* The earliest due rows are taken, but a row that another transaction has *)
(* locked is skipped, so any of the due rows may end up in the batch.      *)
Claim(w, taken) ==
    /\ Live(w) = {}
    /\ taken # {} /\ Cardinality(taken) <= BatchSize
    /\ \A m \in taken : Claimable(m)
    /\ mail' = [m \in Messages |->
            IF m \in taken THEN [mail[m] EXCEPT !.status = "processing", !.lease = LEASE]
            ELSE mail[m]]
    /\ batch' = [batch EXCEPT ![w] =
            {[msg |-> m, lease |-> LEASE, attempts |-> mail[m].attempts] : m \in taken}]
    /\ excused' = excused \cup {m \in taken : Contested(m)}
    /\ UNCHANGED <<call, accepted>>

(* deliverOne: whether the lease still runs is not asked.                  *)
Send(w, row) ==
    /\ call[w] = NoCall /\ row \in batch[w]
    /\ batch' = [batch EXCEPT ![w] = @ \ {row}]
    /\ call' = [call EXCEPT ![w] = [row |-> row, age |-> 0, answer |-> "waiting"]]
    /\ UNCHANGED <<mail, accepted, excused>>

Waiting(w) == call[w] # NoCall /\ call[w].answer = "waiting"
Take(m) == accepted' = [accepted EXCEPT ![m] = Least(@ + 1, 2)]

(* The provider, an external service, takes the message.                   *)
Accept(w) ==
    /\ Waiting(w)
    /\ Take(call[w].row.msg)
    /\ call' = [call EXCEPT ![w].answer = "accepted"]
    /\ UNCHANGED <<mail, batch, excused>>

(* It refuses it (an invalid row is refused before it is sent).            *)
Refuse(w, answer) ==
    /\ Waiting(w) /\ answer \in {"transient", "permanent"}
    /\ call' = [call EXCEPT ![w].answer = answer]
    /\ UNCHANGED <<mail, batch, accepted, excused>>

(* It takes the message, and the network loses the answer.                 *)
LoseAnswer(w) ==
    /\ Waiting(w)
    /\ Take(call[w].row.msg)
    /\ excused' = excused \cup {call[w].row.msg}
    /\ call' = [call EXCEPT ![w].answer = "transient"]
    /\ UNCHANGED <<mail, batch>>

MarkSent(w) ==
    /\ call[w] # NoCall /\ call[w].answer = "accepted"
    /\ LET row == call[w].row IN
        mail' = IF Owns(row)
                THEN [mail EXCEPT ![row.msg] =
                        [status |-> "sent", attempts |-> @.attempts + 1, due |-> @.due,
                         lease |-> 0]]
                ELSE mail
    /\ call' = [call EXCEPT ![w] = NoCall]
    /\ UNCHANGED <<batch, accepted, excused>>

(* How long after now the next attempt is: counted from the attempt.       *)
NextAttempt(c) ==
    Greatest(0, RETRY_DELAYS[Least(c.row.attempts + 1, Len(RETRY_DELAYS))] - c.age)

(* A plausible bug: one attempt too many.                                  *)
ExhaustedLater(row) == row.attempts + 1 > MAX_ATTEMPTS

Exhausted(row) == row.attempts + 1 >= MAX_ATTEMPTS

(* A plausible bug: the row is updated by its id alone.                    *)
MarkFailedBlindly(w) ==
    /\ call[w] # NoCall /\ call[w].answer \in {"transient", "permanent"}
    /\ LET row == call[w].row
           again == call[w].answer = "transient" /\ ~ Exhausted(row) IN
        mail' = [mail EXCEPT ![row.msg] =
                    [status |-> IF again THEN "pending" ELSE "failed",
                     attempts |-> @.attempts + 1, due |-> NextAttempt(call[w]),
                     lease |-> 0]]
    /\ call' = [call EXCEPT ![w] = NoCall]
    /\ UNCHANGED <<batch, accepted, excused>>

MarkFailed(w) ==
    /\ call[w] # NoCall /\ call[w].answer \in {"transient", "permanent"}
    /\ LET row == call[w].row
           again == call[w].answer = "transient" /\ ~ Exhausted(row) IN
        mail' = IF Owns(row)
                THEN [mail EXCEPT ![row.msg] =
                        [status |-> IF again THEN "pending" ELSE "failed",
                         attempts |-> @.attempts + 1, due |-> NextAttempt(call[w]),
                         lease |-> 0]]
                ELSE mail
    /\ call' = [call EXCEPT ![w] = NoCall]
    /\ UNCHANGED <<batch, accepted, excused>>

(* The process dies, or the database refuses markSent or markFailed and    *)
(* the error ends the drain: the rest of the batch is forgotten.  A call   *)
(* that is still waiting may yet be taken by the provider.                 *)
Crash(w) ==
    /\ Live(w) # {}
    /\ batch' = [batch EXCEPT ![w] = {}]
    /\ call' = [call EXCEPT ![w] = NoCall]
    /\ \/ /\ excused' = excused \cup {row.msg : row \in {r \in InHand(w) : call[w].answer = "accepted"}}
          /\ UNCHANGED accepted
       \/ /\ Waiting(w) /\ Take(call[w].row.msg)
          /\ excused' = excused \cup {call[w].row.msg}
    /\ UNCHANGED mail

(* A plausible bug: a delivery in progress may be retried too.             *)
RetryUnsent(m) ==
    /\ mail[m].status \in {"failed", "processing"}
    /\ mail' = [mail EXCEPT ![m] = Fresh]
    /\ UNCHANGED <<batch, call, accepted, excused>>

(* The admin retries a failed delivery.                                    *)
Retry(m) ==
    /\ mail[m].status = "failed"
    /\ mail' = [mail EXCEPT ![m] = Fresh]
    /\ UNCHANGED <<batch, call, accepted, excused>>

Older(row) == [row EXCEPT !.lease = @ - 1]

(* A minute passes.                                                        *)
Tick ==
    /\ \A w \in Workers : \A row \in Live(w) : row.lease > 0 - Stale
    /\ mail' = [m \in Messages |->
            [mail[m] EXCEPT !.due = Greatest(0, @ - 1),
                            !.lease = IF mail[m].status = "processing"
                                      THEN Greatest(0 - Stale, @ - 1) ELSE @]]
    /\ batch' = [w \in Workers |-> {Older(row) : row \in batch[w]}]
    /\ call' = [w \in Workers |->
            IF call[w] = NoCall THEN NoCall
            ELSE [call[w] EXCEPT !.row = Older(@), !.age = @ + 1]]
    /\ UNCHANGED <<accepted, excused>>

Answer(w) == Accept(w) \/ LoseAnswer(w) \/ \E a \in {"transient", "permanent"} : Refuse(w, a)
Record(w) == MarkSent(w) \/ MarkFailed(w)

Next ==
    \/ \E m \in Messages : Enqueue(m) \/ Retry(m)
    \/ \E w \in Workers :
        \/ \E taken \in SUBSET Messages : Claim(w, taken)
        \/ \E row \in batch[w] : Send(w, row)
        \/ Answer(w) \/ Record(w) \/ Crash(w)
    \/ Tick

Spec == Init /\ [][Next]_vars

-----------------------------------------------------------------------------
(* A row belongs to at most one claim: two workers that both have it in    *)
(* memory hold different leases, only one of which can still be the one of *)
(* the row, and whoever lost the row lost it because its lease ran out.    *)
LeaseFences ==
    \A w \in Workers : \A row \in Live(w) :
        /\ Owns(row) => row.attempts = mail[row.msg].attempts
        /\ ~ Owns(row) => row.lease <= 0
        /\ \A v \in Workers : \A other \in Live(v) :
            (other.msg = row.msg /\ <<v, other>> # <<w, row>>) => other.lease # row.lease

(* No message is stuck: whatever answers, crashes and late records happen, *)
(* one that is neither sent nor failed can still be claimed.               *)
NeverStuck ==
    \A m \in Messages :
        mail[m].status \in {"pending", "processing"} => mail[m].attempts < MAX_ATTEMPTS

(* The provider takes a message twice only if an answer was lost or a      *)
(* lease ran out while a worker had the row.                               *)
DuplicatesExcused == \A m \in Messages : accepted[m] > 1 => m \in excused

(* A message that is recorded as sent stays so: neither a late worker nor  *)
(* the admin puts it back, and it was taken by the provider.               *)
SentIsFinal ==
    [][\A m \in Messages :
        /\ mail[m].status = "sent" => mail'[m] = mail[m]
        /\ (mail'[m].status = "sent" /\ mail[m].status # "sent") => accepted[m] > 0]_vars

-----------------------------------------------------------------------------
(* Time passes; a worker goes through its batch; it polls often enough to  *)
(* meet every due row; and, for every message, not every answer is late or *)
(* lost with the worker.                                                   *)
InTime(w, m) == call[w] # NoCall /\ call[w].row.msg = m /\ Owns(call[w].row)

Fairness ==
    /\ WF_vars(Tick)
    /\ \A w \in Workers : WF_vars(Record(w)) /\ WF_vars(Answer(w))
    /\ \A w \in Workers : WF_vars(\E row \in batch[w] : Send(w, row))
    /\ \A m \in Messages :
        /\ SF_vars(\E w \in Workers : \E taken \in SUBSET Messages :
                m \in taken /\ Claim(w, taken))
        /\ SF_vars(\E w \in Workers : \E row \in batch[w] :
                row.msg = m /\ Owns(row) /\ Send(w, row))
        /\ SF_vars(\E w \in Workers : InTime(w, m) /\ Answer(w))
        /\ SF_vars(\E w \in Workers : InTime(w, m) /\ Record(w))

LiveSpec == Spec /\ Fairness

(* Every enqueued e-mail is eventually recorded as sent or as failed, so   *)
(* that staff sees it: none is forgotten by a crash or a lost lease.       *)
Settles ==
    \A m \in Messages :
        (mail[m].status \in {"pending", "processing"}) ~> (mail[m].status \in {"sent", "failed"})
=============================================================================
