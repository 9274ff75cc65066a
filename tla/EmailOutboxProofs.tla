-------------------------- MODULE EmailOutboxProofs --------------------------
(***************************************************************************)
(* The outbox for any number of messages and workers, any lease, delays    *)
(* and number of attempts: types, fencing by leases, no stuck message, no  *)
(* duplicate without a reason, and finality of "sent".                     *)
(***************************************************************************)
EXTENDS EmailOutbox, TLAPS

(* A claim in memory is never newer than the row's present claim, and a    *)
(* row in hand has left the batch.                                         *)
Fenced ==
    /\ LeaseFences
    /\ \A w \in Workers : \A row \in Live(w) :
        mail[row.msg].status = "processing" => row.lease <= mail[row.msg].lease
    /\ \A w \in Workers : call[w] # NoCall => call[w].row \notin batch[w]

(* A row that may still be sent has an attempt left; one that is being     *)
(* sent, or was, is due.                                                   *)
Attempting ==
    \A m \in Messages :
        /\ mail[m].status \notin {"sent", "failed"} => mail[m].attempts < MAX_ATTEMPTS
        /\ mail[m].status \in {"processing", "sent"} => mail[m].due = 0

(* Unless an answer or a claim of a message was lost, whoever has it in    *)
(* memory owns it, and what the provider took is recorded or about to be.  *)
Accounted ==
    /\ \A w \in Workers :
        (call[w] # NoCall /\ call[w].answer = "accepted") => accepted[call[w].row.msg] > 0
    /\ \A m \in Messages \ excused :
        /\ \A w \in Workers : \A row \in Live(w) : row.msg = m => Owns(row)
        /\ accepted[m] <= 1
        /\ accepted[m] = 1 =>
            \/ mail[m].status = "sent"
            \/ \E w \in Workers : call[w] # NoCall /\ call[w].row.msg = m
                                    /\ call[w].answer = "accepted"

IInv == TypeOK /\ Fenced /\ Attempting /\ Accounted

LEMMA LiveMember ==
    \A w, row : row \in Live(w) <=> row \in batch[w] \/ (call[w] # NoCall /\ row = call[w].row)
BY DEF Live, InHand

LEMMA LiveType ==
    ASSUME TypeOK, NEW w \in Workers, NEW row \in Live(w)
    PROVE  row \in Snapshot /\ row.msg \in Messages /\ row.lease \in (0 - Stale) .. LEASE
BY LiveMember DEF TypeOK, Call, Snapshot

LEMMA InitInv == Init => IInv
<1> SUFFICES ASSUME Init  PROVE IInv  OBVIOUS
<1> USE OutboxAssumption DEF Init
<1>1. TypeOK  BY DEF TypeOK, Mail
<1>2. \A w \in Workers : Live(w) = {}  BY DEF Live, InHand
<1>3. Fenced  BY <1>2 DEF Fenced, LeaseFences
<1>4. Attempting /\ Accounted  BY <1>2 DEF Attempting, Accounted
<1> QED  BY <1>1, <1>3, <1>4 DEF IInv

(* Steps that forget claims and release at most one row keep the fences.   *)
LEMMA ReleaseFenced ==
    ASSUME TypeOK, Fenced, NEW m \in Messages,
           \A w \in Workers : Live(w)' \subseteq Live(w),
           \A n \in Messages \ {m} : mail'[n] = mail[n],
           \/ mail'[m] = mail[m]
           \/ /\ mail'[m].status # "processing"
              /\ \A w \in Workers : \A row \in Live(w)' : row.msg = m => row.lease <= 0,
           \A w \in Workers : call'[w] # NoCall => call'[w].row \notin batch'[w]
    PROVE  Fenced'
<1>1. ASSUME NEW w \in Workers, NEW row \in Live(w)'
      PROVE  /\ Owns(row)' => row.attempts = mail'[row.msg].attempts
             /\ ~ Owns(row)' => row.lease <= 0
             /\ mail'[row.msg].status = "processing" => row.lease <= mail'[row.msg].lease
  <2>1. row \in Live(w) /\ row.msg \in Messages  BY <1>1, LiveType
  <2>2. CASE mail'[row.msg] = mail[row.msg]
    BY <2>1, <2>2 DEF Fenced, LeaseFences, Owns
  <2>3. CASE mail'[row.msg] # mail[row.msg]
    <3>1. row.msg = m  BY <2>1, <2>3
    <3> QED  BY <1>1, <2>3, <3>1 DEF Owns
  <2> QED  BY <2>2, <2>3
<1>2. ASSUME NEW w \in Workers, NEW row \in Live(w)', NEW v \in Workers, NEW other \in Live(v)',
             other.msg = row.msg, <<v, other>> # <<w, row>>
      PROVE  other.lease # row.lease
  BY <1>2 DEF Fenced, LeaseFences
<1> QED  BY <1>1, <1>2 DEF Fenced, LeaseFences

(* A row starts afresh while nobody owns it.                               *)
LEMMA FreshInv ==
    ASSUME IInv, NEW m \in Messages, mail[m].status \in {"absent", "failed"},
           mail' = [mail EXCEPT ![m] = Fresh], UNCHANGED <<batch, call, accepted, excused>>
    PROVE  IInv'
<1> USE DEF IInv
<1>1. UNCHANGED <<batch, call, accepted, excused>>  OBVIOUS
<1>2. \A w : Live(w)' = Live(w)  BY <1>1 DEF Live, InHand
<1>3. mail'[m] = Fresh /\ \A n \in Messages \ {m} : mail'[n] = mail[n]
  BY DEF TypeOK
<1>4. Fresh \in Mail  BY OutboxAssumption DEF Mail, Fresh
<1>5. TypeOK'  BY <1>1, <1>4 DEF TypeOK
<1>6. \A w \in Workers : \A row \in Live(w) : row.msg = m => ~ Owns(row)
  BY DEF Owns
<1>7. Fenced'
  <2>1. \A w \in Workers : \A row \in Live(w)' : row.msg = m => row.lease <= 0
    BY <1>2, <1>6 DEF Fenced, LeaseFences
  <2>2. mail'[m].status # "processing"  BY <1>3 DEF Fresh
  <2> QED  BY <1>1, <1>2, <1>3, <2>1, <2>2, ReleaseFenced DEF Fenced
<1>8. Attempting'  BY <1>3, OutboxAssumption DEF Attempting, Fresh
<1>9. Accounted'
  <2>1. ASSUME NEW w \in Workers, NEW row \in Live(w)', row.msg \in Messages \ excused
        PROVE  Owns(row)'
    <3>1. Owns(row) /\ row.msg # m  BY <1>2, <1>6, <2>1 DEF Accounted
    <3> QED  BY <1>3, <2>1, <3>1 DEF Owns
  <2>2. ASSUME NEW n \in Messages \ excused, accepted[n] = 1
        PROVE  \/ mail'[n].status = "sent"
               \/ \E w \in Workers : call[w] # NoCall /\ call[w].row.msg = n
                                       /\ call[w].answer = "accepted"
    <3>1. CASE n = m  BY <2>2, <3>1 DEF Accounted
    <3>2. CASE n # m  BY <1>3, <2>2, <3>2 DEF Accounted
    <3> QED  BY <3>1, <3>2
  <2> QED  BY <1>1, <2>1, <2>2 DEF Accounted
<1> QED  BY <1>5, <1>7, <1>8, <1>9
(* A new lease lies ahead, an old one behind.                              *)
LEMMA ClaimInv ==
    ASSUME IInv, NEW w \in Workers, NEW taken \in SUBSET Messages, Claim(w, taken)
    PROVE  IInv'
<1> USE DEF IInv
<1> DEFINE lent(m) == [msg |-> m, lease |-> LEASE, attempts |-> mail[m].attempts]
           leased(m) == [mail[m] EXCEPT !.status = "processing", !.lease = LEASE]
<1>1. /\ Live(w) = {}
      /\ \A m \in taken : Claimable(m)
      /\ mail' = [m \in Messages |-> IF m \in taken THEN leased(m) ELSE mail[m]]
      /\ batch' = [batch EXCEPT ![w] = {lent(m) : m \in taken}]
      /\ excused' = excused \cup {m \in taken : Contested(m)}
      /\ UNCHANGED <<call, accepted>>
  BY DEF Claim
<1>2. ASSUME NEW m \in taken
      PROVE  /\ leased(m) \in Mail /\ leased(m).status = "processing"
             /\ leased(m).lease = LEASE /\ leased(m).due = mail[m].due
             /\ leased(m).attempts = mail[m].attempts
             /\ lent(m) \in Snapshot
  <2>1. /\ mail[m] \in Mail /\ mail[m].due \in Nat
        /\ mail[m].attempts \in 0 .. MAX_ATTEMPTS /\ mail[m].attempts \in Nat
    BY OutboxAssumption DEF TypeOK, Mail
  <2>2. LEASE \in (0 - Stale) .. LEASE  BY OutboxAssumption
  <2>3. leased(m) \in Mail  BY <2>1, <2>2 DEF Mail
  <2>4. lent(m) \in Snapshot  BY <2>1, <2>2 DEF Snapshot
  <2>5. /\ leased(m).status = "processing" /\ leased(m).lease = LEASE
        /\ leased(m).due = mail[m].due /\ leased(m).attempts = mail[m].attempts
    BY <2>1 DEF Mail
  <2> QED  BY <2>3, <2>4, <2>5
<1>3. \A m \in Messages : mail'[m] = IF m \in taken THEN leased(m) ELSE mail[m]
  BY <1>1
<1>4. TypeOK'
  <2>1. mail' \in [Messages -> Mail]  BY <1>1, <1>2 DEF TypeOK
  <2>2. batch' \in [Workers -> SUBSET Snapshot]
    <3>1. {lent(m) : m \in taken} \in SUBSET Snapshot  BY <1>2
    <3> QED  BY <1>1, <3>1 DEF TypeOK
  <2>3. excused' \in SUBSET Messages  BY <1>1 DEF TypeOK
  <2> QED  BY <1>1, <2>1, <2>2, <2>3 DEF TypeOK
<1>5. /\ call[w] = NoCall
      /\ \A v \in Workers \ {w} : Live(v)' = Live(v)
      /\ \A row : row \in Live(w)' <=> \E m \in taken : row = lent(m)
  <2>1. call[w] = NoCall
    <3>1. call[w] # NoCall => call[w].row \in Live(w)  BY LiveMember
    <3> QED  BY <1>1, <3>1
  <2>2. \A v \in Workers \ {w} : Live(v)' = Live(v)
    BY <1>1 DEF Live, InHand, TypeOK
  <2>3. Live(w)' = {lent(m) : m \in taken}
    <3>1. InHand(w)' = {}  BY <1>1, <2>1 DEF InHand
    <3>2. batch'[w] = {lent(m) : m \in taken}  BY <1>1 DEF TypeOK
    <3> QED  BY <3>1, <3>2 DEF Live
  <2> QED  BY <2>1, <2>2, <2>3
(* Nobody who had the row before has a lease that still runs.              *)
<1>6. ASSUME NEW v \in Workers \ {w}, NEW row \in Live(v), row.msg \in taken
      PROVE  row.lease <= 0 /\ row \in Snapshot
  <2>1. row \in Snapshot  BY LiveType
  <2>2. CASE Owns(row)
    BY <1>1, <1>6, <2>2, <2>1 DEF Claimable, Owns
  <2>3. CASE ~ Owns(row)
    <3>1. row.lease <= 0  BY <2>3 DEF Fenced, LeaseFences
    <3> QED  BY <2>1, <3>1
  <2> QED  BY <2>2, <2>3
<1>7. ASSUME NEW m \in taken
      PROVE  /\ lent(m).msg = m /\ lent(m).lease = LEASE /\ Owns(lent(m))'
             /\ lent(m).attempts = mail'[m].attempts
  BY <1>2, <1>3 DEF Owns
<1>8. Fenced'
  <2>1. ASSUME NEW v \in Workers, NEW row \in Live(v)'
        PROVE  /\ Owns(row)' => row.attempts = mail'[row.msg].attempts
               /\ ~ Owns(row)' => row.lease <= 0
               /\ mail'[row.msg].status = "processing" => row.lease <= mail'[row.msg].lease
    <3>1. CASE v = w
      <4>1. PICK m \in taken : row = lent(m)  BY <1>5, <2>1, <3>1
      <4>2. row.msg = m /\ row.lease = LEASE /\ Owns(row)'
            /\ row.attempts = mail'[m].attempts
        BY <1>7, <4>1
      <4>3. mail'[m].lease = LEASE  BY <1>2, <1>3
      <4> QED  BY <4>2, <4>3, OutboxAssumption
    <3>2. CASE v # w
      <4>1. row \in Live(v) /\ row.msg \in Messages  BY <1>5, <2>1, <3>2, LiveType
      <4>2. CASE row.msg \in taken
        <5>1. mail'[row.msg].lease = LEASE  BY <1>2, <1>3, <4>1, <4>2
        <5>2. row.lease <= 0 /\ row.lease \in Int
          BY <1>6, <3>2, <4>1, <4>2, OutboxAssumption DEF Snapshot
        <5> QED  BY <5>1, <5>2, OutboxAssumption DEF Owns
      <4>3. CASE row.msg \notin taken
        <5>1. mail'[row.msg] = mail[row.msg]  BY <1>3, <4>1, <4>3
        <5> QED  BY <4>1, <5>1 DEF Fenced, LeaseFences, Owns
      <4> QED  BY <4>2, <4>3
    <3> QED  BY <3>1, <3>2
  <2>2. ASSUME NEW v \in Workers, NEW row \in Live(v)',
               NEW u \in Workers, NEW other \in Live(u)',
               other.msg = row.msg, <<u, other>> # <<v, row>>
        PROVE  other.lease # row.lease
    <3>1. CASE v = w /\ u = w
      <4>1. PICK m \in taken : row = lent(m)  BY <1>5, <2>2, <3>1
      <4>2. PICK n \in taken : other = lent(n)  BY <1>5, <2>2, <3>1
      <4> QED  BY <2>2, <3>1, <4>1, <4>2
    <3>2. CASE v = w /\ u # w
      <4>1. PICK m \in taken : row = lent(m)  BY <1>5, <2>2, <3>2
      <4>2. other.lease <= 0 /\ other \in Snapshot  BY <1>5, <1>6, <2>2, <3>2, <4>1
      <4> QED  BY <4>1, <4>2, OutboxAssumption DEF Snapshot
    <3>3. CASE v # w /\ u = w
      <4>1. PICK m \in taken : other = lent(m)  BY <1>5, <2>2, <3>3
      <4>2. row.lease <= 0 /\ row \in Snapshot  BY <1>5, <1>6, <2>2, <3>3, <4>1
      <4> QED  BY <4>1, <4>2, OutboxAssumption DEF Snapshot
    <3>4. CASE v # w /\ u # w
      BY <1>5, <2>2, <3>4 DEF Fenced, LeaseFences
    <3> QED  BY <3>1, <3>2, <3>3, <3>4
  <2>3. ASSUME NEW v \in Workers, call'[v] # NoCall  PROVE call'[v].row \notin batch'[v]
    <3>1. v # w /\ call[v] # NoCall  BY <1>1, <1>5, <2>3
    <3> QED  BY <1>1, <3>1 DEF Fenced, TypeOK
  <2> QED  BY <2>1, <2>2, <2>3 DEF Fenced, LeaseFences
<1>9. Attempting'
  <2>1. ASSUME NEW m \in taken  PROVE mail[m].attempts < MAX_ATTEMPTS /\ mail[m].due = 0
    BY <1>1 DEF Claimable, Attempting
  <2> QED  BY <1>2, <1>3, <2>1 DEF Attempting
<1>10. Accounted'
  <2>1. ASSUME NEW v \in Workers, NEW row \in Live(v)', row.msg \in Messages \ excused'
        PROVE  Owns(row)'
    <3>1. CASE v = w
      <4>1. PICK m \in taken : row = lent(m)  BY <1>5, <2>1, <3>1
      <4> QED  BY <1>7, <4>1
    <3>2. CASE v # w
      <4>1. row \in Live(v) /\ Owns(row)
        <5>1. row \in Live(v) /\ row.msg \in Messages \ excused  BY <1>1, <1>5, <2>1, <3>2
        <5> QED  BY <5>1 DEF Accounted
      <4>2. row.msg \notin taken  BY <1>1, <2>1, <4>1 DEF Contested
      <4> QED  BY <1>3, <2>1, <4>1, <4>2 DEF Owns
    <3> QED  BY <3>1, <3>2
  <2>2. ASSUME NEW m \in Messages \ excused', accepted[m] = 1
        PROVE  \/ mail'[m].status = "sent"
               \/ \E v \in Workers : call[v] # NoCall /\ call[v].row.msg = m
                                       /\ call[v].answer = "accepted"
    <3>1. m \in Messages \ excused  BY <1>1, <2>2
    <3>2. CASE mail[m].status = "sent"
      <4>1. m \notin taken  BY <1>1, <3>2 DEF Claimable
      <4> QED  BY <1>3, <3>1, <3>2, <4>1
    <3> QED  BY <2>2, <3>1, <3>2 DEF Accounted
  <2> QED  BY <1>1, <2>1, <2>2 DEF Accounted
<1> QED  BY <1>4, <1>8, <1>9, <1>10
(* The row goes from the batch into the worker's hands.                    *)
LEMMA SendInv ==
    ASSUME IInv, NEW w \in Workers, NEW row \in batch[w], Send(w, row)
    PROVE  IInv'
<1> USE DEF IInv
<1> DEFINE c == [row |-> row, age |-> 0, answer |-> "waiting"]
<1>1. /\ call[w] = NoCall
      /\ batch' = [batch EXCEPT ![w] = batch[w] \ {row}]
      /\ call' = [call EXCEPT ![w] = c]
      /\ UNCHANGED <<mail, accepted, excused>>
  BY DEF Send
<1>2. row \in Snapshot /\ row.msg \in Messages  BY DEF TypeOK, Snapshot
<1>3. c \in Call /\ c # NoCall  BY <1>2, NoCallAssumption DEF Call
<1>4. /\ call'[w] = c /\ batch'[w] = batch[w] \ {row}
      /\ \A v \in Workers \ {w} : call'[v] = call[v] /\ batch'[v] = batch[v]
  BY <1>1 DEF TypeOK
<1>5. TypeOK'
  <2>1. batch' \in [Workers -> SUBSET Snapshot]  BY <1>1 DEF TypeOK
  <2>2. call' \in [Workers -> Call \cup {NoCall}]  BY <1>1, <1>3 DEF TypeOK
  <2> QED  BY <1>1, <2>1, <2>2 DEF TypeOK
<1>6. \A v \in Workers : Live(v)' = Live(v)
  <2>1. Live(w) = batch[w]  BY <1>1 DEF Live, InHand
  <2>2. InHand(w)' = {row}  BY <1>3, <1>4 DEF InHand
  <2>3. Live(w)' = (batch[w] \ {row}) \cup {row}  BY <1>4, <2>2 DEF Live
  <2>4. Live(w)' = Live(w)  BY <2>1, <2>3
  <2> QED  BY <1>4, <2>4 DEF Live, InHand
<1>7. Fenced'
  <2>1. \A v \in Workers : call'[v] # NoCall => call'[v].row \notin batch'[v]
    BY <1>4 DEF Fenced
  <2> QED  BY <1>1, <1>2, <1>6, <2>1, ReleaseFenced
<1>8. Attempting'  BY <1>1 DEF Attempting
<1>9. Accounted'
  <2>1. ASSUME NEW m \in Messages \ excused, NEW v \in Workers, NEW other \in Live(v)',
               other.msg = m
        PROVE  Owns(other)'
    BY <1>1, <1>6, <2>1 DEF Accounted, Owns
  <2>2. ASSUME NEW m \in Messages \ excused, accepted[m] = 1
        PROVE  \/ mail[m].status = "sent"
               \/ \E v \in Workers : call'[v] # NoCall /\ call'[v].row.msg = m
                                       /\ call'[v].answer = "accepted"
    BY <1>1, <1>4, <2>2 DEF Accounted
  <2>3. \A v \in Workers :
            (call'[v] # NoCall /\ call'[v].answer = "accepted") => accepted[call'[v].row.msg] > 0
    BY <1>4 DEF Accounted
  <2> QED  BY <1>1, <2>1, <2>2, <2>3 DEF Accounted
<1> QED  BY <1>5, <1>7, <1>8, <1>9

(* Unless it is excused, the message a worker waits for has not been taken.*)
LEMMA NotTakenYet ==
    ASSUME IInv, NEW w \in Workers, call[w] # NoCall, call[w].answer # "accepted",
           call[w].row.msg \notin excused
    PROVE  accepted[call[w].row.msg] = 0
<1> USE DEF IInv
<1> DEFINE m == call[w].row.msg
<1>1. call[w].row \in Live(w) /\ m \in Messages \ excused
  BY LiveMember, LiveType
<1>2. Owns(call[w].row)  BY <1>1 DEF Accounted
<1>3. mail[m].status = "processing"  BY <1>2 DEF Owns
<1>4. ASSUME NEW v \in Workers, call[v] # NoCall, call[v].row.msg = m
      PROVE  v = w
  <2>1. call[v].row \in Live(v)  BY <1>4, LiveMember
  <2>2. Owns(call[v].row)  BY <1>1, <1>4, <2>1 DEF Accounted
  <2>3. call[v].row.lease = call[w].row.lease  BY <1>2, <1>4, <2>2 DEF Owns
  <2> QED  BY <1>1, <1>4, <2>1, <2>3 DEF Fenced, LeaseFences
<1>5. accepted[m] # 1  BY <1>1, <1>3, <1>4 DEF Accounted
<1>6. accepted[m] <= 1 /\ accepted[m] \in 0 .. 2  BY <1>1 DEF Accounted, TypeOK
<1> QED  BY <1>5, <1>6

(* The provider answers, and takes the message or does not.                *)
LEMMA AnswerInv ==
    ASSUME IInv, NEW w \in Workers, Answer(w)
    PROVE  IInv'
<1> USE DEF IInv
<1> DEFINE m == call[w].row.msg
<1>1. PICK a \in {"accepted", "transient", "permanent"} :
        /\ Waiting(w) /\ UNCHANGED <<mail, batch>>
        /\ call' = [call EXCEPT ![w].answer = a]
        /\ \/ Take(m) /\ UNCHANGED excused /\ a = "accepted"
           \/ Take(m) /\ excused' = excused \cup {m} /\ a = "transient"
           \/ UNCHANGED <<accepted, excused>> /\ a # "accepted"
  BY DEF Answer, Accept, LoseAnswer, Refuse
<1>2. call[w] \in Call /\ call[w] # NoCall /\ call[w].answer = "waiting" /\ m \in Messages
      /\ call[w].row \in Live(w) /\ accepted[m] \in 0 .. 2
  <2>1. call[w] \in Call /\ call[w] # NoCall /\ call[w].answer = "waiting"
    BY <1>1 DEF Waiting, TypeOK
  <2>2. call[w].row \in Live(w)  BY <2>1, LiveMember
  <2>3. m \in Messages  BY <2>2, LiveType
  <2> QED  BY <2>1, <2>2, <2>3 DEF TypeOK
<1>3. /\ call'[w] = [call[w] EXCEPT !.answer = a]
      /\ \A v \in Workers \ {w} : call'[v] = call[v]
  BY <1>1 DEF TypeOK
<1>4. call'[w] \in Call /\ call'[w] # NoCall /\ call'[w].row = call[w].row /\ call'[w].answer = a
  BY <1>2, <1>3, NoCallAssumption DEF Call
<1>5. \A v \in Workers : Live(v)' = Live(v)
  BY <1>1, <1>2, <1>3, <1>4 DEF Live, InHand
<1>6. /\ accepted' \in [Messages -> 0 .. 2] /\ excused' \in SUBSET Messages
      /\ \A n \in Messages : accepted'[n] >= accepted[n]
      /\ \A n \in Messages \ {m} : accepted'[n] = accepted[n]
      /\ Take(m) => accepted'[m] = Least(accepted[m] + 1, 2)
      /\ excused \subseteq excused'
  BY <1>1, <1>2 DEF Take, Least, TypeOK
<1>7. TypeOK'
  <2>1. call' \in [Workers -> Call \cup {NoCall}]
    <3>1. call' = [call EXCEPT ![w] = call'[w]]  BY <1>1, <1>3 DEF TypeOK
    <3> QED  BY <1>4, <3>1 DEF TypeOK
  <2> QED  BY <1>1, <1>6, <2>1 DEF TypeOK
<1>8. Fenced'
  <2>1. \A v \in Workers : call'[v] # NoCall => call'[v].row \notin batch'[v]
    BY <1>1, <1>2, <1>3, <1>4 DEF Fenced
  <2> QED  BY <1>1, <1>2, <1>5, <2>1, ReleaseFenced
<1>9. Attempting'  BY <1>1 DEF Attempting
<1>10. Accounted'
  <2>1. ASSUME NEW v \in Workers, call'[v] # NoCall, call'[v].answer = "accepted"
        PROVE  accepted'[call'[v].row.msg] > 0
    <3>1. CASE v = w
      <4>1. Take(m)  BY <1>1, <1>4, <2>1, <3>1
      <4> QED  BY <1>2, <1>4, <1>6, <3>1, <4>1 DEF Least
    <3>2. CASE v # w
      <4>1. call[v] # NoCall /\ call[v].answer = "accepted" /\ call'[v] = call[v]
        BY <1>3, <2>1, <3>2
      <4>2. call[v].row.msg \in Messages  BY <4>1, LiveMember, LiveType
      <4>3. accepted[call[v].row.msg] > 0  BY <4>1 DEF Accounted
      <4> QED  BY <1>6, <4>1, <4>2, <4>3 DEF TypeOK
    <3> QED  BY <3>1, <3>2
  <2>2. ASSUME NEW n \in Messages \ excused', NEW v \in Workers, NEW other \in Live(v)',
               other.msg = n
        PROVE  Owns(other)'
    BY <1>1, <1>5, <1>6, <2>2 DEF Accounted, Owns
  <2>3. ASSUME NEW n \in Messages \ excused'
        PROVE  /\ accepted'[n] <= 1
               /\ accepted'[n] = 1 =>
                    \/ mail'[n].status = "sent"
                    \/ \E v \in Workers : call'[v] # NoCall /\ call'[v].row.msg = n
                                            /\ call'[v].answer = "accepted"
    <3>1. n \in Messages \ excused  BY <1>6, <2>3
    <3>2. CASE n = m
      <4>1. accepted[m] = 0  BY <1>2, <3>1, <3>2, NotTakenYet
      <4>2. CASE Take(m)
        <5>1. accepted'[m] = 1  BY <1>6, <4>1, <4>2 DEF Least
        <5>2. a = "accepted" \/ UNCHANGED accepted  BY <1>1, <2>3, <3>2
        <5> QED  BY <1>4, <3>2, <4>1, <5>1, <5>2
      <4>3. CASE ~ Take(m)  BY <1>1, <3>2, <4>1, <4>3
      <4> QED  BY <4>2, <4>3
    <3>3. CASE n # m
      <4>1. accepted'[n] = accepted[n] /\ accepted[n] <= 1  BY <1>6, <3>1, <3>3 DEF Accounted
      <4>2. ASSUME accepted[n] = 1, mail[n].status # "sent"
            PROVE  \E v \in Workers : call'[v] # NoCall /\ call'[v].row.msg = n
                                        /\ call'[v].answer = "accepted"
        <5>1. PICK v \in Workers : call[v] # NoCall /\ call[v].row.msg = n
                                   /\ call[v].answer = "accepted"
          BY <3>1, <4>2 DEF Accounted
        <5>2. v # w  BY <1>2, <5>1
        <5> QED  BY <1>3, <5>1, <5>2
      <4> QED  BY <1>1, <4>1, <4>2
    <3> QED  BY <3>2, <3>3
  <2> QED  BY <2>1, <2>2, <2>3 DEF Accounted
<1> QED  BY <1>7, <1>8, <1>9, <1>10
(* The worker is done with a row: it was not its own any more, or it is    *)
(* recorded.                                                               *)
LEMMA DoneInv ==
    ASSUME IInv, NEW w \in Workers, call[w] # NoCall,
           call' = [call EXCEPT ![w] = NoCall], UNCHANGED <<batch, accepted, excused>>,
           \/ ~ Owns(call[w].row) /\ UNCHANGED mail
           \/ /\ Owns(call[w].row)
              /\ mail' = [mail EXCEPT ![call[w].row.msg] = mail'[call[w].row.msg]]
              /\ mail'[call[w].row.msg] \in Mail
              /\ mail'[call[w].row.msg].status \in {"pending", "failed", "sent"}
              /\ mail'[call[w].row.msg].status = "pending" =>
                    mail'[call[w].row.msg].attempts < MAX_ATTEMPTS
              /\ mail'[call[w].row.msg].status = "sent" => mail'[call[w].row.msg].due = 0
              /\ call[w].answer = "accepted" => mail'[call[w].row.msg].status = "sent"
    PROVE  IInv'
<1> USE DEF IInv
<1> DEFINE row == call[w].row
           m == row.msg
<1>1. row \in Live(w) /\ m \in Messages /\ row \notin batch[w]
  BY LiveMember, LiveType DEF Fenced
<1>2. /\ call'[w] = NoCall /\ \A v \in Workers \ {w} : call'[v] = call[v]
      /\ UNCHANGED <<batch, accepted, excused>>
  BY DEF TypeOK
<1>3. ASSUME NEW v \in Workers, NEW other \in Live(v)'
      PROVE  other \in Live(v) /\ <<v, other>> # <<w, row>>
  <2>1. CASE v = w
    <3>1. other \in batch[w]  BY <1>2, <1>3, <2>1 DEF Live, InHand
    <3> QED  BY <1>1, <2>1, <3>1, LiveMember
  <2>2. CASE v # w  BY <1>2, <1>3, <2>2 DEF Live, InHand
  <2> QED  BY <2>1, <2>2
<1>4. ASSUME Owns(row), NEW v \in Workers, NEW other \in Live(v)', other.msg = m
      PROVE  ~ Owns(other) /\ other.lease <= 0
  <2>1. other.lease # row.lease  BY <1>1, <1>3, <1>4 DEF Fenced, LeaseFences
  <2>2. ~ Owns(other)  BY <1>4, <2>1 DEF Owns
  <2> QED  BY <1>3, <1>4, <2>2 DEF Fenced, LeaseFences
<1>5. \A n \in Messages \ {m} : mail'[n] = mail[n]  BY <1>1 DEF TypeOK
<1>6. TypeOK'
  <2>1. mail' \in [Messages -> Mail]  BY <1>1 DEF TypeOK
  <2>2. call' \in [Workers -> Call \cup {NoCall}]  BY DEF TypeOK
  <2> QED  BY <1>2, <2>1, <2>2 DEF TypeOK
<1>7. Fenced'
  <2>1. \A v \in Workers : Live(v)' \subseteq Live(v)  BY <1>3
  <2>2. \A v \in Workers : call'[v] # NoCall => call'[v].row \notin batch'[v]
    BY <1>2 DEF Fenced
  <2>3. \/ mail'[m] = mail[m]
        \/ /\ mail'[m].status # "processing"
           /\ \A v \in Workers : \A other \in Live(v)' : other.msg = m => other.lease <= 0
    BY <1>4
  <2> QED  BY <1>1, <1>5, <2>1, <2>2, <2>3, ReleaseFenced
<1>8. Attempting'
  <2>1. CASE UNCHANGED mail  BY <2>1 DEF Attempting
  <2>2. CASE Owns(row) /\ ~ UNCHANGED mail  BY <1>5, <2>2 DEF Attempting
  <2> QED  BY <2>1, <2>2
<1>9. Accounted'
  <2>1. ASSUME NEW n \in Messages \ excused, NEW v \in Workers, NEW other \in Live(v)',
               other.msg = n
        PROVE  Owns(other)'
    <3>1. other \in Live(v) /\ Owns(other)  BY <1>3, <2>1 DEF Accounted
    <3>2. CASE n = m
      <4>1. Owns(row)  BY <1>1, <2>1, <3>2 DEF Accounted
      <4> QED  BY <1>4, <2>1, <3>1, <3>2, <4>1
    <3>3. CASE n # m  BY <1>5, <2>1, <3>1, <3>3 DEF Owns
    <3> QED  BY <3>2, <3>3
  <2>2. ASSUME NEW n \in Messages \ excused, accepted[n] = 1, mail'[n].status # "sent"
        PROVE  \E v \in Workers : call'[v] # NoCall /\ call'[v].row.msg = n
                                    /\ call'[v].answer = "accepted"
    <3>1. n # m
      <4> SUFFICES ASSUME n = m  PROVE FALSE  OBVIOUS
      <4>1. Owns(row)  BY <1>1, <2>2 DEF Accounted
      <4>2. call[w].answer = "accepted"  BY <2>2, NotTakenYet
      <4> QED  BY <2>2, <4>1, <4>2
    <3>2. mail[n].status # "sent"  BY <1>5, <2>2, <3>1
    <3>3. PICK v \in Workers : call[v] # NoCall /\ call[v].row.msg = n
                               /\ call[v].answer = "accepted"
      BY <2>2, <3>2 DEF Accounted
    <3> QED  BY <1>2, <3>1, <3>3
  <2>3. \A v \in Workers :
            (call'[v] # NoCall /\ call'[v].answer = "accepted") => accepted[call'[v].row.msg] > 0
    BY <1>2 DEF Accounted
  <2>4. excused' = excused /\ accepted' = accepted  BY <1>2
  <2>5. \A n \in Messages \ excused :
            /\ accepted[n] <= 1
            /\ accepted[n] = 1 =>
                \/ mail'[n].status = "sent"
                \/ \E v \in Workers : call'[v] # NoCall /\ call'[v].row.msg = n
                                        /\ call'[v].answer = "accepted"
    BY <2>2 DEF Accounted
  <2>6. \A n \in Messages \ excused : \A v \in Workers : \A other \in Live(v)' :
            other.msg = n => Owns(other)'
    BY <2>1
  <2>7. \A v \in Workers :
            (call'[v] # NoCall /\ call'[v].answer = "accepted") => accepted'[call'[v].row.msg] > 0
    BY <2>3, <2>4
  <2>8. \A n \in Messages \ excused' :
            /\ \A v \in Workers : \A other \in Live(v)' : other.msg = n => Owns(other)'
            /\ accepted'[n] <= 1
            /\ accepted'[n] = 1 =>
                \/ mail'[n].status = "sent"
                \/ \E v \in Workers : call'[v] # NoCall /\ call'[v].row.msg = n
                                        /\ call'[v].answer = "accepted"
    BY <2>4, <2>5, <2>6
  <2> QED  BY <2>7, <2>8 DEF Accounted
<1> QED  BY <1>6, <1>7, <1>8, <1>9

LEMMA NextAttemptType ==
    ASSUME NEW c \in Call  PROVE NextAttempt(c) \in Nat
<1>1. c.row.attempts \in Nat /\ c.age \in Nat  BY DEF Call, Snapshot
<1>2. Least(c.row.attempts + 1, Len(RETRY_DELAYS)) \in 1 .. Len(RETRY_DELAYS)
  BY <1>1, DelaysAssumption DEF Least
<1>3. RETRY_DELAYS[Least(c.row.attempts + 1, Len(RETRY_DELAYS))] \in Nat
  BY <1>2, DelaysAssumption
<1> QED  BY <1>1, <1>3 DEF NextAttempt, Greatest

LEMMA RecordInv ==
    ASSUME IInv, NEW w \in Workers, Record(w)
    PROVE  IInv'
<1> USE DEF IInv
<1> DEFINE row == call[w].row
           m == row.msg
<1>1. /\ call[w] # NoCall /\ call[w] \in Call /\ row \in Live(w) /\ m \in Messages
      /\ mail[m] \in Mail /\ mail[m].attempts \in 0 .. MAX_ATTEMPTS
  <2>1. call[w] # NoCall  BY DEF Record, MarkSent, MarkFailed
  <2>2. row \in Live(w) /\ m \in Messages  BY <2>1, LiveMember, LiveType
  <2> QED  BY <2>1, <2>2 DEF TypeOK, Mail
<1>2. /\ call' = [call EXCEPT ![w] = NoCall] /\ UNCHANGED <<batch, accepted, excused>>
      /\ ~ Owns(row) => UNCHANGED mail
  BY DEF Record, MarkSent, MarkFailed
<1>3. ASSUME Owns(row)
      PROVE  /\ mail[m].status = "processing" /\ mail[m].attempts < MAX_ATTEMPTS
             /\ mail[m].due = 0 /\ row.attempts = mail[m].attempts
             /\ mail[m].attempts + 1 \in 0 .. MAX_ATTEMPTS /\ 0 \in (0 - Stale) .. LEASE
  <2>1. mail[m].status = "processing"  BY <1>3 DEF Owns
  <2>2. mail[m].attempts < MAX_ATTEMPTS /\ mail[m].due = 0  BY <1>1, <2>1 DEF Attempting
  <2>3. row.attempts = mail[m].attempts  BY <1>1, <1>3 DEF Fenced, LeaseFences
  <2> QED  BY <1>1, <2>1, <2>2, <2>3, OutboxAssumption
<1>4. CASE Owns(row) /\ MarkSent(w)
  <2> DEFINE new == [status |-> "sent", attempts |-> mail[m].attempts + 1,
                     due |-> mail[m].due, lease |-> 0]
  <2>1. mail' = [mail EXCEPT ![m] = new]  BY <1>4 DEF MarkSent
  <2>2. mail'[m] = new  BY <1>1, <2>1 DEF TypeOK
  <2>3. new \in Mail  BY <1>3, <1>4 DEF Mail
  <2>5. new.status = "sent" /\ new.due = 0  BY <1>3, <1>4
  <2>4. mail' = [mail EXCEPT ![m] = mail'[m]]  BY <2>1, <2>2
  <2> QED  BY <1>1, <1>2, <1>4, <2>2, <2>3, <2>4, <2>5, DoneInv
<1>5. CASE Owns(row) /\ MarkFailed(w)
  <2> DEFINE again == call[w].answer = "transient" /\ ~ Exhausted(row)
             new == [status |-> IF again THEN "pending" ELSE "failed",
                     attempts |-> mail[m].attempts + 1, due |-> NextAttempt(call[w]), lease |-> 0]
  <2>1. mail' = [mail EXCEPT ![m] = new] /\ call[w].answer # "accepted"
    BY <1>5 DEF MarkFailed
  <2>2. mail'[m] = new  BY <1>1, <2>1 DEF TypeOK
  <2>3. NextAttempt(call[w]) \in Nat  BY <1>1, NextAttemptType
  <2>4. new \in Mail  BY <1>3, <1>5, <2>3 DEF Mail
  <2>5. new.status \in {"pending", "failed"}  OBVIOUS
  <2>6. new.status = "pending" => new.attempts < MAX_ATTEMPTS
    BY <1>1, <1>3, <1>5, OutboxAssumption DEF Exhausted
  <2>7. mail' = [mail EXCEPT ![m] = mail'[m]]  BY <2>1, <2>2
  <2> QED  BY <1>1, <1>2, <1>5, <2>1, <2>2, <2>4, <2>5, <2>6, <2>7, DoneInv
<1>6. CASE ~ Owns(row)  BY <1>1, <1>2, <1>6, DoneInv
<1> QED  BY <1>4, <1>5, <1>6 DEF Record
LEMMA CrashInv ==
    ASSUME IInv, NEW w \in Workers, Crash(w)
    PROVE  IInv'
<1> USE DEF IInv
<1> DEFINE row == call[w].row
           m == row.msg
           lost == {r.msg : r \in {q \in InHand(w) : call[w].answer = "accepted"}}
<1>1. /\ batch' = [batch EXCEPT ![w] = {}] /\ call' = [call EXCEPT ![w] = NoCall]
      /\ UNCHANGED mail
      /\ \/ excused' = excused \cup lost /\ UNCHANGED accepted
         \/ Waiting(w) /\ Take(m) /\ excused' = excused \cup {m}
  BY DEF Crash
<1>2. /\ call'[w] = NoCall /\ batch'[w] = {}
      /\ \A v \in Workers \ {w} : call'[v] = call[v] /\ batch'[v] = batch[v]
      /\ \A v \in Workers : Live(v)' \subseteq Live(v)
  <2>1. /\ call'[w] = NoCall /\ batch'[w] = {}
        /\ \A v \in Workers \ {w} : call'[v] = call[v] /\ batch'[v] = batch[v]
    BY <1>1 DEF TypeOK
  <2>2. Live(w)' = {}  BY <2>1 DEF Live, InHand
  <2>3. \A v \in Workers \ {w} : Live(v)' = Live(v)  BY <2>1 DEF Live, InHand
  <2> QED  BY <2>1, <2>2, <2>3
<1>3. call[w] # NoCall => row \in Live(w) /\ m \in Messages /\ accepted[m] \in 0 .. 2
  <2>1. call[w] # NoCall => row \in Live(w)  BY LiveMember
  <2>2. call[w] # NoCall => m \in Messages  BY <2>1, LiveType
  <2> QED  BY <2>1, <2>2 DEF TypeOK
<1>4. /\ excused' \in SUBSET Messages /\ excused \subseteq excused'
      /\ (call[w] # NoCall /\ call[w].answer = "accepted") => m \in excused'
  <2>1. InHand(w) = IF call[w] = NoCall THEN {} ELSE {row}  BY DEF InHand
  <2>2. lost \subseteq Messages /\ (call[w] # NoCall /\ call[w].answer = "accepted" => m \in lost)
    BY <1>3, <2>1
  <2>3. CASE excused' = excused \cup lost  BY <2>2, <2>3 DEF TypeOK
  <2>4. CASE Waiting(w) /\ excused' = excused \cup {m}
    BY <1>3, <2>4 DEF TypeOK, Waiting
  <2> QED  BY <1>1, <2>3, <2>4
<1>5. /\ accepted' \in [Messages -> 0 .. 2]
      /\ \A n \in Messages : accepted'[n] >= accepted[n]
      /\ \A n \in Messages \ excused' : accepted'[n] = accepted[n]
  <2>1. CASE UNCHANGED accepted  BY <2>1 DEF TypeOK
  <2>2. CASE Waiting(w) /\ Take(m) /\ excused' = excused \cup {m}
    BY <1>3, <2>2 DEF TypeOK, Take, Least, Waiting
  <2> QED  BY <1>1, <2>1, <2>2
<1>6. TypeOK'
  <2>1. batch' \in [Workers -> SUBSET Snapshot]  BY <1>1 DEF TypeOK
  <2>2. call' \in [Workers -> Call \cup {NoCall}]  BY <1>1 DEF TypeOK
  <2> QED  BY <1>1, <1>4, <1>5, <2>1, <2>2 DEF TypeOK
<1>7. Fenced'
  <2>1. \A v \in Workers : call'[v] # NoCall => call'[v].row \notin batch'[v]
    BY <1>2 DEF Fenced
  <2>2. ASSUME NEW n \in Messages  PROVE Fenced'
    BY <1>1, <1>2, <2>1, <2>2, ReleaseFenced
  <2>3. CASE Messages = {}
    <3>1. \A v \in Workers : Live(v) = {}  BY <2>3, LiveType
    <3>2. \A v \in Workers : Live(v)' = {}  BY <1>2, <3>1
    <3> QED  BY <2>1, <3>2 DEF Fenced, LeaseFences
  <2> QED  BY <2>2, <2>3
<1>8. Attempting'  BY <1>1 DEF Attempting
<1>9. Accounted'
  <2>1. ASSUME NEW v \in Workers, call'[v] # NoCall, call'[v].answer = "accepted"
        PROVE  accepted'[call'[v].row.msg] > 0
    <3>1. v # w /\ call'[v] = call[v]  BY <1>2, <2>1
    <3>2. call[v].row.msg \in Messages  BY <2>1, <3>1, LiveMember, LiveType
    <3>3. accepted[call[v].row.msg] > 0  BY <2>1, <3>1 DEF Accounted
    <3> QED  BY <1>5, <3>1, <3>2, <3>3 DEF TypeOK
  <2>2. ASSUME NEW n \in Messages \ excused', NEW v \in Workers, NEW other \in Live(v)',
               other.msg = n
        PROVE  Owns(other)'
    BY <1>1, <1>2, <1>4, <2>2 DEF Accounted, Owns
  <2>3. ASSUME NEW n \in Messages \ excused'
        PROVE  /\ accepted'[n] <= 1
               /\ accepted'[n] = 1 =>
                    \/ mail'[n].status = "sent"
                    \/ \E v \in Workers : call'[v] # NoCall /\ call'[v].row.msg = n
                                            /\ call'[v].answer = "accepted"
    <3>1. n \in Messages \ excused /\ accepted'[n] = accepted[n]  BY <1>4, <1>5, <2>3
    <3>2. ASSUME accepted[n] = 1, mail[n].status # "sent"
          PROVE  \E v \in Workers : call'[v] # NoCall /\ call'[v].row.msg = n
                                      /\ call'[v].answer = "accepted"
      <4>1. PICK v \in Workers : call[v] # NoCall /\ call[v].row.msg = n
                                 /\ call[v].answer = "accepted"
        BY <3>1, <3>2 DEF Accounted
      <4>2. v # w  BY <1>4, <2>3, <4>1
      <4> QED  BY <1>2, <4>1, <4>2
    <3> QED  BY <1>1, <3>1, <3>2 DEF Accounted
  <2> QED  BY <2>1, <2>2, <2>3 DEF Accounted
<1> QED  BY <1>6, <1>7, <1>8, <1>9

(* Everything ages alike: an old claim stays old, and the row's own claim  *)
(* stays its own.                                                          *)
LEMMA TickInv ==
    ASSUME IInv, Tick
    PROVE  IInv'
<1> USE DEF IInv
<1>1. /\ \A w \in Workers : \A row \in Live(w) : row.lease > 0 - Stale
      /\ \A m \in Messages : mail'[m] =
            [mail[m] EXCEPT !.due = Greatest(0, mail[m].due - 1),
                            !.lease = IF mail[m].status = "processing"
                                      THEN Greatest(0 - Stale, mail[m].lease - 1)
                                      ELSE mail[m].lease]
      /\ DOMAIN mail' = Messages /\ mail' = [m \in Messages |-> mail'[m]]
      /\ batch' = [w \in Workers |-> {Older(row) : row \in batch[w]}]
      /\ call' = [w \in Workers |-> IF call[w] = NoCall THEN NoCall
                    ELSE [call[w] EXCEPT !.row = Older(call[w].row), !.age = call[w].age + 1]]
      /\ UNCHANGED <<accepted, excused>>
  BY DEF Tick
<1>2. ASSUME NEW m \in Messages
      PROVE  /\ mail'[m] \in Mail /\ mail'[m].status = mail[m].status
             /\ mail'[m].attempts = mail[m].attempts
             /\ mail'[m].due = Greatest(0, mail[m].due - 1)
             /\ mail[m].status = "processing" =>
                    mail'[m].lease = Greatest(0 - Stale, mail[m].lease - 1)
             /\ mail[m].due \in Nat /\ mail[m].lease \in Int
  <2>1. /\ mail[m] \in Mail /\ mail[m].due \in Nat
        /\ mail[m].lease \in (0 - Stale) .. LEASE /\ mail[m].lease \in Int
    BY OutboxAssumption DEF TypeOK, Mail
  <2>2. Greatest(0, mail[m].due - 1) \in Nat  BY <2>1 DEF Greatest
  <2>3. Greatest(0 - Stale, mail[m].lease - 1) \in (0 - Stale) .. LEASE
    BY <2>1, OutboxAssumption DEF Greatest
  <2>4. mail'[m] \in Mail  BY <1>1, <2>1, <2>2, <2>3 DEF Mail
  <2> QED  BY <1>1, <2>1, <2>4 DEF Mail
<1>3. ASSUME NEW w \in Workers, NEW row \in Live(w)
      PROVE  /\ row \in Snapshot /\ Older(row) \in Snapshot
             /\ Older(row).msg = row.msg /\ Older(row).attempts = row.attempts
             /\ Older(row).lease = row.lease - 1 /\ row.lease \in Int
  <2>1. row \in Snapshot /\ row.lease > 0 - Stale /\ row.lease \in (0 - Stale) .. LEASE
    BY <1>1, LiveType
  <2>2. row.lease - 1 \in (0 - Stale) .. LEASE  BY <2>1, OutboxAssumption
  <2> QED  BY <2>1, <2>2, OutboxAssumption DEF Snapshot, Older
<1>4. ASSUME NEW w \in Workers, call[w] # NoCall
      PROVE  /\ call'[w] \in Call /\ call'[w] # NoCall /\ call'[w].row = Older(call[w].row)
             /\ call'[w].answer = call[w].answer /\ call[w].row \in Live(w)
  <2>1. call[w].row \in Live(w) /\ call[w] \in Call  BY <1>4, LiveMember DEF TypeOK
  <2>2. Older(call[w].row) \in Snapshot  BY <1>3, <2>1
  <2>3. call[w].age + 1 \in Nat  BY <2>1 DEF Call
  <2>4. call'[w] = [call[w] EXCEPT !.row = Older(call[w].row), !.age = call[w].age + 1]
    BY <1>1, <1>4
  <2>5. call'[w] \in Call  BY <2>1, <2>2, <2>3, <2>4 DEF Call
  <2> QED  BY <2>1, <2>4, <2>5, NoCallAssumption DEF Call
<1>5. ASSUME NEW w \in Workers, call[w] = NoCall  PROVE call'[w] = NoCall
  BY <1>1, <1>5
<1>6. ASSUME NEW w \in Workers, NEW old \in Live(w)'
      PROVE  \E row \in Live(w) : old = Older(row)
  <2>1. CASE old \in batch'[w]
    <3>1. PICK row \in batch[w] : old = Older(row)  BY <1>1, <2>1
    <3> QED  BY <3>1, LiveMember
  <2>2. CASE call'[w] # NoCall /\ old = call'[w].row
    <3>1. call[w] # NoCall  BY <1>5, <2>2
    <3> QED  BY <1>4, <2>2, <3>1
  <2> QED  BY <1>6, <2>1, <2>2 DEF Live, InHand
(* Ages keep the order of leases: the row's claim is the newest.           *)
<1>7. ASSUME NEW w \in Workers, NEW row \in Live(w)
      PROVE  /\ Owns(Older(row))' <=> Owns(row)
             /\ mail'[row.msg].status = "processing" => Older(row).lease <= mail'[row.msg].lease
  <2>1. row.msg \in Messages  BY LiveType
  <2>2. CASE mail[row.msg].status = "processing"
    <3>1. row.lease <= mail[row.msg].lease  BY <2>2 DEF Fenced
    <3>2. row.lease > 0 - Stale  BY <1>1
    <3>3. mail'[row.msg].lease = mail[row.msg].lease - 1
      <4>1. /\ mail[row.msg].lease \in Int /\ row.lease \in Int
            /\ mail'[row.msg].lease = Greatest(0 - Stale, mail[row.msg].lease - 1)
        BY <1>2, <1>3, <2>1, <2>2
      <4>2. mail[row.msg].lease - 1 >= 0 - Stale  BY <3>1, <3>2, <4>1, OutboxAssumption
      <4> QED  BY <4>1, <4>2, OutboxAssumption DEF Greatest
    <3> QED  BY <1>2, <1>3, <2>1, <2>2, <3>1, <3>3 DEF Owns
  <2>3. CASE mail[row.msg].status # "processing"  BY <1>2, <1>3, <2>1, <2>3 DEF Owns
  <2> QED  BY <2>2, <2>3
<1>8. TypeOK'
  <2>1. mail' \in [Messages -> Mail]  BY <1>1, <1>2
  <2>2. batch' \in [Workers -> SUBSET Snapshot]
    <3>1. ASSUME NEW w \in Workers  PROVE {Older(row) : row \in batch[w]} \in SUBSET Snapshot
      BY <1>3, LiveMember
    <3> QED  BY <1>1, <3>1
  <2>3. call' \in [Workers -> Call \cup {NoCall}]
    <3>1. \A w \in Workers : call'[w] \in Call \cup {NoCall}  BY <1>4, <1>5
    <3>2. call' = [w \in Workers |-> call'[w]]  BY <1>1
    <3> QED  BY <3>1, <3>2
  <2> QED  BY <1>1, <2>1, <2>2, <2>3 DEF TypeOK
<1>9. Fenced'
  <2>1. ASSUME NEW w \in Workers, NEW old \in Live(w)'
        PROVE  /\ Owns(old)' => old.attempts = mail'[old.msg].attempts
               /\ ~ Owns(old)' => old.lease <= 0
               /\ mail'[old.msg].status = "processing" => old.lease <= mail'[old.msg].lease
    <3>1. PICK row \in Live(w) : old = Older(row)  BY <1>6, <2>1
    <3>2. row.msg \in Messages  BY LiveType
    <3>3. Owns(row) => row.attempts = mail[row.msg].attempts  BY DEF Fenced, LeaseFences
    <3>4. ~ Owns(row) => row.lease <= 0  BY DEF Fenced, LeaseFences
    <3> QED  BY <1>2, <1>3, <1>7, <3>1, <3>2, <3>3, <3>4
  <2>2. ASSUME NEW w \in Workers, NEW old \in Live(w)', NEW v \in Workers, NEW other \in Live(v)',
               other.msg = old.msg, <<v, other>> # <<w, old>>
        PROVE  other.lease # old.lease
    <3>1. PICK row \in Live(w) : old = Older(row)  BY <1>6, <2>2
    <3>2. PICK second \in Live(v) : other = Older(second)  BY <1>6, <2>2
    <3>3. second.msg = row.msg /\ <<v, second>> # <<w, row>>  BY <1>3, <2>2, <3>1, <3>2
    <3>4. second.lease # row.lease  BY <3>3 DEF Fenced, LeaseFences
    <3> QED  BY <1>3, <3>1, <3>2, <3>4
  <2>3. ASSUME NEW w \in Workers, call'[w] # NoCall, call'[w].row \in batch'[w]
        PROVE  FALSE
    <3>1. call[w] # NoCall  BY <1>5, <2>3
    <3>2. PICK row \in batch[w] : Older(call[w].row) = Older(row)
      <4>1. batch'[w] = {Older(row) : row \in batch[w]}  BY <1>1
      <4>2. call'[w].row = Older(call[w].row)  BY <1>4, <3>1
      <4> QED  BY <2>3, <4>1, <4>2
    <3>3. row \in Live(w) /\ call[w].row \in Live(w) /\ row # call[w].row
      BY <3>1, LiveMember DEF Fenced
    <3>4. row.msg = call[w].row.msg /\ row.lease = call[w].row.lease
      BY <1>3, <3>2, <3>3
    <3> QED  BY <3>3, <3>4 DEF Fenced, LeaseFences
  <2> QED  BY <2>1, <2>2, <2>3 DEF Fenced, LeaseFences
<1>10. Attempting'  BY <1>2 DEF Attempting, Greatest
<1>11. Accounted'
  <2>1. ASSUME NEW w \in Workers, call'[w] # NoCall
        PROVE  /\ call[w] # NoCall /\ call'[w].row.msg = call[w].row.msg
               /\ call'[w].answer = call[w].answer
    <3>1. call[w] # NoCall  BY <1>5, <2>1
    <3> QED  BY <1>3, <1>4, <3>1
  <2>2. ASSUME NEW m \in Messages \ excused, NEW w \in Workers, NEW old \in Live(w)', old.msg = m
        PROVE  Owns(old)'
    <3>1. PICK row \in Live(w) : old = Older(row)  BY <1>6, <2>2
    <3>2. Owns(row)  BY <1>3, <2>2, <3>1 DEF Accounted
    <3> QED  BY <1>7, <3>1, <3>2
  <2>3. ASSUME NEW m \in Messages \ excused, accepted[m] = 1, mail'[m].status # "sent"
        PROVE  \E w \in Workers : call'[w] # NoCall /\ call'[w].row.msg = m
                                    /\ call'[w].answer = "accepted"
    <3>1. mail[m].status # "sent"  BY <1>2, <2>3
    <3>2. PICK w \in Workers : call[w] # NoCall /\ call[w].row.msg = m
                               /\ call[w].answer = "accepted"
      BY <2>3, <3>1 DEF Accounted
    <3>3. call'[w] # NoCall  BY <1>4, <3>2
    <3> QED  BY <2>1, <3>2, <3>3
  <2>4. \A w \in Workers :
            (call'[w] # NoCall /\ call'[w].answer = "accepted") => accepted[call'[w].row.msg] > 0
    BY <2>1 DEF Accounted
  <2>5. \A m \in Messages \ excused : accepted[m] <= 1  BY DEF Accounted
  <2>6. UNCHANGED <<accepted, excused>>  BY <1>1
  <2> QED  BY <2>2, <2>3, <2>4, <2>5, <2>6 DEF Accounted
<1> QED  BY <1>8, <1>9, <1>10, <1>11
LEMMA NextInv == IInv /\ [Next]_vars => IInv'
<1> SUFFICES ASSUME IInv, [Next]_vars  PROVE IInv'  OBVIOUS
<1>1. CASE UNCHANGED vars
  <2>1. UNCHANGED <<mail, batch, call, accepted, excused>>  BY <1>1 DEF vars
  <2>2. \A w : Live(w)' = Live(w)  BY <2>1 DEF Live, InHand
  <2>3. \A row : Owns(row)' <=> Owns(row)  BY <2>1 DEF Owns
  <2>4. TypeOK'  BY <2>1 DEF IInv, TypeOK
  <2>5. Fenced'  BY <2>1, <2>2, <2>3 DEF IInv, Fenced, LeaseFences
  <2>6. Attempting' /\ Accounted'  BY <2>1, <2>2, <2>3 DEF IInv, Attempting, Accounted
  <2> QED  BY <2>4, <2>5, <2>6 DEF IInv
<1>2. ASSUME NEW m \in Messages, Enqueue(m) \/ Retry(m)  PROVE IInv'
  BY <1>2, FreshInv DEF Enqueue, Retry
<1>3. ASSUME NEW w \in Workers, NEW taken \in SUBSET Messages, Claim(w, taken)  PROVE IInv'
  BY <1>3, ClaimInv
<1>4. ASSUME NEW w \in Workers, NEW row \in batch[w], Send(w, row)  PROVE IInv'
  BY <1>4, SendInv
<1>5. ASSUME NEW w \in Workers, Answer(w) \/ Record(w) \/ Crash(w)  PROVE IInv'
  BY <1>5, AnswerInv, RecordInv, CrashInv
<1>6. CASE Tick  BY <1>6, TickInv
<1> QED  BY <1>1, <1>2, <1>3, <1>4, <1>5, <1>6 DEF Next

LEMMA Invariant == Spec => []IInv
BY InitInv, NextInv, PTL DEF Spec

(* Rows, claims and calls in flight are well typed, attempts never exceed  *)
(* MAX_ATTEMPTS and no claim grows older than a worker may stall.          *)
THEOREM TypeCorrect == Spec => []TypeOK
<1>1. IInv => TypeOK  BY DEF IInv
<1> QED  BY <1>1, Invariant, PTL

(* A lease fences: at most one claim of a row is good, and a claim is only *)
(* ever lost by letting its lease run out.                                 *)
THEOREM ClaimsAreFenced == Spec => []LeaseFences
<1>1. IInv => LeaseFences  BY DEF IInv, Fenced
<1> QED  BY <1>1, Invariant, PTL

(* No number of crashes and late answers uses up a message's attempts      *)
(* without marking it as failed.                                           *)
THEOREM NobodyIsStuck == Spec => []NeverStuck
<1>1. IInv => NeverStuck  BY DEF IInv, Attempting, NeverStuck
<1> QED  BY <1>1, Invariant, PTL

(* A customer gets a message twice only after a lost answer or a lost      *)
(* lease, never by a race of workers, retries and the admin alone.         *)
THEOREM DuplicatesHaveAReason == Spec => []DuplicatesExcused
<1>1. IInv => DuplicatesExcused
  <2> SUFFICES ASSUME IInv, NEW m \in Messages, accepted[m] > 1  PROVE m \in excused
    BY DEF DuplicatesExcused
  <2>1. accepted[m] \in 0 .. 2  BY DEF IInv, TypeOK
  <2> QED  BY <2>1 DEF IInv, Accounted
<1> QED  BY <1>1, Invariant, PTL

(* "sent" is final, and never claimed of a message the provider refused.   *)
THEOREM SentStays == Spec => SentIsFinal
<1> DEFINE Final == \A m \in Messages :
        /\ mail[m].status = "sent" => mail'[m] = mail[m]
        /\ (mail'[m].status = "sent" /\ mail[m].status # "sent") => accepted[m] > 0
<1>1. IInv /\ [Next]_vars => [Final]_vars
  <2> SUFFICES ASSUME IInv, Next, NEW m \in Messages
        PROVE  /\ mail[m].status = "sent" => mail'[m] = mail[m]
               /\ (mail'[m].status = "sent" /\ mail[m].status # "sent") => accepted[m] > 0
    OBVIOUS
  <2> USE DEF IInv
  <2>1. mail[m] \in Mail /\ mail \in [Messages -> Mail]  BY DEF TypeOK
  <2>2. ASSUME NEW n \in Messages, Enqueue(n) \/ Retry(n)
        PROVE  mail'[m] = mail[m] \/ (mail[m].status # "sent" /\ mail'[m].status # "sent")
    BY <2>1, <2>2 DEF Enqueue, Retry, Fresh
  <2>3. ASSUME NEW w \in Workers, NEW taken \in SUBSET Messages, Claim(w, taken)
        PROVE  mail'[m] = mail[m] \/ (mail[m].status # "sent" /\ mail'[m].status # "sent")
    <3>1. CASE m \in taken
      <4>1. mail[m].status # "sent"  BY <2>3, <3>1 DEF Claim, Claimable
      <4>2. mail'[m].status = "processing"  BY <2>1, <2>3, <3>1 DEF Claim, Mail
      <4> QED  BY <4>1, <4>2
    <3>2. CASE m \notin taken  BY <2>3, <3>2 DEF Claim
    <3> QED  BY <3>1, <3>2
  <2>4. ASSUME NEW w \in Workers, MarkSent(w)
        PROVE  mail'[m] = mail[m] \/ (mail[m].status # "sent" /\ accepted[m] > 0)
    <3>1. CASE Owns(call[w].row) /\ m = call[w].row.msg
      <4>1. mail[m].status = "processing"  BY <3>1 DEF Owns
      <4>2. accepted[m] > 0  BY <2>4, <3>1 DEF MarkSent, Accounted
      <4> QED  BY <4>1, <4>2
    <3>2. CASE ~ (Owns(call[w].row) /\ m = call[w].row.msg)
      BY <2>1, <2>4, <3>2 DEF MarkSent
    <3> QED  BY <3>1, <3>2
  <2>5. ASSUME NEW w \in Workers, MarkFailed(w)
        PROVE  mail'[m] = mail[m] \/ (mail[m].status # "sent" /\ mail'[m].status # "sent")
    <3>1. CASE Owns(call[w].row) /\ m = call[w].row.msg
      <4>1. mail[m].status = "processing"  BY <3>1 DEF Owns
      <4>2. mail'[m].status \in {"pending", "failed"}
        <5> DEFINE again == call[w].answer = "transient" /\ ~ Exhausted(call[w].row)
                   new == [status |-> IF again THEN "pending" ELSE "failed",
                           attempts |-> mail[m].attempts + 1,
                           due |-> NextAttempt(call[w]), lease |-> 0]
        <5>1. mail' = [mail EXCEPT ![m] = new]  BY <2>5, <3>1 DEF MarkFailed
        <5>2. mail'[m] = new  BY <2>1, <5>1
        <5> QED  BY <5>2
      <4> QED  BY <4>1, <4>2
    <3>2. CASE ~ (Owns(call[w].row) /\ m = call[w].row.msg)
      BY <2>1, <2>5, <3>2 DEF MarkFailed
    <3> QED  BY <3>1, <3>2
  <2>6. ASSUME NEW w \in Workers,
               Answer(w) \/ Crash(w) \/ \E row \in batch[w] : Send(w, row)
        PROVE  mail'[m] = mail[m]
    BY <2>6 DEF Answer, Accept, LoseAnswer, Refuse, Crash, Send
  <2>7. CASE Tick
    <3>1. mail'[m] = [mail[m] EXCEPT !.due = Greatest(0, mail[m].due - 1),
                            !.lease = IF mail[m].status = "processing"
                                      THEN Greatest(0 - Stale, mail[m].lease - 1)
                                      ELSE mail[m].lease]
      BY <2>7 DEF Tick
    <3>2. mail'[m].status = mail[m].status  BY <2>1, <3>1 DEF Mail
    <3>3. CASE mail[m].status = "sent"
      <4>1. mail[m].due = 0  BY <3>3 DEF Attempting
      <4>2. Greatest(0, mail[m].due - 1) = mail[m].due  BY <4>1 DEF Greatest
      <4>3. mail'[m] = [mail[m] EXCEPT !.due = mail[m].due, !.lease = mail[m].lease]
        BY <3>1, <3>3, <4>2
      <4>4. mail'[m] = mail[m]  BY <2>1, <4>3 DEF Mail
      <4> QED  BY <4>4
    <3> QED  BY <3>2, <3>3
  <2> QED  BY <2>2, <2>3, <2>4, <2>5, <2>6, <2>7 DEF Next, Record
<1> QED  BY <1>1, Invariant, PTL DEF Spec, SentIsFinal
=============================================================================
