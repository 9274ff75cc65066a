-------------------------- MODULE StudioHistoryProofs --------------------------
(***************************************************************************)
(* The histories and the money of Studio, for any number of bookings,      *)
(* sessions and operation ids: what StudioProofs says of the calendar is   *)
(* the start, the tables beside the rows are the subject.                  *)
(***************************************************************************)
EXTENDS StudioProofs

-----------------------------------------------------------------------------
(* An event is appended to what was logged before.                         *)
Logged(b, from, to, op) ==
    \E told, at :
        events' = [events EXCEPT ![b] =
            Append(@, [op |-> op, from |-> from, to |-> to, told |-> told, at |-> at])]

LEMMA AppendFacts ==
    ASSUME NEW S, NEW log \in Seq(S), NEW e
    PROVE  /\ Len(log) \in Nat /\ DOMAIN log = 1 .. Len(log)
           /\ Len(Append(log, e)) = Len(log) + 1
           /\ DOMAIN Append(log, e) = DOMAIN log \cup {Len(log) + 1}
           /\ Len(log) + 1 \notin DOMAIN log
           /\ \A i \in DOMAIN log : Append(log, e)[i] = log[i]
           /\ Append(log, e)[Len(log) + 1] = e
<1>1. log \in Seq(S \cup {e}) /\ e \in S \cup {e}  OBVIOUS
<1>2. Append(log, e) \in Seq(S \cup {e})  BY <1>1
<1>3. Len(log) \in Nat /\ DOMAIN log = 1 .. Len(log)  OBVIOUS
<1>4. /\ Len(Append(log, e)) = Len(log) + 1
      /\ \A i \in 1 .. Len(log) : Append(log, e)[i] = log[i]
      /\ Append(log, e)[Len(log) + 1] = e
  BY <1>1
<1>5. DOMAIN Append(log, e) = 1 .. (Len(log) + 1)  BY <1>2, <1>4
<1> QED  BY <1>3, <1>4, <1>5

LEMMA LoggedFacts ==
    ASSUME StoreTypeOK, NEW b \in Bookings, NEW from, NEW to, NEW op, Logged(b, from, to, op)
    PROVE  LET n == Len(events[b]) + 1 IN
           /\ n \in Nat /\ n > 0 /\ n \notin DOMAIN events[b]
           /\ DOMAIN events[b] = 1 .. (n - 1)
           /\ Len(events'[b]) = n
           /\ DOMAIN events'[b] = DOMAIN events[b] \cup {n}
           /\ \A i \in DOMAIN events[b] : events'[b][i] = events[b][i]
           /\ events'[b][n].from = from /\ events'[b][n].to = to /\ events'[b][n].op = op
           /\ \A c \in Bookings \ {b} : events'[c] = events[c]
<1>1. PICK told, at : events' = [events EXCEPT ![b] =
            Append(@, [op |-> op, from |-> from, to |-> to, told |-> told, at |-> at])]
  BY DEF Logged
<1> DEFINE e == [op |-> op, from |-> from, to |-> to, told |-> told, at |-> at]
<1>2. events[b] \in Seq(Event) /\ b \in DOMAIN events  BY DEF StoreTypeOK
<1>3. events'[b] = Append(events[b], e) /\ \A c \in Bookings \ {b} : events'[c] = events[c]
  BY <1>1, <1>2 DEF StoreTypeOK
<1>4. e.from = from /\ e.to = to /\ e.op = op  OBVIOUS
<1> HIDE DEF e
<1> QED  BY <1>2, <1>3, <1>4, AppendFacts

(* The columns of the ledger, before and after.                            *)
SameLedger == \A p \in Parties : ledger'[p] = ledger[p]
Entered(p, fee, extra, refund) ==
    /\ ledger'[p].venue_fee = ledger[p].venue_fee + fee
    /\ ledger'[p].extra = ledger[p].extra + extra
    /\ ledger'[p].refund = ledger[p].refund + refund
    /\ \A q \in Parties \ {p} : ledger'[q] = ledger[q]

(* The three kinds of commit, by what they leave in the tables.            *)
Opens(s) ==
    LET r == req[s] IN
    /\ Writes(s) /\ r.from = "absent" /\ r.to = "pending_review"
    /\ UNCHANGED <<events, ledger>>

Bills(s) ==
    LET r == req[s] IN
    /\ pc[s] # "idle" /\ Finish(s) /\ UNCHANGED rows
    /\ r.booking \in Parties /\ r.from = "confirmed_paid" /\ r.to = "confirmed_paid"
    /\ OperationUnused(r.op) /\ Logged(r.booking, r.from, r.to, r.op)
    /\ Entered(r.booking, 0, 1, 0)

(* A commit that moves a booking on, with its payment or refund.           *)
Pays(r) == r.from = "awaiting_in_store_payment" /\ r.to = "confirmed_paid"
Advances(s) ==
    LET r == req[s] IN
    /\ Writes(s) /\ r.from # "absent"
    /\ OperationUnused(r.op) /\ Logged(r.booking, r.from, r.to, r.op)
    /\ \/ r.booking \in Parties /\ Pays(r) /\ Entered(r.booking, 1, 0, 0)
       \/ r.booking \in Parties /\ r.to = "refunded" /\ Entered(r.booking, 0, 0, 1)
       \/ ~ Pays(r) /\ r.to # "refunded" /\ SameLedger

LEMMA CreateEventLogs ==
    ASSUME NEW s \in Sessions, NEW told, createEvent(s, told)
    PROVE  /\ OperationUnused(req[s].op)
           /\ Logged(req[s].booking, req[s].from, req[s].to, req[s].op)
BY DEF createEvent, Logged

LEMMA RowWritten ==
    ASSUME IInv, NEW s \in Sessions, Writes(s)
    PROVE  LET r == req[s] IN
           /\ MoveOf(r) /\ r.booking \in Bookings /\ rows[r.booking].status = r.from
           /\ rows'[r.booking].status = r.to
           /\ \A c \in Bookings \ {r.booking} : rows'[c] = rows[c]
           /\ r.to \in {"cancelled", "refunded"} => rows'[r.booking].start = rows[r.booking].start
<1> DEFINE r == req[s]
<1>1. pc[s] # "idle" /\ rows[r.booking].status = r.from  BY DEF Writes
<1>2. MoveOf(r)  BY <1>1, RunningRequest
<1>3. r.booking \in Bookings  BY <1>2, MovesType
<1>4. PICK x \in Cells, due \in Nat :
        /\ rows' = [rows EXCEPT ![r.booking] = [status |-> r.to, start |-> x, due |-> due]]
        /\ \/ x = rows[r.booking].start
           \/ x = r.at /\ (NeedsSchedule(r) \/ r.to \in {"pending_review", "time_proposed"})
  BY DEF Writes
<1>5. rows \in [Bookings -> Row]  BY DEF IInv, TypeOK, StoreTypeOK
<1>6. rows'[r.booking] = [status |-> r.to, start |-> x, due |-> due]  BY <1>3, <1>4, <1>5
<1>7. \A c \in Bookings \ {r.booking} : rows'[c] = rows[c]  BY <1>3, <1>4, <1>5
<1>8. r.to \in {"cancelled", "refunded"} => x = rows[r.booking].start
  BY <1>4 DEF NeedsSchedule
<1> QED  BY <1>1, <1>2, <1>3, <1>6, <1>7, <1>8

LEMMA CommitCases ==
    ASSUME IInv, NEW s \in Sessions, Write(s)
    PROVE  Opens(s) \/ Bills(s) \/ Advances(s)
<1> DEFINE r == req[s]
<1>1. StoreTypeOK /\ pc[s] # "idle"
  BY DEF IInv, TypeOK, Write, CommitOrdinary, CommitCustomerRequest, CommitCreateParty,
         CommitProposal, CommitAcceptance, CommitPartyTransition, CommitPayment, CommitExpiry,
         CommitCharge, CommitRefund
<1>2. MoveOf(r)  BY <1>1, RunningRequest
<1>3. /\ r.booking \in Ordinary => <<r.from, r.to>> \in ORDINARY_TRANSITIONS
      /\ r.booking \notin Ordinary => r.booking \in Parties /\ <<r.from, r.to>> \in PartyMoves
  BY <1>2, MovesType DEF MoveOf, Bookings
<1>4. CASE CommitCharge(s)
  <2>1. /\ r.from = "confirmed_paid" /\ r.to = "confirmed_paid" /\ Finish(s) /\ UNCHANGED rows
        /\ createEvent(s, r.at) /\ ledger' = [ledger EXCEPT ![r.booking].extra = @ + 1]
    BY <1>4 DEF CommitCharge
  <2>2. r.booking \in Parties  BY <2>1, <1>3 DEF ORDINARY_TRANSITIONS
  <2>3. Entered(r.booking, 0, 1, 0)
    BY <1>1, <2>1, <2>2 DEF Entered, StoreTypeOK, Charges
  <2> QED  BY <1>1, <2>1, <2>2, <2>3, CreateEventLogs DEF Bills
<1>5. CASE CommitCreateParty(s)
  <2>1. r.from = "absent" /\ UNCHANGED <<events, ledger>>  BY <1>5 DEF CommitCreateParty
  <2>2. r.to = "pending_review"
    BY <2>1, <1>3 DEF ORDINARY_TRANSITIONS, PartyMoves, PARTY_TRANSITIONS, Answerable
  <2> QED  BY <1>5, <2>1, <2>2, PartyWrites DEF Opens
<1>6. CASE CommitOrdinary(s)
  <2>1. /\ createEvent(s, r.at) /\ UNCHANGED ledger /\ r.booking \in Ordinary /\ Writes(s)
    BY <1>6, CommitOrdinaryWrites DEF CommitOrdinary
  <2>2. r.from # "absent" /\ ~ Pays(r) /\ r.to # "refunded"
    BY <2>1, <1>3 DEF ORDINARY_TRANSITIONS, Pays
  <2> QED  BY <2>1, <2>2, CreateEventLogs DEF Advances, SameLedger
<1>7. CASE CommitCustomerRequest(s)
  <2>1. /\ createEvent(s, r.was) /\ UNCHANGED ledger /\ r.from \in Answerable /\ Writes(s)
    BY <1>7, PartyWrites DEF CommitCustomerRequest
  <2>2. r.from # "absent" /\ ~ Pays(r) /\ r.to # "refunded"
    BY <2>1, <1>3 DEF ORDINARY_TRANSITIONS, PartyMoves, PARTY_TRANSITIONS, Answerable, Pays
  <2> QED  BY <2>1, <2>2, CreateEventLogs DEF Advances, SameLedger
<1>8. CASE CommitProposal(s) \/ CommitAcceptance(s)
  <2>1. /\ createEvent(s, r.at) /\ UNCHANGED ledger /\ Writes(s)
        /\ r.from \in {"pending_review", "time_proposed"}
        /\ r.to \in {"time_proposed", "awaiting_in_store_payment"}
    BY <1>8, PartyWrites DEF CommitProposal, CommitAcceptance
  <2> QED  BY <2>1, CreateEventLogs DEF Advances, SameLedger, Pays
<1>9. CASE CommitPartyTransition(s)
  <2>1. /\ createEvent(s, rows[r.booking].start) /\ UNCHANGED ledger /\ Writes(s)
        /\ <<r.from, r.to>> \in PARTY_TRANSITIONS
    BY <1>9, PartyWrites DEF CommitPartyTransition
  <2>2. r.from # "absent" /\ ~ Pays(r) /\ r.to # "refunded"
    BY <2>1 DEF PARTY_TRANSITIONS, Pays
  <2> QED  BY <2>1, <2>2, CreateEventLogs DEF Advances, SameLedger
<1>10. CASE CommitPayment(s)
  <2>1. /\ createEvent(s, r.at) /\ Writes(s) /\ Pays(r)
        /\ ledger' = [ledger EXCEPT ![r.booking].venue_fee = @ + 1]
    BY <1>10, PartyWrites DEF CommitPayment, Pays
  <2>2. r.booking \in Parties /\ r.from # "absent"
    BY <2>1, <1>3 DEF ORDINARY_TRANSITIONS, Pays
  <2>3. Entered(r.booking, 1, 0, 0)
    BY <1>1, <2>1, <2>2 DEF Entered, StoreTypeOK, Charges
  <2> QED  BY <2>1, <2>2, <2>3, CreateEventLogs DEF Advances
<1>11. CASE CommitExpiry(s)
  <2>1. /\ createEvent(s, r.at) /\ UNCHANGED ledger /\ Writes(s) /\ r.to = "payment_expired"
    BY <1>11, PartyWrites DEF CommitExpiry
  <2>2. r.from # "absent"
    BY <2>1, <1>3 DEF ORDINARY_TRANSITIONS, PartyMoves, PARTY_TRANSITIONS, Answerable
  <2> QED  BY <2>1, <2>2, CreateEventLogs DEF Advances, SameLedger, Pays
<1>12. CASE CommitRefund(s)
  <2>1. /\ createEvent(s, r.at) /\ Writes(s) /\ r.to = "refunded"
        /\ ledger' = [ledger EXCEPT ![r.booking].refund = @ + 1]
    BY <1>12, PartyWrites DEF CommitRefund
  <2>2. r.booking \in Parties /\ r.from # "absent"
    BY <2>1, <1>3 DEF ORDINARY_TRANSITIONS, PartyMoves, PARTY_TRANSITIONS, Answerable
  <2>3. Entered(r.booking, 0, 0, 1)
    BY <1>1, <2>1, <2>2 DEF Entered, StoreTypeOK, Charges
  <2> QED  BY <2>1, <2>2, <2>3, CreateEventLogs DEF Advances
<1> QED  BY <1>4, <1>5, <1>6, <1>7, <1>8, <1>9, <1>10, <1>11, <1>12 DEF Write

-----------------------------------------------------------------------------
(* A step that touches neither rows, histories nor money.                  *)
Untouched == UNCHANGED <<rows, events, ledger>>

LEMMA TouchingSteps ==
    ASSUME IInv, [Next]_vars
    PROVE  \/ Untouched
           \/ \E b \in Ordinary, x \in Cells, status \in {"pending_review", "waitlisted"} :
                CreateOrdinary(b, x, status) /\ UNCHANGED <<edit, shown>>
           \/ \E s \in Sessions : Opens(s) \/ Bills(s) \/ Advances(s)
<1>1. UNCHANGED vars \/ EditSchedule \/ Tick => Untouched
  BY DEF Untouched, vars, tables, EditSchedule, BeginEdit, LockEdit, CheckEdit, CommitEdit,
         AbortEdit, DeleteClosure, Tick
<1>2. ASSUME NEW s \in Sessions,
             LockSchedule(s) \/ CheckConfirmation(s) \/ CheckHold(s) \/ Abort(s)
      PROVE  Untouched
  BY <1>2 DEF Untouched, tables, LockSchedule, CheckConfirmation, CheckHold, Checked, Abort
<1>3. ASSUME NEW s \in Sessions,
             \/ OrdinaryRequest(s) \/ PartyRequest(s)
             \/ MaintenanceRequest(s) \/ CustomerRequest(s)
      PROVE  Untouched
  <2>1. \A r : Begin(s, r) => Untouched  BY DEF Begin, tables, Untouched
  <2>2. CASE PartyRequest(s)
    BY <2>1, <2>2 DEF PartyRequest, BeginCreateParty, BeginProposal,
       BeginPartyTransition, BeginAcceptance, BeginPayment, BeginCharge, BeginRefund,
       BeginExpiry
  <2> QED  BY <1>3, <2>1, <2>2 DEF OrdinaryRequest, MaintenanceRequest, CustomerRequest,
      BeginOrdinary, BeginExpiry, BeginCustomerRequest
<1> QED  BY <1>1, <1>2, <1>3, StepCases, CommitCases

(* The creation of an ordinary booking, in the same words.                 *)
LEMMA CreateLogs ==
    ASSUME StoreTypeOK, NEW b \in Ordinary, NEW x \in Cells,
           NEW status \in {"pending_review", "waitlisted"}, CreateOrdinary(b, x, status)
    PROVE  /\ b \in Bookings /\ b \notin Parties /\ rows[b].status = "absent"
           /\ rows'[b].status = status
           /\ \A c \in Bookings \ {b} : rows'[c] = rows[c]
           /\ status = "pending_review" => UNCHANGED events
           /\ status = "waitlisted" => Logged(b, "pending_review", status, NoOp)
           /\ UNCHANGED <<ledger, pc, req>>
<1>1. b \in Bookings /\ b \notin Parties  BY KindsDisjoint DEF Bookings
<1>2. rows' = [rows EXCEPT ![b] = [status |-> status, start |-> x, due |-> 0]]
  BY DEF CreateOrdinary
<1>3. rows'[b].status = status /\ \A c \in Bookings \ {b} : rows'[c] = rows[c]
  BY <1>1, <1>2 DEF StoreTypeOK
<1>4. status = "pending_review" => UNCHANGED events
  BY <1>1 DEF CreateOrdinary, StoreTypeOK
<1>5. status = "waitlisted" => Logged(b, "pending_review", status, NoOp)
  BY DEF CreateOrdinary, Logged
<1> QED  BY <1>1, <1>3, <1>4, <1>5 DEF CreateOrdinary, sessions

-----------------------------------------------------------------------------
(* Histories.                                                              *)

Explained(b) ==
    /\ \A i \in Moves(b) : LeadTo(b, i - 1, events[b][i].from)
    /\ IF rows[b].status = "absent" THEN events[b] = << >>
       ELSE LeadTo(b, Len(events[b]), rows[b].status)

LEMMA StillExplained ==
    ASSUME NEW b \in Bookings, Explained(b), events'[b] = events[b],
           rows'[b].status = rows[b].status
    PROVE  Explained(b)'
BY DEF Explained, Moves, LeadTo

(* An event that starts from the status the history leads to.              *)
LEMMA EventExplained ==
    ASSUME StoreTypeOK, NEW b \in Bookings, NEW from, NEW to, NEW op,
           Logged(b, from, to, op),
           \A i \in Moves(b) : LeadTo(b, i - 1, events[b][i].from),
           from # to => LeadTo(b, Len(events[b]), from),
           rows'[b].status # "absent",
           IF from = to THEN LeadTo(b, Len(events[b]), rows'[b].status) ELSE rows'[b].status = to
    PROVE  Explained(b)'
<1>1. PICK n \in Nat :
      /\ n = Len(events[b]) + 1 /\ n > 0 /\ n \notin DOMAIN events[b]
      /\ DOMAIN events[b] = 1 .. (n - 1)
      /\ Len(events'[b]) = n
      /\ DOMAIN events'[b] = DOMAIN events[b] \cup {n}
      /\ \A i \in DOMAIN events[b] : events'[b][i] = events[b][i]
      /\ events'[b][n].from = from /\ events'[b][n].to = to
  BY LoggedFacts
<1>2. Len(events[b]) = n - 1  BY <1>1 DEF StoreTypeOK
<1>3. Moves(b)' = IF from = to THEN Moves(b) ELSE Moves(b) \cup {n}
  BY <1>1 DEF Moves
<1>4. Moves(b) \subseteq DOMAIN events[b] /\ Moves(b) \subseteq 1 .. (n - 1)
  BY <1>1 DEF Moves
<1>5. ASSUME NEW m \in 0 .. (n - 1), NEW status
      PROVE  LeadTo(b, m, status)' <=> LeadTo(b, m, status)
  <2>1. {i \in Moves(b)' : i <= m} = {i \in Moves(b) : i <= m}
    BY <1>1, <1>3, <1>4
  <2>2. \A i \in Moves(b) : events'[b][i] = events[b][i]  BY <1>1, <1>4
  <2> QED  BY <2>1, <2>2 DEF LeadTo
<1>6. ASSUME NEW i \in Moves(b)'  PROVE LeadTo(b, i - 1, events[b][i].from)'
  <2>1. CASE i \in Moves(b)
    <3>1. i - 1 \in 0 .. (n - 1) /\ events'[b][i] = events[b][i]  BY <1>1, <1>4, <2>1
    <3>2. LeadTo(b, i - 1, events[b][i].from)  BY <2>1
    <3> QED  BY <1>5, <3>1, <3>2
  <2>2. CASE i \notin Moves(b)
    <3>1. i = n /\ from # to /\ n - 1 \in 0 .. (n - 1)  BY <1>1, <1>3, <2>2
    <3>2. LeadTo(b, n - 1, from)  BY <1>2, <3>1
    <3>3. LeadTo(b, n - 1, from)'  BY <1>5, <3>1, <3>2
    <3> QED  BY <3>1, <3>3, <1>1
  <2> QED  BY <2>1, <2>2
<1>7. LeadTo(b, n, rows[b].status)'
  <2>1. CASE from = to
    <3>1. LeadTo(b, n - 1, rows'[b].status)  BY <2>1, <1>2
    <3>2. {i \in Moves(b)' : i <= n} = {i \in Moves(b) : i <= n - 1}
      BY <2>1, <1>1, <1>3, <1>4
    <3>3. \A i \in Moves(b) : events'[b][i] = events[b][i]  BY <1>1, <1>4
    <3> QED  BY <3>1, <3>2, <3>3 DEF LeadTo
  <2>2. CASE from # to
    <3>1. {i \in Moves(b)' : i <= n} = Moves(b) \cup {n}  BY <2>2, <1>1, <1>3, <1>4
    <3>2. \A i \in Moves(b) \cup {n} :
            (\A j \in Moves(b) \cup {n} : j <= i) => i = n
      BY <1>1, <1>4
    <3>3. events'[b][n].to = rows'[b].status  BY <2>2, <1>1
    <3> QED  BY <3>1, <3>2, <3>3 DEF LeadTo
  <2> QED  BY <2>1, <2>2
<1> QED  BY <1>1, <1>6, <1>7 DEF Explained

LEMMA HistoryInv ==
    ASSUME IInv, HistoryExplainsStatus, [Next]_vars
    PROVE  HistoryExplainsStatus'
<1> SUFFICES ASSUME NEW b \in Bookings  PROVE Explained(b)'
  BY DEF HistoryExplainsStatus, Explained
<1>1. StoreTypeOK /\ Explained(b)  BY DEF IInv, TypeOK, HistoryExplainsStatus, Explained
<1>2. CASE Untouched  BY <1>1, <1>2, StillExplained DEF Untouched
<1>3. ASSUME NEW c \in Ordinary, NEW x \in Cells,
             NEW status \in {"pending_review", "waitlisted"}, CreateOrdinary(c, x, status)
      PROVE  Explained(b)'
  <2>1. /\ c \in Bookings /\ rows[c].status = "absent" /\ rows'[c].status = status
        /\ \A d \in Bookings \ {c} : rows'[d] = rows[d]
        /\ status = "pending_review" => UNCHANGED events
        /\ status = "waitlisted" => Logged(c, "pending_review", status, NoOp)
    BY <1>1, <1>3, CreateLogs
  <2>2. CASE b # c
    <3>1. events'[b] = events[b]  BY <1>1, <2>1, <2>2, LoggedFacts
    <3> QED  BY <1>1, <2>1, <2>2, <3>1, StillExplained
  <2>3. CASE b = c
    <3>1. events[b] = << >> /\ Moves(b) = {}  BY <1>1, <2>1, <2>3 DEF Explained, Moves
    <3>2. LeadTo(b, Len(events[b]), "pending_review")  BY <3>1 DEF LeadTo
    <3>3. CASE status = "pending_review"
      <4>1. Moves(b)' = {}  BY <3>1, <3>3, <2>1, <2>3 DEF Moves
      <4> QED  BY <4>1, <3>3, <2>1, <2>3 DEF Explained, LeadTo
    <3>4. CASE status = "waitlisted"
      BY <3>1, <3>2, <3>4, <1>1, <2>1, <2>3, EventExplained
    <3> QED  BY <3>3, <3>4
  <2> QED  BY <2>2, <2>3
<1>4. ASSUME NEW s \in Sessions, Opens(s) \/ Advances(s)  PROVE Explained(b)'
  <2> DEFINE r == req[s]
  <2>1. /\ MoveOf(r) /\ r.booking \in Bookings /\ rows[r.booking].status = r.from
        /\ rows'[r.booking].status = r.to
        /\ \A c \in Bookings \ {r.booking} : rows'[c] = rows[c]
    BY <1>4, RowWritten DEF Opens, Advances
  <2>2. r.to # "absent"  BY <2>1, MovesType
  <2>3. CASE b # r.booking
    <3>1. events'[b] = events[b]
      BY <1>1, <1>4, <2>1, <2>3, LoggedFacts DEF Opens, Advances
    <3> QED  BY <1>1, <2>1, <2>3, <3>1, StillExplained
  <2>4. CASE b = r.booking /\ Opens(s)
    <3>1. events'[b] = << >> /\ rows'[b].status = "pending_review"
      BY <1>1, <2>1, <2>4 DEF Opens, Explained
    <3>2. Moves(b)' = {}  BY <3>1 DEF Moves
    <3> QED  BY <3>1, <3>2 DEF Explained, LeadTo
  <2>5. CASE b = r.booking /\ Advances(s)
    <3>1. Logged(b, r.from, r.to, r.op) /\ rows[b].status # "absent"
      BY <2>1, <2>5 DEF Advances
    <3>2. LeadTo(b, Len(events[b]), r.from)  BY <1>1, <2>1, <2>5, <3>1 DEF Explained
    <3>3. \A i \in Moves(b) : LeadTo(b, i - 1, events[b][i].from)  BY <1>1 DEF Explained
    <3> QED  BY <1>1, <2>1, <2>2, <2>5, <3>1, <3>2, <3>3, EventExplained
  <2> QED  BY <1>4, <2>3, <2>4, <2>5
<1>5. ASSUME NEW s \in Sessions, Bills(s)  PROVE Explained(b)'
  <2> DEFINE r == req[s]
  <2>1. /\ pc[s] # "idle" /\ UNCHANGED rows /\ r.booking \in Bookings
        /\ r.from = "confirmed_paid" /\ Logged(r.booking, r.from, r.from, r.op)
    BY <1>5 DEF Bills, Bookings
  <2>2. rows[r.booking].status # "absent"
    BY <2>1, RunningRequest DEF ReadHolds
  <2>3. CASE b # r.booking
    <3>1. events'[b] = events[b]  BY <1>1, <2>1, <2>3, LoggedFacts
    <3> QED  BY <1>1, <2>1, <3>1, StillExplained
  <2>4. CASE b = r.booking
    BY <1>1, <2>1, <2>2, <2>4, EventExplained DEF Explained
  <2> QED  BY <2>3, <2>4
<1> QED  BY <1>2, <1>3, <1>4, <1>5, TouchingSteps

(* The status history of every booking is a walk to its status, although   *)
(* each transition read the status before it waited for a lock.            *)
THEOREM HistoriesExplain == Spec => []HistoryExplainsStatus
<1>1. Init => HistoryExplainsStatus
  BY DEF Init, StoreInit, HistoryExplainsStatus, Moves
<1> QED  BY <1>1, InitInv, NextInv, HistoryInv, PTL DEF Spec

-----------------------------------------------------------------------------
(* Operation ids.                                                          *)

LEMMA EventUnique ==
    ASSUME StoreTypeOK, OneEventPerOperation, NEW c \in Bookings, NEW from, NEW to, NEW op,
           Logged(c, from, to, op), OperationUnused(op)
    PROVE  OneEventPerOperation'
<1>1. PICK n \in Nat :
      /\ n \notin DOMAIN events[c]
      /\ DOMAIN events'[c] = DOMAIN events[c] \cup {n}
      /\ \A i \in DOMAIN events[c] : events'[c][i] = events[c][i]
      /\ events'[c][n].op = op
      /\ \A d \in Bookings \ {c} : events'[d] = events[d]
  BY LoggedFacts
<1>2. ASSUME NEW d \in Bookings, NEW i \in DOMAIN events'[d]
      PROVE  \/ i \in DOMAIN events[d] /\ events'[d][i] = events[d][i]
             \/ d = c /\ i = n /\ events'[d][i].op = op
  BY <1>1
<1>3. op # NoOp => \A d \in Bookings : \A i \in DOMAIN events[d] : events[d][i].op # op
  BY DEF OperationUnused
<1> QED  BY <1>2, <1>3 DEF OneEventPerOperation

LEMMA OperationInv ==
    ASSUME IInv, OneEventPerOperation, [Next]_vars
    PROVE  OneEventPerOperation'
<1>1. StoreTypeOK  BY DEF IInv, TypeOK
<1>2. CASE UNCHANGED events  BY <1>2 DEF OneEventPerOperation
<1>3. ASSUME NEW b \in Ordinary, NEW x \in Cells,
             NEW status \in {"pending_review", "waitlisted"}, CreateOrdinary(b, x, status)
      PROVE  OneEventPerOperation'
  <2>1. OperationUnused(NoOp)  BY DEF OperationUnused
  <2> QED  BY <1>1, <1>2, <1>3, <2>1, CreateLogs, EventUnique
<1>4. ASSUME NEW s \in Sessions, Advances(s) \/ Bills(s)  PROVE OneEventPerOperation'
  <2>1. req[s].booking \in Bookings
    BY <1>4, RunningRequest, MovesType DEF Advances, Bills, Writes
  <2> QED  BY <1>1, <1>4, <2>1, EventUnique DEF Advances, Bills
<1> QED  BY <1>2, <1>3, <1>4, TouchingSteps DEF Untouched, Opens

(* However operations are repeated and raced, an operation id leaves at    *)
(* most one event.                                                         *)
THEOREM OperationsLeaveOneEvent == Spec => []OneEventPerOperation
<1>1. Init => OneEventPerOperation  BY DEF Init, StoreInit, OneEventPerOperation
<1> QED  BY <1>1, InitInv, NextInv, OperationInv, PTL DEF Spec

-----------------------------------------------------------------------------
(* Money.                                                                  *)

Before == {"absent", "pending_review", "time_proposed", "awaiting_in_store_payment"}

(* A cancellation was asked for in time.                                   *)
Earned(p) ==
    \E i \in DOMAIN events[p] :
        /\ events[p][i].to = "cancellation_requested"
        /\ events[p][i].at + RefundNotice <= rows[p].start

(* What the rows and histories of parties say of payments ...              *)
PaymentsKnown ==
    \A p \in Parties :
        /\ rows[p].status \in Before =>
            ~ Reached(p, "confirmed_paid") /\ ~ Reached(p, "payment_expired")
        /\ rows[p].status = "confirmed_paid" => Reached(p, "confirmed_paid")
        /\ rows[p].status = "refunded" => Reached(p, "confirmed_paid") /\ Earned(p)

(* ... and what a running request has read of them, which nobody undoes.   *)
ReadPaid(r) ==
    r.booking \in Parties =>
        /\ r.from = "confirmed_paid" => Reached(r.booking, "confirmed_paid")
        /\ r.to = "refunded" =>
            /\ rows[r.booking].status \in {"cancelled", "refunded"}
            /\ Reached(r.booking, "confirmed_paid") /\ Earned(r.booking)

Ledger(p) ==
    /\ ledger[p].venue_fee = IF Reached(p, "confirmed_paid") THEN 1 ELSE 0
    /\ ~ (Reached(p, "confirmed_paid") /\ Reached(p, "payment_expired"))
    /\ ledger[p].refund = IF rows[p].status = "refunded" THEN 1 ELSE 0
    /\ ledger[p].extra > 0 => ledger[p].venue_fee = 1

MoneyInv ==
    /\ PaymentsKnown
    /\ \A p \in Parties : Ledger(p)
    /\ \A q \in Sessions : pc[q] # "idle" => ReadPaid(req[q])

LEMMA MoneyImplies ==
    ASSUME StoreTypeOK, MoneyInv
    PROVE  LedgerMatchesHistory /\ RefundsEarned
<1>1. ASSUME NEW p \in Parties
      PROVE  /\ ledger[p].refund + ledger[p].extra > 0 => ledger[p].venue_fee = 1
             /\ ledger[p].refund > 0 => rows[p].status = "refunded" /\ Earned(p)
  <2>1. ledger[p].venue_fee \in Nat /\ ledger[p].extra \in Nat /\ ledger[p].refund \in Nat
    BY DEF StoreTypeOK, Charges
  <2>2. Ledger(p) /\ (rows[p].status = "refunded" => Reached(p, "confirmed_paid") /\ Earned(p))
    BY DEF MoneyInv, PaymentsKnown
  <2> QED  BY <2>1, <2>2 DEF Ledger
<1>2. LedgerMatchesHistory  BY <1>1 DEF LedgerMatchesHistory, MoneyInv, Ledger
<1> QED  BY <1>1, <1>2 DEF RefundsEarned, Earned

(* Events stay.                                                            *)
LEMMA ReachedStays ==
    ASSUME StoreTypeOK, NEW b \in Bookings, NEW from, NEW to, NEW op, Logged(b, from, to, op),
           NEW p \in Bookings
    PROVE  /\ \A status : Reached(p, status)' <=>
                Reached(p, status) \/ (p = b /\ status = to)
           /\ (rows'[p].start = rows[p].start /\ Earned(p)) => Earned(p)'
<1>1. PICK n \in Nat :
      /\ n \notin DOMAIN events[b]
      /\ DOMAIN events'[b] = DOMAIN events[b] \cup {n}
      /\ \A i \in DOMAIN events[b] : events'[b][i] = events[b][i]
      /\ events'[b][n].to = to
      /\ \A d \in Bookings \ {b} : events'[d] = events[d]
  BY LoggedFacts
<1>2. CASE p # b  BY <1>1, <1>2 DEF Reached, Earned
<1>3. CASE p = b
  <2>1. \A status : Reached(p, status)' <=> Reached(p, status) \/ (p = b /\ status = to)
    BY <1>1, <1>3 DEF Reached
  <2>2. (rows'[p].start = rows[p].start /\ Earned(p)) => Earned(p)'
    BY <1>1, <1>3 DEF Earned
  <2> QED  BY <2>1, <2>2
<1> QED  BY <1>2, <1>3

(* What a request reads when it opens.                                     *)
LEMMA OpeningReads ==
    ASSUME IInv, MoneyInv, NEW s \in Sessions, NEW b \in Bookings, NEW to, NEW x, NEW due,
           NEW by, NEW op, Begin(s, Ask(b, to, x, due, by, op)),
           (to = "refunded" /\ b \in Parties) => rows[b].status = "cancelled" /\ RefundDue(b)
    PROVE  \E r : Begin(s, r) /\ ReadPaid(r)
<1> DEFINE r == Ask(b, to, x, due, by, op)
<1>1. r.booking = b /\ r.from = rows[b].status /\ r.to = to  BY DEF Ask
<1>2. ASSUME b \in Parties, to = "refunded"
      PROVE  Reached(b, "confirmed_paid") /\ Earned(b)
  <2>1. ledger[b].venue_fee > 0  BY <1>2 DEF RefundDue
  <2>2. Reached(b, "confirmed_paid")  BY <1>2, <2>1 DEF MoneyInv, Ledger
  <2>3. PICK e \in LatestCancellationRequest(b) : rows[b].start - e.at >= RefundNotice
    BY <1>2 DEF RefundDue
  <2>4. PICK i \in DOMAIN events[b] : e = events[b][i] /\ e.to = "cancellation_requested"
    BY <2>3 DEF LatestCancellationRequest
  <2>5. rows[b].start \in Cells
    BY <1>2 DEF IInv, ReservationProtocol, RowsPlaced
  <2>6. e.at \in Nat
    <3>1. events[b] \in Seq(Event)  BY DEF IInv, TypeOK, StoreTypeOK
    <3>2. events[b][i] \in Event  BY <2>4, <3>1
    <3> QED  BY <2>4, <3>2 DEF Event
  <2>7. e.at + RefundNotice <= rows[b].start
    BY <2>3, <2>5, <2>6, RequestAssumption, LastCellAssumption DEF Cells
  <2> QED  BY <2>2, <2>4, <2>7 DEF Earned
<1>3. ReadPaid(r)  BY <1>1, <1>2 DEF ReadPaid, MoneyInv, PaymentsKnown
<1> QED  BY <1>3

LEMMA RequestReads ==
    ASSUME IInv, MoneyInv, NEW s \in Sessions,
           \/ OrdinaryRequest(s) \/ PartyRequest(s)
           \/ MaintenanceRequest(s) \/ CustomerRequest(s)
    PROVE  \E r : Begin(s, r) /\ ReadPaid(r)
<1> USE DEF Bookings
<1>1. CASE OrdinaryRequest(s)
  <2>1. PICK b \in Ordinary, op \in Ops, to \in Statuses, x \in Cells :
          BeginOrdinary(s, op, b, to, x)
    BY <1>1 DEF OrdinaryRequest
  <2>2. b \notin Parties  BY KindsDisjoint
  <2> QED  BY <2>1, <2>2, OpeningReads DEF BeginOrdinary
<1>2. CASE CustomerRequest(s)
  BY <1>2, OpeningReads DEF CustomerRequest, BeginCustomerRequest
<1>3. CASE MaintenanceRequest(s)
  BY <1>3, OpeningReads DEF MaintenanceRequest, BeginExpiry
<1>4. CASE PartyRequest(s)
  <2>1. PICK p \in Parties :
        \/ \E x \in Cells : BeginCreateParty(s, p, x)
        \/ \E op \in Ops, x \in Cells, due \in Cells : BeginProposal(s, op, p, x, due)
        \/ \E op \in Ops, to \in Statuses : BeginPartyTransition(s, op, p, to)
        \/ \E by \in {"staff", "customer"}, op \in Ops \cup {NoOp} : BeginAcceptance(s, p, by, op)
        \/ \E op \in Ops : \/ BeginPayment(s, op, p)
                           \/ BeginCharge(s, op, p)
                           \/ BeginRefund(s, op, p)
                           \/ BeginExpiry(s, p, "staff", op)
    BY <1>4 DEF PartyRequest
  <2>2. ASSUME NEW x \in Cells, BeginCreateParty(s, p, x)  PROVE \E r : Begin(s, r) /\ ReadPaid(r)
    BY <2>2, OpeningReads DEF BeginCreateParty
  <2>3. ASSUME NEW op \in Ops, NEW x \in Cells, NEW due \in Cells, BeginProposal(s, op, p, x, due)
        PROVE  \E r : Begin(s, r) /\ ReadPaid(r)
    <3> DEFINE to == IF x = rows[p].start THEN "awaiting_in_store_payment" ELSE "time_proposed"
    <3>1. to # "refunded" /\ Begin(s, Ask(p, to, x, due, "staff", op))
      BY <2>3 DEF BeginProposal
    <3> HIDE DEF to
    <3> QED  BY <3>1, OpeningReads
  <2>4. ASSUME NEW op \in Ops, NEW to \in Statuses, BeginPartyTransition(s, op, p, to)
        PROVE  \E r : Begin(s, r) /\ ReadPaid(r)
    <3>1. to # "refunded"  BY <2>4 DEF BeginPartyTransition, PARTY_TRANSITIONS
    <3> QED  BY <2>4, <3>1, OpeningReads DEF BeginPartyTransition
  <2>5. ASSUME NEW by \in {"staff", "customer"}, NEW op \in Ops \cup {NoOp},
               BeginAcceptance(s, p, by, op)
        PROVE  \E r : Begin(s, r) /\ ReadPaid(r)
    BY <2>5, OpeningReads DEF BeginAcceptance
  <2>6. ASSUME NEW op \in Ops, BeginPayment(s, op, p) \/ BeginCharge(s, op, p)
        PROVE  \E r : Begin(s, r) /\ ReadPaid(r)
    BY <2>6, OpeningReads DEF BeginPayment, BeginCharge
  <2>7. ASSUME NEW op \in Ops, BeginRefund(s, op, p)  PROVE \E r : Begin(s, r) /\ ReadPaid(r)
    BY <2>7, OpeningReads DEF BeginRefund
  <2>8. ASSUME NEW op \in Ops, BeginExpiry(s, p, "staff", op)
        PROVE  \E r : Begin(s, r) /\ ReadPaid(r)
    BY <2>8, OpeningReads DEF BeginExpiry
  <2> QED  BY <2>1, <2>2, <2>3, <2>4, <2>5, <2>6, <2>7, <2>8
<1> QED  BY <1>1, <1>2, <1>3, <1>4

(* The sessions that run after a step ran before, or have just read.       *)
LEMMA SessionsRead ==
    ASSUME IInv, MoneyInv, [Next]_vars, NEW q \in Sessions, pc'[q] # "idle"
    PROVE  /\ ReadPaid(req'[q])
           /\ Untouched \/ (pc[q] # "idle" /\ req'[q] = req[q])
<1>1. StoreTypeOK  BY DEF IInv, TypeOK
<1>2. ASSUME pc[q] # "idle", req'[q] = req[q]  PROVE ReadPaid(req'[q])
  BY <1>2 DEF MoneyInv
<1>3. ASSUME NEW s \in Sessions,
             \/ OrdinaryRequest(s) \/ PartyRequest(s)
             \/ MaintenanceRequest(s) \/ CustomerRequest(s)
      PROVE  ReadPaid(req'[q]) /\ Untouched
  <2>1. PICK r : Begin(s, r) /\ ReadPaid(r)  BY <1>3, RequestReads
  <2>2. /\ Untouched /\ req'[s] = r /\ (pc[q] # "idle" \/ q = s)
        /\ q # s => pc'[q] = pc[q] /\ req'[q] = req[q]
    BY <1>1, <2>1, pc'[q] # "idle" DEF Begin, StoreTypeOK, Untouched, tables
  <2> QED  BY <2>1, <2>2, <1>1, <1>2 DEF Begin, StoreTypeOK, Untouched, tables
<1>4. ASSUME NEW s \in Sessions, Abort(s) \/ Write(s)
      PROVE  pc[q] # "idle" /\ req'[q] = req[q]
  <2>1. Finish(s)
    BY <1>4, CommitCases DEF Abort, Opens, Bills, Advances, Writes
  <2> QED  BY <1>1, <2>1, pc'[q] # "idle" DEF Finish, StoreTypeOK
<1>5. ASSUME NEW s \in Sessions, LockSchedule(s) \/ CheckConfirmation(s) \/ CheckHold(s)
      PROVE  pc[q] # "idle" /\ req'[q] = req[q]
  <2>1. pc[s] # "idle" /\ (\E stage : pc' = [pc EXCEPT ![s] = stage]) /\ req' = req
    BY <1>5 DEF LockSchedule, CheckConfirmation, CheckHold, Checked
  <2> QED  BY <1>1, <2>1, pc'[q] # "idle" DEF StoreTypeOK
<1>6. ASSUME UNCHANGED vars \/ EditSchedule \/ Tick  PROVE UNCHANGED <<pc, req>>
  BY <1>6 DEF vars, tables, sessions, EditSchedule, BeginEdit, LockEdit, CheckEdit, CommitEdit,
         AbortEdit, DeleteClosure, Tick
<1>7. ASSUME NEW b \in Ordinary, NEW x \in Cells,
             NEW status \in {"pending_review", "waitlisted"}, CreateOrdinary(b, x, status)
      PROVE  UNCHANGED <<pc, req>>
  BY <1>7 DEF CreateOrdinary, sessions
<1> QED  BY <1>2, <1>3, <1>4, <1>5, <1>6, <1>7, StepCases, pc'[q] # "idle"

-----------------------------------------------------------------------------
(* Parties a commit is not about.                                          *)
LEMMA OthersKeep ==
    ASSUME StoreTypeOK, PaymentsKnown, NEW p \in Parties, Ledger(p),
           events'[p] = events[p], rows'[p] = rows[p], ledger'[p] = ledger[p]
    PROVE  /\ Ledger(p)'
           /\ rows'[p].status \in Before =>
                ~ Reached(p, "confirmed_paid")' /\ ~ Reached(p, "payment_expired")'
           /\ rows'[p].status = "confirmed_paid" => Reached(p, "confirmed_paid")'
           /\ rows'[p].status = "refunded" => Reached(p, "confirmed_paid")' /\ Earned(p)'
BY DEF PaymentsKnown, Ledger, Reached, Earned

(* The party it is about.                                                  *)
LEMMA AdvanceKeeps ==
    ASSUME IInv, MoneyInv, NEW s \in Sessions, Advances(s),
           NEW p \in Parties, req[s].booking = p
    PROVE  /\ Ledger(p)'
           /\ rows'[p].status \in Before =>
                ~ Reached(p, "confirmed_paid")' /\ ~ Reached(p, "payment_expired")'
           /\ rows'[p].status = "confirmed_paid" => Reached(p, "confirmed_paid")'
           /\ rows'[p].status = "refunded" => Reached(p, "confirmed_paid")' /\ Earned(p)'
<1>0. PICK r : r = req[s] /\ r.booking = p  OBVIOUS
<1>1. StoreTypeOK /\ p \in Bookings /\ p \notin Ordinary
  BY KindsDisjoint DEF IInv, TypeOK, Bookings
<1>2. /\ MoveOf(r) /\ rows[p].status = r.from /\ rows'[p].status = r.to
      /\ r.to \in {"cancelled", "refunded"} => rows'[p].start = rows[p].start
  BY <1>0, RowWritten DEF Advances
<1>3. <<r.from, r.to>> \in PartyMoves /\ r.from # "absent"  BY <1>0, <1>1, <1>2 DEF MoveOf, Advances
<1>4. Logged(p, r.from, r.to, r.op)  BY <1>0 DEF Advances
<1>5. \A status : Reached(p, status)' <=> Reached(p, status) \/ status = r.to
  BY <1>0, <1>0, <1>1, <1>4, ReachedStays
<1>6. /\ Ledger(p) /\ ReadPaid(r)
      /\ r.from \in Before => ~ Reached(p, "confirmed_paid") /\ ~ Reached(p, "payment_expired")
      /\ r.from = "confirmed_paid" => Reached(p, "confirmed_paid")
  BY <1>0, <1>2 DEF MoneyInv, PaymentsKnown, Advances, Writes
<1>7. /\ r.to \in Before => r.from \in Before
      /\ r.to = "confirmed_paid" => r.from = "confirmed_paid" \/ Pays(r)
      /\ r.to = "payment_expired" => r.from \in Before
      /\ r.from # "refunded"
      /\ Pays(r) => r.from \in Before /\ r.to = "confirmed_paid" /\ r.to # "refunded"
  BY <1>3 DEF PartyMoves, PARTY_TRANSITIONS, Answerable, Before, Pays
<1>8. r.to = "refunded" => Reached(p, "confirmed_paid") /\ Earned(p)'
  BY <1>0, <1>1, <1>2, <1>4, <1>6, ReachedStays DEF ReadPaid
<1>9. ledger[p].venue_fee \in Nat /\ ledger[p].extra \in Nat /\ ledger[p].refund \in Nat
  BY <1>1 DEF StoreTypeOK, Charges
<1>10. /\ ledger'[p].venue_fee = IF Pays(r) THEN ledger[p].venue_fee + 1 ELSE ledger[p].venue_fee
       /\ ledger'[p].extra = ledger[p].extra
       /\ ledger'[p].refund = IF r.to = "refunded" THEN ledger[p].refund + 1 ELSE ledger[p].refund
  BY <1>0, <1>7, <1>9 DEF Advances, Entered, SameLedger
<1>11. Reached(p, "confirmed_paid")' <=> Reached(p, "confirmed_paid") \/ Pays(r)
  BY <1>5, <1>6, <1>7
<1>12. Ledger(p)'
  <2>1. ledger'[p].venue_fee = IF Reached(p, "confirmed_paid")' THEN 1 ELSE 0
    BY <1>6, <1>7, <1>10, <1>11 DEF Ledger
  <2>2. ~ (Reached(p, "confirmed_paid")' /\ Reached(p, "payment_expired")')
    BY <1>5, <1>6, <1>7, <1>11 DEF Ledger, Pays
  <2>3. ledger'[p].refund = IF rows'[p].status = "refunded" THEN 1 ELSE 0
    BY <1>2, <1>6, <1>7, <1>10 DEF Ledger
  <2>4. ledger'[p].extra > 0 => ledger'[p].venue_fee = 1
    BY <1>6, <1>7, <1>10, <2>1, <1>11 DEF Ledger
  <2> QED  BY <2>1, <2>2, <2>3, <2>4 DEF Ledger
<1>13. r.to \in Before => ~ Reached(p, "confirmed_paid")' /\ ~ Reached(p, "payment_expired")'
  BY <1>5, <1>6, <1>7 DEF Before
<1> QED  BY <1>2, <1>5, <1>8, <1>11, <1>12, <1>13

LEMMA MoneyStep ==
    ASSUME IInv, MoneyInv, [Next]_vars
    PROVE  MoneyInv'
<1>1. StoreTypeOK  BY DEF IInv, TypeOK
<1>2. \A p \in Parties : p \in Bookings  BY DEF Bookings
(* The rows and the ledger of one party.                                   *)
<1>3. ASSUME NEW p \in Parties
      PROVE  /\ Ledger(p)'
             /\ rows'[p].status \in Before =>
                  ~ Reached(p, "confirmed_paid")' /\ ~ Reached(p, "payment_expired")'
             /\ rows'[p].status = "confirmed_paid" => Reached(p, "confirmed_paid")'
             /\ rows'[p].status = "refunded" => Reached(p, "confirmed_paid")' /\ Earned(p)'
  <2>1. PaymentsKnown /\ Ledger(p)  BY DEF MoneyInv
  <2>2. CASE events'[p] = events[p] /\ rows'[p] = rows[p] /\ ledger'[p] = ledger[p]
    BY <1>1, <2>1, <2>2, OthersKeep
  <2>3. CASE Untouched  BY <2>2, <2>3 DEF Untouched
  <2>4. ASSUME NEW b \in Ordinary, NEW x \in Cells,
               NEW status \in {"pending_review", "waitlisted"}, CreateOrdinary(b, x, status)
        PROVE  events'[p] = events[p] /\ rows'[p] = rows[p] /\ ledger'[p] = ledger[p]
    BY <1>1, <1>2, <2>4, CreateLogs, LoggedFacts
  <2>5. ASSUME NEW s \in Sessions, Opens(s), req[s].booking = p
        PROVE  /\ events'[p] = events[p] /\ ledger'[p] = ledger[p]
               /\ rows[p].status = "absent" /\ rows'[p].status = "pending_review"
    BY <2>5, RowWritten DEF Opens
  <2>6. ASSUME NEW s \in Sessions, Opens(s), req[s].booking = p
        PROVE  /\ Ledger(p)'
               /\ ~ Reached(p, "confirmed_paid")' /\ ~ Reached(p, "payment_expired")'
               /\ rows'[p].status = "pending_review"
    BY <2>1, <2>5, <2>6 DEF Ledger, PaymentsKnown, Before, Reached
  <2>7. ASSUME NEW s \in Sessions, Opens(s) \/ Bills(s) \/ Advances(s), req[s].booking # p
        PROVE  events'[p] = events[p] /\ rows'[p] = rows[p] /\ ledger'[p] = ledger[p]
    <3>1. req[s].booking \in Bookings
      BY <2>7, RunningRequest, MovesType DEF Opens, Bills, Advances, Writes
    <3>2. rows'[p] = rows[p]  BY <1>2, <2>7, RowWritten DEF Opens, Bills, Advances
    <3>3. events'[p] = events[p]
      BY <1>1, <1>2, <2>7, <3>1, LoggedFacts DEF Opens, Bills, Advances
    <3>4. ledger'[p] = ledger[p]  BY <2>7 DEF Opens, Bills, Advances, Entered, SameLedger
    <3> QED  BY <3>2, <3>3, <3>4
  <2>8. ASSUME NEW s \in Sessions, Bills(s), req[s].booking = p
        PROVE  /\ Ledger(p)'
               /\ rows'[p].status \in Before =>
                    ~ Reached(p, "confirmed_paid")' /\ ~ Reached(p, "payment_expired")'
               /\ rows'[p].status = "confirmed_paid" => Reached(p, "confirmed_paid")'
               /\ rows'[p].status = "refunded" => Reached(p, "confirmed_paid")' /\ Earned(p)'
    <3>1. Reached(p, "confirmed_paid")
      BY <2>8 DEF Bills, MoneyInv, ReadPaid
    <3>2. rows' = rows /\ Logged(p, "confirmed_paid", "confirmed_paid", req[s].op)
      BY <2>8 DEF Bills
    <3>3. /\ \A status : Reached(p, status)' <=> Reached(p, status)
          /\ Earned(p) => Earned(p)'
      BY <1>1, <1>2, <3>1, <3>2, ReachedStays
    <3>4. ledger[p].venue_fee \in Nat /\ ledger[p].extra \in Nat /\ ledger[p].refund \in Nat
      BY <1>1 DEF StoreTypeOK, Charges
    <3>5. /\ ledger'[p].venue_fee = ledger[p].venue_fee /\ ledger'[p].refund = ledger[p].refund
      BY <2>8, <3>4 DEF Bills, Entered
    <3>6. Ledger(p)'  BY <2>1, <3>1, <3>2, <3>3, <3>5 DEF Ledger
    <3> QED  BY <2>1, <3>2, <3>3, <3>6 DEF PaymentsKnown
  <2>9. ASSUME NEW s \in Sessions, Opens(s), req[s].booking = p
        PROVE  /\ Ledger(p)'
               /\ rows'[p].status \in Before =>
                    ~ Reached(p, "confirmed_paid")' /\ ~ Reached(p, "payment_expired")'
               /\ rows'[p].status = "confirmed_paid" => Reached(p, "confirmed_paid")'
               /\ rows'[p].status = "refunded" => Reached(p, "confirmed_paid")' /\ Earned(p)'
    BY <2>6, <2>9
  <2> QED  BY <2>2, <2>3, <2>4, <2>7, <2>8, <2>9, AdvanceKeeps, TouchingSteps
(* What the running requests have read.                                    *)
<1>4. ASSUME NEW q \in Sessions, pc'[q] # "idle"  PROVE ReadPaid(req[q])'
  <2>0. PICK r, p : r = req'[q] /\ p = r.booking  OBVIOUS
  <2>1. /\ ReadPaid(r)
        /\ Untouched \/ (pc[q] # "idle" /\ req'[q] = req[q])
    BY <1>4, <2>0, SessionsRead
  <2>2. CASE Untouched  BY <2>0, <2>1, <2>2 DEF Untouched, ReadPaid, Reached, Earned
  <2>3. CASE p \notin Parties  BY <2>0, <2>3 DEF ReadPaid
  <2>4. ASSUME p \in Parties, NEW s \in Sessions, Opens(s) \/ Bills(s) \/ Advances(s)
        PROVE  ReadPaid(req[q])'
    <3>1. p \in Bookings /\ req[s].booking \in Bookings
      BY <2>4, RunningRequest, MovesType DEF Opens, Bills, Advances, Writes, Bookings
    <3>2. \A status : Reached(p, status) => Reached(p, status)'
      <4>1. CASE Opens(s)  BY <4>1 DEF Opens, Reached
      <4>2. CASE ~ Opens(s)  BY <1>1, <2>4, <3>1, <4>2, ReachedStays DEF Bills, Advances
      <4> QED  BY <4>1, <4>2
    <3>3. ASSUME rows[p].status \in {"cancelled", "refunded"}, Earned(p)
          PROVE  rows'[p].status \in {"cancelled", "refunded"} /\ rows'[p].start = rows[p].start
      <4>1. CASE rows'[p] = rows[p]  BY <3>3, <4>1
      <4>2. CASE (Opens(s) \/ Advances(s)) /\ p = req[s].booking
        <5>1. /\ MoveOf(req[s]) /\ rows[p].status = req[s].from /\ rows'[p].status = req[s].to
              /\ req[s].to \in {"cancelled", "refunded"} => rows'[p].start = rows[p].start
          BY <4>2, RowWritten DEF Opens, Advances
        <5>2. p \notin Ordinary  BY <2>4, KindsDisjoint
        <5>3. <<req[s].from, req[s].to>> \in PartyMoves  BY <4>2, <5>1, <5>2 DEF MoveOf
        <5>4. req[s].to = "refunded"
          BY <3>3, <5>1, <5>3 DEF PartyMoves, PARTY_TRANSITIONS, Answerable
        <5> QED  BY <5>1, <5>4
      <4>3. (p # req[s].booking \/ Bills(s)) => rows'[p] = rows[p]
        BY <2>4, <3>1, RowWritten DEF Opens, Bills, Advances
      <4> QED  BY <2>4, <4>1, <4>2, <4>3
    <3>4. (rows'[p].start = rows[p].start /\ Earned(p)) => Earned(p)'
      BY <1>1, <2>4, <3>1, ReachedStays DEF Opens, Bills, Advances, Earned
    <3> QED  BY <2>0, <2>1, <3>2, <3>3, <3>4 DEF ReadPaid
  <2>5. ASSUME p \in Parties, NEW b \in Ordinary, NEW x \in Cells,
               NEW status \in {"pending_review", "waitlisted"}, CreateOrdinary(b, x, status)
        PROVE  ReadPaid(req[q])'
    <3>1. events'[p] = events[p] /\ rows'[p] = rows[p]
      BY <1>1, <1>2, <2>5, CreateLogs, LoggedFacts
    <3> QED  BY <2>0, <2>1, <3>1 DEF ReadPaid, Reached, Earned
  <2> QED  BY <2>2, <2>3, <2>4, <2>5, TouchingSteps
<1> QED  BY <1>3, <1>4 DEF MoneyInv, PaymentsKnown

LEMMA MoneyInvariant == Spec => [](StoreTypeOK /\ MoneyInv)
<1>1. Init => MoneyInv
  BY DEF Init, StoreInit, MoneyInv, PaymentsKnown, Ledger, Reached, Before, Bookings
<1>2. IInv => StoreTypeOK  BY DEF IInv, TypeOK
<1> QED  BY <1>1, <1>2, InitInv, NextInv, MoneyStep, PTL DEF Spec

(* One fee for each payment and none without, never paid and expired, a    *)
(* refund exactly of what was paid and is refunded.                        *)
THEOREM LedgerAgrees == Spec => []LedgerMatchesHistory
BY MoneyInvariant, MoneyImplies, PTL

(* A refund follows a cancellation that was asked for in time.             *)
THEOREM RefundsAreEarned == Spec => []RefundsEarned
BY MoneyInvariant, MoneyImplies, PTL
=============================================================================
