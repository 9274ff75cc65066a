-------------------------------- MODULE Studio --------------------------------
(***************************************************************************)
(* The booking system: staff and customers of ordinary and party bookings, *)
(* the maintenance worker and the schedule editor, as concurrent           *)
(* transactions over the tables of BookingStore.                           *)
(***************************************************************************)
EXTENDS OrdinaryWorkflow, PartyWorkflow, CustomerLinks, ScheduleAdmin

vars == <<tables, calendar, sessions, now, edit, shown>>

Init == StoreInit /\ AdminInit

OrdinaryRequest(s) ==
    \E b \in Ordinary, op \in Ops, to \in Statuses, x \in Cells :
        BeginOrdinary(s, op, b, to, x)

PartyRequest(s) ==
    \E p \in Parties :
        \/ \E x \in Cells : BeginCreateParty(s, p, x)
        \/ \E op \in Ops, x \in Cells, due \in Cells : BeginProposal(s, op, p, x, due)
        \/ \E op \in Ops, to \in Statuses : BeginPartyTransition(s, op, p, to)
        \/ \E by \in {"staff", "customer"}, op \in Ops \cup {NoOp} : BeginAcceptance(s, p, by, op)
        \/ \E op \in Ops : \/ BeginPayment(s, op, p)
                           \/ BeginCharge(s, op, p)
                           \/ BeginRefund(s, op, p)
                           \/ BeginExpiry(s, p, "staff", op)

(* The maintenance worker expires the holds that are past their deadline.  *)
MaintenanceRequest(s) == \E p \in Parties : BeginExpiry(s, p, "system", NoOp)

CustomerRequest(s) ==
    \E b \in Bookings, to \in Statuses : BeginCustomerRequest(s, b, to)

Write(s) ==
    \/ CommitOrdinary(s) \/ CommitCustomerRequest(s)
    \/ CommitCreateParty(s) \/ CommitProposal(s) \/ CommitAcceptance(s)
    \/ CommitPartyTransition(s) \/ CommitPayment(s) \/ CommitExpiry(s)
    \/ CommitCharge(s) \/ CommitRefund(s)

Step(s) == LockSchedule(s) \/ CheckConfirmation(s) \/ CheckHold(s) \/ Write(s)

Transaction(s) ==
    \/ OrdinaryRequest(s) \/ PartyRequest(s) \/ MaintenanceRequest(s) \/ CustomerRequest(s)
    \/ Step(s) \/ Abort(s)

EditSchedule ==
    \/ \E e \in Edits : \E ack \in {NoAck, shown} : BeginEdit(e[1], e[2], ack)
    \/ LockEdit \/ CheckEdit \/ CommitEdit \/ AbortEdit
    \/ \E cells \in closures : DeleteClosure(cells)

Next ==
    \/ \E b \in Ordinary, x \in Cells, status \in {"pending_review", "waitlisted"} :
            CreateOrdinary(b, x, status) /\ UNCHANGED <<edit, shown>>
    \/ \E s \in Sessions : Transaction(s) /\ UNCHANGED <<edit, shown>>
    \/ EditSchedule
    \/ Tick /\ UNCHANGED <<edit, shown>>

Spec == Init /\ [][Next]_vars
-----------------------------------------------------------------------------
(* Invariants.                                                             *)

TypeOK == StoreTypeOK /\ AdminTypeOK

(* The schedule lock is held from LockSchedule to COMMIT by the session    *)
(* whose progress says so, and by nobody else; so it is by the editor.     *)
LockHeld ==
    /\ \A s \in Sessions :
        pc[s] \in {"locked", "checked"} => lock = s /\ NeedsSchedule(req[s])
    /\ edit.stage \in {"locked", "write"} => lock = Clerk

PartyMoves ==
    PARTY_TRANSITIONS
    \cup (Answerable \X {"cancellation_requested", "reschedule_requested"})
    \cup {<<"absent", "pending_review">>, <<"pending_review", "time_proposed">>,
          <<"pending_review", "awaiting_in_store_payment">>,
          <<"time_proposed", "awaiting_in_store_payment">>,
          <<"awaiting_in_store_payment", "confirmed_paid">>,
          <<"awaiting_in_store_payment", "payment_expired">>,
          <<"confirmed_paid", "confirmed_paid">>, <<"cancelled", "refunded">>}

(* A running request asks for a move of its kind of booking, and names the *)
(* start whenever the move sets one.                                       *)
MoveOf(r) ==
    /\ r \in Request
    /\ IF r.booking \in Ordinary THEN <<r.from, r.to>> \in ORDINARY_TRANSITIONS
       ELSE <<r.from, r.to>> \in PartyMoves
    /\ r.to \in {"pending_review", "confirmed", "time_proposed", "awaiting_in_store_payment"}
        => r.at \in Cells

(* What a session read without a lock and its commit relies on besides the *)
(* status: the start of a booking that has never been confirmed, and of a  *)
(* proposal, does not change before its status does.                       *)
ReadHolds(r) ==
    LET row == rows[r.booking]
        unplaced == {"pending_review", "waitlisted"} IN
    /\ r.from # "absent" => row.status # "absent"
    /\ (r.booking \in Ordinary /\ r.from \in unplaced /\ row.status \in unplaced)
        => row.start = r.was
    /\ (r.from = "time_proposed" /\ r.to = "awaiting_in_store_payment")
        => row.start = r.at /\ row.status # "pending_review"

(* A session that evaluated the calendar may still reserve what it checked *)
(* there when it writes, whatever was committed in between.                *)
CheckStands(s) ==
    pc[s] = "checked" =>
        /\ Fits(Held, req[s].booking, req[s].at)
        /\ OpenFor(req[s].booking, req[s].at)

RowsPlaced ==
    \A b \in Bookings :
        /\ rows[b].status # "absent" => rows[b].start \in Cells
        /\ b \in Ordinary => rows[b].status # "confirmed_paid"

(* An edit about to commit is acknowledged for every reservation it hits.  *)
EditCovered ==
    edit.stage = "write" =>
        Affected(edit.kind, edit.cells) \subseteq
            IF edit.ack = NoAck THEN {} ELSE edit.ack.affected

(* The protocol by which unlocked reads, one global lock and compare-and-  *)
(* set updates amount to atomic reservations.                              *)
ReservationProtocol ==
    /\ LockHeld
    /\ \A s \in Sessions :
        pc[s] # "idle" => MoveOf(req[s]) /\ ReadHolds(req[s]) /\ CheckStands(s)
    /\ RowsPlaced
    /\ EditCovered

(* At no instant do the confirmed ordinary bookings (confirmed, or waiting *)
(* for a cancellation or a new time) bring more people than the studio     *)
(* takes, whatever confirmations, moves and cancellations overlap in time. *)
NeverOverbooked == WithinCapacity(Held)

(* From the hold on, through setup and cleanup, a party shares no instant  *)
(* with another party or with a confirmed ordinary booking.                *)
PartiesExclusive == PartiesAlone(Held)

Moves(b) == {i \in DOMAIN events[b] : events[b][i].from # events[b][i].to}

(* The moves among the first n events of a booking end in this status.     *)
LeadTo(b, n, status) ==
    LET walk == {i \in Moves(b) : i <= n} IN
    /\ walk = {} => status = "pending_review"
    /\ \A i \in walk : (\A j \in walk : j <= i) => events[b][i].to = status

(* The status history of a booking is a walk from pending_review to its    *)
(* status: no committed transition started from a status the booking had   *)
(* already left, and none was lost.                                        *)
HistoryExplainsStatus ==
    \A b \in Bookings :
        /\ \A i \in Moves(b) : LeadTo(b, i - 1, events[b][i].from)
        /\ IF rows[b].status = "absent" THEN events[b] = << >>
           ELSE LeadTo(b, Len(events[b]), rows[b].status)

Reached(p, status) == \E i \in DOMAIN events[p] : events[p][i].to = status

(* The money ledger of a party agrees with its history: one venue fee, and *)
(* exactly if the payment was confirmed; never both paid and expired; one  *)
(* refund, only of a fee, and exactly if the booking is refunded; extra    *)
(* charges only on a party that was paid.                                  *)
LedgerMatchesHistory ==
    \A p \in Parties :
        /\ ledger[p].venue_fee = IF Reached(p, "confirmed_paid") THEN 1 ELSE 0
        /\ ~ (Reached(p, "confirmed_paid") /\ Reached(p, "payment_expired"))
        /\ ledger[p].refund = IF rows[p].status = "refunded" THEN 1 ELSE 0
        /\ ledger[p].refund + ledger[p].extra > 0 => ledger[p].venue_fee = 1

(* A refund is only ever recorded for a party whose cancellation had been  *)
(* requested at least the notice period before the guests' start.          *)
RefundsEarned ==
    \A p \in Parties : ledger[p].refund > 0 =>
        \E i \in DOMAIN events[p] :
            /\ events[p][i].to = "cancellation_requested"
            /\ events[p][i].at + RefundNotice <= rows[p].start

(* A retried or duplicated admin operation leaves one event: an operation  *)
(* id names at most one event of all bookings.                             *)
OneEventPerOperation ==
    \A b, c \in Bookings : \A i \in DOMAIN events[b], j \in DOMAIN events[c] :
        (events[b][i].op = events[c][j].op /\ events[b][i].op # NoOp)
            => b = c /\ i = j

(* The last e-mail sent about a confirmation names the start the booking   *)
(* row holds.                                                              *)
ConfirmationsTruthful ==
    \A b \in Ordinary : LET log == events[b] IN
        (rows[b].status = "confirmed" /\ log # << >>) => log[Len(log)].told = rows[b].start

-----------------------------------------------------------------------------
(* Action properties.                                                      *)

(* No reservation is made, or moved, into cells that are outside opening   *)
(* hours or under a closure when it commits, although the schedule is read *)
(* on another connection than the transaction that writes.                 *)
ReservedWhenOpen ==
    [][\A b \in Bookings :
        (Held'[b] # NoSlot /\ Held'[b] # Held[b]) => OpenFor(b, Held'[b])]_vars

(* A schedule edit that commits was acknowledged for every reservation it  *)
(* hits at that very moment: none slips in between check and write.        *)
EditsAcknowledged ==
    [][(edit.stage = "write" /\ <<hours, closures>>' # <<hours, closures>>) =>
        Affected(edit.kind, edit.cells) \subseteq
            IF edit.ack = NoAck THEN {} ELSE edit.ack.affected]_vars

(* Extra charges are added only while the party is paid and confirmed.     *)
ChargedWhilePaid ==
    [][\A p \in Parties :
        ledger'[p].extra > ledger[p].extra => rows[p].status = "confirmed_paid"]_vars

(* The services implement atomic reserve-if-it-fits and release.           *)
Floor == INSTANCE StudioOccupancy WITH held <- Held
ImplementsOccupancy == Floor!Spec

-----------------------------------------------------------------------------
(* Liveness.  A running transaction commits or rolls back; an edit too.    *)
(* The maintenance worker polls for ever, its polls get a connection, and  *)
(* not every one of its transactions dies.                                 *)

EditStep == LockEdit \/ CheckEdit \/ CommitEdit \/ AbortEdit

Fairness ==
    /\ \A s \in Sessions : WF_vars((Step(s) \/ Abort(s)) /\ UNCHANGED <<edit, shown>>)
    /\ WF_vars(EditStep)
    /\ SF_vars(\E s \in Sessions : MaintenanceRequest(s) /\ UNCHANGED <<edit, shown>>)
    /\ SF_vars(\E s \in Sessions : CommitExpiry(s) /\ req[s].by = "system"
                                /\ UNCHANGED <<edit, shown>>)

LiveSpec == Spec /\ Fairness

(* A hold that is past its payment deadline does not block the studio for  *)
(* ever: it is expired, unless it was paid or cancelled first.             *)
HoldsEnd ==
    \A p \in Parties :
        (rows[p].status = "awaiting_in_store_payment" /\ now >= rows[p].due)
            ~> (rows[p].status # "awaiting_in_store_payment")

(* Staff that attends to every party: each transition that stays open to   *)
(* staff is taken sooner or later.                                         *)
StaffAttends ==
    \A p \in Parties :
        /\ SF_vars(\E s \in Sessions, op \in Ops, to \in Statuses :
                BeginPartyTransition(s, op, p, to) /\ UNCHANGED <<edit, shown>>)
        /\ SF_vars(\E s \in Sessions : CommitPartyTransition(s) /\ req[s].booking = p
                /\ UNCHANGED <<edit, shown>>)

AttendedSpec == LiveSpec /\ StaffAttends

(* A customer's request for another party time is eventually answered.     *)
PartyRescheduleAnswered ==
    \A p \in Parties :
        (rows[p].status = "reschedule_requested") ~> (rows[p].status # "reschedule_requested")
=============================================================================
