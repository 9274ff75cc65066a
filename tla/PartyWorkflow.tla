---------------------------- MODULE PartyWorkflow ----------------------------
(***************************************************************************)
(* Party bookings: request, proposal of a final time, acceptance by staff  *)
(* or by the customer's link, the exclusive hold until the payment         *)
(* deadline, in-store payment, expiry, extra charges, closing and refund.  *)
(***************************************************************************)
EXTENDS BookingStore, Transitions

(* createPartyRequest looks at the opening hours of the desired time, and  *)
(* takes no schedule lock; the idempotency key is locked (one session).    *)
BeginCreateParty(s, p, x) ==
    /\ p \in Parties /\ rows[p].status = "absent"
    /\ \A r \in Sessions \ {s} : pc[r] # "idle" => req[r].booking # p
    /\ InWindow(p, x)
    /\ Begin(s, Ask(p, "pending_review", x, 0, "customer", NoOp))

CommitCreateParty(s) ==
    LET r == req[s] IN
    /\ pc[s] = "read" /\ r.from = "absent"
    /\ compareAndSet(s, r.at, 0)
    /\ Finish(s)
    /\ UNCHANGED <<events, ledger, token, calendar, now>>

(* proposePartyTime: the desired time becomes a hold at once, another time *)
(* is proposed to the customer.  start is the desired start until then.    *)
BeginProposal(s, op, p, x, due) ==
    /\ p \in Parties /\ rows[p].status = "pending_review"
    /\ due > now
    /\ InWindow(p, x) /\ PublicCells(p, x) \cap UNION closures = {}
    /\ Begin(s, Ask(p, IF x = rows[p].start THEN "awaiting_in_store_payment"
                       ELSE "time_proposed", x, due, "staff", op))

(* acceptPartyTime and acceptPartyTimeByToken.                             *)
BeginAcceptance(s, p, by, op) ==
    /\ p \in Parties /\ rows[p].status = "time_proposed"
    /\ rows[p].due > now
    /\ \/ by = "staff" /\ op \in Ops
       \/ by = "customer" /\ op = NoOp /\ token[p] = "active"
    /\ Begin(s, Ask(p, "awaiting_in_store_payment", rows[p].start, rows[p].due, by, op))

(* Plausible bugs: the hold trusts the calendar, or the schedule, that was *)
(* read when the time was proposed.                                        *)
CheckHoldOpen(s) ==
    LET r == req[s] IN
    /\ pc[s] = "locked" /\ r.to = "awaiting_in_store_payment"
    /\ OpenFor(r.booking, r.at)
    /\ Checked(s)

CheckHoldFree(s) ==
    LET r == req[s] IN
    /\ pc[s] = "locked" /\ r.to = "awaiting_in_store_payment"
    /\ PartyFits(Held, r.booking, r.at)
    /\ Checked(s)

(* assertCanHold, after its two locks.                                     *)
CheckHold(s) ==
    LET r == req[s] IN
    /\ pc[s] = "locked" /\ r.to = "awaiting_in_store_payment"
    /\ OpenFor(r.booking, r.at)
    /\ PartyFits(Held, r.booking, r.at)
    /\ Checked(s)

(* setProposal writes the final interval and the deadline with the status. *)
CommitProposal(s) ==
    LET r == req[s] IN
    /\ pc[s] # "idle" /\ Ready(s)
    /\ r.from = "pending_review" /\ r.booking \in Parties
    /\ r.to \in {"time_proposed", "awaiting_in_store_payment"}
    /\ compareAndSet(s, r.at, r.due)
    /\ createEvent(s, r.at)
    /\ token' = [token EXCEPT ![r.booking] =
            IF r.to = "time_proposed" THEN "active" ELSE @]
    /\ Finish(s)
    /\ UNCHANGED <<ledger, calendar, now>>

CommitAcceptance(s) ==
    LET r == req[s] IN
    /\ pc[s] # "idle" /\ Ready(s) /\ r.from = "time_proposed"
    /\ r.to = "awaiting_in_store_payment"
    /\ compareAndSet(s, rows[r.booking].start, rows[r.booking].due)
    /\ createEvent(s, r.at)
    /\ IF r.by = "customer"
       THEN token[r.booking] = "active" /\ token' = [token EXCEPT ![r.booking] = "revoked"]
       ELSE UNCHANGED token
    /\ Finish(s)
    /\ UNCHANGED <<ledger, calendar, now>>

(* transitionPartyStatus.                                                  *)
BeginPartyTransition(s, op, p, to) ==
    /\ p \in Parties /\ <<rows[p].status, to>> \in PARTY_TRANSITIONS
    /\ Begin(s, Ask(p, to, rows[p].start, rows[p].due, "staff", op))

CommitPartyTransition(s) ==
    LET r == req[s] IN
    /\ pc[s] # "idle" /\ Ready(s) /\ r.by = "staff"
    /\ r.booking \in Parties /\ <<r.from, r.to>> \in PARTY_TRANSITIONS
    /\ compareAndSet(s, rows[r.booking].start, rows[r.booking].due)
    /\ createEvent(s, rows[r.booking].start)
    /\ Finish(s)
    /\ UNCHANGED <<ledger, token, calendar, now>>

(* recordPartyPayment: before the deadline, for the venue fee.             *)
BeginPayment(s, op, p) ==
    /\ p \in Parties /\ rows[p].status = "awaiting_in_store_payment"
    /\ rows[p].due > now
    /\ Begin(s, Ask(p, "confirmed_paid", rows[p].start, rows[p].due, "staff", op))

CommitPayment(s) ==
    LET r == req[s] IN
    /\ pc[s] # "idle" /\ Ready(s)
    /\ r.from = "awaiting_in_store_payment" /\ r.to = "confirmed_paid"
    /\ compareAndSet(s, rows[r.booking].start, rows[r.booking].due)
    /\ ledger' = [ledger EXCEPT ![r.booking].venue_fee = @ + 1]
    /\ createEvent(s, r.at)
    /\ Finish(s)
    /\ UNCHANGED <<token, calendar, now>>

(* A plausible bug: a hold lapses after its deadline, not at it.           *)
BeginExpiryAfter(s, p, by, op) ==
    /\ p \in Parties /\ rows[p].status = "awaiting_in_store_payment"
    /\ rows[p].due < now
    /\ (by = "system" /\ op = NoOp) \/ (by = "staff" /\ op \in Ops)
    /\ Begin(s, Ask(p, "payment_expired", rows[p].start, rows[p].due, by, op))

(* expirePartyHold, by the maintenance worker (whose operation id is a     *)
(* digest of booking and deadline, so it is free while the hold stands)    *)
(* or by staff.                                                            *)
BeginExpiry(s, p, by, op) ==
    /\ p \in Parties /\ rows[p].status = "awaiting_in_store_payment"
    /\ rows[p].due <= now
    /\ (by = "system" /\ op = NoOp) \/ (by = "staff" /\ op \in Ops)
    /\ Begin(s, Ask(p, "payment_expired", rows[p].start, rows[p].due, by, op))

CommitExpiry(s) ==
    LET r == req[s] IN
    /\ pc[s] # "idle" /\ Ready(s) /\ r.to = "payment_expired"
    /\ compareAndSet(s, rows[r.booking].start, rows[r.booking].due)
    /\ createEvent(s, r.at)
    /\ Finish(s)
    /\ UNCHANGED <<ledger, token, calendar, now>>

(* recordPartyCharge inserts the charge and an event: the status is read,  *)
(* and neither locked nor compared again.                                  *)
BeginCharge(s, op, p) ==
    /\ p \in Parties /\ rows[p].status = "confirmed_paid"
    /\ Begin(s, Ask(p, "confirmed_paid", rows[p].start, rows[p].due, "staff", op))

CommitCharge(s) ==
    LET r == req[s] IN
    /\ pc[s] # "idle" /\ Ready(s)
    /\ r.from = "confirmed_paid" /\ r.to = "confirmed_paid"
    /\ ledger' = [ledger EXCEPT ![r.booking].extra = @ + 1]
    /\ createEvent(s, r.at)
    /\ Finish(s)
    /\ UNCHANGED <<rows, token, calendar, now>>

(* recordPartyRefund: a recorded venue fee, and a cancellation request     *)
(* logged at least 48 hours before the guests' start.                      *)
LatestCancellationRequest(p) ==
    LET asked == {i \in DOMAIN events[p] : events[p][i].to = "cancellation_requested"}
    IN  IF asked = {} THEN {}
        ELSE {events[p][i] : i \in {i \in asked : \A j \in asked : j <= i}}

(* A plausible bug: any cancellation request earns the refund.             *)
RefundDueAnytime(p) ==
    ledger[p].venue_fee > 0 /\ LatestCancellationRequest(p) # {}

RefundDue(p) ==
    /\ ledger[p].venue_fee > 0
    /\ \E e \in LatestCancellationRequest(p) : rows[p].start - e.at >= RefundNotice

BeginRefund(s, op, p) ==
    /\ p \in Parties /\ rows[p].status = "cancelled"
    /\ RefundDue(p)
    /\ Begin(s, Ask(p, "refunded", rows[p].start, rows[p].due, "staff", op))

(* A plausible bug: the refund is entered as a negative amount.            *)
CommitRefundNegative(s) ==
    LET r == req[s] IN
    /\ pc[s] # "idle" /\ Ready(s) /\ r.to = "refunded"
    /\ compareAndSet(s, rows[r.booking].start, rows[r.booking].due)
    /\ ledger' = [ledger EXCEPT ![r.booking].refund = @ - 1]
    /\ createEvent(s, r.at)
    /\ Finish(s)
    /\ UNCHANGED <<token, calendar, now>>

CommitRefund(s) ==
    LET r == req[s] IN
    /\ pc[s] # "idle" /\ Ready(s) /\ r.to = "refunded"
    /\ compareAndSet(s, rows[r.booking].start, rows[r.booking].due)
    /\ ledger' = [ledger EXCEPT ![r.booking].refund = @ + 1]
    /\ createEvent(s, r.at)
    /\ Finish(s)
    /\ UNCHANGED <<token, calendar, now>>
=============================================================================
