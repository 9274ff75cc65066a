----------------------------- MODULE RequestIntake -----------------------------
(***************************************************************************)
(* What the public forms meet on the other side of the network: the three  *)
(* handlers that turn a POST into a stored request, each once per          *)
(* Idempotency-Key, and the rate limit before them.                        *)
(*                                                                         *)
(* A POST that was sent may arrive late, or never; its answer may be lost; *)
(* the browser that gave up on it may have sent another one by then.       *)
(***************************************************************************)
EXTENDS Naturals, FiniteSets

Kinds == {"experience", "party", "cart"}
scopeOf(kind) == IF kind = "cart" THEN "cart-order" ELSE "booking"
Scopes == {scopeOf(kind) : kind \in Kinds}

CONSTANTS
    Dates,          \* days that may be booked, each with one start
    Projects,       \* products of the shop
    MaxSize,        \* bound: people of a group
    MaxMounts,      \* bound: forms opened, one after the other
    LastMount,      \* bound: the last of them, for each kind of form
    MaxPosts,       \* bound: POSTs under way
    MaxLoads,       \* bound: requests for availability under way
    Limit,          \* requests of one client in a window, for each scope
    ProductOpen,    \* whether the shop takes orders: FALSE, as the code is
    NoDate,         \* the empty date field
    NoBody          \* no request

ASSUME IntakeAssumption ==
    /\ {MaxSize, MaxMounts, MaxPosts, MaxLoads, Limit} \subseteq Nat \ {0}
    /\ LastMount \in [Kinds -> 1 .. MaxMounts]
    /\ ProductOpen \in BOOLEAN
    /\ NoDate \notin Dates

(* A key is minted when a form is mounted, and again after a success: the  *)
(* second part counts those of one form.  Keys of higher generation belong *)
(* to forms that have ended.                                               *)
Mounts == 1 .. MaxMounts
Keys == Mounts \X (1 .. 2)

(* A start that the API offered: its day, and the size of the group it was *)
(* asked for.  One that is offered again with another status is not the    *)
(* same start.                                                             *)
Offer == [date : Dates, size : 1 .. MaxSize]

(* The part of a request the customer may change between two attempts.     *)
Body == [kind : Kinds, date : Dates, size : 1 .. MaxSize, slot : Offer,
         items : SUBSET Projects]
ASSUME BodyAssumption == NoBody \notin Body

(* The forms tell apart a start that is gone from all other refusals:      *)
(* RATE_LIMITED, IDEMPOTENCY_KEY_CONFLICT, DATE_SLOT_MISMATCH, ...         *)
Outcomes == {"stored", "gone", "refused"}

(* A POST: live while the form that sent it waits for the answer, counted  *)
(* once the rate limit of a cart order has let it through.                 *)
Post == [key : Keys, body : Body, live : BOOLEAN,
         answer : Outcomes \cup {"none", "counted"}]

VARIABLES
    rows,           \* bookings and cart_orders by idempotency_key
    past,           \* history: every content the row of a key has had
    used,           \* request_count of the present window, for each scope
    made,           \* history: keys of the bookings stored in this window
    posts           \* POSTs on their way, and answers on their way back

intake == <<rows, past, used, made, posts>>

IntakeTypeOK ==
    /\ rows \in [Keys -> Body \cup {NoBody}]
    /\ past \in [Keys -> SUBSET Body]
    /\ used \in [Scopes -> Nat]
    /\ made \in SUBSET Keys
    /\ posts \in SUBSET Post

IntakeInit ==
    /\ rows = [k \in Keys |-> NoBody]
    /\ past = [k \in Keys |-> {}]
    /\ used = [s \in Scopes |-> 0]
    /\ made = {}
    /\ posts = {}
-----------------------------------------------------------------------------
(* One upsert with request_count < limit in its WHERE.                     *)
(* A plausible bug: <= .                                                   *)
AllowedAtLimit(scope) == used[scope] <= Limit
Allowed(scope) == used[scope] < Limit
consume(scope) == used' = [used EXCEPT ![scope] = @ + 1]

(* The answer goes back to whoever still waits for it.                     *)
Answer(p, a) ==
    posts' = (posts \ {p}) \cup IF p.live THEN {[p EXCEPT !.answer = a]} ELSE {}

(* assertReplay of ordinary bookings, assertPartyReplay and                *)
(* assertReplayMatches compare every field of the row with the request.    *)
(* A plausible bug: the key alone decides.                                 *)
SameRequestByKey(row, body) == row.kind = body.kind
SameRequest(row, body) == row = body

(* The store has no row under the key yet: INSERT, with the e-mails that   *)
(* go with it.  The unique index on the key backs this up.                 *)
Insert(p) ==
    /\ rows' = [rows EXCEPT ![p.key] = p.body]
    /\ past' = [past EXCEPT ![p.key] = @ \cup {p.body}]
    /\ made' = IF p.body.kind = "cart" THEN made ELSE made \cup {p.key}
    /\ Answer(p, "stored")

Keep(p, a) == Answer(p, a) /\ UNCHANGED <<rows, past, made>>

(* Limiter, key lock, lookup and INSERT run in one transaction, under the  *)
(* lock of the limiter's row: a replay counts, a refusal rolls the count   *)
(* back.                                                                   *)
CreateBooking(p) ==
    /\ p.answer = "none"
    /\ \/ ~ Allowed("booking") /\ Keep(p, "refused") /\ UNCHANGED used
       \/ /\ Allowed("booking") /\ rows[p.key] # NoBody
          /\ \/ SameRequest(rows[p.key], p.body) /\ Keep(p, "stored") /\ consume("booking")
             \/ /\ ~ SameRequest(rows[p.key], p.body)
                /\ Keep(p, "refused") /\ UNCHANGED used
       \/ /\ Allowed("booking") /\ rows[p.key] = NoBody
          /\ \/ Insert(p) /\ consume("booking")
             \/ Keep(p, "gone") /\ UNCHANGED used
             \/ Keep(p, "refused") /\ UNCHANGED used

createOrdinaryRequest(p) == p.body.kind = "experience" /\ CreateBooking(p)
createPartyRequest(p) == p.body.kind = "party" /\ CreateBooking(p)

(* A cart order is answered 503 unless the settings announce the products; *)
(* then it is counted, in a transaction of its own ...                     *)
CountCartOrder(p) ==
    /\ p.answer = "none" /\ p.body.kind = "cart"
    /\ \/ /\ ProductOpen /\ Allowed("cart-order") /\ consume("cart-order")
          /\ posts' = (posts \ {p}) \cup {[p EXCEPT !.answer = "counted"]}
       \/ ~ (ProductOpen /\ Allowed("cart-order")) /\ Answer(p, "refused") /\ UNCHANGED used
    /\ UNCHANGED <<rows, past, made>>

(* preferredDate must be the date of the slot.                             *)
DateMatchesAlways(body) == TRUE
DateMatches(body) == body.date = body.slot.date

(* ... and created in another one, under a lock on its key.                *)
CreateCartOrder(p) ==
    /\ p.answer = "counted"
    /\ \/ rows[p.key] # NoBody /\ SameRequest(rows[p.key], p.body) /\ Keep(p, "stored")
       \/ /\ rows[p.key] # NoBody /\ ~ SameRequest(rows[p.key], p.body)
          /\ Keep(p, "refused")
       \/ rows[p.key] = NoBody /\ DateMatches(p.body) /\ Insert(p)
       \/ rows[p.key] = NoBody /\ Keep(p, "refused")
    /\ UNCHANGED used

(* Staff confirms an ordinary booking, once, for another day: the row that *)
(* replays are compared with has a new interval.                           *)
StaffMoves(k, d) ==
    /\ rows[k] # NoBody /\ rows[k].kind = "experience" /\ rows[k].date # d
    /\ past[k] = {rows[k]}
    /\ LET moved == [rows[k] EXCEPT !.date = d, !.slot = [@ EXCEPT !.date = d]] IN
        /\ rows' = [rows EXCEPT ![k] = moved]
        /\ past' = [past EXCEPT ![k] = @ \cup {moved}]
    /\ UNCHANGED <<used, made, posts>>

(* The POST, or the answer to it, is lost: if somebody waits, the browser  *)
(* reports a failure sooner or later (GiveUp in RequestForm).              *)
Lose(p) ==
    /\ ~ p.live
    /\ posts' = posts \ {p}
    /\ UNCHANGED <<rows, past, used, made>>

(* Both scopes have windows of an hour, which begin together.              *)
NewWindow ==
    /\ used' = [s \in Scopes |-> 0]
    /\ made' = {}
    /\ UNCHANGED <<rows, past, posts>>

Serve ==
    \/ \E p \in posts :
        createOrdinaryRequest(p) \/ createPartyRequest(p) \/ CountCartOrder(p)
            \/ CreateCartOrder(p) \/ Lose(p)
    \/ \E k \in Keys, d \in Dates : StaffMoves(k, d)
    \/ NewWindow
=============================================================================
