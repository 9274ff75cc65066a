------------------------------ MODULE StaffDesk ------------------------------
(***************************************************************************)
(* The tabs in which staff decides on bookings and cart orders: the two    *)
(* queues and the page of one request, with the dialog that names the      *)
(* operation, and the API behind them, whose own concurrency Studio models.*)
(*                                                                         *)
(* A request is its history, log: what a tab shows of it is the length of  *)
(* the history its answer was read from, 0 if it is not on the screen.     *)
(* Answers arrive in any order, or not at all.                             *)
(***************************************************************************)
EXTENDS Transitions, Integers, Sequences, FiniteSets

CONSTANTS
    Desks,          \* tabs
    Items,          \* bookings and cart orders
    Choices,        \* what the fields of a dialog say
    Nobody,         \* no request is being updated
    NoDialog, NoPost,
    MaxDialogs, MaxPosts, MaxLoads, MaxEvents   \* bounds

VARIABLES
    kind,           \* of each request
    page,           \* what each tab shows: a queue, or one request
    log,            \* status of each request, from its creation on
    shown,          \* items, booking and order
    loading, updating,
    dialog,         \* pendingWorkflow, pendingAction, pendingStatusChange
    opened, sent,   \* how many dialogs and submissions there were
    posts,          \* decisions under way to the API
    calls,          \* handleWorkflow and handleStatusChange, waiting
    reads           \* answers to load under way

deskVars == <<kind, page, log, shown, loading, updating, dialog, opened, sent, posts, calls, reads>>
counters == <<opened, sent>>
desks == <<shown, loading, updating, dialog, counters>>
fixed == <<kind, page>>

Kinds == {"experience", "party", "earlier", "order"}
Queues == {"bookings", "orders"}

DeskStatuses ==
    {"new", "contacted", "pending_review", "waitlisted", "confirmed", "rejected",
     "reschedule_requested", "cancellation_requested", "cancelled", "no_show", "completed",
     "time_proposed", "awaiting_in_store_payment", "confirmed_paid", "payment_expired", "refunded"}
WorkflowActions ==
    {"confirm", "waitlist", "reject", "cancel", "complete", "no_show", "propose_time",
     "accept_time", "record_payment", "add_charge", "refund", "contacted", "confirmed", "cancelled"}
Post ==
    [desk : Desks, dialog : Nat, try : Nat, op : Nat \X Nat, item : Items,
     action : WorkflowActions, opened : DeskStatuses, expected : DeskStatuses, choice : Choices]

ASSUME DeskAssumption ==
    /\ Nobody \notin Items /\ Items \cap Queues = {} /\ NoPost \notin Post
    /\ MaxLoads \in Nat

Status(i, length) == log[i][length].to
Now(i) == Status(i, Len(log[i]))

Of(d) ==
    IF page[d] \in Items THEN {page[d]}
    ELSE {i \in Items : kind[i] = "order" <=> page[d] = "orders"}

-----------------------------------------------------------------------------
(* What the tabs offer.                                                    *)

ordinaryActions ==
    {"pending_review"} \X {"confirm", "waitlist", "reject"}
    \cup {"new", "contacted", "waitlisted", "reschedule_requested"} \X {"confirm", "cancel"}
    \cup {<<"cancellation_requested", "cancel">>}
    \cup {"confirmed"} \X {"complete", "no_show", "cancel"}

partyActions ==
    {"pending_review"} \X {"propose_time", "reject", "cancel"}
    \cup {"time_proposed"} \X {"accept_time", "cancel"}
    \cup {"awaiting_in_store_payment"} \X {"record_payment", "cancel"}
    \cup {"confirmed_paid"} \X {"add_charge", "complete", "no_show", "cancel"}
    \cup {<<"cancellation_requested", "cancel">>, <<"cancelled", "refund">>}

STATUS_TARGETS ==
    {<<"new", "contacted">>} \cup {"new", "contacted"} \X {"confirmed", "cancelled"}
    \cup {<<"confirmed", "cancelled">>}

Offered(k) ==
    CASE k = "order" -> STATUS_TARGETS
      [] k = "party" -> partyActions
      [] OTHER -> ordinaryActions

(* The target of a plain transition; of an order, the action names it.     *)
toStatus ==
    [confirm |-> "confirmed", waitlist |-> "waitlisted", reject |-> "rejected",
     cancel |-> "cancelled", complete |-> "completed", no_show |-> "no_show",
     contacted |-> "contacted", confirmed |-> "confirmed", cancelled |-> "cancelled"]

(* Endpoints of their own, with a constant as the expected status.         *)
Recorded ==
    [record_payment |-> "awaiting_in_store_payment", add_charge |-> "confirmed_paid",
     refund |-> "cancelled"]

-----------------------------------------------------------------------------
(* The API.                                                                *)

Dedicated ==
    {<<"propose_time", "pending_review", "time_proposed">>,
     <<"propose_time", "pending_review", "awaiting_in_store_payment">>,
     <<"accept_time", "time_proposed", "awaiting_in_store_payment">>,
     <<"record_payment", "awaiting_in_store_payment", "confirmed_paid">>,
     <<"add_charge", "confirmed_paid", "confirmed_paid">>,
     <<"refund", "cancelled", "refunded">>}

Plain(k) ==
    CASE k = "experience" -> ORDINARY_TRANSITIONS
      [] k = "party" -> PARTY_TRANSITIONS
      [] OTHER -> VALID_TRANSITIONS

(* Where the decision of a tab may lead: nowhere, if the route or the      *)
(* table of the service refuses it.                                        *)
Outcomes(p) ==
    LET k == kind[p.item] IN
    {to \in {m[2] : m \in Plain(k)} :
        /\ p.action \in DOMAIN toStatus /\ to = toStatus[p.action]
        /\ <<p.expected, to>> \in Plain(k)}
    \cup {m[3] : m \in {m \in Dedicated : k = "party" /\ m[1] = p.action /\ m[2] = p.expected}}

Events == UNION {{<<i, n>> : n \in DOMAIN log[i]} : i \in Items}
Prior(op) ==
    {x \in Events : log[x[1]][x[2]].post # NoPost /\ log[x[1]][x[2]].post.op = op}

(* A plausible bug: a replay is recognised by the operation id alone.      *)
SamePostById(p, q) == TRUE

(* The replay of an operation must repeat it.                              *)
SamePost(p, q) ==
    /\ p.item = q.item /\ p.action = q.action
    /\ p.expected = q.expected /\ p.choice = q.choice

Record(i, p, to) == log' = [log EXCEPT ![i] = Append(@, [post |-> p, to |-> to])]

(* safeWrite and the services behind it.  The answer reaches the call that *)
(* waits for it, if it still does.                                         *)
Answered(p, stage) ==
    calls' = {IF c.post = p /\ c.stage = "sent" THEN [c EXCEPT !.stage = stage] ELSE c : c \in calls}

Serve(p) ==
    /\ posts' = posts \ {p}
    /\ \/ /\ Prior(p.op) # {}
          /\ Answered(p, IF \A x \in Prior(p.op) : SamePost(p, log[x[1]][x[2]].post)
                         THEN "done" ELSE "failed")
          /\ UNCHANGED log
       \/ /\ Prior(p.op) = {} /\ Outcomes(p) # {} /\ Now(p.item) # p.expected
          /\ Answered(p, "stale") /\ UNCHANGED log
       \/ /\ Prior(p.op) = {} /\ Now(p.item) = p.expected
          /\ Len(log[p.item]) < MaxEvents
          /\ \E to \in Outcomes(p) : Record(p.item, [p EXCEPT !.try = 0], to)
          /\ Answered(p, "done")
       \/ /\ Prior(p.op) = {}       \* a closed studio, no room, a passed deadline ...
          /\ Answered(p, "failed") /\ UNCHANGED log
    /\ UNCHANGED <<desks, reads, fixed>>

(* Customers, the maintenance worker and tabs elsewhere.                   *)
Elsewhere(k) ==
    Plain(k) \cup
    CASE k = "party" ->
            {<<m[2], m[3]>> : m \in Dedicated}
            \cup {<<"awaiting_in_store_payment", "payment_expired">>}
            \cup {"confirmed_paid"} \X {"cancellation_requested", "reschedule_requested"}
      [] OTHER -> {}

Move(i) ==
    /\ Len(log[i]) < MaxEvents
    /\ \E m \in Elsewhere(kind[i]) :
        m[1] = Now(i) /\ Record(i, NoPost, m[2])
    /\ UNCHANGED <<desks, posts, calls, reads, fixed>>

-----------------------------------------------------------------------------
(* Loading.                                                                *)

NothingShown == [i \in Items |-> 0]

(* Rows as the API reads them: a queue is filtered and has pages.          *)
Rows(d) ==
    {[i \in Items |-> IF i \in visible THEN Len(log[i]) ELSE 0] :
        visible \in IF page[d] \in Items THEN {Of(d)} ELSE SUBSET Of(d)}

(* Leaving the page drops its state; mounting it loads.                    *)
Mount(d) ==
    /\ shown' = [shown EXCEPT ![d] = NothingShown]
    /\ loading' = [loading EXCEPT ![d] = TRUE]
    /\ updating' = [updating EXCEPT ![d] = Nobody]
    /\ dialog' = [dialog EXCEPT ![d] = NoDialog]
    /\ calls' = {c \in calls : c.post.desk # d}
    /\ reads' = {r \in reads : r.desk # d}
               \cup {[desk |-> d, serial |-> 1, read |-> FALSE, rows |-> NothingShown]}

Leave(d) ==
    /\ Mount(d)
    /\ UNCHANGED <<log, counters, posts, fixed>>

(* A filter or a page of a queue; the page of a request loads only once.   *)
Load(d) ==
    /\ page[d] \in Queues /\ dialog[d] = NoDialog
    /\ loading' = [loading EXCEPT ![d] = TRUE]
    /\ \E n \in 1 .. MaxLoads :
        /\ \A r \in reads : r.desk = d => r.serial # n
        /\ reads' = reads \cup
                {[desk |-> d, serial |-> n, read |-> FALSE, rows |-> NothingShown]}
    /\ UNCHANGED <<log, shown, updating, dialog, counters, posts, calls, fixed>>

ReadRows(r) ==
    /\ ~ r.read
    /\ \E rows \in Rows(r.desk) :
        reads' = (reads \ {r}) \cup {[r EXCEPT !.read = TRUE, !.rows = rows]}
    /\ UNCHANGED <<log, desks, posts, calls, fixed>>

(* The dialog reads the row it is about while it is rendered.              *)
Crashes(d, rows) ==
    dialog[d] # NoDialog /\ rows[dialog[d].item] = 0 /\ dialog[d].action = "confirm"

(* Whatever was asked last, the answer is shown.                           *)
Loaded(r) ==
    /\ r.read
    /\ IF Crashes(r.desk, r.rows) THEN Mount(r.desk)
       ELSE /\ shown' = [shown EXCEPT ![r.desk] = r.rows]
            /\ loading' = [loading EXCEPT ![r.desk] = FALSE]
            /\ reads' = reads \ {r}
            /\ UNCHANGED <<updating, dialog, calls>>
    /\ UNCHANGED <<log, counters, posts, fixed>>

LoadFailed(r) ==
    /\ loading' = [loading EXCEPT ![r.desk] = FALSE]
    /\ reads' = reads \ {r}
    /\ UNCHANGED <<log, shown, updating, dialog, counters, posts, calls, fixed>>

-----------------------------------------------------------------------------
(* Deciding.                                                               *)

(* A plausible bug: each submission names an operation of its own.         *)
operationIdPerSubmit(dg) == <<dg.id, sent>>

(* The dialog keeps its operation id for as long as it is open.            *)
operationId(dg) == <<dg.id, 0>>

(* A queue disables the buttons of the row it updates.                     *)
NotUpdating(d, i) == IF page[d] \in Queues THEN updating[d] # i ELSE updating[d] = Nobody

(* requestWorkflow, handleRequestedStatusChange.                           *)
OpenDialog(d, i, action) ==
    /\ opened < MaxDialogs
    /\ ~ loading[d] /\ dialog[d] = NoDialog /\ shown[d][i] > 0
    /\ <<Status(i, shown[d][i]), action>> \in Offered(kind[i])
    /\ NotUpdating(d, i)
    /\ dialog' = [dialog EXCEPT ![d] =
            [id |-> opened, item |-> i, action |-> action,
             opened |-> Status(i, shown[d][i])]]
    /\ opened' = opened + 1
    /\ UNCHANGED <<log, shown, loading, updating, sent, posts, calls, reads, fixed>>

CancelDialog(d) ==
    /\ dialog[d] # NoDialog /\ updating[d] # dialog[d].item
    /\ dialog' = [dialog EXCEPT ![d] = NoDialog]
    /\ UNCHANGED <<log, shown, loading, updating, counters, posts, calls, reads, fixed>>

(* A plausible bug: an order is decided in the status its row has now.     *)
expectedStatusNow(d) ==
    LET dg == dialog[d] IN
    IF shown[d][dg.item] > 0 THEN Status(dg.item, shown[d][dg.item]) ELSE dg.opened

(* The dialog of an order keeps the status it was opened in; the dialog of *)
(* a booking sends the one its row has now.                                *)
expectedStatus(d) ==
    LET dg == dialog[d] IN
    IF dg.action \in DOMAIN Recorded THEN Recorded[dg.action]
    ELSE IF kind[dg.item] = "order" THEN dg.opened
    ELSE Status(dg.item, shown[d][dg.item])

(* The dialog of a booking is about the row shown; that of an order goes   *)
(* without one.                                                            *)
Submit(d, choice) ==
    LET dg == dialog[d]
        post == [desk |-> d, dialog |-> dg.id, try |-> sent, op |-> operationId(dg),
                 item |-> dg.item, action |-> dg.action, opened |-> dg.opened,
                 expected |-> expectedStatus(d), choice |-> choice]
    IN  /\ dg # NoDialog /\ updating[d] # dg.item /\ sent < MaxPosts
        /\ kind[dg.item] = "order" \/ shown[d][dg.item] > 0
        /\ sent' = sent + 1
        /\ updating' = [updating EXCEPT ![d] = dg.item]
        /\ posts' = posts \cup {post}
        /\ calls' = calls \cup {[post |-> post, stage |-> "sent", rows |-> NothingShown]}
        /\ UNCHANGED <<log, shown, loading, dialog, opened, reads, fixed>>

Finished(c) ==
    /\ calls' = calls \ {c}
    /\ updating' = [updating EXCEPT ![c.post.desk] = Nobody]
    /\ UNCHANGED <<log, loading, counters, posts, reads, fixed>>

(* The request or its answer is lost, the API refuses it, or the row cannot*)
(* be read again: the dialog stays open.                                   *)
Failed(c) ==
    /\ c.stage \in {"sent", "done", "failed"}
    /\ Finished(c)
    /\ UNCHANGED <<shown, dialog>>

(* getAdminBooking, or getById behind an order's answer.                   *)
Reread(c) ==
    /\ c.stage = "done"
    /\ calls' = (calls \ {c}) \cup
            {[c EXCEPT !.stage = "read", !.rows[c.post.item] = Len(log[c.post.item])]}
    /\ UNCHANGED <<log, desks, posts, reads, fixed>>

(* The row is replaced, if it is still there, and the dialog closed,       *)
(* whichever is open now.                                                  *)
Updated(c) ==
    LET d == c.post.desk  i == c.post.item IN
    /\ c.stage = "read"
    /\ shown' = [shown EXCEPT ![d][i] = IF @ > 0 THEN c.rows[i] ELSE 0]
    /\ dialog' = [dialog EXCEPT ![d] = NoDialog]
    /\ Finished(c)

(* A plausible bug: the refresh is not awaited.                            *)
StaleUnawaited(c) ==
    /\ c.stage = "stale"
    /\ dialog' = [dialog EXCEPT ![c.post.desk] = NoDialog]
    /\ updating' = [updating EXCEPT ![c.post.desk] = Nobody]
    /\ \E rows \in Rows(c.post.desk) :
        calls' = (calls \ {c}) \cup {[c EXCEPT !.stage = "refresh", !.rows = rows]}
    /\ UNCHANGED <<log, shown, loading, counters, posts, reads, fixed>>

(* STATUS_CONFLICT: the dialog is closed and the page read again, without  *)
(* a sign of loading.                                                      *)
Stale(c) ==
    /\ c.stage = "stale"
    /\ dialog' = [dialog EXCEPT ![c.post.desk] = NoDialog]
    /\ \E rows \in Rows(c.post.desk) :
        calls' = (calls \ {c}) \cup {[c EXCEPT !.stage = "refresh", !.rows = rows]}
    /\ UNCHANGED <<log, shown, loading, updating, counters, posts, reads, fixed>>

Refreshed(c) ==
    LET d == c.post.desk IN
    /\ c.stage = "refresh"
    /\ IF Crashes(d, c.rows) THEN Mount(d) /\ UNCHANGED <<log, counters, posts, fixed>>
       ELSE /\ \/ shown' = [shown EXCEPT ![d] = c.rows]
               \/ UNCHANGED shown          \* the refresh fails
            /\ UNCHANGED dialog
            /\ Finished(c)

-----------------------------------------------------------------------------
Initial(k) ==
    CASE k \in {"order", "earlier"} -> {"new"} [] k = "party" -> {"pending_review", "confirmed_paid"}
      [] OTHER -> {"pending_review"}

DeskInit ==
    /\ kind \in [Items -> Kinds]
    /\ page \in [Desks -> Queues \cup Items]
    /\ \E first \in [Items -> UNION {Initial(k) : k \in Kinds}] :
        /\ \A i \in Items : first[i] \in Initial(kind[i])
        /\ log = [i \in Items |-> <<[post |-> NoPost, to |-> first[i]]>>]
    /\ shown = [d \in Desks |-> NothingShown]
    /\ loading = [d \in Desks |-> TRUE]
    /\ updating = [d \in Desks |-> Nobody]
    /\ dialog = [d \in Desks |-> NoDialog]
    /\ opened = 0 /\ sent = 0 /\ posts = {} /\ calls = {}
    /\ reads = {[desk |-> d, serial |-> 1, read |-> FALSE, rows |-> NothingShown] : d \in Desks}

DeskNext ==
    \/ \E i \in Items : Move(i)
    \/ \E p \in posts : Serve(p)
    \/ \E r \in reads : ReadRows(r) \/ Loaded(r) \/ LoadFailed(r)
    \/ \E c \in calls : Failed(c) \/ Reread(c) \/ Updated(c) \/ Stale(c) \/ Refreshed(c)
    \/ \E d \in Desks :
        \/ Leave(d) \/ Load(d) \/ CancelDialog(d)
        \/ \E i \in Items : \E offer \in Offered(kind[i]) : OpenDialog(d, i, offer[2])
        \/ \E choice \in Choices : Submit(d, choice)

DeskSpec == DeskInit /\ [][DeskNext]_deskVars

-----------------------------------------------------------------------------
Decisions == {log[x[1]][x[2]].post : x \in Events} \ {NoPost}

(* However often a dialog is submitted, answered late or not at all, it    *)
(* decides once, and a tab is told that its decision was made only if that *)
(* very decision was.                                                      *)
DecisionsOnce ==
    /\ \A x, y \in Events :
        LET p == log[x[1]][x[2]].post  q == log[y[1]][y[2]].post IN
        p # NoPost /\ q # NoPost /\ p.dialog = q.dialog => x = y
    /\ \A c \in calls : c.stage \in {"done", "read"} =>
        \E p \in Decisions : p.dialog = c.post.dialog /\ p.item = c.post.item
            /\ p.action = c.post.action /\ p.choice = c.post.choice

(* What staff decides on the page of a request, or about an order, is      *)
(* decided in the status they saw when they chose the action: a screen that*)
(* changed behind the dialog does not carry the decision over.             *)
DecidedAsOpened ==
    \A p \in Decisions : page[p.desk] # "bookings" => p.expected = p.opened

(* The page of a request does not fall back to an earlier state of it.     *)
NeverBackwards ==
    [][\A d \in Desks : page[d] \in Items /\ shown'[d] # NothingShown =>
        \A i \in Items : shown'[d][i] >= shown[d][i]]_deskVars
=============================================================================
