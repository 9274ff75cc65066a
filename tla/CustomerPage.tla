----------------------------- MODULE CustomerPage -----------------------------
(***************************************************************************)
(* The page behind the customer's link: it shows the booking as it was     *)
(* when the page was opened, and asks to cancel or to move it.  The browser*)
(* checks the time asked for, the site's proxy checks it again, the API    *)
(* records it.                                                             *)
(***************************************************************************)
EXTENDS MelbourneTime, Sequences

CONSTANTS
    Wishes,         \* local hours a customer may ask for
    Visits,         \* local hours the visit may be at
    Hours,          \* bound: the instants at which anything happens
    MaxClicks,      \* bound
    LEAD,           \* hours of notice a move needs
    HORIZON,        \* days ahead it may be
    RefundNotice    \* hours of notice a refund needs

(* The studio is closed in the hour in which the clocks change.            *)
ASSUME PageAssumption ==
    /\ Wishes \cup Visits \cup {SwitchAt, HORIZON, RefundNotice} \subseteq Int
    /\ Hours \cup {LEAD} \subseteq Nat
    /\ NoInstant \notin Int
    /\ SwitchAt + STANDARD \notin Visits

VARIABLES
    hour,           \* the present instant
    status, visitAt,
    asked,          \* customer requests recorded, oldest first
    view,           \* the status the page shows
    click,          \* what the page has sent: how often, and how it stands
    requests        \* POSTs under way, and answers

pageVars == <<hour, spring, status, visitAt, asked, view, click, requests>>

PageInit ==
    /\ hour \in Hours /\ spring \in BOOLEAN
    /\ status = "confirmed" /\ visitAt \in Visits /\ asked = << >>
    /\ view = "loading" /\ click = [count |-> 0, state |-> "idle"] /\ requests = {}

Today == localDateTime(hour) \div 24

(* A plausible bug: notice is counted on the clock of the studio.          *)
ValidByTheClock(wish) ==
    /\ wish \div 24 - Today \in 0 .. HORIZON
    /\ wish - localDateTime(hour) >= LEAD

validateCustomerRescheduleRequest(wish) ==
    /\ wish \div 24 - Today \in 0 .. HORIZON
    /\ matchingInstant(wish) # NoInstant /\ matchingInstant(wish) - hour >= LEAD

-----------------------------------------------------------------------------
(* The page.                                                               *)

OpenPage ==
    /\ status # "cancelled" /\ click.state # "working"
    /\ view' = status /\ click' = [click EXCEPT !.state = "idle"]
    /\ UNCHANGED <<hour, spring, status, visitAt, asked, requests>>

Perform(to, wish) ==
    /\ view = "confirmed" /\ click.state \in {"idle", "error"} /\ click.count < MaxClicks
    /\ IF to = "reschedule_requested" THEN wish \in Wishes /\ validateCustomerRescheduleRequest(wish)
       ELSE wish = NoInstant
    /\ click' = [count |-> click.count + 1, state |-> "working"]
    /\ requests' = requests \cup {[id |-> click.count + 1, at |-> "proxy", to |-> to, wish |-> wish,
                             checked |-> hour]}
    /\ UNCHANGED <<hour, spring, status, visitAt, asked, view>>

Current(p) == click = [count |-> p.id, state |-> "working"]

(* A plausible bug: an answer is taken for a success.                      *)
CompletedAnyway(p) == p.at \in {"done", "refused"}

Completed(p) == p.at = "done"

Receive(p) ==
    /\ p.at \in {"done", "refused"} /\ requests' = requests \ {p}
    /\ click' = IF Current(p) THEN [click EXCEPT !.state = IF Completed(p) THEN "complete" ELSE "error"]
                ELSE click
    /\ UNCHANGED <<hour, spring, status, visitAt, asked, view>>

(* The connection breaks: the page shows an error, and the POST may still  *)
(* be on its way.                                                          *)
Disconnect(p) ==
    /\ Current(p)
    /\ click' = [click EXCEPT !.state = "error"]
    /\ requests' \in {requests, requests \ {p}}
    /\ UNCHANGED <<hour, spring, status, visitAt, asked, view>>

-----------------------------------------------------------------------------
(* Proxy and API.                                                          *)

Advance(p, at) == requests' = (requests \ {p}) \cup {[p EXCEPT !.at = at]}

assertValidCustomerReschedule(p) ==
    /\ p.at = "proxy"
    /\ requests' = (requests \ {p}) \cup
            {[p EXCEPT !.checked = hour,
                       !.at = IF p.to = "reschedule_requested" /\ ~ validateCustomerRescheduleRequest(p.wish)
                              THEN "refused" ELSE "api"]}
    /\ UNCHANGED <<hour, spring, status, visitAt, asked, view, click>>

requestStatusChange(p) ==
    /\ p.at = "api"
    /\ IF status = "confirmed"
       THEN /\ status' = p.to
            /\ asked' = Append(asked, [id |-> p.id, to |-> p.to, wish |-> p.wish,
                                       checked |-> p.checked, at |-> hour])
            /\ Advance(p, "done")
       ELSE Advance(p, "refused") /\ UNCHANGED <<status, asked>>
    /\ UNCHANGED <<hour, spring, visitAt, view, click>>

(* Staff keeps the booking, or ends it.                                    *)
StaffAnswers(to) ==
    /\ status \in {"cancellation_requested", "reschedule_requested"} /\ to \in {"confirmed", "cancelled"}
    /\ status' = to
    /\ UNCHANGED <<hour, spring, visitAt, asked, view, click, requests>>

NextHour ==
    /\ \E later \in Hours : later > hour /\ hour' = later
    /\ UNCHANGED <<spring, status, visitAt, asked, view, click, requests>>

PageNext ==
    \/ OpenPage \/ NextHour
    \/ \E wish \in Wishes \cup {NoInstant}, to \in {"cancellation_requested", "reschedule_requested"} : Perform(to, wish)
    \/ \E p \in requests :
        Receive(p) \/ Disconnect(p) \/ assertValidCustomerReschedule(p) \/ requestStatusChange(p)
    \/ \E to \in {"confirmed", "cancelled"} : StaffAnswers(to)

PageSpec == PageInit /\ [][PageNext]_pageVars

-----------------------------------------------------------------------------
(* The instants that show a local hour.                                    *)
Shows(local) == {i \in 0 .. local : localDateTime(i) = local}

(* The page says that a request was received only if the very request of   *)
(* its last click is recorded; and a time asked for exists, is not two     *)
(* times, and when it passed the proxy was two real hours off and within   *)
(* the days that can be booked, also in the night the clocks change.       *)
RequestsKept ==
    /\ click.state = "complete" => \E n \in DOMAIN asked : asked[n].id = click.count
    /\ \A n \in DOMAIN asked : asked[n].to = "reschedule_requested" =>
        LET wish == asked[n].wish  checked == asked[n].checked IN
        /\ wish \div 24 - localDateTime(checked) \div 24 \in 0 .. HORIZON
        /\ \E i \in Shows(wish) : Shows(wish) = {i} /\ i - checked >= LEAD

(* recordPartyRefund compares the request with the start of the party.     *)
RefundDue(request) == melbourneLocalInstant(visitAt) - request.at >= RefundNotice

(* The notice that earns a refund is counted in real hours, whatever the   *)
(* clocks do in between.                                                   *)
RefundsFair ==
    \A n \in DOMAIN asked : asked[n].to = "cancellation_requested" =>
        \A i \in Shows(visitAt) : RefundDue(asked[n]) <=> i - asked[n].at >= RefundNotice
=============================================================================
