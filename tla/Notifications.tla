---------------------------- MODULE Notifications ----------------------------
(***************************************************************************)
(* The e-mails that requests, decisions and customers' answers put in the  *)
(* outbox.  Each is checked in the transaction that writes it: an e-mail   *)
(* that does not pass takes the decision down with it.                     *)
(*                                                                         *)
(* Of a payload, what the check and the text depend on: the template, the  *)
(* fields that are present, those of its texts that are blank or longer    *)
(* than their field, the day of the visit and the link.                    *)
(***************************************************************************)
EXTENDS Transitions, Integers, Sequences

CONSTANTS
    Experiences,    \* ordinary bookings
    Festivities,    \* party bookings
    CartOrders,     \* cart orders, and bookings of the earlier form
    Unreachable,    \* those of them without an e-mail address
    HORIZON,        \* days ahead that can be booked
    LIFETIME,       \* days a link can be used
    LastDay, MaxEvents, \* bounds
    None            \* a party whose final time is not set

ASSUME NotificationsAssumption ==
    /\ HORIZON \in Nat /\ LIFETIME \in Nat /\ HORIZON < LIFETIME
    /\ Unreachable \subseteq CartOrders
    /\ Experiences \cap Festivities = {} /\ Experiences \cap CartOrders = {}
    /\ Festivities \cap CartOrders = {} /\ None \notin Int

Customers == Experiences \cup Festivities \cup CartOrders

VARIABLES
    day,
    booking,    \* status, day asked for, final day and payment deadline of a party
    history,    \* statuses of request_status_events, oldest first
    reads,      \* what decisions in flight have read of a row, without a lock
    told,       \* email_outbox, by request
    misfit,     \* texts of site_settings that are blank or too long for an e-mail
    refused     \* the e-mails that the last step was refused for

notificationVars == <<day, booking, history, reads, told, misfit, refused>>

NotificationsInit ==
    /\ day = 0
    /\ booking = [r \in Customers |-> [status |-> "absent", wanted |-> 0, final |-> None, due |-> 0]]
    /\ history = [r \in Customers |-> << >>]
    /\ reads = [r \in Experiences |-> {}]
    /\ told = [r \in Customers |-> {}]
    /\ misfit = {}
    /\ refused = {}

-----------------------------------------------------------------------------
(* What the outbox accepts.                                                *)

LIFECYCLE_TEMPLATE_STATUS == [
    booking_confirmed |-> "confirmed", booking_rejected |-> "rejected",
    booking_waitlisted |-> "waitlisted", party_time_proposed |-> "time_proposed",
    party_payment_due |-> "awaiting_in_store_payment",
    party_payment_recorded |-> "confirmed_paid", party_payment_expired |-> "payment_expired",
    party_rejected |-> "rejected", party_cancelled |-> "cancelled",
    cancellation_request |-> "cancellation_requested",
    reschedule_request |-> "reschedule_requested"]

BookingStatusTemplate ==
    {"contacted", "pending_review", "confirmed", "waitlisted", "rejected", "reschedule_requested",
     "cancellation_requested", "cancelled", "no_show", "completed"}

Receipts == {"booking_received", "cart_order_received", "owner_request"}

(* Every text of a payload has something in it and fits its field.         *)
stringValue(m) == m.unfit = {}

bookingNotification(m) ==
    /\ m.when # None
    /\ ("manageUrl" \in m.has) = (m.template \notin {"party_rejected", "party_cancelled"})
    /\ m.template \in {"party_time_proposed", "party_payment_due"} => "paymentDeadline" \in m.has
    /\ m.template \in {"party_payment_due", "party_payment_recorded", "party_payment_expired"}
            => "amountCents" \in m.has
    /\ m.template = "staff_notification" => "customerContact" \in m.has

validatePayloadForMessage(m) ==
    /\ stringValue(m)
    /\ CASE m.template \in Receipts       -> TRUE
         [] m.template = "booking_status" -> m.status \in BookingStatusTemplate
         [] OTHER                         -> bookingNotification(m)

validateEmailOutboxEnvelope(m) ==
    /\ validatePayloadForMessage(m)
    /\ m.template \in DOMAIN LIFECYCLE_TEMPLATE_STATUS \cup {"booking_status"} => m.event # 0
    /\ m.event # 0 => m.template \notin Receipts

assertStatusEventIntegrity(m, log) ==
    m.event # 0 =>
        /\ m.event \in DOMAIN log
        /\ m.template = "booking_status" => log[m.event] = m.status
        /\ m.template \in DOMAIN LIFECYCLE_TEMPLATE_STATUS
                => log[m.event] = LIFECYCLE_TEMPLATE_STATUS[m.template]

(* The transaction of a decision with its e-mails.                         *)
Write(r, row, log, mails) ==
    LET bad == {m \in mails :
                ~ (validateEmailOutboxEnvelope(m) /\ assertStatusEventIntegrity(m, log))} IN
    /\ refused' = {[template |-> m.template, unfit |-> m.unfit] : m \in bad}
    /\ UNCHANGED <<day, reads, misfit>>
    /\ IF bad = {}
       THEN /\ booking' = [booking EXCEPT ![r] = row]
            /\ history' = [history EXCEPT ![r] = log]
            /\ told' = [told EXCEPT ![r] = @ \cup mails]
       ELSE UNCHANGED <<booking, history, told>>

-----------------------------------------------------------------------------
(* What the services write.                                                *)

(* A plausible bug: a link is good for as long as bookings reach ahead,    *)
(* from the day before.                                                    *)
LinkEndsEarly == day + HORIZON - 1

LinkEnds == day + LIFETIME

Plain(template, status, event, when) ==
    [template |-> template, status |-> status, event |-> event, has |-> {}, unfit |-> {},
     when |-> when, ends |-> 0]

(* A text given with a request or a decision fits its field or does not:   *)
(* no route bounds a customer's message, the names of the projects asked   *)
(* for, joined, a package's name or a note of staff.                       *)
Given(text) == IF text = "fits" THEN {} ELSE {"given"}

(* E-mails with such a text; loadStoreContact and loadStoreContext add the *)
(* studio's own.                                                           *)
Quoting(m, text) == [m EXCEPT !.unfit = Given(text)]
WithContact(m, text) == [m EXCEPT !.unfit = Given(text) \cup (misfit \cap {"contact"})]
WithStore(m, text) == [m EXCEPT !.unfit = Given(text) \cup misfit]

(* notificationPayload with a link; with a link of its own.                *)
LinkedUntil(template, event, has, when, ends) ==
    [Plain(template, "none", event, when) EXCEPT !.has = has \cup {"manageUrl"}, !.ends = ends]

Linked(template, event, has, when) == LinkedUntil(template, event, has, when, LinkEnds)

(* The link of staff is the page of the booking.                           *)
StaffNotice(event, when) ==
    LinkedUntil("staff_notification", event, {"customerContact"}, when, 0)

CreateRequest(r, when, status, text) ==
    /\ booking[r].status = "absent" /\ when \in day .. day + HORIZON
    /\ LET row == [booking[r] EXCEPT !.status = status, !.wanted = when] IN
       \/ /\ r \in CartOrders /\ status = "new"
          /\ Write(r, row, << >>, {Quoting(Plain("owner_request", "none", 0, when), text)} \cup
                  (IF r \in Unreachable THEN {}
                   ELSE {WithContact(Plain("cart_order_received", "none", 0, when), text)}))
       \/ /\ r \notin CartOrders /\ status = "pending_review"
          /\ Write(r, row, << >>,
                   {WithContact(Plain("booking_received", "none", 0, when), text),
                    IF r \in Festivities THEN Quoting(StaffNotice(0, when), text)
                    ELSE StaffNotice(0, when)})
       \/ /\ r \in Experiences /\ status = "waitlisted"
          /\ Write(r, row, <<status>>,
                   {Linked("booking_waitlisted", 1, {}, when), StaffNotice(0, when)})

Decided(r, to) == Append(history[r], to)
EventOf(r) == Len(history[r]) + 1

ORDINARY_LIFECYCLE_TEMPLATES == [
    confirmed |-> "booking_confirmed", rejected |-> "booking_rejected",
    waitlisted |-> "booking_waitlisted"]

(* A plausible bug: the e-mail names the interval the booking had.         *)
OrdinaryMailStale(r, to, when, text) ==
    IF to \in DOMAIN ORDINARY_LIFECYCLE_TEMPLATES
    THEN Quoting(Linked(ORDINARY_LIFECYCLE_TEMPLATES[to], EventOf(r), {}, booking[r].wanted), text)
    ELSE WithStore(Plain("booking_status", to, EventOf(r), booking[r].wanted), text)

OrdinaryMail(r, to, when, text) ==
    IF to \in DOMAIN ORDINARY_LIFECYCLE_TEMPLATES
    THEN Quoting(Linked(ORDINARY_LIFECYCLE_TEMPLATES[to], EventOf(r), {}, when), text)
    ELSE WithStore(Plain("booking_status", to, EventOf(r), when), text)

(* transitionOrdinary reads the row without a lock and then, for a         *)
(* confirmation, waits for the locks of the calendar.  Any number of       *)
(* decisions may hold what they read of the same row: a read stays.        *)
ReadOrdinary(r) ==
    /\ booking[r].status # "absent"
    /\ reads' = [reads EXCEPT ![r] =
            @ \cup {[status |-> booking[r].status, wanted |-> booking[r].wanted]}]
    /\ refused' = {} /\ UNCHANGED <<day, booking, history, told, misfit>>

(* Its second half; a confirmation may choose another day.  The day is     *)
(* written if it differs from the one that was read, the status if it is   *)
(* still the one that was read, and the e-mail names the day decided.      *)
DecideOrdinary(r, read, to, when, text) ==
    /\ r \in Experiences /\ read \in reads[r] /\ <<read.status, to>> \in ORDINARY_TRANSITIONS
    /\ booking[r].status = read.status
    /\ IF to = "confirmed" THEN when \in day .. day + HORIZON ELSE when = read.wanted
    /\ Write(r, [booking[r] EXCEPT !.status = to,
                                   !.wanted = IF when = read.wanted THEN @ ELSE when],
             Decided(r, to), {OrdinaryMail(r, to, when, text)})

(* transitionBooking and transitionCartOrder.                              *)
DecideOrder(r, to, text) ==
    /\ r \in CartOrders /\ <<booking[r].status, to>> \in VALID_TRANSITIONS
    /\ Write(r, [booking[r] EXCEPT !.status = to], Decided(r, to),
             IF r \in Unreachable THEN {}
             ELSE {WithStore(Plain("booking_status", to, EventOf(r), booking[r].wanted), text)})

(* The link that accepts a proposed time ends with the payment deadline.   *)
ProposeTime(r, when, due) ==
    /\ r \in Festivities /\ booking[r].status = "pending_review"
    /\ when \in day .. day + HORIZON /\ due \in day + 1 .. LastDay
    /\ LET row == [booking[r] EXCEPT !.final = when, !.due = due]
           has == {"paymentDeadline", "amountCents"}
           to  == IF when = booking[r].wanted THEN "awaiting_in_store_payment" ELSE "time_proposed"
       IN  Write(r, [row EXCEPT !.status = to], Decided(r, to),
                 IF to = "time_proposed"
                 THEN {LinkedUntil("party_time_proposed", EventOf(r), has, when, due)}
                 ELSE {Linked("party_payment_due", EventOf(r), has, when)})

(* acceptPartyTime and acceptPartyTimeByToken, recordPartyPayment and      *)
(* expirePartyHold.                                                        *)
MoveParty(r, to, template) ==
    /\ r \in Festivities
    /\ \/ /\ booking[r].status = "time_proposed" /\ booking[r].due > day
          /\ to = "awaiting_in_store_payment" /\ template = "party_payment_due"
       \/ /\ booking[r].status = "awaiting_in_store_payment" /\ booking[r].due > day
          /\ to = "confirmed_paid" /\ template = "party_payment_recorded"
       \/ /\ booking[r].status = "awaiting_in_store_payment" /\ booking[r].due <= day
          /\ to = "payment_expired" /\ template = "party_payment_expired"
    /\ Write(r, [booking[r] EXCEPT !.status = to], Decided(r, to),
             {Linked(template, EventOf(r), {"paymentDeadline", "amountCents"}, booking[r].final)})

(* A plausible bug: only parties with a final time end.                    *)
PartyDayFinal(r) == booking[r].final

PartyDay(r) == IF booking[r].final = None THEN booking[r].wanted ELSE booking[r].final

PartyEndTemplate == [rejected |-> "party_rejected", cancelled |-> "party_cancelled"]

(* transitionPartyStatus tells of rejections and cancellations only.       *)
DecideParty(r, to) ==
    /\ r \in Festivities /\ <<booking[r].status, to>> \in PARTY_TRANSITIONS
    /\ Write(r, [booking[r] EXCEPT !.status = to], Decided(r, to),
             IF to \in DOMAIN PartyEndTemplate
             THEN {Plain(PartyEndTemplate[to], "none", EventOf(r), PartyDay(r))} ELSE {})

-----------------------------------------------------------------------------
(* What customers do with a link, and the reminder.                        *)

Visit(r) == IF r \in Festivities THEN booking[r].final ELSE booking[r].wanted
Booked == {"confirmed", "confirmed_paid"}

(* resolveAction: the scopes of the link permit asking.                    *)
Permits(m) ==
    m.ends > day /\ m.template # "party_time_proposed"

(* requestStatusChange; its answer carries the same link.                  *)
AskForChange(r, m, to, template) ==
    /\ r \in Experiences \cup Festivities /\ booking[r].status \in Booked
    /\ m \in told[r] /\ Permits(m)
    /\ \/ to = "cancellation_requested" /\ template = "cancellation_request"
       \/ to = "reschedule_requested" /\ template = "reschedule_request"
    /\ Write(r, [booking[r] EXCEPT !.status = to], Decided(r, to),
             {LinkedUntil(template, EventOf(r), {}, Visit(r), m.ends),
              StaffNotice(EventOf(r), Visit(r))})

Remind(r) ==
    /\ r \in Experiences \cup Festivities /\ booking[r].status \in Booked
    /\ Visit(r) = day + 1
    /\ \A m \in told[r] : m.template = "booking_reminder" => m.when # Visit(r)
    /\ Write(r, booking[r], history[r], {Linked("booking_reminder", 0, {}, Visit(r))})

(* The texts that speak of a visit that is certain.                        *)
renderBookingNotification(m) ==
    m.template \in {"booking_confirmed", "party_payment_recorded", "booking_reminder"}
renderBookingStatusEmail(m) == m.status = "confirmed"

renderOutboxMessage(m) ==
    IF m.template = "booking_status" THEN renderBookingStatusEmail(m)
    ELSE renderBookingNotification(m)

NextDay ==
    /\ day < LastDay /\ day' = day + 1
    /\ refused' = {} /\ UNCHANGED <<booking, history, reads, told, misfit>>

(* PATCH /admin/settings stores the texts it is given.                     *)
SaveSettings(blank) ==
    /\ misfit' = blank
    /\ refused' = {} /\ UNCHANGED <<day, booking, history, reads, told>>

NotificationsNext ==
    \/ NextDay
    \/ \E blank \in SUBSET {"address", "contact"} : SaveSettings(blank)
    \/ \E r \in Experiences : ReadOrdinary(r)
    \/ \E r \in Customers, text \in {"fits", "misfits"} :
        /\ Len(history[r]) < MaxEvents
        /\ \/ \E when \in 0 .. LastDay + HORIZON, s \in {"new", "pending_review", "waitlisted"} :
                CreateRequest(r, when, s, text)
           \/ r \in Experiences /\ \E read \in reads[r], t \in ORDINARY_TRANSITIONS,
                                       when \in 0 .. LastDay + HORIZON :
                DecideOrdinary(r, read, t[2], when, text)
           \/ \E t \in VALID_TRANSITIONS : DecideOrder(r, t[2], text)
    \/ \E r \in Customers :
        /\ Len(history[r]) < MaxEvents
        /\ \/ \E when \in 0 .. LastDay + HORIZON, due \in 1 .. LastDay : ProposeTime(r, when, due)
           \/ \E template \in DOMAIN LIFECYCLE_TEMPLATE_STATUS :
                LET to == LIFECYCLE_TEMPLATE_STATUS[template] IN
                \/ MoveParty(r, to, template)
                \/ \E m \in told[r] : AskForChange(r, m, to, template)
           \/ \E t \in PARTY_TRANSITIONS : DecideParty(r, t[2])
           \/ Remind(r)

NotificationsSpec == NotificationsInit /\ [][NotificationsNext]_notificationVars

-----------------------------------------------------------------------------
(* A step that the workflow allows is refused for its e-mail only if a     *)
(* text given with that very step, or a setting of the studio that the     *)
(* e-mail quotes, is blank or too long: whatever the history, what the     *)
(* services write of it is accepted.  The e-mails of parties after the     *)
(* request, of customers' links and the reminders are never refused.       *)
OnlyTextsRefuse ==
    \A m \in refused :
        /\ m.unfit # {}
        /\ \/ m.template \in Receipts \cup {"booking_status"}
           \/ /\ m.template \in {"booking_confirmed", "booking_rejected", "booking_waitlisted",
                                 "staff_notification"}
              /\ m.unfit = {"given"}

(* The decision of a booking that was confirmed before.                    *)
ConfirmedAgain(r, m) ==
    /\ r \in Experiences /\ m.template = "booking_confirmed"
    /\ \E e \in DOMAIN history[r] : history[r][e] = "confirmed"

(* No message says that a visit is certain before it is, or names another  *)
(* day than the one that is.  Left out is the day in the confirmation of   *)
(* an ordinary booking that was confirmed before, which may have been      *)
(* decided on a row that another decision has moved since.                 *)
NoFalseClaim ==
    [][\A r \in Customers : \A m \in told'[r] \ told[r] : renderOutboxMessage(m) =>
        /\ booking'[r].status \in Booked
        /\ \/ m.when = IF r \in Festivities THEN booking'[r].final ELSE booking'[r].wanted
           \/ ConfirmedAgain(r, m)
      ]_notificationVars

(* Until the day of the visit, a customer whose visit is certain holds a   *)
(* link that may ask to cancel or to move it.                              *)
LinksLast ==
    \A r \in Experiences \cup Festivities :
        booking[r].status \in Booked /\ day <= Visit(r) => \E m \in told[r] : Permits(m)
=============================================================================
