# Yezzy studio booking: TLA+ models, checks and proofs

The repository is a booking site for a craft studio: a Fastify API (`apps/api`)
over Postgres (`packages/db`) and Redis, and a Next.js front end (`apps/web`)
with the public forms, the cart, the page behind a customer's link and the
staff's admin site. Customers ask for ordinary DIY bookings, private parties,
and, in an earlier form that is still in the code, for places in time slots or
for a cart of workshops. Staff decides on requests, edits the opening hours, and
enters payments. Two workers run inside every API process: one expires party
holds and enqueues reminders, the other delivers e-mail.

All paths below are relative to the repository; "design" is
`docs/superpowers/specs/2026-07-29-yezyy-live-booking-and-party-design.md` and
"outbox design" is
`docs/superpowers/specs/2026-07-28-yezyy-flow-closure-remediation-design.md`.

## 1. Inventory

### What every service relies on

Nothing important lives in the memory of the API. The state is in tables, and
each operation is one Postgres transaction at READ COMMITTED: a statement sees
what is committed when it starts, a plain SELECT locks nothing, and an UPDATE
that had to wait for a row looks at the row's new version. The services add
three devices:

| device | code | what it is for |
|---|---|---|
| the schedule lock | `lockScheduleRevision`, booking-availability.repository.ts:60 | one advisory lock for the whole studio, held to the end of the transaction, by everything that starts to hold an interval or changes the hours |
| operation ids, idempotency keys | status-events.repository.ts:38 `lockOperation`, public-create-idempotency.ts | a repeated admin operation is recognised by its event, a repeated POST by its key, and replayed |
| compare-and-set | `UPDATE ... WHERE id AND status = expected` | a transition commits only from the status it was asked for |

The web application is the opposite: its state is in a tab, its handlers go on
after an `await` with what they captured before, and answers come in any order.

### Components

| component | state | operations | what is hard | correct when |
|---|---|---|---|---|
| Floor arithmetic (schedule-occupancy.ts, booking-availability.repository.ts) | none: queries over `bookings` | overlap, attendance sum, party exclusivity | setup and cleanup, half-open ends, excluding the booking itself | reserving what fits keeps every instant within capacity and every party alone |
| Ordinary bookings (request-transition.service.ts, bookings.service.ts) | status, interval, events | createOrdinaryRequest, transitionOrdinary | status and interval are read before the lock is waited for | never overbooked; the history is a walk; the e-mail tells the truth |
| Party bookings (party-workflow.service.ts) | status, desired and final interval, deadline, token, ledger | create, propose, accept (staff or link), pay, expire, charge, transition, refund | payment races expiry; two ways to accept; charges do not touch the row | one fee per paid party, never paid and expired, refunds are earned, overdue holds end |
| Customer links (customer-actions.service.ts, the page and proxy of the site) | tokens; the page as it was loaded | ask for cancellation or another time, accept a time | the link can be used again; a change of the clocks between now and the visit | requests never undo a transition of staff; what is asked for is what is recorded |
| Schedule editor (settings.admin.service.ts, the admin page) | weekly and special hours, closures; the form | save hours, create and delete closures | conflicts are shown first and acknowledged later, the form changes meanwhile | nothing is closed over a reservation nobody acknowledged, and acknowledged is what was shown |
| Availability and week page (availability.service.ts, booking-calendar.repository.ts) | none | starts on offer, half hours of a week | three pieces of code compute room in three ways | they agree with what a confirmation accepts |
| Request intake (the three POST routes, rate-limits.*) | rows by idempotency key, counters | limit, replay, create | a POST arrives late, twice, or after the form that sent it is gone | one request per form, no window over its limit |
| Public forms (OrdinaryBookingForm, PartyBookingForm, lib/actions/booking.ts) | steps, fields, chosen start, attempt | edit, load availability, submit | answers overtake each other; everything but the button stays editable while a POST runs | the start belongs to the day and group shown; success means stored; stored is what was shown |
| Cart (lib/cart, the cart page) | the items, in memory, in storage and on the server | hydrate, add, remove, order | the cart changes while it is being hydrated | nothing added is lost |
| Decisions of staff (admin queues and dialogs, orders) | rows as loaded, an open dialog | open, submit, refresh | the row changes behind the dialog; answers are lost | one dialog decides once, and, but for the queue of bookings, in the status it was opened in |
| E-mail outbox (email-outbox.*.ts) | a row per message: status, attempts, due time, lease | enqueue, claim, send, record, retry by staff | crashes between send and record, lost answers, batches that outlive their lease | nothing is forgotten, `sent` is final, duplicates only for a reason |
| Notifications (email-outbox-payload.ts, booking-notification.ts, email.ts) | what each transaction enqueues | enqueue, validate, render | an e-mail that does not validate rolls its transaction back | only a text that is blank or too long gets a legal change refused; no mail claims what is not so (one exception: section 4) |
| Maintenance worker (booking-maintenance.*.ts) | one run per process | expire overdue holds, enqueue reminders | dies between candidates; a candidate that cannot be expired ends the run; the list is old when its turn comes | overdue holds end; reminders go out, and are true |
| Time slots, slot bookings, cart orders (time-slots.*, request-capacity.repository.ts, cart-orders.*) | slots with a counter, requests, events | create, transition, cancel, edit slots, flip the request switch | counters that race with edits; a status that exists only in the event log | counter = places taken <= capacity; slots of a category disjoint |
| Connection pool (packages/db/src/client.ts) | ten connections a process | connect, wait | schedule reads take a second connection inside a transaction | everybody is served |
| Staff accounts and password setup (users.admin.service.ts, password-setup.*, auth.*) | accounts with role and session version, setup links | sign in, change roles, remove, create, issue a link, set and change passwords | owners who demote each other, issues and setups of one user that overlap, links that expire on the way | an owner remains; one link per user works; a session ends with the password it was opened with |
| Catalogue and projects (catalogue.*, projects.*, cache.ts) | rows and a cache of them | save, read through the cache | several statements, readers between them | an entry and its variants belong together |
| Signed requests (internal-request.ts, signature.ts) | secrets of site and API | sign, verify, restart, rotate | clocks that differ, restarts between signing and serving | what is signed and young is served |
| Pricing, schema and seeds, uploads, texts and layout | see section 8 | | | |

How they interact: the services of ordinary bookings, parties and links, the
maintenance worker and the schedule editor never call each other. They meet in
the rows of `bookings`, in the schedule lock, and in the connection pool. Each
committed transition enqueues its e-mails in the same transaction; that is the
only arrow from bookings to the outbox, and nothing comes back. The site reaches
the API over HTTP only, signed where a route needs the customer's address.

## 2. The modules

```
the studio         Occupancy ---- StudioOccupancy (abstract: reserve if it fits, release)
                      |                 ^ implemented by
                   BookingStore         |
                      |-- OrdinaryWorkflow, PartyWorkflow, CustomerLinks, ScheduleAdmin
                      |         \_______________ Studio -- StudioViews -- MCStudio
administration     ScheduleDesk, SiteContent, InternalRequests  (+ MCStudio) -- MCAdministration
workers            EmailOutbox, Maintenance, Notifications -- MCWorkers
customers          RequestIntake -- RequestForm -- OrdinaryForm, PartyForm, Cart -- Storefront
                   RequestContent -- OrdinaryContent, PartyContent -- BookingContent
                   MelbourneTime -- CustomerPage   (all of these) -- MCStorefront
staff              Transitions -- StaffDesk, Accounts -- MCBackOffice
earlier form       Transitions -- SlotRequests -- MCSlotRequests
pool               ConnectionPool
proofs             StudioProofs -- StudioHistoryProofs      (Studio, StudioViews, the floor)
                   AdministrationProofs                     (ScheduleDesk, SiteContent, InternalRequests)
                   WorkersProofs, EmailOutboxProofs         (Maintenance, Notifications; EmailOutbox)
                   StorefrontProofs                         (Storefront, BookingContent, CustomerPage)
                   BackOfficeProofs                         (Accounts, StaffDesk)
                   SlotRequestsProofs                       (SlotRequests)
```

### The studio

**Occupancy** is `schedule-occupancy.ts` and the two availability queries as
operators. A calendar maps a booking to the cell at which it starts, or to
`NoSlot`. Time is counted in half hours on one axis: intervals of two dates never
overlap, so a second date would add nothing. `SUM(attendance_count)` is the
cardinality of a set of (booking, person) pairs, which is what makes it provable
without recursion.

**StudioOccupancy** is what the services promise about the floor, with neither
statuses nor locks: in one atomic step a booking reserves an interval that fits
what is held at that moment, or gives its interval back.

**BookingStore** holds the tables, the lock and the transaction. One session is
one HTTP request (or one maintenance run) and goes through

    idle -> read -> [locked -> checked ->] write and COMMIT

`Begin` takes the operation lock, looks for a replay and reads the row, without
locking it. Only confirmations and party holds go on to `LockSchedule` and to the
evaluation of the calendar. The writes and the COMMIT are one step, because from
the first UPDATE on the row is locked and nothing is visible to others before
COMMIT. `Abort` may happen anywhere in between: a refused validation, a conflict,
a dead connection and a dead process all come to a rollback and to dropped
advisory locks.

**OrdinaryWorkflow, PartyWorkflow, CustomerLinks, ScheduleAdmin** each translate
one service. `Begin...` is the part of the handler up to its last read before the
lock, `Check...` what it evaluates under the lock, `Commit...` the whole of its
writes: row, event, ledger, token. createOrdinaryRequest reads and writes under
the lock it holds from its start, so `CreateOrdinary` is a single action.
The editor's `hours` and `closures` stand for what `resolveDay` answers for the
day, whether it came from the weekly hours, a special day or a closure.
Since hours and closures are read on another connection, a check sees what is
committed at that instant; the lock alone keeps it valid until the COMMIT.
**Transitions** is the three tables of allowed status changes.

**Studio** composes them, and states the properties. **StudioViews** adds three
computations of free room, as functions of that state: `Available` and
`listPartyCandidates` (what the forms are offered), `readDay` (the half hours of
the week page), `Listed` and `Boxed` (what that page draws).

### Administration

**ScheduleDesk** is the page the schedule is edited on: its sections with what is
typed and what was loaded, the list of conflicts with the fingerprint that came
with it, the tick under the list. The transaction behind a save is one step here,
since ScheduleAdmin has its steps. A change is the set of visits in its way. A week
saved as it was (`Blank`) is no change at the revision it was made from; at a later one
it puts back what was edited elsewhere, and hits the visits in `Undone`. `told` and
`overridden` are history.

**SiteContent** saves a catalogue entry with its variants in one transaction, a
project and its styles statement by statement, and reads both through the cache,
whose keys are listed first and deleted then. What is saved is the number of the
edit it comes from.

**InternalRequests** signs with the secret of an instance of the site and
verifies with those of a machine of the API. `Rollout` is the order of settings in
docs/production-config-checklist.md; `turnedAway` remembers how long a refused
request had been on its way.

### Workers

**EmailOutbox** models a row per message and workers with a batch and a row in
hand. Instants are relative to the present: `due` and `lease` count down with
`Tick` (a minute), so a run may last for ever with finitely many states. A worker
may stall at most `Stale` minutes past its lease. A lease therefore names its
claim: a new one is positive, an old one is not. `Claim` takes any part of the due rows
(`FOR UPDATE SKIP LOCKED`). `accepted` counts how often the provider took the
message; `excused` remembers for which message an answer, or a claim, was lost;
both are history, no action reads them. `Crash` also stands for a database error
that escapes from markSent or markFailed. The provider's idempotency key is not relied on.

**Maintenance** is the timer and the run of each process. What a run lists, it
lists once; each hold and each reminder is then a transaction of its own, which
checks again what may have changed. `Change` is everything staff and customers do
to a visit, kept off a row that a run has locked. A conflict ends the run, a crash
too; `errors` counts both.

**Notifications** says of each transaction which messages it writes, and of each
message what the payload schema demands and the mail claims. A payload is reduced
to its template, which fields are there, which of its texts are `unfit` (blank, or
longer than their field), the day it names and its link; `Permits` is what the link
allows. A text is either given with the step (`Given`: project names, a package's
name, a message, a note) or one of the studio's settings, which are saved unchecked
(`SaveSettings`, `misfit`). The messages of a step that does not pass are in
`refused` until the next step. A decision on an ordinary booking has two
halves, as in the code: `ReadOrdinary` reads the row without a lock, and
`DecideOrdinary` writes the status if it is still the one read, and the day only if
the day decided differs from the one read, and mails the day decided. In between
others may decide; what was read stays in `reads`.

### Customers

**RequestIntake** is the other side of the forms' network: the three handlers,
each with its limiter, key lock, replay and INSERT, and what staff does to a row
under a replay (`StaffMoves`). A POST stays in `posts` until it is served or lost.
Cart orders have to pass `ProductOpen` first, which is FALSE as the code is
(settings.service.ts:71): their route answers 503. The run opens it, so that the
limiter and the service behind it, which are in the code, are exercised; the
theorems hold for both values.

**RequestForm** has what the three forms share: the mount with its key, the one
POST the form waits for, `loads` of availability with their sequence number, the
browser giving up. **OrdinaryForm**, **PartyForm** and **Cart**, with its page,
add the steps, fields and handlers of each. **Storefront** composes them and
states the properties.

**RequestContent**, **OrdinaryContent** and **PartyContent** follow what a request
*says*, from the fields to the row: the steps' checks in the page, the copy that is
sent at the click, the schema of the API, the catalogue and the texts in force.
Numbers are those at the limits of each field; a party's fields take fractions,
so they are counted in halves. **BookingContent** is a visit to either of the two forms,
with the staff that edits the catalogue and releases texts meanwhile.

**MelbourneTime** is the clock of the studio around one change of daylight
saving, in hours, with the two functions by which the code gets from a local hour
to an instant. **CustomerPage** is the page behind the link: it shows the booking
as loaded, the browser checks the wished time, the proxy checks it again some hours
later, the API records it.

### Staff

**StaffDesk** has the tabs: queues of bookings and of orders, the page of one
request, their dialogs, and the answers under way. A request is its history, and
what a tab shows of it is a length of that history. `Submit` posts what the
dialog captured or what the row says now, whichever the page does. A dialog on an
order submits whether or not the list still shows the order.

**Accounts** models accounts, setup links and the requests on them. A request is
a task that goes from "begun" (what the handler read before any lock) over
"holding" (the owners' advisory lock, or rows of links) to its COMMIT:

* a change of role and a removal decide and count the owners under
  `withOwnerMutationLock`; the actor's role is the one its session carried when
  it was authenticated, which may be gone by then;
* an issue revokes under `lockForIssue`; what it revokes is locked at once and
  visible to others at COMMIT only;
* a setup holds the row of its link (`FOR UPDATE`), which may expire before
  `markUsed` looks again.

`session[u]` is one signed token of `u`: what sign-in read, together with the
password it compared. `password` numbers the hashes of an account. A link's `serial` is the order of its insertion.
A removed account's links are gone with it; the model calls them revoked. Setup,
removal and issue wait for rows that others hold; a deadlock between them, which
Postgres ends, is an `Abort`.

### The earlier form, and the pool

**SlotRequests** models slots, bookings that refer to a slot, and cart orders.
Stages: `create` (of a booking: the settings row is share-locked), `update` (the UPDATE's
snapshot is taken and it may wait for the row), `row` and `keys` (the locks an
edit of a slot takes one after the other). "contacted" is not a status of
`bookings`: the row says pending_review and the latest event says contacted, which
is how the module stores it. Cart orders read the request switch in their route,
before their transaction and without a lock (`requirePublicRequestCapability`), and do
not look at it again; so `FlipSwitch` waits for creates of bookings only. Neither
can be created over HTTP today: a booking with a slot gets 410 (bookings.routes.ts:41),
a cart order 503, because settings.service.ts:71 closes the shop whatever the switch
says. Both services are still there, and `ProductOpen` is TRUE in the runs to exercise them.

**ConnectionPool** reduces each kind of transaction to what it may wait for: the
schedule lock, and connections for schedule reads, in the order of the code.

## 3. Runs that pass

| run | instance | states | shows |
|---|---|---|---|
| Studio_party | one party, two transactions, four operation ids | 79,000 | `LedgerMatchesHistory`, `RefundsEarned` |
| Studio_mixed | one party and two groups that exclude each other, cleanup included, closures | 190,000 | `NeverOverbooked`; histories are walks (`HistoryExplainsStatus`); an operation id leaves one event (`OneEventPerOperation`); what customers and staff are shown of the calendar is what a confirmation would accept (`ViewsAgree`); the services implement StudioOccupancy (`ImplementsOccupancy`) |
| Administration | closures under a party and a group; the schedule page; two editors and a visitor; two instances, two machines | 269,000 | `ReservedWhenOpen`, `EditsAcknowledged`, overdue holds end (`HoldsEnd`); what is overridden was shown (`OverriddenAsShown`); an entry is one editor's (`EntriesWhole`); what is signed and young is served while secrets change (`SignedIsServed`) |
| Workers | one message, two workers, three attempts; two processes and two visits; two requests and two orders | 273,000 | `DuplicatesExcused`, `SentIsFinal`, `Settles`; reminders go out (`RemindersSent`) and are true (`RemindersTrue`); a legal change is refused for its e-mail only if a text given with it, or a setting, does not fit (`OnlyTextsRefuse`); links last (`LinksLast`); no mail says that a visit is certain when it is not, or names another day than the one stored, but the day in the confirmation of a booking confirmed before is left out (`NoFalseClaim`; Studio_truthful is about that day) |
| SlotRequests_safe | a slot booking, a cart order, two slots, two transactions | 1,100,000 | `CapacityBalanced`, `ReservationsMatchSlots`, `SlotsDisjoint`; no booking is created after the switch is off (`CreatedWhileOpen`) |
| BackOffice | two accounts, two links, two requests; one tab on one request | 1,030,000 | `OwnerRemains`, `SessionsFollowPassword`, `NewestLinkSets`; a dialog decides once (`DecisionsOnce`); on the page of a request and for orders, but not in the queue of bookings, in the status it was opened in (`DecidedAsOpened`); and a page does not go back (`NeverBackwards`) |
| Storefront | two booking forms one after the other, or a cart page; the fields of one form; a link around a change of the clocks | 931,000 | `SlotsMatchForm`, `SuccessIsStored`, `OneRequestPerForm`, `OrdersKeepTheirDate`, `CartKept`, `QuotaKept`; what is stored is what was shown, and page and API accept the same (`StoredAsShown`); `RequestsKept`, `RefundsFair` |

Every property of these runs has, in `PROJECT.json`, a mutation of the code's
model under which it fails (the operators marked "a plausible bug").

Four runs hold parts that share no state: studio, page, content and secrets
(MCAdministration); outbox, maintenance and notifications (MCWorkers); accounts and
desk (MCBackOffice); forms, fields and link (MCStorefront). Their steps could only
be interleaved without meeting, so in `OnePartMoves` a part moves only while the
others are in their initial states: the reachable states are the union of the
parts', not the product, and each property, which is about one part, is checked in
all of its states. Where a connection exists it is named there: an expired account
makes any request of a desk fail, and any request may; the outbox carries what
Notifications writes.

### The bounds, and why they are enough

* *Two sessions.* All races of the services are between one transaction that has
  read or checked something and another one that commits. A third session can
  only commit between two steps of the first, which the second can do again. For
  Studio and SlotRequests the proofs remove the bound.
* *Two or three cells* (`LastCell`): disjoint, touching and overlapping intervals
  all occur, with a setup or cleanup of one cell where it matters. The clock
  `now` stops at the last cell.
* *Attendance two, capacity three*: two groups exclude each other, one fits.
  Unequal attendances and sums over many bookings are covered by the proof.
* *Operation ids*: each id can be used, repeated and raced; there is one for each
  transition of the longest path of interest (request, hold, payment,
  cancellation, refund), the server minting the others (`NoOp`).
* *Edits first* (`EditsFirst`, the runs of Studio): hours change before the first
  request; edits that overlap requests are what Administration explores, with one
  operation id. `EditsAcknowledged` is broken there by an edit that does not wait
  for the lock. An acknowledgement that covers fewer bookings than the edit hits
  needs more bookings than the run has; the theorem `EditsAreAcknowledged` covers it.
* *One e-mail*: rows of the outbox never refer to each other, and a worker that is
  busy with other rows looks to a row like one that stalls. Three attempts
  distinguish first, middle and last. Delays of one and two minutes and a lease
  of two let a retry fall before and after a lease ends.
* *Four minutes, notice and slack of two* (Maintenance): a window of five polls, of
  which `errors < Slack` end in a failure; visits whose window opens within the run
  and after it. One visit keeps to one time (`OneKeepsItsTime`), the other moves.
* *One customer at a time* (`OneCustomer`, Notifications): rows and messages of two requests
  never meet. Five status changes let a booking be confirmed, asked to be moved and confirmed
  again. At most three different reads of a booking are in flight (`FewReads`), settings are
  bad in the first half of a request's life only (`SettingsLack`), and nothing follows a
  refusal, which changes nothing (`NothingRefused`). The proofs remove all of these.
* *Two revisions* (ScheduleDesk): a save of one clerk, then a week loaded before it, with
  `MCUndone` saying that it hits one of the two visits.
* *Two slots and two windows that meet in no point, or one window for both*: slots
  clash or do not, and move from one state to the other. One category is checked;
  its keys are locked all at once in one order, so a second one adds no wait cycle.
* *Two accounts, two links*: two owners who demote each other, or two links of
  one user, are the whole of the hazard. `MaxVersion` keeps requests from beginning
  at an account that has changed once already; two that have begun may both commit. The proofs remove all four bounds.
* *One tab, two dialogs, two submissions* (StaffDesk): what other tabs and customers do
  is `Elsewhere` and `Move`; the answers of both submissions may cross. A queue
  opens one dialog (`QueuesOnce`), since it differs from the page only in what a refresh replaces.
* *Two days, two mounts, two POSTs, two loads, a limit of one* (Storefront): a late
  answer of the mount before, a start of the other day, a replay and a refusal all
  occur. No customer uses both cart and booking forms (`ShopOrBook`), which share
  the tab only. Groups have one size (`MaxSize`): that the starts shown are for the group
  in the form is exercised by the proof only, that they are for the day by the run.
* *Numbers at the limits of each field, half an hour against the default* (content):
  each check of page, schema and API is met from both sides. Staff edits once and
  texts are replaced once, after the first click (`EditsLate`): before it, only what
  was loaded matters.
* *Hours around hour 40* (CustomerPage): a local hour that is skipped or comes twice,
  the one after, and one beyond the horizon.
* *Three seconds, an age of two, a skew of one, one call at a time* (InternalRequests):
  a signature that is young, that is too old, and one from a clock ahead or behind. The
  skew is at least one, because the seconds of two clocks do not begin together.
* `CHECK_DEADLOCK FALSE` is set where the modelled system really stops: bookings reach
  final statuses, ids and edits run out, the day ends (the runs of Studio,
  Administration, Workers, Storefront). The other runs check for deadlock.

Invariants that are proved and so are in no run: the type invariants of Studio,
SlotRequests, EmailOutbox, Accounts and Storefront, `ReservationProtocol`, `PartiesExclusive`,
`LeaseFences`, `NeverStuck`, `OneLinkPerUser`.

### Fairness, and why the code justifies it

* Studio (in Administration): a transaction that can go on does so or is rolled back
  (the Node event loop and Postgres run it; a dead connection is an `Abort`); the maintenance
  worker polls for ever (booking-maintenance.service.ts, started by startup.ts), so
  a request of it that is possible again and again is made, and not every one of
  its commits loses a race. Nothing is assumed of staff or customers.
  All this supposes that a transaction is not left waiting for a connection:
  section 4 shows what happens if it is.
* EmailOutbox (in Workers): time passes; a worker goes through its batch; the poll meets a due
  row that is due again and again; for every message, not *every* answer is late
  or lost with its worker. Crashes and lost answers need no fairness.
* `AttendedSpec`, used by one run of section 4, assumes a diligent staff, which
  only makes its counterexample stronger.

## 4. Runs that find a disagreement

Each checks one statement of the repository and ends with a counterexample.

| run | statement | what the code does |
|---|---|---|
| ConnectionPool | the service "locks or otherwise serialises" (design:448), confirmations are serialised (request-transition.service.test.ts:282) | `resolveDay` uses the pool, not the transaction. When every connection belongs to a transaction, the holder of the schedule lock waits for a connection, the others for the lock, and nothing times out. With a connection to spare the property holds |
| Studio_truthful | notifications are "truthful about confirmation" (design:589) | the interval is written only if it differs from a row read before the lock; a confirmation that raced with a move leaves the moved start in the row and tells the customer another |
| Studio_charge | compare-and-set rejects stale screens (design:449) | recordPartyCharge compares nothing when it writes: a charge lands on a party that has just left confirmed_paid |
| Studio_reschedule | "staff decides", "the Chinese admin can operate every state" (design:258, 590) | the link brings a paid party to reschedule_requested, and no staff transition leaves that status |
| SlotRequests_fresh | compare-and-set rejects stale screens (design:449) | after a wait for the row, the comparison sees the new row but the events of the old snapshot, and "contacted" lives in the events |

### Noticed on the way, without a run

Read in the code while it was modelled; each is a line or two, or outside what the
modules tell apart.

*Bookings and the calendar.*
The outbox design lists five delays, and with five attempts the last of
them, 240 minutes, is never waited for (email-outbox.service.ts:153).
README.md:39 and :42 say that requests respect capacity and party exclusivity;
createOrdinaryRequest checks hours, closures and lead time only
(bookings.service.ts:787), occupancy is checked at confirmation.
A replay of an ordinary booking after staff has moved it answers 409, since the
comparison includes the interval (bookings.service.ts:681).
Availability adds up all bookings that overlap the wished interval, also those that
never meet, so the week page may show seats where the list says waitlist.
Candidates for a party look at the guests' interval and at parties only.
Bookings under an acknowledged closure, or outside changed hours, vanish from the
cards of the week page. One listing of starts runs several queries, and may be torn.

*Forms.*
The success page shows the form as it is then (OrdinaryBookingForm.tsx:161). Going back
during the availability check unmounts the contact fields, and the submission ends
as "incomplete". A fraction in a party's fields, or an address that only the page
accepts, passes the page and is refused by the schema. A duration that changes in the
catalogue while the form is open makes the stored interval longer than the one shown.
A reload after a lost answer mints a new key, and may leave a second request.
Replays use up the quota; a cart order may be stored in the window after the one it was counted in.
A cart PUT that is lost or overtaken lets the older server copy win at the next
visit; a late success of an order clears what was added since. The calendars of the
earlier form and of the admin site have no sequence guard.

*Staff.*
The bookings queue, unlike the page of a request, takes the expected status from the row
as it is at the click (BookingWorkflowDialog.tsx:123), so `DecidedAsOpened` and
`NeverBackwards` are stated without it. The desk offers "cancel" on paid parties
(booking-status.ts:75), which the API always refuses (party-workflow.service.ts:70),
and "complete" and "no show" on confirmed bookings of the earlier form. A
dialog opened again after a lost answer mints a new operation id, and a charge may be
entered twice. The schedule page loses unsaved weekly edits when another section is
saved, and a closure retried after a lost answer is stored twice. Lists of the admin site
load without a sequence guard.

*Mail and workers.*
A reminder that is in the outbox is delivered although the visit was cancelled or
moved since; a visit moved within its last day gets none. Joined project names longer
than 255 characters (bookings.service.ts:835) make a valid request fail with
INVALID_EMAIL_PAYLOAD. `PATCH /admin/settings` checks no text, and the page sends "" for a
field that was cleared: with a blank address or opening-hours text every decision
that writes a booking_status mail fails in the same way, with a blank WeChat id the
requests too; so does a note, a message or a package's name beyond its field. Such texts
are all that `OnlyTextsRefuse` allows a refusal for.
booking_received and booking_status carry no link, though design:473 says that
every applicable message does. Completed, missed and refunded parties are told by no mail.
A run whose awaits never return blocks later polls of its process.

*Links.*
After a lost answer a second click on a recorded request shows an error; a link may
ask for a cancellation after the visit; the window of a move is enforced by browser
and proxy, not by the API; reading the page counts against the limit of the link.

*Settings, content.*
In "log" mode an unsigned request to a limited route is answered 503 in production
(public-request-limit.ts:50). A reader that is slow enough writes an old copy to the
cache after its invalidation, for at most 300 seconds; a project and its styles are
saved in several statements, so that a failure or a second editor leaves the styles
of one, of both or of none.

## 5. What is proved

Every safety invariant and every action property of section 3 is a theorem of its
specification, for all values of the constants the assumptions admit. The studio (StudioProofs,
StudioHistoryProofs), for every number of bookings, sessions, cells and operation ids, every
capacity, attendance and duration:

| theorem | says |
|---|---|
| `TypeCorrect`, `ProtocolKept` | the type invariant and `ReservationProtocol` hold |
| `HeldIsSafe` | the abstract floor is safe, because reserving what fits keeps a calendar safe (`ReserveSafe`) |
| `FloorImplemented` | `Spec => ImplementsOccupancy`: every step of the concurrent system reserves what fits at that very moment, releases, or stutters |
| `NoOverbooking`, `PartiesShareNothing` | `NeverOverbooked` and `PartiesExclusive` |
| `OpenWhenReserved` | `ReservedWhenOpen` |
| `EditsAreAcknowledged` | `EditsAcknowledged` |
| `EveryoneSeesTheSame` | `ViewsAgree`: forms, week page and confirmations compute the same room |
| `HistoriesExplain` | `HistoryExplainsStatus`: every booking's events are a walk to its status |
| `OperationsLeaveOneEvent` | `OneEventPerOperation` |
| `LedgerAgrees`, `RefundsAreEarned` | `LedgerMatchesHistory` and `RefundsEarned` |

AdministrationProofs, for any sections, contents, editors, visitors, instances and machines:

| theorem | says |
|---|---|
| `OverridesAreShown` | `OverriddenAsShown`: only conflicts that were listed for that change are overridden |
| `EntriesAreWhole` | `EntriesWhole`: an entry stands, and is shown, with the variants saved with it |
| `SignedAreServed` | `SignedIsServed`: no secret's introduction or replacement turns away a young request |

EmailOutboxProofs, for every number of messages, workers and attempts, every lease and every
list of delays, and WorkersProofs, for every number of visits, processes and requests and any times:

| theorem | says |
|---|---|
| `TypeCorrect` | the outbox is well typed: attempts stay within their limit, claims within the age a worker may stall |
| `ClaimsAreFenced` | `LeaseFences`: of all who have a row in memory at most one owns it, and only a lease that ran out is lost |
| `NobodyIsStuck` | `NeverStuck`: no history of crashes and late answers leaves a message that can neither be claimed nor is failed |
| `DuplicatesHaveAReason` | `DuplicatesExcused` |
| `SentStays` | `SentIsFinal` |
| `RemindersAreTrue` | `RemindersTrue`: a reminder names the time the visit is confirmed for when it commits |
| `RemindersAreSent` | `RemindersSent`: a visit confirmed in time is reminded of, unless errors spoiled its whole window |
| `OnlyTextsRefuseMail` | `OnlyTextsRefuse`: whatever the history, status, event, link and day of each mail pass; what is refused is a text |
| `ClaimsAreTrue` | `NoFalseClaim`, with its exception: the day in the confirmation of a booking confirmed before |
| `LinksOutlastVisits` | `LinksLast` |

StorefrontProofs, for any days, products, mounts and POSTs, any fields typed, any change of the clocks:

| theorem | says |
|---|---|
| `TypeCorrect` | the tab, its POSTs and the intake's tables are well typed |
| `SlotsMatch` | `SlotsMatchForm` |
| `SuccessIsTrue` | `SuccessIsStored` |
| `FormsLeaveOneRequest` | `OneRequestPerForm` |
| `DatesAreKept` | `OrdersKeepTheirDate` |
| `CartIsKept` | `CartKept` |
| `QuotaIsKept` | `QuotaKept` |
| `CustomerRequestsKept`, `RefundsAreFair` | `RequestsKept` and `RefundsFair` |
| `RequestsAreAsShown` | `StoredAsShown` |

BackOfficeProofs, for every number of accounts, links, requests, desks and dialogs:

| theorem | says |
|---|---|
| `TypeCorrect` | accounts are well typed, and exactly the request that decides on a role holds the owners' lock |
| `AnOwnerRemains` | `OwnerRemains` |
| `OneLinkWorks` | `OneLinkPerUser` |
| `SessionsAreRecent` | `SessionsFollowPassword` |
| `NewestLinkOnly` | `NewestLinkSets`: only the newest link of a user, while it works, sets a password; used and revoked links stay so |
| `DialogsDecideOnce` | `DecisionsOnce` |
| `DecisionsMeetTheirStatus` | `DecidedAsOpened`: the queue of bookings excepted |
| `PagesMoveForward` | `NeverBackwards` |

and SlotRequestsProofs, for every number of slots, requests, categories and transactions:

| theorem | says |
|---|---|
| `TypeCorrect` | the type invariant |
| `CountersBalance` | `CapacityBalanced`: the counter of a slot is what its live requests take, and within its capacity |
| `ReservationsStay` | `ReservationsMatchSlots`: a slot with a reservation is neither moved nor removed |
| `SlotsStayApart` | `SlotsDisjoint` |
| `NothingAfterClosing` | `CreatedWhileOpen`: bookings, which lock the switch; of cart orders it would be false if their route were opened |

*Assumptions*: only those named beside the constants, all of which TLC evaluates in the runs.
Values that stand for "none" are not values of the other kind, and different kinds of rows
are disjoint. Beyond that:

* Studio: bookings are finite in number, attendance is between one and the
  capacity, durations are positive; setup and cleanup may be zero.
* SlotRequests: requests are finite in number and take at least one place; windows are not empty.
* Accounts: the founder is an account.
* Maintenance: there is a process. Notifications: bookings are made for fewer days ahead
  than a link lives (`HORIZON < LIFETIME`).
* RequestIntake: limits and bounds are positive. Content: what is typed into number fields are
  integers, in the units of the model.
* CustomerPage: hours are integers, and no visit is booked for the hour in which the clocks change,
  when the studio is closed.
* InternalRequests: clocks differ by at least one second and by at most the age a signature may
  have. For a skew of zero the theorem is false: a request whose age is
  exactly the maximum by the seconds that have passed may be one second older by the clocks.

### The arguments: the studio

`ReserveSafe` is about sets and sums: a new interval can raise the
head count of an instant only if the instant lies inside it, the bookings present at such an
instant are among those the query adds up, and the test bounds that sum plus the
newcomer. `HeadCount` is a cardinality, so monotonicity and addition come from the
library's facts on finite sets. `HeldIsSafe` is that lemma as an invariant of StudioOccupancy,
in the instance `Floor` of Studio; `NoOverbooking` follows from it through
`FloorImplemented`, not from an invariant of its own.

The concurrent part needs an invariant that is inductive. `NeverOverbooked` is
not: from a state in which two sessions have both "checked", it is lost in two
steps. What is inductive is `IInv == TypeOK /\ ReservationProtocol`:

* `LockHeld`: whoever is between the lock and the COMMIT holds the lock, so at most one is;
* `MoveOf`: a running request asks for an edge of the transition table of its kind,
  which says which commits change the calendar (only those that need the lock reserve);
* `ReadHolds`: the unlocked read is good enough: as long as the compare-and-set can
  still succeed, the start it read is the start in the row, for the transitions
  that rely on it. This is where "not confirmed yet" matters, and why the same
  is false for a booking being confirmed again (Studio_truthful);
* `CheckStands`: what a session has checked still fits and is still open, whatever
  others commit meanwhile. Others may only release, which `BelowFits` shows harmless;
* `RowsPlaced`, `EditCovered`: a booking that exists has a start, and an edit about to be
  written is acknowledged for what it hits at that moment.

There is a lemma for each kind of step (`BeginInv`, `LockScheduleInv`,
`CheckInv`, `WriteInv`, `AbortInv`, `CreateInv`, `TickInv`, `EditInv`), combined in
`NextInv`. `StepOnFloor` then reads off the effect of a step on the calendar, from
which the refinement, the safety theorems and `OpenWhenReserved` follow.

`ViewsAgree` needs no more than the type invariant and the safety of the calendar. The sum of the
list of starts and that of a confirmation are over the same set of bookings; who sits
in one half hour is a subset of those, so an offered start leaves each half hour within
capacity; and the half hours that the week page draws for a booking are those of its interval.

*Histories and money* stand on the same invariant. `TouchingSteps` finds the few
kinds of step that touch the tables at all, and `CommitCases` says of each what it
does to them: it opens a booking, bills a party, or advances one booking by one
event. `Explained` is then kept by each (an event starts where the last one ended,
because compare-and-set compared it), and `EventUnique` because a session writes
under the lock of its operation id, and finds the id unused (`OperationUnused`).
The ledger needs `MoneyInv`:
`PaymentsKnown` ties the status of a party to the payments in its history, and
`ReadPaid` says that who has read a party as paid may rely on it for ever. That is the
weaker fact that survives the missing comparison of Studio_charge: a charge may
come late, but never to a party that has not paid.

### The arguments: administration

* Schedule page (`DeskInv`): every fingerprint that the page holds or has
  sent is of conflicts that were listed for the edit it is about (`MarksListed`). Since
  typing takes the fingerprint away, that is what the tick under the list acknowledges.
* Content (`ContentInv`): an entry's row is locked from the UPDATE to the COMMIT, so
  the DELETE of its variants sees all there are (`Locked`) and two saves do not mix;
  a visitor reads entry and variants in one statement (`ReadWhole`), and what it puts
  into the cache is what it has read.
* Secrets (`TransportInv`): settings in use are those of the present or of the previous step of the
  rollout (`InUse`), and `RolloutFacts` reads off its order that neighbouring steps understand each
  other. Once no instance signs with the old secret, what is under way with it was sent before the last
  deployment, and the secret is taken away only when a signature's life has passed since (`CallOK`).

### The arguments: workers

The outbox needs three strengthenings, one for each way its invariants could fail
to be inductive (`IInv == TypeOK /\ Fenced /\ Attempting /\ Accounted`):

* `Fenced`: a claim in memory is never newer than the present claim of the row, so
  that time, which ages both, cannot make an old claim look like the present one;
  and a row in hand has left the batch, so that a worker never meets it again;
* `Attempting`: a row that may still be sent has an attempt left, and a row that
  is being sent is due, so that it can be claimed the moment its lease ends;
* `Accounted`: unless an answer or a claim of it was lost, whoever has a message in memory
  owns it, and what the provider took is recorded or about to be.

For `RemindersTrue` one fact is enough: `TrueRow`, that a visit whose row a run has
locked is still as it was checked under the lock. Whoever changes a visit must find
its row unlocked, and the minute cannot end while a run is active. `RemindersSent` is an argument
about time (`SentInv`): while a visit is owed a reminder (`Owed`), this minute's run of every process is
still to come to it (`OnCourse`) or has ended in an error, and so has a run in each minute since the first
in which all runs could see the visit (`Counted`). So when the window is over, either the
reminder is in the outbox or as many runs failed as the window has minutes.

For the e-mails (`MailInv`): a request only has statuses of its kind (`OwnStatus`); from a proposal
on, a party's final time is set, within the horizon (`FinalSet`); whoever has a certain visit
was told a link that outlasts it (`LinkHeld`). `WriteKeeps` is the step that all transactions
share, and a lemma for each sort of mail (`LifecycleAccepted`, `StatusAccepted`, `ReceiptAccepted`,
`NoticeAccepted`) says that what the service fills in is what the schema demands, its texts
aside (`Accepted`); `MayMisfit` says which mails have texts that may not fit. `ReadsAgree` is what
a decision may rely on after its unlocked read: until a booking is first confirmed nobody moves
it, so the day read is the day stored. For a booking confirmed before that is false, which is
the exception in `NoFalseClaim`.

### The arguments: customers

* *Types* (`TypeInv`): the form has the key of its mount, minted again after a success, and what is
  posted or stored has one of the first sort (`KeysFresh`); a cart page with a start has a day
  (`DayPicked`), which is what the type of its order rests on.
* *Offers* (`Matching`): an answer that will still be used is one for the day and group in the
  fields, and so are the starts shown and the one chosen: of an ordinary booking
  (`OrdinaryCalendar`), and of a party, whose starts need only match the day (`PartyList`).
* *Submissions*: `TabSteps` reduces the handlers of all forms to what matters to their POSTs
  (`TabStep`): fields change, a POST leaves, it ends, a form is opened or left, or an
  abandoned POST ends late. `Submissions` is kept by each of these and by `ServeSteps`: a form has at
  most one live POST (`OneLive`), with the body it has captured (`AwaitsOwn`), and "stored" is
  answered for a body only if the key's row has had it (`StoredIsPast`).
* *Quota* (`CountsCover`): what a window has stored is at most its counter, and that at most
  the limit, since a booking is counted in the transaction that stores it.
* *Clock*: what `matchingInstant` returns is the only instant that shows the local hour
  (`MatchingIsUnique`), and three corrections of a guess reach the instant of every hour but one that
  comes twice (`ThreeCorrections`), wherever the change is and in either direction. `PageInv` then
  carries what browser and proxy checked to the row.
* *Contents* (`GroupInv`, `GuestInv`): a chosen start is one that was listed for the draft as it is,
  because every change of people or projects drops it. What the page lets through, the
  schema and the API take too (`PageAsSchema`, `SchemaAsApi`), unless staff changed something after the click.

### The arguments: staff, and the earlier form

For the accounts the invariant is `IInv == TypeOK /\ AccountInv /\ LinkInv`:

* `DecisionStands`: what was decided under the owners' lock, that the account exists
  and is not the only owner, is still true at the COMMIT, since nobody else
  changes a role meanwhile and a new account can only add an owner;
* `SessionsBehind`: a session's version is never ahead of its account, and equal
  only if the password is the same. Without "never ahead" an increment could
  meet the version of a session from an earlier password;
* `ActiveIsNewest`, `LinksBelong`: a link that works is newer than all others of
  its user, which gives both uniqueness and `NewestLinkSets`;
* `HeldOpen`, `IssueCovers`: locked links stay open, and who is about to insert
  holds every link of the user that works and is alone in doing so. `IssuersKnown`
  keeps apart the new account, whose first link needs no lock.

`CloseKeepsLinks` and `InsertKeepsLinks` do the work for all actions that close
links or add one.

For the desk it is `DeskInv == DeskTypeOK /\ LogOK /\ \A d : DeskOK(d)`:

* `LogOK`: an operation is in one entry of one history, with the status it asked for;
* `DeskOK`: the posts of a dialog carry its operation and, on a page or for an order, the status it
  was opened in; a call that was told "done" finds its entry (`Made`); what a tab shows, has read or
  will be answered is a length that the history really has. On the page of a request a call is alone, and a
  load that was asked for comes before anything else, so what arrives is never older than what is shown.

Histories only grow, and `GrownDesk` shows that growth disturbs no other tab; `StillDesk` does the
same for the steps of a tab that leave all histories alone.

For the slots it is `IInv == TypeOK /\ Floor /\ SlotsDisjoint /\ \A s : Relies(s)`.
`Floor` is balance, match and `Placed` (a live request is in a slot). The places of a
set of requests are a set of pairs, so `PlacesAdd` counts one request more or less
with the library's facts. `Relies` is what a transaction that is under way may
count on until it writes:

* `Creating`: its request is nobody else's and not there yet, and, if it is a booking, the switch is on;
* `Updating`: it makes a step of the table, and none of these starts at a status that holds no place;
* `Editing`: it holds the row of its slot, and the slot is still empty, so nobody's
  place moves with it (`NobodyThere`);
* `Moving`: it holds the key of the category it moves to, in which nothing overlaps
  the new window, since everyone who adds to a category needs its key.

### What the proofs changed in the models

Two definitions were written with a CASE whose arms overlapped, where TLC takes the first and the
logic promises neither: the answer to a call whose signature is both too old and unknown (`Outcome`), and
the toggle of a project that is "decide in the studio" (`toggleProject`). Both are IF now, in the order of the code.
The skew of zero in InternalRequests was found by a step that did not hold.

## 6. What is only model-checked

* Liveness: `HoldsEnd` and `Settles`, with the fairness of section 3. ENABLED and fairness are
  beyond the prover.
* The properties of section 4, which are false; their counterexamples are TLC's.
* What the folds compute (`Longest` of a group's projects, `Assigned` seats): the proofs rely
  only on what the definitions around them guarantee, since induction over data is beyond the prover.

## 7. Hazards

`PROJECT.json` lists what is hard to test in this code, at its line, with the
properties that would notice; each has at least one. Two are covered in part: a project's styles
can be torn (section 4), so `EntriesWhole` is about the catalogue; and the queue of bookings is
left out of `DecidedAsOpened`, because the code does there what the hazard describes.

## 8. What is not modelled, and why

* Inside the modelled parts: names and prices; the past-date test of slot
  reservations; an edit that moves a slot and changes its capacity at once;
  bookings of the earlier form on the floor of the studio (a confirmed one of kind
  party does exclude others, yet is confirmed without the schedule lock,
  request-transition.service.ts:374; the route that makes them answers 410);
  skew between the clocks of two processes of the API.
* Limits of sign-in and of links, which use the counter of RequestIntake;
  changes of names and e-mail addresses of accounts, and the sealing of setup
  links, which leave roles, versions and passwords alone.
* Creation and deletion of catalogue entries, gallery, categories and party
  packages: rows that are created, edited and deleted alone.
* Lists of the admin site without a decision of their own: users, time slots,
  e-mail deliveries, unread badges and read marks.
* Pricing: a pure function with unit tests. Wording and layout of mails and pages.
* HTTP wiring, CORS, uploads, storage and health; schema, migrations, seeds and the
  production bootstrap, which run once before a release.

## 9. Plan

The order follows the damage a mistake does: the floor and its concurrency first,
then money and history, delivery, and the way to and from the people.

1. Done: all modules of section 2, the runs of sections 3 and 4, the proofs of section 5.
2. Would come next: rows of the earlier form on the floor of Studio; the counter of
   sign-in and of links; the creation and deletion of catalogue entries.
3. Proofs: every safety invariant and action property of section 3 is proved. Left are
   abstract specifications beside StudioOccupancy (a form that delivers at most once, a
   dialog that decides at most once) and the refinements of them, for which `Submissions`
   and `DeskInv` are the invariants that a proof would need.
