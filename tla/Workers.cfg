\* One message, two workers: everything that crashes, stalls, lost answers and
\* the retry button can do to a row.  Messages never touch each other's rows; a
\* worker that is busy with other rows is one that stalls.
\* Two processes poll for reminders: a window of five polls; times 3 and 4, two
\* minutes ahead; the window of the earlier one lies within the run; one crash.
\* Three days, of which bookings reach one ahead and links last two; five status
\* changes of one request.
\* That day ends: the system may stop.
SPECIFICATION MCSpec
CONSTANTS
    Messages = {m1}
    Workers = {w1, w2}
    MAX_ATTEMPTS = 3
    RETRY_DELAYS <- MCDelays
    LEASE = 2
    BatchSize = 2
    Stale = 1
    NoCall = NoCall
    Visits = {v1, v2}
    Processes = {p1, p2}
    Starts = {3, 4}
    Deadlines = {1}
    Notice = 2
    Slack = 2
    LastMinute = 4
    MaxErrors = 1
    Nothing = Nothing
    Experiences = {e1}
    Festivities = {f1}
    CartOrders = {o1, o2}
    Unreachable = {o2}
    HORIZON = 1
    LIFETIME = 2
    LastDay = 2
    MaxEvents = 5
    None = None
CONSTRAINTS OneKeepsItsTime OneCustomer NothingRefused SettingsLack FewReads
INVARIANTS DuplicatesExcused RemindersSent OnlyTextsRefuse LinksLast
PROPERTIES SentIsFinal Settles RemindersTrue NoFalseClaim
CHECK_DEADLOCK FALSE
