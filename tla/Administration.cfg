\* Schedule: closures come and go under one party and one group.
\* Desk: one section of the page and two saves; Content: two edits; Secrets:
\* two instances of the site, two machines of the API, one request at a time.
\* No symmetry: liveness.  Days, operation ids and edits run out: the system
\* may stop.
SPECIFICATION MCSpec
CONSTANTS
    Ordinary = {o1}
    Parties = {p1}
    Sessions = {s1, s2}
    Ops = {a1}
    NoSlot = NoSlot
    Clerk = Clerk
    Free = Free
    NoRequest = NoRequest
    NoOp = NoOp
    NoAck = NoAck
    Attendance <- MCAttendance
    Duration <- MCDuration
    Setup = 0
    GuestTime = 1
    Cleanup = 1
    Capacity = 3
    LastCell = 1
    LeadTime = 0
    RefundNotice = 1
    ClosureChoices <- MCClosure
    HourChoices <- NoChoices
    Sections = {"weekly"}
    Visits = {"v1", "v2"}
    Changes <- MCVisits
    Undone <- MCUndone
    Blank = Blank
    NoMark = NoMark
    MaxSaves = 2
    MaxRevisions = 2
    Editors = {e1, e2}
    Visitors = {g1}
    MaxEdits = 2
    Nothing = Nothing
    Instances = {w1, w2}
    Machines = {m1, m2}
    MAX_AGE = 2
    MaxSkew = 1
    LastSecond = 3
    MaxCalls = 1
    NoSecret = NoSecret
INVARIANTS EntriesWhole SignedIsServed OverriddenAsShown
PROPERTIES ReservedWhenOpen EditsAcknowledged HoldsEnd
CHECK_DEADLOCK FALSE
