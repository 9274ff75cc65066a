\* A party and two groups that do not fit together, two concurrent transactions.
\* The day ends and operation ids run out: the system may stop.
SPECIFICATION Spec
CONSTANTS
    Ordinary = {o1, o2}
    Parties = {p1}
    Sessions = {s1, s2}
    Ops = {a1, a2}
    NoSlot = NoSlot
    Clerk = Clerk
    Free = Free
    NoRequest = NoRequest
    NoOp = NoOp
    NoAck = NoAck
    Attendance <- MCAttendance
    Duration <- MCDuration
    Setup = 0
    GuestTime = 1
    Cleanup = 1
    Capacity = 3
    LastCell = 1
    LeadTime = 0
    RefundNotice = 1
    ClosureChoices <- MCClosure
    HourChoices <- NoChoices
SYMMETRY Symmetry
CONSTRAINT EditsFirst
INVARIANTS NeverOverbooked ViewsAgree HistoryExplainsStatus OneEventPerOperation
PROPERTIES ImplementsOccupancy
CHECK_DEADLOCK FALSE
