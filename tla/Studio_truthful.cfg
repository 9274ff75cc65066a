\* Two members of staff confirm one booking for different times.
\* The day ends and operation ids run out: the system may stop.
SPECIFICATION Spec
CONSTANTS
    Ordinary = {o1}
    Parties = {}
    Sessions = {s1, s2}
    Ops = {a1, a2, a3}
    NoSlot = NoSlot
    Clerk = Clerk
    Free = Free
    NoRequest = NoRequest
    NoOp = NoOp
    NoAck = NoAck
    Attendance <- MCAttendance
    Duration <- MCDuration
    Setup = 1
    GuestTime = 1
    Cleanup = 1
    Capacity = 3
    LastCell = 1
    LeadTime = 0
    RefundNotice = 1
    ClosureChoices <- NoChoices
    HourChoices <- NoChoices
INVARIANTS ConfirmationsTruthful
CHECK_DEADLOCK FALSE
