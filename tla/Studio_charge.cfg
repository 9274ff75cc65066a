\* A charge is entered while the customer asks for a cancellation.
\* The day ends and operation ids run out: the system may stop.
SPECIFICATION Spec
CONSTANTS
    Ordinary = {}
    Parties = {p1}
    Sessions = {s1, s2}
    Ops = {a1, a2, a3}
    NoSlot = NoSlot
    Clerk = Clerk
    Free = Free
    NoRequest = NoRequest
    NoOp = NoOp
    NoAck = NoAck
    Attendance <- MCAttendance
    Duration <- MCDuration
    Setup = 0
    GuestTime = 1
    Cleanup = 0
    Capacity = 3
    LastCell = 2
    LeadTime = 0
    RefundNotice = 1
    ClosureChoices <- NoChoices
    HourChoices <- NoChoices
PROPERTIES ChargedWhilePaid
CHECK_DEADLOCK FALSE
