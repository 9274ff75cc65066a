\* One party whose customer asks for another time; staff attends to it.
\* The day ends and operation ids run out: the system may stop.
SPECIFICATION AttendedSpec
CONSTANTS
    Ordinary = {}
    Parties = {p1}
    Sessions = {s1}
    Ops = {a1, a2, a3}
    NoSlot = NoSlot
    Clerk = Clerk
    Free = Free
    NoRequest = NoRequest
    NoOp = NoOp
    NoAck = NoAck
    Attendance <- MCAttendance
    Duration <- MCDuration
    Setup = 0
    GuestTime = 1
    Cleanup = 0
    Capacity = 3
    LastCell = 1
    LeadTime = 0
    RefundNotice = 1
    ClosureChoices <- NoChoices
    HourChoices <- NoChoices
PROPERTIES PartyRescheduleAnswered
CHECK_DEADLOCK FALSE
