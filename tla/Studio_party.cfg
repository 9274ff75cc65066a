\* One party from request to refund: four operations of staff, two transactions; one closure
\* that may be put and lifted before the request.
\* The day ends and operation ids run out: the system may stop.
SPECIFICATION Spec
CONSTANTS
    Ordinary = {}
    Parties = {p1}
    Sessions = {s1, s2}
    Ops = {a1, a2, a3, a4}
    NoSlot = NoSlot
    Clerk = Clerk
    Free = Free
    NoRequest = NoRequest
    NoOp = NoOp
    NoAck = NoAck
    Attendance <- MCAttendance
    Duration <- MCDuration
    Setup = 0
    GuestTime = 1
    Cleanup = 0
    Capacity = 3
    LastCell = 2
    LeadTime = 0
    RefundNotice = 1
    ClosureChoices <- MCClosure
    HourChoices <- NoChoices
SYMMETRY Symmetry
CONSTRAINT EditsFirst
INVARIANTS LedgerMatchesHistory RefundsEarned
CHECK_DEADLOCK FALSE
