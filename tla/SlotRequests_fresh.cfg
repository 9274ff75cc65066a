\* Two members of staff move one booking on.
SPECIFICATION Spec
CONSTANTS
    Slots = {t1}
    SlotBookings = {b1}
    Orders = {}
    People <- MCPeople
    Categories = {k1}
    Windows <- MCWindow
    Capacities = {1}
    Sessions = {s1, s2}
    ProductOpen = TRUE
    NoSlot = NoSlot
    NoTask = NoTask
    Free = Free
INVARIANTS TransitionsFresh
