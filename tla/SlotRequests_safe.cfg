\* A booking and a cart order, two slots, two sessions.
SPECIFICATION Spec
CONSTANTS
    Slots = {t1, t2}
    SlotBookings = {b1}
    Orders = {c1}
    People <- MCPeople
    Categories = {k1}
    Windows <- MCWindows
    Capacities = {1, 2}
    Sessions = {s1, s2}
    ProductOpen = TRUE
    NoSlot = NoSlot
    NoTask = NoTask
    Free = Free
SYMMETRY Symmetry
INVARIANTS CapacityBalanced ReservationsMatchSlots SlotsDisjoint
PROPERTIES CreatedWhileOpen
