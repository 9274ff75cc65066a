\* Two booking forms one after the other or a cart page, two days, one product.
\* A form with two projects, one change of its fields while a submission is under
\* way; numbers typed at the limits, those of a party in halves.
\* A change of the clocks one hour after the last instant: a local hour that is
\* left out or comes twice (50), the next one, and one two days later.  That day
\* ends: the page may stop.  The shop is open, to see what its door would hide.
SPECIFICATION MCSpec
CONSTANTS
    Dates = {d1, d2}
    Projects = {a}
    MaxSize = 1
    MaxMounts = 2
    LastMount <- Forms
    MaxPosts = 2
    MaxLoads = 2
    Limit = 1
    ProductOpen = TRUE
    NoDate = NoDate
    NoBody = NoBody
    NoSlot = NoSlot
    Nowhere = Nowhere
    SwitchAt = 40
    NoInstant = NoInstant
    Wishes = {50, 51, 73}
    Visits = {46}
    Hours = {31, 38, 39}
    MaxClicks = 2
    LEAD = 2
    HORIZON = 1
    RefundNotice = 5
    Offerings = {clay, glass}
    Decide = Decide
    Permissions = {adult_only}
    NoStart = NoStart
    Unsent = Unsent
    MaxLate = 1
    Quantities = {0, 1, 8}
    PeopleTyped = {0, 1, 8}
    ChildrenTyped = {0, 2}
    AdultsTyped <- MCAdults
    GuestsTyped = {6, 8, 9, 18}
    ParentsTyped = {0, 2}
    AgesTyped = {9, 10}
CONSTRAINTS ShopOrBook EditsLate ConsentLast
SYMMETRY Symmetry
INVARIANTS SlotsMatchForm SuccessIsStored OneRequestPerForm OrdersKeepTheirDate CartKept QuotaKept RequestsKept RefundsFair StoredAsShown
CHECK_DEADLOCK FALSE
