\* A dispute is withdrawn with another booking of the same guest, and its own
\* booking stays frozen.
SPECIFICATION Spec
CONSTANTS
    g = g
    h = h
    x = x
    i1 = i1
    i2 = i2
    i3 = i3
    p1 = p1
    b1 = b1
    b2 = b2
    b3 = b3
    NoIdentity = NoIdentity
    NoBooking = NoBooking
    Users = {g, h}
    Identities = {i1, i2, i3}
    InitialIdentity <- AllVerified
    Bookings = {b1, b2}
    FreeOps = 9
    MinimumDeposit = 10
    InitialBalance <- Wealth
    Amounts = {}
    MaxDeposited = 20
    Properties = {p1}
    DAY = 1
    CalendarYear <- LongYears
    Owner <- OneOwner
    Guest <- SameGuest
    PropertyOf <- OneListing
    CheckIn <- ShortNotice
    CheckOuts = {2, 4}
    Prices = {7}
    FeeBps = 1000
    ReviewScores = {}
    MaxTime = 5
    Horizon = 5
    Admins = {"root"}
    InitialAdmins <- Root
    Outcomes = {}
    Disputants = {g}
    PairedAccounts = FALSE
PROPERTIES
    WithdrawnDisputeRestores
\* The clock stops at MaxTime, and the instance with it.
CHECK_DEADLOCK FALSE
