\* A verdict pays the victim the part of the deposit the documented table
\* leaves to the guilty party.
SPECIFICATION Spec
CONSTANTS
    g = g
    h = h
    x = x
    i1 = i1
    i2 = i2
    i3 = i3
    p1 = p1
    b1 = b1
    b2 = b2
    b3 = b3
    NoIdentity = NoIdentity
    NoBooking = NoBooking
    Users = {g, h}
    Identities = {i1, i2, i3}
    InitialIdentity <- AllVerified
    Bookings = {b1}
    FreeOps = 9
    MinimumDeposit = 10
    InitialBalance <- Wealth
    Amounts = {10}
    MaxDeposited = 20
    Properties = {p1}
    DAY = 1
    CalendarYear <- LongYears
    Owner <- OneOwner
    Guest <- SameGuest
    PropertyOf <- OneListing
    CheckIn <- ShortNotice
    CheckOuts = {2}
    Prices = {7}
    FeeBps = 1000
    ReviewScores = {}
    MaxTime = 6
    Horizon = 6
    Admins = {"root"}
    InitialAdmins <- Root
    Outcomes <- SomeVerdicts
    Disputants = {g}
    PairedAccounts = TRUE
PROPERTIES
    VerdictPaysTable
\* The clock stops at MaxTime, and the instance with it.
CHECK_DEADLOCK FALSE
