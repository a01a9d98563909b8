\* Guests who are verified on the way, reviews of both sides around a dispute
\* and its withdrawal, and the list of admins.
SPECIFICATION Spec
CONSTANTS
    g = g
    h = h
    x = x
    i1 = i1
    i2 = i2
    i3 = i3
    p1 = p1
    b1 = b1
    b2 = b2
    b3 = b3
    NoIdentity = NoIdentity
    NoBooking = NoBooking
    Users = {g, h, x}
    Identities = {i1, i2, i3}
    InitialIdentity <- OnlyHost
    Bookings = {b1, b2}
    FreeOps = 9
    MinimumDeposit = 10
    InitialBalance <- Wealth
    Amounts = {}
    MaxDeposited = 20
    Properties = {p1}
    DAY = 1
    CalendarYear <- LongYears
    Owner <- OneOwner
    Guest <- CalendarGuests
    PropertyOf <- OneListing
    CheckIn <- ShortNotice
    CheckOuts = {2, 4}
    Prices = {7}
    FeeBps = 1000
    ReviewScores = {1, 5}
    MaxTime = 4
    Horizon = 4
    Admins = {"root"}
    InitialAdmins <- Root
    Outcomes = {}
    Disputants = {h}
    PairedAccounts = TRUE
INVARIANTS
    IdentityExclusive
    ReviewsTally
\* The clock stops at MaxTime, and the instance with it.
CHECK_DEADLOCK FALSE
