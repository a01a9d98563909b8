\* The parties act up to Horizon; after it only the permissionless calls and
\* the clock go on, and every booking must still come to its end. Disputes
\* are withdrawn, with either booking, or decided without fault: nobody deposits
\* anything that a fault could cost.
SPECIFICATION FairSpec
CONSTANTS
    g = g
    h = h
    x = x
    i1 = i1
    i2 = i2
    i3 = i3
    p1 = p1
    b1 = b1
    b2 = b2
    b3 = b3
    NoIdentity = NoIdentity
    NoBooking = NoBooking
    Users = {g, h}
    Identities = {i1, i2, i3}
    InitialIdentity <- AllVerified
    Bookings = {b1, b2}
    FreeOps = 9
    MinimumDeposit = 10
    InitialBalance <- Wealth
    Amounts = {}
    MaxDeposited = 20
    Properties = {p1}
    DAY = 1
    CalendarYear <- LongYears
    Owner <- OneOwner
    Guest <- SameGuest
    PropertyOf <- OneListing
    CheckIn <- ShortNotice
    CheckOuts = {2, 4}
    Prices = {7}
    FeeBps = 1000
    ReviewScores = {}
    MaxTime = 7
    Horizon = 3
    Admins = {"root"}
    InitialAdmins <- Root
    Outcomes <- Acquittal
    Disputants = {g}
    PairedAccounts = FALSE
PROPERTIES
    RequestsAnswered
    StaysSettle
    DisputesProgress
\* The clock stops at MaxTime, and the instance with it.
CHECK_DEADLOCK FALSE
