\* Two guests ask for overlapping stays at one listing, some of them across a
\* new year: requests are accepted, rejected, cancelled and expire, stays are
\* completed and paid out.
SPECIFICATION Spec
CONSTANTS
    g = g
    h = h
    x = x
    i1 = i1
    i2 = i2
    i3 = i3
    p1 = p1
    b1 = b1
    b2 = b2
    b3 = b3
    NoIdentity = NoIdentity
    NoBooking = NoBooking
    Users = {g, h, x}
    Identities = {i1, i2, i3}
    InitialIdentity <- AllVerified
    Bookings = {b1, b2, b3}
    FreeOps = 9
    MinimumDeposit = 10
    InitialBalance <- Wealth
    Amounts = {}
    MaxDeposited = 20
    Properties = {p1}
    DAY = 1
    CalendarYear <- ShortYears
    Owner <- OneOwner
    Guest <- CalendarGuests
    PropertyOf <- OneListing
    CheckIn <- CalendarCheckIns
    CheckOuts = {3, 5}
    Prices = {7}
    FeeBps = 1000
    ReviewScores = {}
    MaxTime = 7
    Horizon = 7
    Admins = {"root"}
    InitialAdmins <- Root
    Outcomes = {}
    Disputants = {}
    PairedAccounts = FALSE
INVARIANTS
    TypeOK
    CalendarExact
    PayoutsExact
PROPERTIES
    CancelledByCheckIn
\* The clock stops at MaxTime, and the instance with it.
CHECK_DEADLOCK FALSE
