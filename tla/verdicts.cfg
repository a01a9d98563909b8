\* One stay, disputed by either party, and every verdict an admin can give,
\* with deposits in two sizes and the slashes of a host who cancels late.
SPECIFICATION Spec
CONSTANTS
    g = g
    h = h
    x = x
    i1 = i1
    i2 = i2
    i3 = i3
    p1 = p1
    b1 = b1
    b2 = b2
    b3 = b3
    NoIdentity = NoIdentity
    NoBooking = NoBooking
    Users = {g, h}
    Identities = {i1, i2, i3}
    InitialIdentity <- AllVerified
    Bookings = {b1}
    FreeOps = 9
    MinimumDeposit = 10
    InitialBalance <- Wealth
    Amounts = {5, 10}
    MaxDeposited = 15
    Properties = {p1}
    DAY = 1
    CalendarYear <- LongYears
    Owner <- OneOwner
    Guest <- SameGuest
    PropertyOf <- OneListing
    CheckIn <- LongNotice
    CheckOuts = {5}
    Prices = {7}
    FeeBps = 1000
    ReviewScores = {}
    MaxTime = 9
    Horizon = 9
    Admins = {"root"}
    InitialAdmins <- Root
    Outcomes <- AllOutcomes
    Disputants = {g, h}
    PairedAccounts = FALSE
INVARIANTS
    EscrowBacked
    VaultMatchesDeposits
    PayoutsExact
    DisputeCoupled
    StaysCountedOnce
PROPERTIES
    FrozenWhileDisputed
    SettledForever
    CustodySpec
\* The clock stops at MaxTime, and the instance with it.
CHECK_DEADLOCK FALSE
