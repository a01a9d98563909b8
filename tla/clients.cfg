\* Every instruction of the five programs, by both kinds of builder, with the
\* slips and choices of Callers, of a stay within a year and one across two.
SPECIFICATION Spec
CONSTANTS
    s1 = s1
    s2 = s2
    NoRequest = NoRequest
    Sessions = {s1, s2}
    Year <- SameYear
    Stay <- ThreeStays
    Visited = {"plain", "crossing"}
    Asked <- AllOps
    Kinds = {"plugin", "sync"}
    Together = {"createBooking", "createBookingCrossYear", "expireBooking",
                "hostRejectBookingCrossYear", "guestCancelBooking"}
    Setup = {"initializeConfig", "initializeEscrow", "initializeTreasury",
             "initializeUserProfile", "initializeListing", "initIdentity"}
    FreshToo = TRUE
SYMMETRY SessionSymmetry
INVARIANTS
    SessionsTypeOK
    FilledFromFinal
    OrderedDefaults
    NoOrphans
    RefusedOnlyIfOvertaken
    PrivilegesSuffice
    EntriesClosed
    OneStay
    RoundTrip
