\* The days of one listing, around the ends of months, years and February,
\* for every set of stays that exclude each other.
SPECIFICATION Spec
CONSTANTS
    DAY = 2
    Moments <- Boundaries
INVARIANTS
    DatesCivil
    MasksHoldStays
    DecidedByDays
PROPERTIES
    KeepsBook
