\* A guest opens a dispute about his stay and links his evidence to it.
SPECIFICATION Spec
CONSTANTS
    s1 = s1
    s2 = s2
    NoRequest = NoRequest
    Sessions = {s1}
    Year <- SameYear
    Stay <- ThreeStays
    Visited = {"plain"}
    Asked = {"createBooking", "openDispute", "linkEvidente", "closeDispute"}
    Kinds = {"sync"}
    Together = {}
    Setup = {}
    FreshToo = FALSE
INVARIANTS
    EvidenceKept
