SPECIFICATION Spec
CONSTANTS
    o1 = o1
    o2 = o2
    Origins = {o1, o2}
    Ids = {i1, i2, i3}
    c1 = c1
    c2 = c2
    c3 = c3
    cIn = cIn
    cOut = cOut
    h1 = h1
    h2 = h2
    h3 = h3
    Contents = {c1, c2, c3, cOut, cIn}
    Hashes = {h1, h2, h3}
    HashOf <- MCHashOf
    OutBlocked = {cOut}
    InBlocked = {cIn}
    RING_CAPACITY = 2
    MaxBucket = 2
    MaxSequence <- MCMaxSequence
    MaxInFlight = 2
    Absent = Absent
INVARIANTS
    TypeOK
    GuardConsistent
    NothingLingers
    CompleteWithinCapacity
    MirrorMatchesGuard
PROPERTY DismissedStaysDismissed
SYMMETRY MCSymmetry
CHECK_DEADLOCK FALSE
