\* Two saves that name the companies in opposite orders.
SPECIFICATION Spec
CONSTANTS
    cA = cA
    cB = cB
    a1 = a1
    a2 = a2
    b = b
    s1 = s1
    s2 = s2
    s3 = s3
    NoOwner = NoOwner
    Seed = Seed
    Companies = {cA, cB}
    Cats = {a1, a2, b}
    Savers = {s1, s2}
    File <- MCFile
    Owner0 <- MCOwner
    Used = {a1}
    PoolSize = 3
    GapLocks = FALSE
PROPERTIES
    ReportedSavedIsStored
CHECK_DEADLOCK FALSE
