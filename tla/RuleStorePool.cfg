\* As many saves as connections.
SPECIFICATION FairSpec
CONSTANTS
    cA = cA
    cB = cB
    a1 = a1
    a2 = a2
    b = b
    s1 = s1
    s2 = s2
    s3 = s3
    NoOwner = NoOwner
    Seed = Seed
    Companies = {cA, cB}
    Cats = {a1, a2, b}
    Savers = {s1, s3}
    File <- MCFile
    Owner0 <- MCOwner
    Used = {a1}
    PoolSize = 2
    GapLocks = FALSE
PROPERTIES
    EverySaveEnds
CHECK_DEADLOCK FALSE
