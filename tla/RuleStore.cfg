\* Three saves on a pool with a connection to spare; when all have ended the system stops.
SPECIFICATION FairSpec
CONSTANTS
    cA = cA
    cB = cB
    a1 = a1
    a2 = a2
    b = b
    s1 = s1
    s2 = s2
    s3 = s3
    NoOwner = NoOwner
    Seed = Seed
    Companies = {cA, cB}
    Cats = {a1, a2, b}
    Savers = {s1, s2, s3}
    File <- MCFile
    Owner0 <- MCOwner
    Used = {a1}
    PoolSize = 4
    GapLocks = TRUE
INVARIANTS
    TypeOK
    OnlySavedVisible
    CategoryOfOwnCompany
PROPERTIES
    CommitKeepsFile
    AloneReplaces
    ImplementsRuleBook
    EverySaveEnds
CHECK_DEADLOCK FALSE
