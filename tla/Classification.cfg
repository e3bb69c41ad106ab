\* Uploads of one and of two batches beside the statistics; the system stops when all is done.
SPECIFICATION FairSpec
CONSTANTS
    cA = cA
    cB = cB
    k1 = k1
    k2 = k2
    owner = owner
    admin = admin
    w1 = w1
    w2 = w2
    Null = Null
    AdminId = AdminId
    Companies = {cA, cB}
    Cats = {k1, k2}
    Reqs = {owner, admin}
    Caller <- MCCaller
    Rows <- MCRowsMany
    BatchSize = 2
    Workers = {}
    Target <- MCTarget
    Limit = 0
    Rules0 <- MCRules0
    MaxChanges = 1
INVARIANTS
    TypeOK
    SavedWholeBatches
PROPERTIES
    StatsNotOverstated
    UploadEnds
CHECK_DEADLOCK FALSE
