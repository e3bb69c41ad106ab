\* Two reclassifications that can find the same rows; the system stops when all is done.
SPECIFICATION Spec
CONSTANTS
    cA = cA
    cB = cB
    k1 = k1
    k2 = k2
    owner = owner
    admin = admin
    w1 = w1
    w2 = w2
    Null = Null
    AdminId = AdminId
    Companies = {cA, cB}
    Cats = {k1, k2}
    Reqs = {owner, admin}
    Caller <- MCCaller
    Rows <- MCRowsFew
    BatchSize = 2
    Workers = {w1, w2}
    Target <- MCTarget
    Limit = 1
    Rules0 <- MCRules0
    MaxChanges = 1
INVARIANTS
    ResultAccounts
    AttributedTogether
CHECK_DEADLOCK FALSE
