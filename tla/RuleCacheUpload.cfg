\* A second upload within CACHE_TTL of the first one.
SPECIFICATION Spec
CONSTANTS
    c1 = c1
    c2 = c2
    r1 = r1
    r2 = r2
    AllKey = AllKey
    Companies = {c1, c2}
    Reqs = {r1, r2}
    Caller <- MCOwners
    TTL = 2
    MaxClock = 2
INVARIANTS
    UploadedRulesApplied
CHECK_DEADLOCK FALSE
