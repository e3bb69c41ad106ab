\* One tick is half of CACHE_TTL: an entry and the one that replaces it both expire.
SPECIFICATION FairSpec
CONSTANTS
    c1 = c1
    c2 = c2
    r1 = r1
    r2 = r2
    AllKey = AllKey
    Companies = {c1, c2}
    Reqs = {r1, r2}
    Caller <- MCOwners
    TTL = 2
    MaxClock = 4
INVARIANTS
    CacheWithinTTL
    UploadVisibleAfterTTL
PROPERTIES
    LookupAnswered
CHECK_DEADLOCK FALSE
