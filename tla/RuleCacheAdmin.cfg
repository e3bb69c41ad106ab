\* One tick is half of CACHE_TTL: the first entry expires and a load can be resumed a tick later.
SPECIFICATION Spec
CONSTANTS
    c1 = c1
    c2 = c2
    r1 = r1
    r2 = r2
    AllKey = AllKey
    Companies = {c1, c2}
    Reqs = {r1, r2}
    Caller <- MCAdmins
    TTL = 2
    MaxClock = 3
INVARIANTS
    TypeOK
    ServedWithinTTL
PROPERTIES
    ImplementsServing
CHECK_DEADLOCK FALSE
