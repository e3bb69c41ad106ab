\* Two clients and one trouble; the system stops when both are answered.
SPECIFICATION FairSpec
CONSTANTS
    admin = admin
    owner = owner
    head = head
    shop = shop
    first = first
    second = second
    Null = Null
    Undefined = Undefined
    Apps = {app}
    Scripts = {script}
    Names = {admin, owner}
    AdminName = admin
    Companies = {head, shop}
    AdminCompany = head
    Passwords = {first, second}
    AdminPassword = first
    Tables0 <- MCTables0
    MaxTrouble = 1
    Clients = {one, two}
INVARIANTS
    TypeOK
    AdminSeeded
    OwnersHaveCompany
PROPERTIES
    TokensEarned
    ActsAreCurrent
    SeedingEnds
CHECK_DEADLOCK FALSE
