SPECIFICATION Spec
CONSTANTS
    u1 = u1
    u2 = u2
    t1 = t1
    t2 = t2
    r1 = r1
    r2 = r2
    NoUser = NoUser
    Users <- MCUsers
    Tokens <- MCTokens
    Owner <- MCOwner
    Requests = {r1, r2}
    CacheMax = 1
    MaxEffects = 2
    MaxFailures = 1
SYMMETRY Symmetry
CHECK_DEADLOCK FALSE
INVARIANTS
    RolesAreLive
    AdminRemains
    RecordsAreTrue
