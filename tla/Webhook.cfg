SPECIFICATION FairSpec
CONSTANTS
    u1 = u1
    cusA = cusA
    subA = subA
    NoUser = NoUser
    NoId = NoId
    NoTime = NoTime
    NoRow = NoRow
    Users <- MCOneUser
    Ids <- MCIds
    Events <- MCEvents
    Deliveries = {d1, d2}
    Configs <- MCRedeployed
    MaxFailures = 1
INVARIANTS
    LoggedIsReflected
    NewestLoggedDecides
    ActiveIsPaid
PROPERTIES
    ImplementsRegister
    EventuallyProcessed
