SPECIFICATION CheckoutSpec
CONSTANTS
    u1 = u1
    t1 = t1
    t2 = t2
    NoUser = NoUser
    NoId = NoId
    NoTime = NoTime
    NoRow = NoRow
    Users <- MCUsers
    Ids <- MCIds
    Tabs <- TwoTabs
    Prices = {"team"}
    MaxSessions = 3
    MaxMinutes = 2
    MaxEvents = 3
SYMMETRY Symmetry
CONSTRAINT NotYetDoubled
CHECK_DEADLOCK FALSE
INVARIANTS
    NoSecondOnceKnown
    SettledTierIsPaidFor
