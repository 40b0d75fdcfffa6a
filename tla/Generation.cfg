SPECIFICATION Spec
CONSTANTS
    u1 = u1
    s1 = s1
    s2 = s2
    NoUser = NoUser
    Slots <- TwoSlots
    Users <- OneUser
    Concurrency = 1
    DailyLimit = 1
    MaxJobs = 3
    MaxFailures = 1
    MaxCrashes = 1
CHECK_DEADLOCK FALSE
INVARIANTS
    UsageIsEarned
    QuotaOvershoot
    UnattendedIsSettled
PROPERTIES
    KeepsLedger
