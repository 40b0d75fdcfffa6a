SPECIFICATION FairSpec
CONSTANTS
    r1 = r1
    r2 = r2
    w1 = w1
    w2 = w2
    NoOne = NoOne
    KeyPrefixes = {uploads, generated}
    Requests <- MCRequests
    Writers <- MCWriters
    CacheMax = 1
    MaxWrites = 2
INVARIANTS
    MonotonicReads
    InvalidationVoidsOldScans
PROPERTIES
    StalenessEnds
