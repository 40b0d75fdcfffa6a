SPECIFICATION RagSpec
CONSTANTS
    j1 = j1
    j2 = j2
    p1 = p1
    s1 = s1
    s2 = s2
    NoDocument = NoDocument
    Documents <- TwoTexts
    ChunkCount <- Counts
    Jobs <- OneJob
    Purges <- OnePurge
    Searches <- NoSearch
    TopK = 1
    MaxIngests = 3
    MaxFailures = 1
CHECK_DEADLOCK FALSE
INVARIANTS
    ReingestIsSafe
