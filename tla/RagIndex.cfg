SPECIFICATION RagSpec
CONSTANTS
    j1 = j1
    j2 = j2
    p1 = p1
    s1 = s1
    s2 = s2
    NoDocument = NoDocument
    Documents <- TwoTexts
    ChunkCount <- Counts
    Jobs <- TwoJobs
    Purges <- OnePurge
    Searches <- OneSearch
    TopK = 1
    MaxIngests = 3
    MaxFailures = 1
SYMMETRY Symmetry
CHECK_DEADLOCK FALSE
INVARIANTS
    CleanReplace
    RegistryDescribesIndex
    AnswersAreIndexed
