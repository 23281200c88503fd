CONSTANTS
    Keys = {k1, k2}
    Values = {v1}
    Threads = {t1, t2}
    Weight <- MCWeight
    MaxCapacity = 1
    FlushPoint = 1
    MaxSyncRepeats = 1
    EvictionBatchSize = 2
    MaxConsecutiveRetries = 5
    TimeToLive = 1
    TimeToIdle = 1
    MaxEntries = 3
    MaxTime = 2
    MaxFreq = 2
    MaxCalls = 4
    InvalidatorEnabled = FALSE
    Predicates = {}
    Matches <- MCNoMatches
    IdSpace = 1
    MaxRetry = 1
    InvalidationBatchSize = 1
    None = None
    Unset = Unset
SPECIFICATION Spec
SYMMETRY MCSymmetry
INVARIANT WriteOrderMirrorsProbation
