CONSTANTS
    Keys = {k1, k2}
    Values = {v1}
    Threads = {t1}
    Weight <- MCWeight
    MaxCapacity = 1
    FlushPoint = 1
    MaxSyncRepeats = 1
    EvictionBatchSize = 2
    MaxConsecutiveRetries = 5
    TimeToLive = None
    TimeToIdle = None
    MaxEntries = 3
    MaxTime = 1
    MaxFreq = 2
    MaxCalls = 4
    InvalidatorEnabled = FALSE
    Predicates = {}
    Matches <- MCNoMatches
    IdSpace = 1
    MaxRetry = 1
    InvalidationBatchSize = 1
    None = None
    Unset = Unset
SPECIFICATION Spec
SYMMETRY MCSymmetry
INVARIANT WeightedSizeMatches
