CONSTANTS
    Keys = {k1}
    Values = {v1, v2}
    Threads = {t1}
    Weight <- MCWeight
    MaxCapacity = 2
    FlushPoint = 1
    MaxSyncRepeats = 1
    EvictionBatchSize = 2
    MaxConsecutiveRetries = 5
    TimeToLive = None
    TimeToIdle = None
    MaxEntries = 3
    MaxTime = 1
    MaxFreq = 2
    MaxCalls = 3
    InvalidatorEnabled = TRUE
    Predicates = {p1}
    Matches <- MCMatches
    IdSpace = 2
    MaxRetry = 1
    InvalidationBatchSize = 1
    None = None
    Unset = Unset
SPECIFICATION Spec

PROPERTY TaskRemovesOnlyMatching
