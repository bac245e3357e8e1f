SPECIFICATION FairSpec
CONSTANTS
    t1 = t1
    t2 = t2
    t3 = t3
    Txs = {t1, t2, t3}
    Priority <- MCPriority
    Boost = TRUE
    NProviders = 2
    MaxConcurrent = 2
    MaxQueueSize = 1
    MaxAttempts = 2
INVARIANT NothingLost
PROPERTIES EndsForGood CriticalFirst Settles
\* All transactions may have ended.
CHECK_DEADLOCK FALSE
