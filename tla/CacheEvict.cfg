CONSTANTS
    Workers = {w1, w2}
    Namespaces = {sessions}
    Keys = {k1, k2}
    Ops = {"set", "concat"}
    Ttls = {0, 1}
    MaxKeys = 1
    MaxBytes = 1
    MaxCalls = 2
    MaxGeneration = 2
    MaxTime = 2
CHECK_DEADLOCK FALSE
SPECIFICATION FairSpec
INVARIANT OnlyDeletesDeadlock
PROPERTY EveryCallReturns
