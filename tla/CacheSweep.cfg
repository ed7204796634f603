CONSTANTS
    Workers = {w1, w2}
    Namespaces = {sessions}
    Keys = {k1}
    Ops = {"set"}
    Ttls = {0, 1}
    MaxKeys = 0
    MaxBytes = 0
    MaxCalls = 3
    MaxGeneration = 1
    MaxTime = 2
SYMMETRY Symmetry
CHECK_DEADLOCK FALSE
SPECIFICATION Spec
PROPERTY LiveEntriesStay
