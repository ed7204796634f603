CONSTANTS
    Workers = {w1, w2}
    Namespaces = {sessions}
    Keys = {k1}
    Ops = {"set", "set_nx", "get_set", "add_integer", "concat", "get", "delete"}
    Ttls = {0, 1}
    MaxKeys = 0
    MaxBytes = 0
    MaxCalls = 3
    MaxGeneration = 2
    MaxTime = 2
SYMMETRY Symmetry
CHECK_DEADLOCK FALSE
SPECIFICATION Spec
INVARIANTS IInv InvalidationFences NothingSlipsIn
PROPERTY SetNxExclusive
