CONSTANTS
    Workers = {w1, w2}
    Names = {orders}
    Ops = {"send", "read"}
    Limits = {1}
    Delays = {0}
    Visibilities = {1}
    MaxBatch = 1
    Retention = 0
    MaxQueues = 1
    MaxMsgs = 1
    MaxReads = 2
    MaxTime = 3
SYMMETRY Symmetry
CHECK_DEADLOCK FALSE
SPECIFICATION Spec
INVARIANT RedeliveryBounded
