CONSTANTS
    Workers = {w1, w2}
    Names = {orders}
    Ops = {"send", "read", "ack", "archive", "set_visibility_timeout", "dead_letter", "purge_queue", "reprocess_dlq_message", "purge_dlq"}
    Limits = {0, 1}
    Delays = {0, 1}
    Visibilities = {0, 1}
    MaxBatch = 1
    Retention = 1
    MaxQueues = 2
    MaxMsgs = 1
    MaxReads = 2
    MaxTime = 3
SYMMETRY Symmetry
CHECK_DEADLOCK FALSE
SPECIFICATION Spec
INVARIANTS IInv SinglePlacement SettledIsFinal NoOrphans
PROPERTIES NoOverlappingDelivery ImplementsContract
