CONSTANTS
    Messages = {m1, m2}
    Streams = {s1, s2}
    TimeoutMs = TRUE
    Limits = {0, 2}
    Quantity = 2
    None = None
    MaxBuffer = 2
    MaxBreaks = 2
    MaxLate = 2
SPECIFICATION FairSpec
INVARIANTS TypeOK OneLiveDelivery
PROPERTIES NothingSkipped EventuallyHandled
