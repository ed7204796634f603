CONSTANTS
    Calls = {c1, c2}
    Messages = {m1, m2}
    MaxSends = 2
SPECIFICATION FairSpec
INVARIANTS IInv NoLostWakeup
PROPERTIES LongPollEnds StreamDelivers
