CONSTANTS
    s1 = s1
    s2 = s2
    q1 = q1
    v1 = v1
    Scopes <- MCScopes
    Queues <- MCQueues
    Items <- MCItems
    Values <- MCValues
    Clients = {c1, c2, c3}
    Registered = {c1, c2}
    Keys = {"k1"}
    DeadLetters = {d1}
    None = None
    EmptyObject = EmptyObject
    MaxClicks = 3
    MaxFaults = 1
SPECIFICATION FairSpec
INVARIANTS IInv FreshPanels EditorFollowsDraft HonestFeedback SecretIsOfTheNamed
PROPERTY EverythingIsAnswered
CHECK_DEADLOCK FALSE
