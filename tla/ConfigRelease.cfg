CONSTANTS
    Admins = {a1, a2}
    Watchers = {c1}
    Scopes = {prod}
    Keys = {k1}
    v1 = v1
    v2 = v2
    Values = {v1, v2}
    Schemas <- MCSchemas
    None = None
    MaxRevision = 2
    MaxEdits = 2
SPECIFICATION FairSpec
INVARIANTS IInv ReleasesContiguous
PROPERTIES PublishesTheDraft WatcherCatchesUp WatchEnds
