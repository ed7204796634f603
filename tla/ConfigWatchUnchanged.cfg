CONSTANTS
    Admins = {a1}
    Watchers = {c1}
    Scopes = {prod}
    Keys = {k1}
    v1 = v1
    v2 = v2
    Values = {v1, v2}
    Schemas <- MCSchemas
    None = None
    MaxRevision = 2
    MaxEdits = 1
SPECIFICATION FairSpec
INVARIANT UnchangedMeansNothingNewer
