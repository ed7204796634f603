CONSTANTS
    Keys = {k1, k2}
    Admins = {a1, a2}
    Callers = {c1}
    MaxSecrets = 3
    None = None
SPECIFICATION Spec
INVARIANTS IInv AdmitsOnlyCurrent DeniesOnlyStale
PROPERTY RevokedForGood
