SPECIFICATION FairSpec
CONSTANTS
    Keys = {k1}
    Requests = {r1, r2}
    CacheSeconds = 2
    MaxTime = 3
INVARIANTS
    BoundedStaleness
    NoFalseRefusal
PROPERTIES
    VerificationEnds
