SPECIFICATION Spec
CONSTANTS
    i1 = i1
    i2 = i2
    s1 = s1
    s2 = s2
    s3 = s3
    NoOne = NoOne
    Instances = {i1, i2}
    Sessions = {s1, s2, s3}
    Host <- TwoReplicas
    LeaseTtl = 1
    MaxEpoch = 2
    MaxRows = 2
SYMMETRY Symmetry
INVARIANTS
    TypeOK
    GrantUnique
    GrantsBelowRow
    SessionNotAhead
    WritersGranted
PROPERTIES
    EpochFences
