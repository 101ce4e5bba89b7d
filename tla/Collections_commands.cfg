SPECIFICATION Spec
CONSTANTS
    Name = {n1, n2}
    IndexName = {x}
    Id = {i1}
    Value = {v1, v2}
    MaxColl = 2
    MaxRecord = 2
    MaxIndex = 1
    MaxBatch = 2
SYMMETRY Symmetry
INVARIANTS
    NamesAgree
    NothingIsOrphaned
    IndexesAreComplete
    FoundRecordsExist
PROPERTIES
    NoInsertIsLost
