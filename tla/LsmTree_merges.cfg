SPECIFICATION RunningSpec
CONSTANTS
    Keys = {1, 2}
    Values = {v}
    Tombstone = tombstone
    Absent = absent
    NumRegularLevels = 3
    DesperateWaiting = 1
    MaxCommits = 3
INVARIANTS
    TypeOK
    PendingIsCurrent
    DroppedTombstonesHideNothing
    NoTombstoneInLastLevel
PROPERTIES
    MergesPreserveView
    MergesSettle
CHECK_DEADLOCK FALSE
