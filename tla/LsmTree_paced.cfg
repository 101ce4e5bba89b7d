SPECIFICATION PacedSpec
CONSTANTS
    Keys = {1, 2}
    Values = {v}
    Tombstone = tombstone
    Absent = absent
    NumRegularLevels = 3
    DesperateWaiting = 1
    MaxCommits = 3
PROPERTIES
    ImplementsKvStore
CHECK_DEADLOCK FALSE
