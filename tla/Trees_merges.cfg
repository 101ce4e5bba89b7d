SPECIFICATION CursorSpec
CONSTANTS
    Keys = {1, 2, 3, 4, 5, 6}
    old = old
    new = new
    Values = {old, new}
    Tombstone = tombstone
    Absent = absent
    KeySize <- Sizes
    MaxInline = 3
    LongValues = {old}
    LeafRoom = 3
    ParentRoom = 3
    LeavesToPromote = 2
    OpenDepths = {0, 3}
    Nowhere = 0
    WriteBounds <- TwoWrites
INVARIANTS
    TreesAreSound
    PagesHaveOneOwner
    PagesAreAccountedFor
PROPERTIES
    ImplementsSegments
    ImplementsSortedCursor
CHECK_DEADLOCK FALSE
