SPECIFICATION Spec
CONSTANTS
    Keys = {1, 2, 3, 4}
    Nowhere = 9
    Live = live
    Tombstone = tombstone
    Absent = absent
    PrefixOf <- Prefixes
    SegmentLists <- Lists
    Ranges <- SomeRanges
    Kinds = {"living", "range", "prefix", "merge"}
INVARIANTS
    SubcursorsFollow
    EatenIsShadowed
PROPERTIES
    ImplementsSortedCursor
CHECK_DEADLOCK FALSE
