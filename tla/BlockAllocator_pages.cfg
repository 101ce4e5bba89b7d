SPECIFICATION AllocatorSpec
CONSTANTS
    Writer = {w1, w2}
    PagesPerBlock = 2
    FirstOfGroup = 2
    NextOfGroup = 2
    RecentLimit = 2
    HeaderOverflows <- FullBlock
    MaxPage = 7
    MaxKnown = 2
SYMMETRY Symmetry
INVARIANTS
    EveryPageOnce
    GroupIsEncodable
    KnownOverflowIsContiguous
CHECK_DEADLOCK FALSE
