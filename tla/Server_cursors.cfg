SPECIFICATION Spec
CONSTANTS
    c1 = c1
    c2 = c2
    Connections <- MCConnections
    Collections = {"a", "b"}
    Skips = {0}
    Sizes <- MCSizes
    BatchSizes = {0, 1}
    MaxRow = 2
    MaxCursors <- MCMaxCursors
INVARIANTS EveryRowOnce DroppedRowsAreGone
PROPERTIES EveryCursorEnds
