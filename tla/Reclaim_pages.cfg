SPECIFICATION Spec
CONSTANTS
    Page = {p1, p2, p3, p4}
    Reader = {r1, r2}
    Merger = {m1, m2}
    MaxFresh = 2
SYMMETRY Symmetry
INVARIANTS
    NothingInUseIsFree
    EveryPageHasOnePlace
    NothingWaitsForNobody
    NoEntryIsOverwritten
CHECK_DEADLOCK FALSE
