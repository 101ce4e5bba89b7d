SPECIFICATION Spec
CONSTANTS
    Writer = {w1, w2}
    NumRegular = 3
    DesperateIncoming = 0
    DesperateWaiting = 0
    NeedsMergeSize <- Sizes
    DesperateFactor = 1
    WriterKinds <- SecondMayBeParent
    CommitsPerLock = 1
    MaxCommits = 3
    Files = {}
    MaxQueue = 1
SYMMETRY Symmetry
INVARIANTS
    QuietMeansSettled
    NoThreadPanicsFirst
    WritersAreHeldBack
