SPECIFICATION FairSpec
CONSTANTS
    Writer = {w1}
    NumRegular = 2
    DesperateIncoming = 0
    DesperateWaiting = 0
    NeedsMergeSize <- SmallSizes
    DesperateFactor = 0
    WriterKinds <- Leaves
    CommitsPerLock = 1
    MaxCommits = 1
    Files <- TwoFiles
    MaxQueue = 1
PROPERTIES
    WritersProceed
    StopReturns
