SPECIFICATION FairRSpec
CONSTANTS
    HeaderBytes = 20
    EnqueueBytes = 28
    PopBytes = 20
    MaxSegmentBytes = 80
    MaxRanges = 2
    MaxSequence = 20
    Calls = {"enqueue", "pop", "rewrite"}
    Faults = {"write", "remove", "truncate"}
    ShrinkKeepsPrefix = FALSE
    FormatFaults = {}
    MaxValues = 4
    MaxGeneration = 4
    MaxFailures = 2
INVARIANTS RTypeOK WholeQueueOrNone NoFalseClean  Contiguous
PROPERTIES FormatLeavesNothing CallsReturn MountsEnd
CHECK_DEADLOCK FALSE
