SPECIFICATION Spec
CONSTANTS
    HeaderBytes = 20
    EnqueueBytes = 28
    PopBytes = 20
    MaxSegmentBytes = 80
    MaxRanges = 2
    MaxSequence = 20
    Calls = {"enqueue", "pop"}
    Faults = {}
    ShrinkKeepsPrefix = FALSE
    MaxValues = 3
    MaxGeneration = 3
    MaxFailures = 2
INVARIANTS ManifestBacked
CHECK_DEADLOCK FALSE
