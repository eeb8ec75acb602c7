SPECIFICATION CSpec
CONSTANTS
    HeaderBytes = 20
    EnqueueBytes = 28
    PopBytes = 20
    MaxSegmentBytes = 80
    MaxRanges = 2
    MaxSequence = 20
    Calls = {"enqueue", "pop", "compact"}
    Faults = {}
    ShrinkKeepsPrefix = TRUE
    MaxOutputSegments = 2
    MaxValues = 5
    MaxGeneration = 9
    MaxFailures = 1
INVARIANTS RamIsQueue
CHECK_DEADLOCK FALSE
