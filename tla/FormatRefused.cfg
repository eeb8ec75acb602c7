SPECIFICATION RSpec
CONSTANTS
    HeaderBytes = 20
    EnqueueBytes = 28
    PopBytes = 20
    MaxSegmentBytes = 80
    MaxRanges = 2
    MaxSequence = 20
    Calls = {"enqueue", "pop", "rewrite"}
    Faults = {}
    ShrinkKeepsPrefix = TRUE
    FormatFaults = {"segment", "slot"}
    MaxValues = 4
    MaxGeneration = 4
    MaxFailures = 1
PROPERTIES FormatRepairs
CHECK_DEADLOCK FALSE
