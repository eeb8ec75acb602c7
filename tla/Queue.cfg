SPECIFICATION FairQSpec
CONSTANTS
    HeaderBytes = 20
    EnqueueBytes = 28
    PopBytes = 20
    MaxSegmentBytes = 80
    MaxRanges = 2
    MaxSequence = 20
    Calls = {"enqueue", "pop", "rewrite", "compact"}
    Faults = {"write", "remove"}
    ShrinkKeepsPrefix = TRUE
    MaxOutputSegments = 2
    MaxValues = 4
    MaxGeneration = 6
    MaxFailures = 1
    Policies <- BothPolicies
    MaxTotalBytes = 220
    DrainReserve = 0
    ManifestFixed = 30
    RangeEntry = 8
INVARIANTS TypeOK TotalIsFootprint AdmittedFits ManifestBacked ReadsBack QueueSurvives Ordered RamMatchesManifest MountFailsOnlyAfterError
PROPERTIES  EnqueueReturns LiveSegmentsOnlyGrow
CHECK_DEADLOCK FALSE
