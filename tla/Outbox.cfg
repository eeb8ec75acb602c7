SPECIFICATION FairSpec
CONSTANTS
    Policies <- BothPolicies
    Capacity = 2
    InitialRetryDelay = 1
    MaxRetryDelay = 2
    JitterPct = 100
    Hints <- SmallHints
    Window = 2
    MaxDrainAttempts = 2
    MaxCorruptDrops = 1
    AttemptsLimit = 3
    Faults <- AllFaults
    MaxPayloads = 3
    MaxTrouble = 2
    MaxSendTime = 1
    MaxDrain = 2
INVARIANTS OwedIsQueued NothingOvertakes AttemptsKeptByRejection RetryNotEarly RateBounded
PROPERTIES BacklogDrains
