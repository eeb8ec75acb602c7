SPECIFICATION FairHttpSpec
CONSTANTS
    Policies <- Rejecting
    Capacity = 2
    InitialRetryDelay = 1
    MaxRetryDelay = 1
    JitterPct = 0
    Hints <- NoHint
    Window = 1
    MaxDrainAttempts = 1
    MaxCorruptDrops = 0
    AttemptsLimit = 1
    Faults = {"pop", "power"}
    MaxPayloads = 2
    MaxTrouble = 2
    MaxSendTime = 0
    MaxDrain = 1
    ByteBase = 3
    BaseUrl <- SomeBase
    Requests <- AllRequests
    Inherited <- OldRecords
    Inexpandable <- BadBodies
    Answers <- AllAnswers
INVARIANTS StoredDecodes PostedAsSubmitted LossIsReported RepeatNeedsTrouble
PROPERTIES DropIsFinal QueueEmpties
CHECK_DEADLOCK FALSE
