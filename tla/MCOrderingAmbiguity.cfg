SPECIFICATION Spec
CONSTANTS
    Expectations = {x1}
    None = None
    MaxRecords = 6
    MaxAttempts = 1
    MaxGeneration = 4
    MaxPreparation = 0
    MaxRevision = 6
    MaxCrashes = 0
    MaxFailures = 1
    FaultFree = {"rejected"}
    CancelFree = {"rejected", "learn"}
INVARIANTS
    UnsettledBlocks
CHECK_DEADLOCK FALSE
