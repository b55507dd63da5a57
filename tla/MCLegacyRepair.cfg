SPECIFICATION FairLegacySpec
CONSTANTS
    Expectations = {}
    None = None
    LegacyFiles <- MCLegacyFiles
    MaxRecords = 6
    MaxAttempts = 1
    MaxGeneration = 4
    MaxPreparation = 0
    MaxRevision = 6
    MaxCrashes = 1
    MaxFailures = 2
    FaultFree = {"rejected", "preparations", "markAttempt", "markCreate", "markFault"}
    CancelFree = {"rejected", "ambiguous", "learn", "markAttempt", "markCreate", "markFault"}
INVARIANTS
    FaultOutlivesProcess
    V1FaultBlocks
PROPERTIES
    LiftedOnlyInert
    RepairCompletes
    EveryPostIsAccountedFor
CHECK_DEADLOCK FALSE
