SPECIFICATION Spec
CONSTANTS
    Expectations = {x1}
    None = None
    MaxRecords = 6
    MaxAttempts = 2
    MaxGeneration = 4
    MaxPreparation = 2
    MaxRevision = 6
    MaxCrashes = 1
    MaxFailures = 2
    FaultFree = {"rejected"}
    CancelFree = {"rejected", "ambiguous", "learn"}
INVARIANTS
    AuthorityCurrentAtPost
    DispatchRecordedBeforePost
    UnsettledBlocks
PROPERTIES
    ImplementsLedger
    ClearedAgainstJournal
    StartupBindsOrFaults
CHECK_DEADLOCK FALSE
