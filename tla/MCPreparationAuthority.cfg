SPECIFICATION FairSpec
CONSTANTS
    Expectations = {x1}
    None = None
    MaxPrepAttempts = 2
    MaxAttempts = 2
    MaxGeneration = 5
    MaxCrashes = 1
    MaxFailures = 2
INVARIANTS
    SentIsOnFileOnce
    AlwaysLoads
PROPERTIES
    ImplementsLedger
    ClearedOnlyAttested
    RestartRebinds
    EveryMutationIsAccountedFor
CHECK_DEADLOCK FALSE
