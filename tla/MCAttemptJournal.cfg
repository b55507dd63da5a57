SPECIFICATION Spec
CONSTANTS
    MaxRecords = 2
    MaxAttempt = 3
    MaxRevision = 6
    None = None
INVARIANTS
    EveryImageLoads
    ProtectedIsDurable
    ConcludedWasDispatched
PROPERTIES
    RestartLeavesNothingInFlight
