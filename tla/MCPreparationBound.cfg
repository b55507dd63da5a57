SPECIFICATION Spec
CONSTANTS
    Expectations = {x1, x2}
    None = None
    MaxPrepAttempts = 1
    MaxAttempts = 2
    MaxGeneration = 3
    MaxCrashes = 1
    MaxFailures = 0
INVARIANTS
    FileFits
CHECK_DEADLOCK FALSE
