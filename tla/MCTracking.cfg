SPECIFICATION FairTracking
CONSTANTS
    new = new
    old = old
    Rows <- MCRows
    Nothing = Nothing
    Hold = 2
    MaxProbes = 2
    MaxEstimates = 2
    MaxReadFailures = 1
INVARIANTS
    TrustIsFresh
PROPERTIES
    GraceIsBounded
    OriginalEtaStays
    TerminalOrderLeaves
CHECK_DEADLOCK FALSE
