SPECIFICATION FairSpec
CONSTANTS
    Clients = {c1}
    None = None
    MaxSessions = 2
    MaxPastes = 1
    MaxRotations = 2
    MaxFailures = 1
INVARIANTS
    OneOnTheWire
    WireTokenWasSaved
PROPERTIES
    DeadSessionAsks
CHECK_DEADLOCK FALSE
