SPECIFICATION Spec
CONSTANTS
    Clients = {c1}
    None = None
    MaxSessions = 1
    MaxPastes = 1
    MaxRotations = 2
    MaxFailures = 0
PROPERTIES
    PastedTokenStays
CHECK_DEADLOCK FALSE
