SPECIFICATION FairSpec
CONSTANTS
    Owners = {o1, o2}
    Intents = {i1, i2}
    None = None
    MaxGeneration = 3
    MaxVersions = 3
    MaxCrashes = 1
    MaxFailures = 1
INVARIANTS
    EvidencePrecedesAuthority
PROPERTIES
    MutationHasFreshProof
    FinalQuoteIsOfKnownBasket
    DisabledIsInvalidated
CHECK_DEADLOCK FALSE
