SPECIFICATION Spec
CONSTANTS
    Attempts = {a1, a2}
    Expectations = {x1, x2}
    None = None
    MaxGeneration = 4
    MaxRevision = 2
SYMMETRY Symmetry
INVARIANTS
    MemoryNeverAhead
    BindingsAreCurrent
    SameGenerationSameBlocks
PROPERTIES
    LatchesHold
    ManualClearedOnlyConcluded
