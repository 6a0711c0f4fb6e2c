CONSTANTS
    h1 = h1
    Terms = {0, 1}
    HardStates = {h1}
    MaxBatch = 2
    MaxIndex = 4
    StaleMemory <- OneStale
SPECIFICATION LogSpec
INVARIANTS
    LogTypeOK
    SliceInBounds
    UnstablePositions
    AppliedBehindCommitted
PROPERTIES
    NeverCompacted
