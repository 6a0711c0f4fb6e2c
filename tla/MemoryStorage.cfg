CONSTANTS
    h1 = h1
    h2 = h2
    Terms = {0, 1, 2}
    HardStates = {h1, h2}
    MaxBatch = 3
    MaxIndex = 4
SPECIFICATION Spec
INVARIANTS
    TypeOK
    Contiguous

    
    
