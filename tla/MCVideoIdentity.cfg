SPECIFICATION Spec
CONSTANTS
    None = None
    a = a
    b = b
    Ingests = {i1, i2}
    Shas = {a, b}
    Alike <- Pair
    MaxAttempts = 2
CHECK_DEADLOCK FALSE
SYMMETRY Symmetric
INVARIANTS
    
    LockedViewComplete
PROPERTY
    InsertsOnlyNew
