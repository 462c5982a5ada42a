SPECIFICATION Spec
CONSTANTS
    None = None
    Off = Off
    NoMedia = NoMedia
    NoDir = NoDir
    A = A
    B = B
    M1 = M1
    M2 = M2
    Workers = {w1, w2}
CHECK_DEADLOCK FALSE
SYMMETRY Alike
INVARIANTS
    
    
    
    UntouchedListedOnce
