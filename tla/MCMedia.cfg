SPECIFICATION MediaSpec
CONSTANTS
    None = None
    Off = Off
    Encoders = {w1, w2}
    Capacity = 15
    Reserve = 2
    Sizes = {4}
    U64Max = 15
CHECK_DEADLOCK FALSE
SYMMETRY Alike
INVARIANTS
    LadderKeepsPromises
    CanonicalFollowsPolicy
    
    SamplesAreFrames
    BestIsOptimal

    
