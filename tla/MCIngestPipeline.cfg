SPECIFICATION FairSpec
CHECK_DEADLOCK FALSE
CONSTANTS
    Workers = {w1, w2}
    NoOne = NoOne
    MaxAttempts = 2
    Submitted <- MCSubmitted
INVARIANTS
    NeverStranded
    OneDuplicateDecision
PROPERTIES
    ImplementsProgress
    PipelineEnds
