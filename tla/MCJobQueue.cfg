SPECIFICATION FairSpec
CONSTANTS
    j1 = j1
    j2 = j2
    j3 = j3
    w1 = w1
    w2 = w2
    None = None
    Jobs = {j1, j2, j3}
    Workers = {w1, w2}
    Handles <- OnlyFirst
    Cancellable = {j1}
    Settles = {j2, j3}
    Malformed = {}
    Noisy = {j1}
    MaxAttempts <- Budgets
    Batches = {{j1, j2}, {j3}}
    MaxStops = 1
CHECK_DEADLOCK FALSE
INVARIANT
    SucceededMeansRan
PROPERTIES
    
    EveryJobEnds
