SPECIFICATION FairSpec
CONSTANTS
    Workers = {w1, w2}
    MaxAttempts = 2
    MaxRevision = 2
INVARIANTS
    AtMostOneMessage
    NoStrandedPost
PROPERTIES
    StaleWorkerChangesNothing
    ImplementsFairOutcome
