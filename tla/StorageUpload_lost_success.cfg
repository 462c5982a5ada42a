SPECIFICATION Spec
CONSTANTS
    NoOne = NoOne
    Workers = {w1}
    Ingests = {i1, i2}
    Publishing = {i1, i2}
    MaxAttempts = 1
    MaxGeneration = 0
    Video = FALSE
INVARIANT StorageSuccessNotLost
