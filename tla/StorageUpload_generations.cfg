SPECIFICATION Spec
CONSTANTS
    NoOne = NoOne
    Workers = {w1}
    Ingests = {i1, i2}
    Publishing = {i1}
    MaxAttempts = 2
    MaxGeneration = 1
    Video = TRUE
INVARIANTS
    PendingUploadHasJob
    IngestsAgreeWithMedia
PROPERTY
    LateUploadNeverLands
