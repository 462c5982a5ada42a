SPECIFICATION FairSpec
CONSTANTS
    NoOne = NoOne
    Workers = {w1, w2}
    Ingests = {i1}
    Publishing = {i1}
    MaxAttempts = 2
    MaxGeneration = 0
    Video = FALSE
INVARIANT
    OneUploadPerGeneration
PROPERTY
    ReservationResolves
