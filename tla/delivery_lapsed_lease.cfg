SPECIFICATION FairSpec
CONSTANTS
    e1 = e1
    e2 = e2
    p1 = p1
    w1 = w1
    w2 = w2
    Endpoints = {p1}
    EndpointOf <- OneEndpoint
    NoJob = NoJob
    Events = {e1}
    Workers = {w1, w2}
    RetryLimits = {1}
    Replies = {0, 200}
    MaxTries = 2
    MaxFaults = 2
    FailureThreshold = 1
    LeaseMayLapse = TRUE
    HangingEndpoint = FALSE
    PostCap = 1
    RetryBatch = 1
    StaleBatch = 1
INVARIANTS
    NoEventStranded
    RowsConsistent
    OnePostAtATime
PROPERTIES
    EventuallySettled
CHECK_DEADLOCK FALSE
