SPECIFICATION Spec
CONSTANTS
    e1 = e1
    e2 = e2
    p1 = p1
    w1 = w1
    w2 = w2
    Endpoints = {p1}
    EndpointOf <- OneEndpoint
    NoJob = NoJob
    Events = {e1}
    Workers = {w1}
    RetryLimits = {2}
    Replies = {0, 200}
    MaxTries = 1
    MaxFaults = 0
    FailureThreshold = 2
    LeaseMayLapse = FALSE
    HangingEndpoint = FALSE
    PostCap = 3
    RetryBatch = 1
    StaleBatch = 1
PROPERTIES
    DueEventIsEnqueued
CHECK_DEADLOCK FALSE
