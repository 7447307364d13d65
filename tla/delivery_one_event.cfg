SPECIFICATION Spec
CONSTANTS
    e1 = e1
    e2 = e2
    p1 = p1
    w1 = w1
    w2 = w2
    Endpoints = {p1}
    EndpointOf <- OneEndpoint
    NoJob = NoJob
    Events = {e1}
    Workers = {w1, w2}
    RetryLimits = {1, 3}
    Replies = {0, 200, 302, 410}
    MaxTries = 2
    MaxFaults = 3
    FailureThreshold = 2
    LeaseMayLapse = FALSE
    HangingEndpoint = FALSE
    PostCap = 7
    RetryBatch = 1
    StaleBatch = 1
SYMMETRY WorkerSymmetry
INVARIANTS
    TypeOK
    DeadLetterLedger
    JobsAreOwned
    AuditLogMatchesEvent
    AttemptsBounded
    DuplicatesNeedFaults
    NoPhantomDelivery
    OutcomeMatchesReceiver
    BreakerMatchesLog
PROPERTIES
    SettledIsFinal
    ImplementsLifecycle
CHECK_DEADLOCK FALSE
