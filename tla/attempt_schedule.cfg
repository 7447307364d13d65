SPECIFICATION Spec
CONSTANTS
    Tolerance = 4
    InitialDelay = 4
    Base = 2
    MaxDelay = 8
    MaxRetries = 3
    RecoveryTimeout = 9
    PollPeriod = 4
    StaleAge = 6
    KeepResult = 6
    JobTimeout = 3
    LeaseMargin = 1
    Skew = 1
    Replies <- MCReplies
    Horizon = 50
    MaxFaults = 1
INVARIANTS
    NextAttemptIsTimely
    SignatureHolds
PROPERTY NotBeforePromised
CHECK_DEADLOCK FALSE
