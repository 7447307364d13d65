SPECIFICATION FairSpec
CONSTANTS
    w1 = w1
    w2 = w2
    r1 = r1
    Workers = {w1, w2}
    Requests = {r1}
    Outcomes = {"success", "failure"}
    FailureThreshold = 2
    FailureWindow = 1
    RecoveryTimeout = 1
    MaxCrashes = 1
INVARIANTS
    TypeOK
    OpenHasTimestamp
PROPERTIES
    OpenIsTemporary
    RecoversForGood
    OpensOnEvidence
