SPECIFICATION Spec
CONSTANTS
    w1 = w1
    w2 = w2
    r1 = r1
    Workers = {w1, w2}
    Requests = {}
    Outcomes = {"success", "failure"}
    FailureThreshold = 1
    FailureWindow = 1
    RecoveryTimeout = 1
    MaxCrashes = 0
PROPERTY OpenHoldsForTimeout
