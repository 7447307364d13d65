SPECIFICATION FairSpec
CONSTANTS
    k1 = k1
    none = none
    RequestCount = 3
    Keys = {k1, EmptyKey}
    EmptyKey = EmptyKey
    NoKey = NoKey
    Bodies <- MCActivation
    Null = none
    MaxFaults = 1
INVARIANTS
    IdempotentAnswers
    RefusalsNeedOverlap
    JobsHaveEvents
    DeletedEndpointTakesNoEvents
PROPERTIES
    EveryRequestEnds
CHECK_DEADLOCK FALSE
