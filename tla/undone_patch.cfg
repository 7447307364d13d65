SPECIFICATION Spec
CONSTANTS
    k1 = k1
    none = none
    RequestCount = 1
    Keys = {k1, EmptyKey}
    EmptyKey = EmptyKey
    NoKey = NoKey
    Bodies <- MCBodies
    Null = none
    MaxFaults = 0
INVARIANT UpdatesTakeEffect
CHECK_DEADLOCK FALSE
