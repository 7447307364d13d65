SPECIFICATION FairSpec
CONSTANTS
    r1 = r1
    r2 = r2
    r3 = r3
    p1 = p1
    p2 = p2
    Entries = {1, 2}
    Requests = {r1, r2}
    Endpoints = {p1}
    EndpointOf <- OneEndpoint
    MaxFaults = 1
INVARIANTS
    TypeOK
    NoLockCycle
    ReplayLedger
PROPERTIES
    DiscardIsFinal
    EveryCallEnds
    ReplaysAreServed
    GuardYieldsOnlyToOverlap
CHECK_DEADLOCK FALSE
