SPECIFICATION Spec
CONSTANTS
    e1 = e1
    e2 = e2
    e3 = e3
    p1 = p1
    p2 = p2
    None = None
    Events = {e1, e2, e3}
    Endpoints = {p1, p2}
    EndpointOf <- MCEndpointOf
    RetryLimits = {2}
    PageSize = 1
INVARIANTS
    StatsAreCoherent
    OpenCircuitsAreListed
    BrowsingMissesNothing
    DetailIsCoherent
CONSTRAINT EventsOrCircuits
CHECK_DEADLOCK FALSE
