\* Outages of any length during and after discovery; float arithmetic ends early.
SPECIFICATION FairSpec
CONSTANTS
    s1 = s1
    s2 = s2
    Services = {s1, s2}
    NumActions <- TwoAndOne
    Interval <- TwoIntervals
    InitialBackoff = 1
    MaxBackoff = 2
    FloatExponents = 3
    QueryLimit = 2
INVARIANTS DiscoveryExact Survives
PROPERTIES PacedRequests Recovers
