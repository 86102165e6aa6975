\* One thread lets an expired session go and closes the client another uses.
SPECIFICATION Spec
CONSTANTS
    Threads = {t1, t2}
    TurnQueries = 2
    Clients = {c1, c2, c3, c4}
    NoClient = NoClient
INVARIANT PollingGoesOn
CHECK_DEADLOCK FALSE
