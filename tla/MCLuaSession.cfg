\* Sessions that expire at any moment, requests and logins that fail.
SPECIFICATION FairSpec
CONSTANTS
    Threads = {t1, t2}
    TurnQueries = 2
    Clients = {c1, c2, c3, c4}
    NoClient = NoClient
INVARIANTS SessionOpenAtRest RaisesOnlyCrossed
PROPERTIES QueryEnds Heals
CHECK_DEADLOCK FALSE
