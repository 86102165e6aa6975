\* Violated: the default timeouts in steps of five seconds.
SPECIFICATION Spec
CONSTANTS
    tr069 = tr069
    lua = lua
    Pollers <- TwoPollers
    LuaHandler = lua
    Services = {s1}
    QueryLimit = 1
    QueueSize = 2
    WriterTurn = 1
    MaxMeasurements = 1
    QueriesMayFail = FALSE
    DrainTimeout = 9
    JoinTimeout = 3
    FlushTimeout = 2
    KillTimeout = 3
INVARIANT KilledAfterFlush
