\* Signals, failing queries and a failing writer: every shutdown is ordered and ends.
\* Series of crashes, stable runs, every status, and a signal at any command of the
\* watchdog, with a back-off whose cap no doubling hits exactly.
SPECIFICATION LifecycleSpec
CONSTANTS
    tr069 = tr069
    lua = lua
    Pollers <- TwoPollers
    LuaHandler = lua
    Services = {s1, s2}
    QueryLimit = 1
    QueueSize = 2
    WriterTurn = 1
    MaxMeasurements = 2
    QueriesMayFail = TRUE
    DrainTimeout = 1
    JoinTimeout = 1
    FlushTimeout = 1
    KillTimeout = 4
    WATCHDOG_RESTART_DELAY = 3
    MAX_RESTART_DELAY = 40
    MAX_RESTARTS = 6
    BACKOFF_RESET_AFTER = 3
    SHUTDOWN_TIMEOUT = 3
    Statuses = {0, 1, 78, 129, 130, 137, 143}
INVARIANTS JoinedIsHanded SessionOutlivesQueries CleanExit GivesUpInTime
PROPERTIES Stops CrashLoopSurfaces StopEnds
