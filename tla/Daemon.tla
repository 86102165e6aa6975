------------------------------- MODULE Daemon -------------------------------
(***************************************************************************)
(* The life of the fritzfluxdb process: main_async of app/main.py, the     *)
(* polling tasks of app/classes/fritzbox/handler.py that feed the          *)
(* measurement queue, the database writer that empties it, and the         *)
(* watchdog of docker/entrypoint.sh that kills a process group which takes *)
(* too long to stop.                                                       *)
(*                                                                         *)
(* Everything but the queries is one thread of asyncio; a query runs in a  *)
(* worker thread that nothing can interrupt.  What a query returns and how *)
(* the writer treats the database are the subjects of other modules.       *)
(***************************************************************************)
EXTENDS Integers, Sequences, FiniteSets

CONSTANTS
    Pollers,            \* FritzBoxHandler and FritzBoxLuaHandler
    LuaHandler,         \* the second of them
    Services,           \* services of each handler
    QueryLimit,         \* Semaphore(4) of a handler's task_loop
    QueueSize,          \* maxsize of the measurement queue
    WriterTurn,         \* measurements the writer takes in one turn
    MaxMeasurements,    \* bound: measurements fetched in a behaviour
    QueriesMayFail,     \* a query may raise what its handler does not catch
    DrainTimeout,       \* thread_drain_timeout of task_loop
    JoinTimeout,        \* asyncio.timeout around queue.join()
    FlushTimeout,       \* asyncio.timeout around the writer's flush
    KillTimeout         \* WATCHDOG_SHUTDOWN_TIMEOUT

ASSUME DaemonAssumption ==
    /\ QueryLimit \in Nat \ {0}
    /\ QueueSize \in Nat \ {0}
    /\ WriterTurn \in Nat \ {0}
    /\ MaxMeasurements \in Nat
    /\ QueriesMayFail \in BOOLEAN
    /\ DrainTimeout \in Nat \ {0}
    /\ JoinTimeout \in Nat \ {0}
    /\ FlushTimeout \in Nat \ {0}
    /\ KillTimeout \in Nat \ {0}

VARIABLES
    phase,              \* where main_async is
    exit_code,
    shutdown_event,     \* a signal arrived
    graceful,           \* main took the ordered shutdown
    interrupted,        \* a SIGINT before main had installed its handlers
    task,               \* where each poller's task_loop is
    logger,             \* InfluxLogAndConfigWriter: alive or ended
    writer,             \* where the writer's task_loop is
    waiting,            \* queries waiting for the semaphore
    running,            \* queries in a worker thread
    results,            \* fetched and not yet put on the queue, per poller
    queue,              \* measurements on the queue, oldest first
    fetched,            \* number of measurements so far
    session,            \* pollers whose session to the box is open
    timer,              \* time since the current deadline was set
    elapsed,            \* time since the signal
    cut_short           \* waits that ended early: a poller's for its queries, by
                        \* its deadline or an exception, and the join, by its own

signals    == <<shutdown_event, interrupted>>
mainVars   == <<phase, exit_code, signals, graceful>>
queryVars  == <<waiting, running>>
dataVars   == <<results, queue, fetched>>
timeVars   == <<timer, elapsed, cut_short>>
vars == <<mainVars, task, logger, writer, queryVars, dataVars, session, timeVars>>

Ended(p) == task[p] \in {"ended", "absent"}

Alive == phase \notin {"exited", "killed"}

Deadlines == Pollers \cup {"join"}

TypeOK ==
    /\ phase \in {"config", "connect", "running", "stop_producers", "join",
                  "stop_writer", "cancel_all", "close", "close_db", "executor",
                  "exited", "killed"}
    /\ exit_code \in {0, 1, 78}
    /\ shutdown_event \in BOOLEAN
    /\ graceful \in BOOLEAN /\ interrupted \in BOOLEAN
    /\ task \in [Pollers -> {"absent", "new", "query", "put", "sleep", "drain",
                             "ended"}]
    /\ logger \in {"absent", "loop", "ended"}
    /\ writer \in {"absent", "loop", "busy", "flush", "ended"}
    /\ waiting \in [Pollers -> SUBSET Services]
    /\ running \in [Pollers -> SUBSET Services]
    /\ \A p \in Pollers : Cardinality(running[p]) <= QueryLimit
    /\ results \in [Pollers -> Seq(1..MaxMeasurements)]
    /\ queue \in Seq(1..MaxMeasurements) /\ Len(queue) <= QueueSize
    /\ fetched \in 0..MaxMeasurements
    /\ session \subseteq Pollers
    /\ timer \in Nat /\ elapsed \in 0..KillTimeout
    /\ cut_short \subseteq Deadlines

Init ==
    /\ phase = "config" /\ exit_code = 0
    /\ shutdown_event = FALSE /\ graceful = FALSE /\ interrupted = FALSE
    /\ task = [p \in Pollers |-> "absent"]
    /\ logger = "absent" /\ writer = "absent"
    /\ waiting = [p \in Pollers |-> {}]
    /\ running = [p \in Pollers |-> {}]
    /\ results = [p \in Pollers |-> <<>>]
    /\ queue = <<>> /\ fetched = 0
    /\ session = {}
    /\ timer = 0 /\ elapsed = 0 /\ cut_short = {}
-----------------------------------------------------------------------------
(* Start.                                                                  *)

\* A SIGINT before main has installed its handlers reaches asyncio.run: it asks
\* for the cancellation of main_async, which goes on to its next await, and
\* then raises KeyboardInterrupt, which main() turns into status 0.
Interrupt ==
    /\ phase = "config" /\ ~interrupted
    /\ interrupted' = TRUE
    /\ UNCHANGED <<phase, exit_code, shutdown_event, graceful, task, logger,
                   writer, queryVars, dataVars, session, timeVars>>

ProcessStatus(returned) == IF interrupted THEN 0 ELSE returned

\* A configuration error returns before the try statement of main_async.
ConfigError ==
    /\ phase = "config"
    /\ phase' = "exited" /\ exit_code' = ProcessStatus(78)
    /\ UNCHANGED <<signals, graceful, task, logger, writer, queryVars,
                   dataVars, session, timeVars>>

ConfigRead ==
    /\ phase = "config" /\ phase' = "connect"
    /\ UNCHANGED <<exit_code, signals, graceful, task, logger, writer,
                   queryVars, dataVars, session, timeVars>>

\* A handler that could not connect, or an exception in connect().
ConnectFails ==
    /\ phase = "connect"
    /\ \E opened \in SUBSET Pollers : session' = opened
    /\ phase' = "close" /\ exit_code' = 1
    /\ UNCHANGED <<signals, graceful, task, logger, writer, queryVars,
                   dataVars, timeVars>>

\* The Lua handler is left out when the firmware is older than 7.
Connected ==
    /\ phase = "connect" /\ ~interrupted
    /\ \E present \in {Pollers, Pollers \ {LuaHandler}} :
          /\ session' = present
          /\ task' = [p \in Pollers |-> IF p \in present THEN "new" ELSE "absent"]
    /\ logger' = "loop" /\ writer' = "loop"
    /\ phase' = "running"
    /\ UNCHANGED <<exit_code, signals, graceful, queryVars, dataVars, timeVars>>

\* The first await after an interrupt is the asyncio.wait for the tasks: each
\* takes its first step, and main_async is cancelled.
ConnectedInterrupted ==
    /\ phase = "connect" /\ interrupted
    /\ \E present \in {Pollers, Pollers \ {LuaHandler}} :
          /\ session' = present
          /\ task' = [p \in Pollers |-> IF p \in present THEN "query" ELSE "absent"]
          /\ \E requested \in [present -> SUBSET Services] :
                waiting' = [p \in Pollers |->
                               IF p \in present THEN requested[p] ELSE {}]
    /\ logger' = "loop" /\ writer' = "busy"
    /\ phase' = "close"
    /\ UNCHANGED <<exit_code, signals, graceful, running, dataVars, timeVars>>

\* SIGHUP, SIGTERM or SIGINT: the handler only sets the event.
Signal ==
    /\ Alive /\ phase # "config" /\ ~shutdown_event
    /\ shutdown_event' = TRUE
    /\ UNCHANGED <<phase, exit_code, graceful, interrupted, task, logger, writer,
                   queryVars, dataVars, session, timeVars>>
-----------------------------------------------------------------------------
(* A poller's task_loop and its worker threads.                            *)

Poll(p) ==
    /\ task[p] \in {"new", "sleep"}
    /\ task' = [task EXCEPT ![p] = "query"]
    /\ \E requested \in SUBSET Services :
          waiting' = [waiting EXCEPT ![p] = requested]
    /\ results' = [results EXCEPT ![p] = <<>>]
    /\ UNCHANGED <<mainVars, logger, writer, running, queue, fetched, session,
                   timeVars>>

SemaphoreFree(p) == Cardinality(running[p]) < QueryLimit

\* A query that got the semaphore runs whatever became of task_loop: the
\* gather is shielded from the cancellation of the task.
BeginQuery(p, s) ==
    /\ Alive /\ phase # "executor"
    /\ s \in waiting[p] /\ SemaphoreFree(p)
    /\ waiting' = [waiting EXCEPT ![p] = @ \ {s}]
    /\ running' = [running EXCEPT ![p] = @ \cup {s}]
    /\ UNCHANGED <<mainVars, task, logger, writer, dataVars, session, timeVars>>

Finished(p, s) ==
    /\ Alive /\ s \in running[p]
    /\ running' = [running EXCEPT ![p] = @ \ {s}]

QueryReturns(p, s) ==
    /\ Finished(p, s)
    /\ \/ UNCHANGED <<results, fetched>>
       \/ /\ fetched < MaxMeasurements
          /\ fetched' = fetched + 1
          /\ results' = [results EXCEPT ![p] = Append(@, fetched')]
    /\ UNCHANGED <<mainVars, task, logger, writer, waiting, queue, session,
                   timeVars>>

\* The gather ends with its first exception: task_loop raises it, and a
\* drain takes it for the end of the queries; the other queries go on.
QueryRaises(p, s) ==
    /\ QueriesMayFail
    /\ Finished(p, s)
    /\ task' = [task EXCEPT ![p] = IF @ \in {"query", "drain"}
                                   THEN "ended" ELSE @]
    /\ cut_short' = cut_short \cup {p}
    /\ UNCHANGED <<mainVars, logger, writer, waiting, dataVars, session,
                   timer, elapsed>>

NoneLeft(p) == running[p] = {} /\ waiting[p] = {}

QueriesDone(p) ==
    /\ task[p] = "query" /\ NoneLeft(p)
    /\ task' = [task EXCEPT ![p] = "put"]
    /\ UNCHANGED <<mainVars, logger, writer, queryVars, dataVars, session,
                   timeVars>>

PutResult(p) ==
    /\ task[p] = "put" /\ results[p] # <<>>
    /\ Len(queue) < QueueSize
    /\ queue' = Append(queue, Head(results[p]))
    /\ results' = [results EXCEPT ![p] = Tail(@)]
    /\ UNCHANGED <<mainVars, task, logger, writer, queryVars, fetched, session,
                   timeVars>>

Sleep(p) ==
    /\ task[p] = "put" /\ results[p] = <<>>
    /\ task' = [task EXCEPT ![p] = "sleep"]
    /\ UNCHANGED <<mainVars, logger, writer, queryVars, dataVars, session,
                   timeVars>>

DrainEnds(p) ==
    /\ task[p] = "drain" /\ NoneLeft(p)
    /\ task' = [task EXCEPT ![p] = "ended"]
    /\ UNCHANGED <<mainVars, logger, writer, queryVars, dataVars, session,
                   timeVars>>

DrainExpired == timer >= DrainTimeout

DrainTimesOut(p) ==
    /\ task[p] = "drain" /\ DrainExpired
    /\ task' = [task EXCEPT ![p] = "ended"]
    /\ cut_short' = cut_short \cup {p}
    /\ UNCHANGED <<mainVars, logger, writer, queryVars, dataVars, session,
                   timer, elapsed>>

\* InfluxLogAndConfigWriter: a log record or a setting, straight to the queue.
LogPut ==
    /\ logger = "loop"
    /\ fetched < MaxMeasurements /\ Len(queue) < QueueSize
    /\ fetched' = fetched + 1
    /\ queue' = Append(queue, fetched')
    /\ UNCHANGED <<mainVars, task, logger, writer, queryVars, results, session,
                   timeVars>>
-----------------------------------------------------------------------------
(* The writer's task_loop, as far as the process can tell.                 *)

\* get_nowait, append_measurement and task_done in one go, then write_data.
WriterDrains ==
    /\ writer = "loop" /\ writer' = "busy"
    /\ queue' = SubSeq(queue, WriterTurn + 1, Len(queue))
    /\ UNCHANGED <<mainVars, task, logger, queryVars, results, fetched, session,
                   timeVars>>

WriterSleeps ==
    /\ writer = "busy" /\ writer' = "loop"
    /\ UNCHANGED <<mainVars, task, logger, queryVars, dataVars, session,
                   timeVars>>

\* An exception leaves the loop for the flush of the finally clause.
WriterRaises ==
    /\ writer = "busy" /\ writer' = "flush"
    /\ UNCHANGED <<mainVars, task, logger, queryVars, dataVars, session,
                   timeVars>>

FlushEnds ==
    /\ writer = "flush" /\ writer' = "ended"
    /\ UNCHANGED <<mainVars, task, logger, queryVars, dataVars, session,
                   timeVars>>
-----------------------------------------------------------------------------
(* main_async after asyncio.wait.                                          *)

Cancelled(p) == IF task[p] = "query" THEN "drain"
                ELSE IF task[p] \in {"new", "put", "sleep"} THEN "ended"
                ELSE task[p]

\* Fault of JoinedIsHanded: the log writer is not counted as a producer.
CancelPollersOnly ==
    /\ task' = [p \in Pollers |-> Cancelled(p)]
    /\ logger' = logger
CancelProducers ==
    /\ task' = [p \in Pollers |-> Cancelled(p)]
    /\ logger' = "ended"

\* A writer that is cancelled during the flush of an earlier failure ends.
CancelWriter == writer' = IF writer \in {"loop", "busy"} THEN "flush" ELSE "ended"

StopProducers ==
    /\ phase = "running" /\ shutdown_event
    /\ phase' = "stop_producers" /\ graceful' = TRUE
    /\ CancelProducers
    /\ timer' = 0
    /\ UNCHANGED <<exit_code, signals, writer, queryVars, dataVars, session,
                   elapsed, cut_short>>

\* Fault of SessionOutlivesQueries: main goes on when the first has stopped.
FirstStopped     == \E p \in Pollers : Ended(p)
ProducersStopped == \A p \in Pollers : Ended(p)

Join ==
    /\ phase = "stop_producers" /\ ProducersStopped
    /\ phase' = "join" /\ timer' = 0
    /\ UNCHANGED <<exit_code, signals, graceful, task, logger, writer,
                   queryVars, dataVars, session, elapsed, cut_short>>

\* Fault of Stops: main waits for a queue that nobody empties.
JoinForever == FALSE
JoinExpired == timer >= JoinTimeout

StopWriter ==
    /\ phase = "join"
    /\ \/ queue = <<>> /\ UNCHANGED cut_short
       \/ JoinExpired /\ cut_short' = cut_short \cup {"join"}
    /\ phase' = "stop_writer" /\ timer' = 0
    /\ CancelWriter
    /\ UNCHANGED <<exit_code, signals, graceful, task, logger, queryVars,
                   dataVars, session, elapsed>>

WriterStopped ==
    /\ phase = "stop_writer" /\ writer = "ended"
    /\ phase' = "close"
    /\ UNCHANGED <<exit_code, signals, graceful, task, logger, writer,
                   queryVars, dataVars, session, timeVars>>

\* Fault of CleanExit: the failure path forgets its exit code.
StatusForgotten == exit_code
FailureStatus   == 1

\* A task that ended by itself.  It may have been noticed before the signal.
CancelAll ==
    /\ phase = "running"
    /\ writer = "ended" \/ \E p \in Pollers : task[p] = "ended"
    /\ phase' = "cancel_all" /\ exit_code' = FailureStatus
    /\ CancelProducers /\ CancelWriter
    /\ timer' = 0
    /\ UNCHANGED <<signals, graceful, queryVars, dataVars, session, elapsed,
                   cut_short>>

AllStopped ==
    /\ phase = "cancel_all"
    /\ ProducersStopped /\ writer = "ended"
    /\ phase' = "close"
    /\ UNCHANGED <<exit_code, signals, graceful, task, logger, writer,
                   queryVars, dataVars, session, timeVars>>

CloseSessions ==
    /\ phase = "close"
    /\ session' = {} /\ phase' = "close_db"
    /\ UNCHANGED <<exit_code, signals, graceful, task, logger, writer,
                   queryVars, dataVars, timeVars>>

\* asyncio.run cancels what is left: the gathers and, after an interrupt, the
\* tasks, whose drains end at once since their gathers are cancelled too ...
LeaveMain ==
    /\ phase = "close_db" /\ phase' = "executor"
    /\ waiting' = [p \in Pollers |-> {}]
    /\ task' = [p \in Pollers |-> IF task[p] = "absent" THEN "absent" ELSE "ended"]
    /\ IF logger = "absent" THEN UNCHANGED <<logger, writer>>
       ELSE logger' = "ended" /\ CancelWriter
    /\ cut_short' = cut_short \cup {p \in Pollers : ~NoneLeft(p)}
    /\ timer' = 0
    /\ UNCHANGED <<exit_code, signals, graceful, running, dataVars, session,
                   elapsed>>

\* ... waits for them, and joins the worker threads.
Exit ==
    /\ phase = "executor" /\ \A p \in Pollers : running[p] = {}
    /\ writer \in {"absent", "ended"}
    /\ phase' = "exited" /\ exit_code' = ProcessStatus(exit_code)
    /\ UNCHANGED <<signals, graceful, task, logger, writer, queryVars, dataVars,
                   session, timeVars>>
-----------------------------------------------------------------------------
(* Time, counted from the signal, and the watchdog.  Nothing is buffered    *)
(* during connect(), so the time it takes is left out.                     *)

DrainDue == DrainExpired /\ \E p \in Pollers : task[p] = "drain"
FlushDue ==
    /\ phase \in {"stop_writer", "cancel_all", "executor"}
    /\ writer = "flush" /\ timer >= FlushTimeout
JoinDue  == phase = "join" /\ (JoinExpired \/ queue = <<>>)

\* main's own steps between two awaits take no time.
MainReady ==
    \/ phase \in {"close", "close_db"}
    \/ phase = "running" /\ (\/ shutdown_event \/ writer = "ended"
                             \/ \E p \in Pollers : task[p] = "ended")
    \/ phase = "stop_producers" /\ ProducersStopped
    \/ phase = "stop_writer" /\ writer = "ended"
    \/ phase = "cancel_all" /\ ProducersStopped /\ writer = "ended"

Tick ==
    /\ Alive /\ shutdown_event /\ phase # "connect"
    /\ ~DrainDue /\ ~FlushDue /\ ~JoinDue /\ ~MainReady
    /\ elapsed < KillTimeout
    /\ timer' = timer + 1 /\ elapsed' = elapsed + 1
    /\ UNCHANGED <<mainVars, task, logger, writer, queryVars, dataVars, session,
                   cut_short>>

\* forward_signal of the watchdog: SIGKILL to the process group.
Kill ==
    /\ Alive /\ elapsed = KillTimeout
    /\ phase' = "killed"
    /\ UNCHANGED <<exit_code, signals, graceful, task, logger, writer,
                   queryVars, dataVars, session, timeVars>>

Stopped == ~Alive /\ UNCHANGED vars
-----------------------------------------------------------------------------
Query(p) == \E s \in Services :
    BeginQuery(p, s) \/ QueryReturns(p, s) \/ QueryRaises(p, s)

PollerTask(p) ==
    \/ QueriesDone(p) \/ PutResult(p) \/ Sleep(p)
    \/ DrainEnds(p) \/ DrainTimesOut(p)

Poller(p) == Poll(p) \/ Query(p) \/ PollerTask(p)

Writer == WriterDrains \/ WriterSleeps \/ WriterRaises \/ FlushEnds

Main ==
    \/ ConfigError \/ ConfigRead \/ ConnectFails
    \/ Connected \/ ConnectedInterrupted
    \/ StopProducers \/ Join \/ StopWriter \/ WriterStopped
    \/ CancelAll \/ AllStopped \/ CloseSessions \/ LeaveMain \/ Exit

Next ==
    \/ Main \/ Writer \/ LogPut \/ Interrupt \/ Signal \/ Tick \/ Kill \/ Stopped
    \/ \E p \in Pollers : Poller(p)

\* The event loop runs every ready task, a query ends (its requests have
\* timeouts), and time passes.
Fairness ==
    /\ WF_vars(Main) /\ WF_vars(Writer) /\ WF_vars(Tick)
    /\ \A p \in Pollers :
          /\ WF_vars(PollerTask(p))
          /\ \A s \in Services :
                WF_vars(BeginQuery(p, s)) /\ WF_vars(QueryReturns(p, s))

Spec == Init /\ [][Next]_vars
FairSpec == Spec /\ Fairness
-----------------------------------------------------------------------------
(* Properties.                                                             *)

\* "the measurement queue drains for up to 15 seconds, and the writer then
\* closes" (docs/configuration/data-model.md): unless the join timed out, the
\* writer had everything ever put on the queue before it was told to stop,
\* and nobody put anything after that.
JoinedIsHanded ==
    /\ graceful
    /\ phase \in {"stop_writer", "close", "close_db", "executor", "exited"}
    /\ "join" \notin cut_short
    => queue = <<>>

\* "returning right away would let close() drop the session underneath a live
\* thread" (_drain_pending_queries): no query runs on a closed session unless
\* its handler stopped waiting, after the deadline of the drain or because
\* another query raised what gather passes on, or a SIGINT came before main had
\* its signal handlers.
SessionOutlivesQueries ==
    \A p \in Pollers :
        ~interrupted /\ p \notin session \cup cut_short => running[p] = {}

\* Exit status 0, on which the watchdog does not restart the daemon, means
\* that every task has ended, and by the ordered shutdown unless a SIGINT came
\* before main had its signal handlers.
CleanExit ==
    phase = "exited" /\ exit_code = 0 =>
        /\ ProducersStopped /\ logger # "loop"
        /\ writer = IF logger = "absent" THEN "absent" ELSE "ended"
        /\ graceful \/ interrupted

\* "graceful shutdown that flushes buffered measurements instead of dropping
\* them" (README.md): the watchdog does not kill a daemon whose writer has
\* not finished its flush.
KilledAfterFlush == phase = "killed" => writer \in {"absent", "ended"}

\* A signal, even one before the handlers were installed, or a failed task ends
\* the process: no await of the shutdown waits
\* for something that cannot happen any more.
Stops ==
    (shutdown_event \/ interrupted \/ writer = "ended"
        \/ \E p \in Pollers : task[p] = "ended") ~> ~Alive
=============================================================================
