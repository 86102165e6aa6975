-------------------------- MODULE LifecycleProofs --------------------------
(***************************************************************************)
(* Proofs about the ordered shutdown of module Daemon, for any number of   *)
(* handlers, services, measurements and any timeouts, and about the loop   *)
(* of module Watchdog, for any delays, limits and exit statuses.           *)
(***************************************************************************)
EXTENDS Daemon, Watchdog, TLAPS

\* What makes the shutdown ordered: once main has cancelled the producers none
\* of them is left at a place from which it could put a measurement, and the
\* places of main that follow each other keep what the earlier ones waited for.
Ordered ==
    /\ phase \in {"stop_producers", "join", "stop_writer"} => graceful
    /\ phase \in {"config", "connect", "running", "cancel_all"} => ~graceful
    /\ phase \in {"running", "stop_producers", "join", "stop_writer"}
          => exit_code = 0
    /\ phase = "cancel_all" => exit_code = 1
    /\ phase \in {"config", "connect"} =>
          /\ exit_code = 0
          /\ logger = "absent" /\ writer = "absent"
          /\ \A p \in Pollers : task[p] = "absent"
    /\ phase \in {"running", "stop_producers", "join", "stop_writer", "cancel_all"}
          => ~interrupted /\ logger # "absent"
    /\ graceful =>
          /\ logger = "ended"
          /\ \A p \in Pollers : task[p] \in {"drain", "ended", "absent"}
    /\ phase \in {"join", "stop_writer"} => ProducersStopped
    /\ phase \in {"close", "close_db", "executor", "exited"} /\ exit_code = 0
          => graceful \/ interrupted
    /\ writer = "absent" <=> logger = "absent"
    /\ phase \in {"executor", "exited"} => ProducersStopped /\ logger # "loop"
    /\ phase = "exited" => writer \in {"absent", "ended"}

\* Each poller's task_loop is at one of its places.
TaskType ==
    task \in [Pollers -> {"absent", "new", "query", "put", "sleep", "drain",
                          "ended"}]

DaemonInv == TaskType /\ Ordered /\ JoinedIsHanded

\* The process starts ordered.
LEMMA DaemonInit == Init => DaemonInv
BY DEF Init, DaemonInv, TaskType, Ordered, JoinedIsHanded, ProducersStopped,
       Ended

\* task keeps its type.
LEMMA TaskTypeStep == TaskType /\ [Next]_vars => TaskType'
BY DEF TaskType, Next, vars, mainVars, signals, queryVars, dataVars, timeVars,
       Main, ConfigError, ConfigRead, ConnectFails, Connected,
       ConnectedInterrupted, StopProducers,
       Join, StopWriter, WriterStopped, CancelAll, AllStopped, CloseSessions,
       LeaveMain, Exit, Writer, WriterDrains, WriterSleeps, WriterRaises,
       FlushEnds, LogPut, Interrupt, Signal, Tick, Kill, Stopped, Poller, Poll, Query,
       BeginQuery, QueryReturns, QueryRaises, Finished, PollerTask, QueriesDone,
       PutResult, Sleep, DrainEnds, DrainTimesOut, CancelProducers, Cancelled

\* A step of a poller, its threads included, never takes a task out of a state
\* in which it has been stopped.
LEMMA PollerStep ==
    ASSUME TaskType, Ordered, NEW p \in Pollers, Poller(p)
    PROVE  Ordered'
<1> USE DEF TaskType, Ordered, ProducersStopped, Ended, mainVars, signals
<1>1. CASE Poll(p)
  BY <1>1 DEF Poll
<1>2. CASE Query(p)
  <2>1. PICK s \in Services :
           BeginQuery(p, s) \/ QueryReturns(p, s) \/ QueryRaises(p, s)
    BY <1>2 DEF Query
  <2>2. CASE BeginQuery(p, s)
    BY <2>2 DEF BeginQuery
  <2>3. CASE QueryReturns(p, s)
    BY <2>3 DEF QueryReturns
  <2>4. CASE QueryRaises(p, s)
    BY <2>4 DEF QueryRaises
  <2> QED  BY <2>1, <2>2, <2>3, <2>4
<1>3. CASE PollerTask(p)
  BY <1>3 DEF PollerTask, QueriesDone, PutResult, Sleep, DrainEnds, DrainTimesOut
<1> QED  BY <1>1, <1>2, <1>3 DEF Poller

\* Each place main goes to next has what the place before it waited for.
LEMMA MainStep == TaskType /\ Ordered /\ Main => Ordered'
<1> SUFFICES ASSUME TaskType, Ordered, Main  PROVE Ordered'
  OBVIOUS
<1> USE DEF TaskType, Ordered, ProducersStopped, Ended
<1>1. CASE ConfigError \/ ConfigRead \/ ConnectFails \/ Connected
  BY <1>1 DEF ConfigError, ConfigRead, ConnectFails, Connected, ProcessStatus,
     signals
<1>2. CASE ConnectedInterrupted
  BY <1>2 DEF ConnectedInterrupted, signals
<1>3. CASE StopProducers
  <2>1. \A p \in Pollers : Cancelled(p) \in {"drain", "ended", "absent"}
    BY DEF Cancelled
  <2> QED  BY <1>3 DEF StopProducers, CancelProducers, Cancelled, signals
<1>4. CASE Join \/ StopWriter \/ WriterStopped
  BY <1>4 DEF Join, StopWriter, CancelWriter, WriterStopped, signals
<1>5. CASE CancelAll
  BY <1>5 DEF CancelAll, CancelProducers, CancelWriter, FailureStatus, signals
<1>6. CASE AllStopped \/ CloseSessions
  BY <1>6 DEF AllStopped, CloseSessions, signals
<1>7. CASE LeaveMain
  BY <1>7 DEF LeaveMain, CancelWriter, signals
<1>8. CASE Exit
  BY <1>8 DEF Exit, ProcessStatus, signals
<1> QED  BY <1>1, <1>2, <1>3, <1>4, <1>5, <1>6, <1>7, <1>8 DEF Main

\* Every step keeps the order of the shutdown.
LEMMA OrderedStep == TaskType /\ Ordered /\ [Next]_vars => Ordered'
<1> SUFFICES ASSUME TaskType, Ordered, [Next]_vars  PROVE Ordered'
  OBVIOUS
<1>1. CASE Main
  BY <1>1, MainStep
<1>2. CASE \E p \in Pollers : Poller(p)
  BY <1>2, PollerStep
<1> USE DEF TaskType, Ordered, ProducersStopped, Ended, mainVars, signals
<1>3. CASE Writer
  BY <1>3 DEF Writer, WriterDrains, WriterSleeps, WriterRaises, FlushEnds
<1>4. CASE LogPut \/ Interrupt \/ Signal \/ Tick \/ Kill
  BY <1>4 DEF LogPut, Interrupt, Signal, Tick, Kill
<1>5. CASE UNCHANGED vars \/ Stopped
  BY <1>5 DEF vars, Stopped
<1> QED  BY <1>1, <1>2, <1>3, <1>4, <1>5 DEF Next

\* After the join nobody puts: the queue stays as empty as the join found it.
LEMMA JoinedStep == DaemonInv /\ [Next]_vars => JoinedIsHanded'
<1> SUFFICES ASSUME DaemonInv, [Next]_vars  PROVE JoinedIsHanded'
  OBVIOUS
<1> USE DEF DaemonInv, TaskType, Ordered, JoinedIsHanded
<1>1. CASE Main
  BY <1>1 DEF Main, ConfigError, ConfigRead, ConnectFails, Connected,
     ConnectedInterrupted, StopProducers, Join, StopWriter, WriterStopped, CancelAll, AllStopped,
     CloseSessions, LeaveMain, Exit, dataVars, timeVars
<1>2. ASSUME NEW p \in Pollers, Poller(p)  PROVE JoinedIsHanded'
  <2>1. CASE Poll(p)
    BY <2>1 DEF Poll, mainVars, signals, timeVars
  <2>2. CASE Query(p)
    BY <2>2 DEF Query, BeginQuery, QueryReturns, QueryRaises, mainVars, signals,
       timeVars, dataVars
  <2>3. CASE QueriesDone(p) \/ Sleep(p) \/ DrainEnds(p) \/ DrainTimesOut(p)
    BY <2>3 DEF QueriesDone, Sleep, DrainEnds, DrainTimesOut, mainVars, signals,
       timeVars, dataVars
  <2>4. CASE PutResult(p)
    BY <2>4 DEF PutResult, mainVars, signals
  <2> QED  BY <1>2, <2>1, <2>2, <2>3, <2>4 DEF Poller, PollerTask
<1>3. CASE WriterDrains
  <2>1. SUFFICES ASSUME queue = <<>>  PROVE queue' = <<>>
    BY <1>3 DEF WriterDrains, mainVars, signals, timeVars
  <2>2. queue' = SubSeq(<<>>, WriterTurn + 1, 0) /\ 0 < WriterTurn + 1
    BY <1>3, <2>1, DaemonAssumption DEF WriterDrains
  <2> QED  BY <2>2, DaemonAssumption
<1>4. CASE WriterSleeps \/ WriterRaises \/ FlushEnds
  BY <1>4 DEF WriterSleeps, WriterRaises, FlushEnds, mainVars, signals, timeVars, dataVars
<1>5. CASE LogPut \/ Interrupt \/ Signal \/ Tick \/ Kill
  BY <1>5 DEF LogPut, Interrupt, Signal, Tick, Kill, mainVars, signals, timeVars, dataVars
<1>6. CASE UNCHANGED vars \/ Stopped
  BY <1>6 DEF vars, Stopped, mainVars, signals, timeVars, dataVars
<1> QED  BY <1>1, <1>2, <1>3, <1>4, <1>5, <1>6 DEF Next, Writer

\* The three parts together are inductive.
LEMMA DaemonInvariant == Spec => []DaemonInv
<1>1. DaemonInv /\ [Next]_vars => DaemonInv'
  BY TaskTypeStep, OrderedStep, JoinedStep DEF DaemonInv
<1> QED  BY DaemonInit, <1>1, PTL DEF Spec

\* Unless the join timed out, everything ever put on the measurement queue is
\* with the writer before the writer is told to stop.
THEOREM JoinedCorrect == Spec => []JoinedIsHanded
<1>1. DaemonInv => JoinedIsHanded
  BY DEF DaemonInv
<1> QED  BY DaemonInvariant, <1>1, PTL

\* Exit status 0 only when every task has ended, and by the ordered shutdown
\* unless a SIGINT came before main had its signal handlers.
THEOREM CleanExitCorrect == Spec => []CleanExit
<1>1. DaemonInv => CleanExit
  BY DEF DaemonInv, Ordered, CleanExit
<1> QED  BY DaemonInvariant, <1>1, PTL
-----------------------------------------------------------------------------
(* The sessions.                                                           *)

\* The queries of each poller are sets of services.
QueriesType ==
    /\ waiting \in [Pollers -> SUBSET Services]
    /\ running \in [Pollers -> SUBSET Services]

\* A poller with queries waits for them, or has given up waiting; unless main was
\* interrupted, one that is not at its end has its session, and main closes
\* sessions at the end of all.
Held ==
    /\ \A p \in Pollers :
          task[p] \in {"query", "drain"} \/ p \in cut_short \/ NoneLeft(p)
    /\ interrupted \/ \A p \in Pollers : Ended(p) \/ p \in session
    /\ phase \in {"config", "connect"} => \A p \in Pollers : task[p] = "absent"
    /\ phase \in {"join", "stop_writer", "close", "close_db", "executor", "exited"}
          => interrupted \/ ProducersStopped

SessionInv == TaskType /\ QueriesType /\ Held

\* The process starts without queries.
LEMMA SessionInit == Init => SessionInv
BY DEF Init, SessionInv, TaskType, QueriesType, Held, NoneLeft, Ended,
       ProducersStopped

\* waiting and running keep their types.
LEMMA QueriesTypeStep == QueriesType /\ [Next]_vars => QueriesType'
BY DEF QueriesType, Next, vars, mainVars, signals, queryVars, dataVars, timeVars,
       Main, ConfigError, ConfigRead, ConnectFails, Connected,
       ConnectedInterrupted, StopProducers,
       Join, StopWriter, WriterStopped, CancelAll, AllStopped, CloseSessions,
       LeaveMain, Exit, Writer, WriterDrains, WriterSleeps, WriterRaises,
       FlushEnds, LogPut, Interrupt, Signal, Tick, Kill, Stopped, Poller, Poll, Query,
       BeginQuery, QueryReturns, QueryRaises, Finished, PollerTask, QueriesDone,
       PutResult, Sleep, DrainEnds, DrainTimesOut

\* A poller starts queries only where it will wait for them, and leaves that
\* place when none is left, or cuts the wait short.
LEMMA PollerHolds ==
    ASSUME SessionInv, NEW p \in Pollers, Poller(p)
    PROVE  Held'
<1> USE DEF SessionInv, TaskType, QueriesType, Held, NoneLeft, Ended,
            ProducersStopped, mainVars, signals, timeVars, queryVars
<1>1. CASE Poll(p)
  BY <1>1 DEF Poll
<1>2. CASE Query(p)
  <2>1. PICK s \in Services :
           BeginQuery(p, s) \/ QueryReturns(p, s) \/ QueryRaises(p, s)
    BY <1>2 DEF Query
  <2>2. CASE BeginQuery(p, s)
    BY <2>2 DEF BeginQuery
  <2>3. CASE QueryReturns(p, s)
    BY <2>3 DEF QueryReturns, Finished
  <2>4. CASE QueryRaises(p, s)
    BY <2>4 DEF QueryRaises, Finished
  <2> QED  BY <2>1, <2>2, <2>3, <2>4
<1>3. CASE QueriesDone(p) \/ PutResult(p) \/ Sleep(p)
  BY <1>3 DEF QueriesDone, PutResult, Sleep
<1>4. CASE DrainEnds(p) \/ DrainTimesOut(p)
  BY <1>4 DEF DrainEnds, DrainTimesOut
<1> QED  BY <1>1, <1>2, <1>3, <1>4 DEF Poller, PollerTask

\* main opens sessions before the first query and closes them after the last
\* poller has ended.
LEMMA MainHolds == SessionInv /\ Main => Held'
<1> SUFFICES ASSUME SessionInv, Main  PROVE Held'
  OBVIOUS
<1> USE DEF SessionInv, TaskType, QueriesType, Held, NoneLeft, Ended,
            ProducersStopped, mainVars, signals, timeVars, queryVars
<1>1. CASE ConfigError \/ ConfigRead \/ ConnectFails
  BY <1>1 DEF ConfigError, ConfigRead, ConnectFails, signals
<1>2. CASE Connected \/ ConnectedInterrupted
  BY <1>2 DEF Connected, ConnectedInterrupted, signals
<1>3. CASE StopProducers \/ CancelAll
  <2>1. \A p \in Pollers : task'[p] = Cancelled(p)
    BY <1>3 DEF StopProducers, CancelAll, CancelProducers
  <2>2. UNCHANGED <<queryVars, session, cut_short, interrupted>>
    BY <1>3 DEF StopProducers, CancelAll, signals
  <2>3. phase' \in {"stop_producers", "cancel_all"}
    BY <1>3 DEF StopProducers, CancelAll, signals
  <2> QED  BY <2>1, <2>2, <2>3 DEF Cancelled
<1>4. CASE Join \/ StopWriter \/ WriterStopped \/ AllStopped
  BY <1>4 DEF Join, StopWriter, WriterStopped, AllStopped, signals
<1>5. CASE CloseSessions \/ Exit
  BY <1>5 DEF CloseSessions, Exit, signals
<1>6. CASE LeaveMain
  BY <1>6 DEF LeaveMain, signals
<1> QED  BY <1>1, <1>2, <1>3, <1>4, <1>5, <1>6 DEF Main

\* Everything else leaves pollers and sessions alone.
LEMMA HeldStep == SessionInv /\ [Next]_vars => Held'
<1> SUFFICES ASSUME SessionInv, [Next]_vars  PROVE Held'
  OBVIOUS
<1>1. CASE Main
  BY <1>1, MainHolds
<1>2. CASE \E p \in Pollers : Poller(p)
  BY <1>2, PollerHolds
<1> USE DEF SessionInv, Held, NoneLeft, Ended, ProducersStopped, mainVars, signals,
            queryVars, timeVars
<1>3. CASE Writer
  BY <1>3 DEF Writer, WriterDrains, WriterSleeps, WriterRaises, FlushEnds
<1>4. CASE LogPut \/ Interrupt \/ Signal \/ Tick \/ Kill
  BY <1>4 DEF LogPut, Interrupt, Signal, Tick, Kill
<1>5. CASE UNCHANGED vars \/ Stopped
  BY <1>5 DEF vars, Stopped
<1> QED  BY <1>1, <1>2, <1>3, <1>4, <1>5 DEF Next

\* No thread runs a query on a session that main has closed, or that was never
\* opened, unless its poller stopped waiting for it.
THEOREM SessionOutlivesCorrect == Spec => []SessionOutlivesQueries
<1>1. SessionInv /\ [Next]_vars => SessionInv'
  BY TaskTypeStep, QueriesTypeStep, HeldStep DEF SessionInv
<1>2. SessionInv => SessionOutlivesQueries
  BY DEF SessionInv, Held, SessionOutlivesQueries, Ended, NoneLeft, TaskType
<1> QED  BY SessionInit, <1>1, <1>2, PTL DEF Spec

-----------------------------------------------------------------------------
\* The watchdog.

\* Where the daemon is while bash is at a place.
Placed ==
    /\ pc \in {"launch", "sleep", "double"} => ~DaemonAlive
    /\ pc \in {"assign", "wait", "judge"} => daemon # "none"
    /\ pc = "judge" => daemon = "exited" /\ status = code
    /\ pc \in {"grace", "reap"} => signal = "taken"
    /\ pc = "exited" /\ signal # "taken" => daemon = "exited"

\* restart_count is the number of crashes in a row; between a crash and its
\* judgement it is one behind, or still has the row that a stable run ended.
Row ==
    /\ pc \in {"launch", "sleep", "double"} => failures = restart_count
    /\ pc \in {"assign", "wait"} /\ DaemonAlive => failures = restart_count
    /\ pc \in {"assign", "wait", "judge"} /\ daemon = "exited" =>
          failures = IF Crash(code) THEN Counted ELSE restart_count
    /\ DaemonAlive => failures < MAX_RESTARTS

GivenUp ==
    pc = "exited" /\ signal # "taken" =>
        /\ Crash(code) => status = code /\ failures = MAX_RESTARTS
        /\ ~Crash(code) => status \in {0, EX_CONFIG}

WatchdogInv == WatchdogTypeOK /\ Placed /\ Row /\ GivenUp

-----------------------------------------------------------------------------
\* The first delay is no longer than the longest.
LEMMA DelayInRange == RESTART_DELAY \in 1 .. MAX_RESTART_DELAY
BY WatchdogAssumption DEF WatchdogAssumption, RESTART_DELAY, Min

\* At the start nothing has crashed.
LEMMA WatchdogStarts == WatchdogInit => WatchdogInv
<1> SUFFICES ASSUME WatchdogInit  PROVE WatchdogInv
  OBVIOUS
<1>1. /\ 0 \in 0 .. MAX_RESTARTS - 1
      /\ 0 \in 0 .. SHUTDOWN_TIMEOUT
      /\ 0 \in 0 .. BACKOFF_RESET_AFTER
      /\ 0 \in 0 .. MAX_RESTARTS
  BY WatchdogAssumption DEF WatchdogAssumption
<1>2. WatchdogTypeOK
  BY <1>1, DelayInRange DEF WatchdogInit, WatchdogTypeOK
<1>3. Placed /\ Row /\ GivenUp
  BY DEF WatchdogInit, Placed, Row, GivenUp, DaemonAlive
<1> QED  BY <1>2, <1>3 DEF WatchdogInv

\* The daemon's own steps, seconds and signals.
LEMMA OutsideSteps ==
    ASSUME WatchdogInv, Setsid \/ DaemonExits \/ Second \/ SignalArrives
    PROVE  WatchdogInv'
<1> USE WatchdogAssumption
    DEF WatchdogAssumption, WatchdogInv, WatchdogTypeOK, Placed, Row, GivenUp, DaemonAlive
<1>1. CASE Setsid
  BY <1>1 DEF Setsid, Counted
<1>2. CASE DaemonExits
  <2>1. /\ code' \in Nat /\ daemon' = "exited"
        /\ UNCHANGED <<pc, delay, restart_count, child_pid, status,
                       remaining, runtime, signal>>
    BY <1>2 DEF DaemonExits
  <2>2. pc \notin {"launch", "sleep", "double", "judge"}
    BY <1>2 DEF DaemonExits
  <2>3. pc = "exited" => signal = "taken"
    BY <1>2 DEF DaemonExits
  <2>4. failures' = IF Crash(code') THEN
                       IF runtime = BACKOFF_RESET_AFTER THEN 1
                       ELSE failures + 1
                    ELSE failures
    BY <1>2 DEF DaemonExits, Min
  <2>5. failures < MAX_RESTARTS
    BY <1>2 DEF DaemonExits
  <2>6. pc \in {"assign", "wait"} => failures = restart_count
    BY <1>2 DEF DaemonExits
  <2>7. WatchdogTypeOK'
    BY <2>1, <2>4, <2>5
  <2>8. Row'
    BY <2>1, <2>2, <2>4, <2>6 DEF Counted
  <2>9. Placed' /\ GivenUp'
    BY <2>1, <2>2, <2>3
  <2> QED  BY <2>7, <2>8, <2>9
<1>3. CASE Second
  BY <1>3 DEF Second, Counted
<1>4. CASE SignalArrives
  BY <1>4 DEF SignalArrives, Counted
<1> QED  BY <1>1, <1>2, <1>3, <1>4

\* The commands of the loop keep the invariant.
LEMMA LoopSteps ==
    ASSUME WatchdogInv,
           Launch \/ Assign \/ Wait \/ Stop \/ BackOff \/ SleepEnds \/ Double
    PROVE  WatchdogInv'
<1> USE WatchdogAssumption
    DEF WatchdogAssumption, WatchdogInv, WatchdogTypeOK, Placed, Row, GivenUp, DaemonAlive
<1>1. CASE Launch
  BY <1>1 DEF Launch
<1>2. CASE Assign
  BY <1>2 DEF Assign, Counted
<1>3. CASE Wait
  BY <1>3 DEF Wait, Counted
<1>4. CASE Stop
  <2>1. daemon = "exited" /\ status = code
    BY <1>4 DEF Stop
  <2>2. Crash(code) => failures = MAX_RESTARTS /\ status' = code
    BY <1>4, <2>1 DEF Stop, Crash
  <2>3. ~Crash(code) => status' \in {0, EX_CONFIG}
    BY <1>4, <2>1 DEF Stop, Crash
  <2>4. status' \in Nat
    BY <1>4 DEF Stop
  <2> QED  BY <1>4, <2>1, <2>2, <2>3, <2>4 DEF Stop
<1>5. CASE BackOff
  BY <1>5, DelayInRange DEF BackOff, DelayReset, Counted
<1>6. CASE SleepEnds
  BY <1>6 DEF SleepEnds
<1>7. CASE Double
  BY <1>7 DEF Double, Min
<1> QED  BY <1>1, <1>2, <1>3, <1>4, <1>5, <1>6, <1>7

\* So do those of the trap.
LEMMA TrapSteps ==
    ASSUME WatchdogInv, Forward \/ Grace \/ KillDaemon \/ Reap
    PROVE  WatchdogInv'
<1> USE WatchdogAssumption
    DEF WatchdogAssumption, WatchdogInv, WatchdogTypeOK, Placed, Row, GivenUp, DaemonAlive
<1>1. CASE Forward
  BY <1>1 DEF Forward
<1>2. CASE Grace
  BY <1>2 DEF Grace
<1>3. CASE KillDaemon
  BY <1>3 DEF KillDaemon, Killed
<1>4. CASE Reap
  BY <1>4 DEF Reap
<1> QED  BY <1>1, <1>2, <1>3, <1>4

\* And so does every other step.
LEMMA WatchdogInductive == WatchdogInv /\ [WatchdogNext]_watchdog_vars => WatchdogInv'
<1> SUFFICES ASSUME WatchdogInv, [WatchdogNext]_watchdog_vars  PROVE WatchdogInv'
  OBVIOUS
<1>1. CASE WatchdogNext
  BY <1>1, OutsideSteps, LoopSteps, TrapSteps DEF WatchdogNext, Bash
<1>2. CASE UNCHANGED watchdog_vars
  BY <1>2 DEF watchdog_vars, WatchdogInv, WatchdogTypeOK, Placed, Row, GivenUp, DaemonAlive, Counted
<1> QED  BY <1>1, <1>2

\* The watchdog starts no daemon after MAX_RESTARTS crashes in a row, gives up
\* exactly then, and reports the crash (main loop of entrypoint.sh).
THEOREM GivesUpInTimeCorrect == WatchdogSpec => []GivesUpInTime
<1>1. WatchdogInv => GivesUpInTime
  BY DEF WatchdogInv, Row, GivenUp, DaemonAlive, GivesUpInTime
<1>2. WatchdogSpec => []WatchdogInv
  BY WatchdogStarts, WatchdogInductive, PTL DEF WatchdogSpec
<1> QED  BY <1>1, <1>2, PTL

=============================================================================
