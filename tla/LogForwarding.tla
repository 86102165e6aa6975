--------------------------- MODULE LogForwarding ---------------------------
(***************************************************************************)
(* The daemon's own log on its way to the database: DroppingQueueHandler   *)
(* (app/log.py) puts records on an asyncio.Queue, and the task_loop of     *)
(* InfluxLogAndConfigWriter (app/classes/influxdb/handler.py) moves them   *)
(* to the measurement queue.                                               *)
(*                                                                         *)
(* Records come from the event loop and from the worker threads of the     *)
(* pollers, although an asyncio.Queue is not made for threads.  The lock   *)
(* of logging.Handler admits one of them at a time, but not the forwarder, *)
(* which needs none to take a record: between the append to the deque and  *)
(* the count of unfinished tasks it may come in.  A single += or a test    *)
(* with the -= after it is not interrupted by CPython.                     *)
(***************************************************************************)
EXTENDS Integers

CONSTANTS
    LogQueueSize,               \* maxsize of log_queue
    QueueSize,                  \* maxsize of the measurement queue
    max_log_records_per_tick

ASSUME LogAssumption ==
    /\ LogQueueSize \in Nat \ {0}
    /\ QueueSize \in Nat \ {0}
    /\ max_log_records_per_tick \in Nat \ {0}

VARIABLES
    queued,         \* records in log_queue
    unfinished,     \* log_queue._unfinished_tasks
    emitting,       \* where the call is that has the handler's lock
    emitter,        \* who makes it: the "loop" or a "worker"
    place,          \* where the forwarder is in task_loop
    taken,          \* records it has taken in this tick
    config_due,     \* an hour has passed since the last configuration record
    output,         \* measurements in the measurement queue
    overtook        \* ghost: the last record taken was not counted yet

log_vars == <<queued, unfinished, emitting, emitter, place, taken, config_due,
              output, overtook>>

\* idle: nobody logs; append, count: the two steps of put_nowait.
EmitPlaces == {"idle", "append", "count"}

\* setting, put, sleep: awaits; done: a record is put but not done.
Places == {"turn", "setting", "take", "put", "done", "sleep", "raised",
           "ended"}

LogTypeOK ==
    /\ queued \in Nat
    /\ unfinished \in Int
    /\ emitting \in EmitPlaces
    /\ emitter \in {"loop", "worker"}
    /\ place \in Places
    /\ taken \in Nat
    /\ config_due \in BOOLEAN
    /\ output \in Nat
    /\ overtook \in BOOLEAN

\* time.monotonic() counts from the start of the machine, and
\* last_config_write from 0: the first record is due on a machine that has run
\* for an hour.
LogInit ==
    /\ queued = 0
    /\ unfinished = 0
    /\ emitting = "idle"
    /\ emitter = "loop"
    /\ place = "turn"
    /\ taken = 0
    /\ config_due \in BOOLEAN
    /\ output = 0
    /\ overtook = FALSE

\* The event loop runs the forwarder, a call to log, or something else.
Suspended    == place \in {"setting", "put", "sleep", "raised", "ended"}
LoopIsFree   == emitting = "idle" \/ emitter = "worker"
HasRoom      == output < QueueSize

(***************************************************************************)
(* DroppingQueueHandler.enqueue                                            *)
(***************************************************************************)
\* put_nowait finds room; if it does not, QueueFull is passed over.
Emit(who) ==
    /\ emitting = "idle"
    /\ who = "loop" => Suspended
    /\ queued < LogQueueSize
    /\ emitting' = "append"
    /\ emitter' = who
    /\ UNCHANGED <<queued, unfinished, place, taken, config_due, output,
                   overtook>>

AppendRecord ==
    /\ emitting = "append"
    /\ emitting' = "count"
    /\ queued' = queued + 1
    /\ UNCHANGED <<unfinished, emitter, place, taken, config_due, output,
                   overtook>>

CountRecord ==
    /\ emitting = "count"
    /\ emitting' = "idle"
    /\ unfinished' = unfinished + 1
    /\ UNCHANGED <<queued, emitter, place, taken, config_due, output, overtook>>

(***************************************************************************)
(* InfluxLogAndConfigWriter.task_loop                                      *)
(***************************************************************************)
Turn ==
    /\ place = "turn" /\ LoopIsFree
    /\ taken' = 0
    /\ config_due' = FALSE
    /\ place' = IF config_due THEN "setting" ELSE "take"
    /\ UNCHANGED <<queued, unfinished, emitting, emitter, output, overtook>>

\* await output_queue.put(...): at once, or when the writer has made room.
PutSetting ==
    /\ place = "setting" /\ LoopIsFree /\ HasRoom
    /\ output' = output + 1
    /\ place' = "take"
    /\ UNCHANGED <<queued, unfinished, emitting, emitter, taken, config_due,
                   overtook>>

\* get_nowait and format_log_record; everything on the queue is a LogRecord.
TakeRecord ==
    /\ place = "take" /\ LoopIsFree
    /\ queued > 0 /\ taken < max_log_records_per_tick
    /\ queued' = queued - 1
    /\ taken' = taken + 1
    /\ overtook' = (emitting = "count" /\ queued = 1)
    /\ IF HasRoom THEN place' = "done" /\ output' = output + 1
       ELSE place' = "put" /\ UNCHANGED output
    /\ UNCHANGED <<unfinished, emitting, emitter, config_due>>

\* QueueEmpty, or enough for this tick.
TickEnds ==
    /\ place = "take" /\ LoopIsFree
    /\ queued = 0 \/ taken = max_log_records_per_tick
    /\ place' = "sleep"
    /\ UNCHANGED <<queued, unfinished, emitting, emitter, taken, config_due,
                   output, overtook>>

PutRecord ==
    /\ place = "put" /\ LoopIsFree /\ HasRoom
    /\ output' = output + 1
    /\ place' = "done"
    /\ UNCHANGED <<queued, unfinished, emitting, emitter, taken, config_due,
                   overtook>>

\* Faults of RaisesOnlyOvertaking: both the finally block and the branch
\* before it finish the record.
FinishedTwice == unfinished - 2
Finished      == unfinished - 1

\* task_done() called too many times: ValueError.
task_done(next) ==
    IF unfinished <= 0
    THEN place' = "raised" /\ UNCHANGED unfinished
    ELSE place' = next /\ unfinished' = Finished

Done ==
    /\ place = "done" /\ LoopIsFree
    /\ task_done("take")
    /\ UNCHANGED <<queued, emitting, emitter, taken, config_due, output,
                   overtook>>

Wake ==
    /\ place = "sleep" /\ LoopIsFree
    /\ place' = "turn"
    /\ UNCHANGED <<queued, unfinished, emitting, emitter, taken, config_due,
                   output, overtook>>

\* The daemon shuts down; a record that waits for room is lost, but done.
CancelForwarder ==
    /\ LoopIsFree
    /\ \/ place \in {"setting", "sleep"} /\ place' = "ended"
          /\ UNCHANGED unfinished
       \/ place = "put" /\ task_done("ended")
    /\ UNCHANGED <<queued, emitting, emitter, taken, config_due, output,
                   overtook>>

(***************************************************************************)
(* The rest of the event loop                                              *)
(***************************************************************************)
WriterTakes ==
    /\ Suspended /\ LoopIsFree
    /\ output > 0
    /\ output' = output - 1
    /\ UNCHANGED <<queued, unfinished, emitting, emitter, place, taken,
                   config_due, overtook>>

PollerPuts ==
    /\ Suspended /\ LoopIsFree
    /\ HasRoom
    /\ output' = output + 1
    /\ UNCHANGED <<queued, unfinished, emitting, emitter, place, taken,
                   config_due, overtook>>

HourPasses ==
    /\ ~config_due
    /\ config_due' = TRUE
    /\ UNCHANGED <<queued, unfinished, emitting, emitter, place, taken, output,
                   overtook>>

LogNext ==
    \/ \E who \in {"loop", "worker"} : Emit(who)
    \/ AppendRecord \/ CountRecord
    \/ Turn \/ PutSetting \/ TakeRecord \/ TickEnds \/ PutRecord \/ Done
    \/ Wake \/ CancelForwarder
    \/ WriterTakes \/ PollerPuts \/ HourPasses

LogSpec == LogInit /\ [][LogNext]_log_vars

(***************************************************************************)
(* Properties                                                              *)
(***************************************************************************)
\* The forwarder does not catch the ValueError of task_done(), and its end is
\* the daemon's.  It meets one only where it has taken the one record that a
\* thread had appended and not counted yet; with a backlog, a full measurement
\* queue, a tick that ends early or a cancellation it never does.
RaisesOnlyOvertaking == place = "raised" => overtook

(***************************************************************************)
(* The inductive invariant                                                 *)
(***************************************************************************)
\* A record the forwarder has taken and not finished.
InHand    == IF place \in {"put", "done", "raised"} THEN 1 ELSE 0
Uncounted == IF emitting = "count" THEN 1 ELSE 0

Balanced == unfinished + Uncounted = queued + InHand

\* Where the deque is empty and a count is missing, it is that of the record in
\* hand.
MissingIsInHand ==
    place \in {"put", "done"} /\ emitting = "count" /\ queued = 0 => overtook

LogIInv == LogTypeOK /\ Balanced /\ MissingIsInHand /\ RaisesOnlyOvertaking
=============================================================================
