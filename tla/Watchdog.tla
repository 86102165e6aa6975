------------------------------ MODULE Watchdog ------------------------------
(***************************************************************************)
(* docker/entrypoint.sh, which keeps the daemon alive in the container.    *)
(*                                                                         *)
(* bash runs a trap between two commands or in place of `wait', and only   *)
(* after a foreground `sleep' has ended.  So every step of the main loop   *)
(* but the end of the sleep needs Untrapped.  The orchestrator sends one   *)
(* signal (docker stop); what happens when it loses patience and kills     *)
(* everything is module Daemon's.                                          *)
(***************************************************************************)
EXTENDS Integers

CONSTANTS
    WATCHDOG_RESTART_DELAY,     \* seconds of the first back-off
    MAX_RESTART_DELAY,          \* longest back-off
    MAX_RESTARTS,               \* failures in a row before giving up
    BACKOFF_RESET_AFTER,        \* seconds that make a run a stable one
    SHUTDOWN_TIMEOUT,           \* seconds between SIGTERM and SIGKILL
    Statuses                    \* exit statuses of the daemon

\* require_positive_int_max
ASSUME WatchdogAssumption ==
    /\ WATCHDOG_RESTART_DELAY \in Nat \ {0}
    /\ MAX_RESTART_DELAY \in Nat \ {0}
    /\ MAX_RESTARTS \in Nat \ {0}
    /\ BACKOFF_RESET_AFTER \in Nat \ {0}
    /\ SHUTDOWN_TIMEOUT \in Nat \ {0}
    /\ Statuses \subseteq Nat

VARIABLES
    pc,                 \* next command of the main loop or of forward_signal
    delay,              \* $delay
    restart_count,      \* $restart_count
    child_pid,          \* $child_pid is set
    status,             \* $status, and the watchdog's own in the end
    remaining,          \* $remaining of forward_signal
    runtime,            \* seconds since started_at; more than
                        \* BACKOFF_RESET_AFTER are not told apart
    daemon,             \* the process started last
    code,               \* its exit status, once it has one
    signal,             \* SIGTERM, SIGINT or SIGHUP to the watchdog
    failures            \* ghost: crashes in a row, from the last stable run
                        \* on; more than MAX_RESTARTS are not told apart

watchdog_vars ==
    <<pc, delay, restart_count, child_pid, status, remaining, runtime, daemon,
      code, signal, failures>>

Min(a, b) == IF a < b THEN a ELSE b

RESTART_DELAY == Min(WATCHDOG_RESTART_DELAY, MAX_RESTART_DELAY)

Clean    == {0, 129, 130, 143}
EX_CONFIG == 78
Crash(s) == s \notin Clean \cup {EX_CONFIG}

WatchdogInit ==
    /\ pc = "launch"
    /\ delay = RESTART_DELAY
    /\ restart_count = 0
    /\ child_pid = FALSE
    /\ status = 0
    /\ remaining = 0
    /\ runtime = 0
    /\ daemon = "none"
    /\ code = 0
    /\ signal = "none"
    /\ failures = 0

DaemonAlive == daemon \in {"forked", "running", "stopping"}
Untrapped   == signal # "pending"

(***************************************************************************)
(* The daemon's process                                                    *)
(***************************************************************************)
\* The child has called setsid(): only now is there a process group to signal.
Setsid ==
    /\ daemon = "forked" /\ daemon' = "running"
    /\ UNCHANGED <<pc, delay, restart_count, child_pid, status, remaining,
                   runtime, code, signal, failures>>

\* Stable or not, a crash counts; a stable run ends the row before it.
DaemonExits ==
    /\ DaemonAlive /\ daemon' = "exited"
    /\ code' \in Statuses
    /\ failures' = IF ~Crash(code') THEN failures
                   ELSE IF runtime = BACKOFF_RESET_AFTER THEN 1
                   ELSE Min(failures + 1, MAX_RESTARTS + 1)
    /\ UNCHANGED <<pc, delay, restart_count, child_pid, status, remaining,
                   runtime, signal>>

Second ==
    /\ DaemonAlive /\ runtime < BACKOFF_RESET_AFTER
    /\ runtime' = runtime + 1
    /\ UNCHANGED <<pc, delay, restart_count, child_pid, status, remaining,
                   daemon, code, signal, failures>>

SignalArrives ==
    /\ signal = "none" /\ pc # "exited"
    /\ signal' = "pending"
    /\ UNCHANGED <<pc, delay, restart_count, child_pid, status, remaining,
                   runtime, daemon, code, failures>>

(***************************************************************************)
(* The main loop                                                           *)
(***************************************************************************)
\* setsid "$@" &
Launch ==
    /\ pc = "launch" /\ Untrapped
    /\ pc' = "assign" /\ daemon' = "forked" /\ runtime' = 0
    /\ UNCHANGED <<delay, restart_count, child_pid, status, remaining, code,
                   signal, failures>>

\* child_pid=$!
Assign ==
    /\ pc = "assign" /\ Untrapped
    /\ pc' = "wait" /\ child_pid' = TRUE
    /\ UNCHANGED <<delay, restart_count, status, remaining, runtime, daemon,
                   code, signal, failures>>

\* wait "${child_pid}"; status=$?; child_pid=""
Wait ==
    /\ pc = "wait" /\ Untrapped /\ daemon = "exited"
    /\ pc' = "judge" /\ status' = code /\ child_pid' = FALSE
    /\ UNCHANGED <<delay, restart_count, remaining, runtime, daemon, code,
                   signal, failures>>

\* The back-off starts over after a stable run.
DelayReset == IF runtime >= BACKOFF_RESET_AFTER THEN RESTART_DELAY ELSE delay

\* Faults of GivesUpInTime and CrashLoopSurfaces: no reset, no count.
CountKept == restart_count + 1
CountLost == 1
Counted ==
    IF runtime >= BACKOFF_RESET_AFTER THEN 1 ELSE restart_count + 1

\* The daemon is over: `exit 0', `exit 78' or, after too many crashes in a
\* row, `exit "${status}"'.
Stop ==
    /\ pc = "judge" /\ Untrapped
    /\ ~Crash(status) \/ Counted >= MAX_RESTARTS
    /\ pc' = "exited"
    /\ status' = IF status \in Clean THEN 0 ELSE status
    /\ UNCHANGED <<delay, restart_count, child_pid, remaining, runtime,
                   daemon, code, signal, failures>>

BackOff ==
    /\ pc = "judge" /\ Untrapped
    /\ Crash(status) /\ Counted < MAX_RESTARTS
    /\ pc' = "sleep"
    /\ delay' = DelayReset /\ restart_count' = Counted
    /\ UNCHANGED <<child_pid, status, remaining, runtime, daemon, code,
                   signal, failures>>

\* sleep "${delay}", which a signal does not cut short.
SleepEnds ==
    /\ pc = "sleep" /\ pc' = "double"
    /\ UNCHANGED <<delay, restart_count, child_pid, status, remaining,
                   runtime, daemon, code, signal, failures>>

Double ==
    /\ pc = "double" /\ Untrapped
    /\ pc' = "launch"
    /\ delay' = Min(2 * delay, MAX_RESTART_DELAY)
    /\ UNCHANGED <<restart_count, child_pid, status, remaining, runtime,
                   daemon, code, signal, failures>>

(***************************************************************************)
(* forward_signal                                                          *)
(***************************************************************************)
\* SIGTERM goes to the process group, which a child that has only been forked
\* does not have yet.
Forward ==
    /\ signal = "pending" /\ pc # "sleep"
    /\ signal' = "taken"
    /\ IF child_pid /\ DaemonAlive
       THEN /\ pc' = "grace" /\ remaining' = SHUTDOWN_TIMEOUT
            /\ daemon' = IF daemon = "forked" THEN "forked" ELSE "stopping"
            /\ UNCHANGED status
       ELSE /\ pc' = "exited" /\ status' = 0
            /\ UNCHANGED <<remaining, daemon>>
    /\ UNCHANGED <<delay, restart_count, child_pid, runtime, code, failures>>

\* sleep 1; a child forked before is in its own session after that second.
Grace ==
    /\ pc = "grace" /\ daemon \in {"running", "stopping"} /\ remaining > 0
    /\ remaining' = remaining - 1
    /\ UNCHANGED <<pc, delay, restart_count, child_pid, status, runtime,
                   daemon, code, signal, failures>>

\* Fault of StopEnds: SIGTERM once more.
Terminated == "stopping"
Killed     == "exited"

KillDaemon ==
    /\ pc = "grace" /\ DaemonAlive /\ remaining = 0
    /\ pc' = "reap" /\ daemon' = Killed
    /\ UNCHANGED <<delay, restart_count, child_pid, status, remaining,
                   runtime, code, signal, failures>>

Reap ==
    /\ pc \in {"grace", "reap"} /\ daemon = "exited"
    /\ pc' = "exited" /\ status' = 0
    /\ UNCHANGED <<delay, restart_count, child_pid, remaining, runtime,
                   daemon, code, signal, failures>>

Bash ==
    \/ Launch \/ Assign \/ Wait \/ Stop \/ BackOff \/ SleepEnds \/ Double
    \/ Forward \/ Grace \/ KillDaemon \/ Reap

WatchdogNext == Bash \/ Setsid \/ DaemonExits \/ Second \/ SignalArrives

WatchdogSpec == WatchdogInit /\ [][WatchdogNext]_watchdog_vars

\* bash and the child before its exec are always scheduled; nothing is assumed
\* of the daemon.
WatchdogFairness == WF_watchdog_vars(Bash) /\ WF_watchdog_vars(Setsid)

(***************************************************************************)
(* Properties                                                              *)
(***************************************************************************)
WatchdogTypeOK ==
    /\ pc \in {"launch", "assign", "wait", "judge", "sleep", "double",
               "grace", "reap", "exited"}
    /\ delay \in 1 .. MAX_RESTART_DELAY
    /\ restart_count \in 0 .. MAX_RESTARTS - 1
    /\ child_pid \in BOOLEAN
    /\ status \in Nat
    /\ remaining \in 0 .. SHUTDOWN_TIMEOUT
    /\ runtime \in 0 .. BACKOFF_RESET_AFTER
    /\ daemon \in {"none", "forked", "running", "stopping", "exited"}
    /\ code \in Nat
    /\ signal \in {"none", "pending", "taken"}
    /\ failures \in 0 .. MAX_RESTARTS

\* "up to WATCHDOG_MAX_RESTARTS consecutive failures.  After that the watchdog
\* exits with the daemon's status": unless it is told to stop, it never starts
\* a daemon after that many, ends with a failure no earlier, and never reports
\* a crash as a success.
GivesUpInTime ==
    /\ daemon = "forked" => failures < MAX_RESTARTS
    /\ pc = "exited" /\ signal # "taken" =>
          /\ Crash(code) => status = code /\ failures = MAX_RESTARTS
          /\ ~Crash(code) => status \in {0, EX_CONFIG}

\* "the failure becomes visible instead of being hidden in an endless internal
\* loop": a daemon that always ends, and never runs stably again, ends the
\* watchdog as well.
CrashLoopSurfaces ==
    []<>~DaemonAlive /\ <>[](runtime < BACKOFF_RESET_AFTER)
        => <>(pc = "exited")

\* A signal ends the watchdog, and the daemon before it, however little the
\* daemon cares for SIGTERM; only a daemon started in the instant before
\* child_pid=$! is overlooked.
StopEnds ==
    signal = "pending" ~> pc = "exited" /\ (~DaemonAlive \/ ~child_pid)
=============================================================================
