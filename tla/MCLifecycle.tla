---------------------------- MODULE MCLifecycle ----------------------------
(***************************************************************************)
(* Instances for TLC of the life of a process, seen from inside (Daemon)   *)
(* and from the watchdog of the container (Watchdog).  They share no       *)
(* variable: a behaviour is one of either, in which the other is over from *)
(* the start, so their states add up instead of multiplying.               *)
(***************************************************************************)
EXTENDS MCDaemon, Watchdog

lifecycle_vars == <<vars, watchdog_vars>>

WatchdogOver ==
    /\ pc = "exited" /\ delay = RESTART_DELAY
    /\ restart_count = 0 /\ child_pid = FALSE /\ status = 0
    /\ remaining = 0 /\ runtime = 0 /\ daemon = "none" /\ code = 0
    /\ signal = "none" /\ failures = 0

DaemonOver ==
    /\ phase = "exited" /\ exit_code = 78
    /\ shutdown_event = FALSE /\ graceful = FALSE /\ interrupted = FALSE
    /\ task = [p \in Pollers |-> "absent"]
    /\ logger = "absent" /\ writer = "absent"
    /\ waiting = [p \in Pollers |-> {}]
    /\ running = [p \in Pollers |-> {}]
    /\ results = [p \in Pollers |-> <<>>]
    /\ queue = <<>> /\ fetched = 0
    /\ session = {}
    /\ timer = 0 /\ elapsed = 0 /\ cut_short = {}

LifecycleInit ==
    \/ Init /\ WatchdogOver
    \/ WatchdogInit /\ DaemonOver

LifecycleNext ==
    \/ Next /\ UNCHANGED watchdog_vars
    \/ WatchdogNext /\ UNCHANGED vars

LifecycleSpec ==
    /\ LifecycleInit /\ [][LifecycleNext]_lifecycle_vars
    /\ Fairness /\ WatchdogFairness
=============================================================================
