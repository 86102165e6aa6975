--------------------------- MODULE ServicePolling ---------------------------
(***************************************************************************)
(* Which services of a FRITZ!Box are asked, and when: task_loop of         *)
(* app/classes/fritzbox/handler.py, query_service_data of its two handlers *)
(* and FritzBoxService of service_handler.py.                              *)
(*                                                                         *)
(* A turn of task_loop asks every service that is due, each in a worker    *)
(* thread, and waits for all of them; the first turn is the discovery,     *)
(* which asks every service and disables what the box refuses.  The        *)
(* session behind a request is the subject of LuaSession, the measurements *)
(* of a turn that of Daemon.                                               *)
(***************************************************************************)
EXTENDS Integers, FiniteSets

CONSTANTS
    Services,
    NumActions,         \* actions of each service
    Interval,           \* request interval of each service
    InitialBackoff,     \* initial_backoff of set_failed_query_now
    MaxBackoff,         \* max_backoff of set_failed_query_now
    FloatExponents,     \* 2^n is a float for n below this: 1024 in CPython
    QueryLimit          \* Semaphore(4) of task_loop

ASSUME PollingAssumption ==
    /\ NumActions \in [Services -> Nat \ {0}]
    /\ Interval \in [Services -> Nat \ {0}]
    /\ InitialBackoff \in Nat \ {0}
    /\ MaxBackoff \in Nat \ {0}
    /\ FloatExponents \in Nat \ {0}
    /\ QueryLimit \in Nat \ {0}

\* A fact of arithmetic, for the exponents the code gets as far as.
ASSUME PowersAssumption == \A n \in 0 .. FloatExponents : 2 ^ n \in Nat

VARIABLES
    handler,            \* "TR069" or "Lua": FritzBoxHandler, FritzBoxLuaHandler
    listed,             \* services the box lists; for Lua, those its version
                        \* and its link allow
    supported,          \* their actions <<s, a>> that work
    healthy,            \* the box answers for good
    pc,                 \* where task_loop is
    discovery_done,
    available,          \* services not disabled
    action_available,   \* actions not disabled
    failure_count,
    wait,               \* time until _next_request_monotonic, 0 if past or None
    pending,            \* services of this turn waiting for the semaphore
    at,                 \* next action of a query that runs, 0 if none does
    successful,         \* running queries with successful_request
    transient,          \* running queries with transient_failure
    streak,             \* failures since the last success, as the box sees them
    since,              \* time since the last query was settled
    last,               \* how it was settled: "never", "ok", "failed", "other"
    refused             \* actions the box has refused during the discovery

schedule == <<failure_count, wait>>
query    == <<at, successful, transient>>
ghosts   == <<streak, since, last, refused>>
found    == <<available, action_available>>
box      == <<handler, listed, supported, healthy>>
vars     == <<box, pc, discovery_done, found, schedule, pending, query, ghosts>>

Actions(s) == {<<s, a>> : a \in 1 .. NumActions[s]}
AllActions == UNION {Actions(s) : s \in Services}
Running    == {s \in Services : at[s] # 0}

\* A service may be listed and have no action that works.
Works(s) == \E action \in Actions(s) : action \in supported

Least(x, y)    == IF x < y THEN x ELSE y
Greatest(x, y) == IF x > y THEN x ELSE y

Init ==
    /\ handler \in {"TR069", "Lua"}
    /\ listed \in SUBSET Services
    /\ supported \in SUBSET UNION {Actions(s) : s \in listed}
    /\ healthy = FALSE
    /\ pc = "select"
    /\ discovery_done = FALSE
    /\ available = Services
    /\ action_available = AllActions
    /\ failure_count = [s \in Services |-> 0]
    /\ wait = [s \in Services |-> 0]
    /\ pending = {}
    /\ at = [s \in Services |-> 0]
    /\ successful = {}
    /\ transient = {}
    /\ streak = [s \in Services |-> 0]
    /\ since = [s \in Services |-> 0]
    /\ last = [s \in Services |-> "never"]
    /\ refused = {}

(***************************************************************************)
(* FritzBoxService                                                         *)
(***************************************************************************)
\* Fault of Recovers: a service that has failed is not asked again.
DueUnlessFailed(s) == s \in available /\ wait[s] = 0 /\ failure_count[s] = 0
should_be_requested(s) == s \in available /\ wait[s] = 0

\* Fault of Survives: a success leaves the count of failures alone.
CountKept(s)    == failure_count[s]
CountCleared(s) == 0

set_last_query_now(s) ==
    /\ failure_count' = [failure_count EXCEPT ![s] = CountCleared(s)]
    /\ wait' = [wait EXCEPT ![s] = Interval[s]]
    /\ streak' = [streak EXCEPT ![s] = 0]
    /\ since' = [since EXCEPT ![s] = 0]
    /\ last' = [last EXCEPT ![s] = "ok"]
    /\ UNCHANGED refused

\* Fault of PacedRequests: the interval is forgotten.
DelayCappedOnly(s, n) == Least(MaxBackoff, InitialBackoff * 2 ^ (n - 1))
Delay(s, n) ==
    Greatest(Interval[s], Least(MaxBackoff, InitialBackoff * 2 ^ (n - 1)))

\* 2 ** (failure_count - 1) is an int of any size, its product with the float
\* initial_backoff is not: OverflowError, after failure_count was incremented.
Overflows(s) == failure_count[s] >= FloatExponents

set_failed_query_now(s) ==
    /\ failure_count' = [failure_count EXCEPT ![s] = @ + 1]
    /\ wait' = IF Overflows(s) THEN wait
               ELSE [wait EXCEPT ![s] = Delay(s, failure_count[s] + 1)]
    /\ streak' = [streak EXCEPT ![s] = @ + 1]
    /\ since' = [since EXCEPT ![s] = 0]
    /\ last' = [last EXCEPT ![s] = "failed"]
    /\ UNCHANGED refused

(***************************************************************************)
(* task_loop                                                               *)
(***************************************************************************)
Select ==
    /\ pc = "select"
    /\ pending' = {s \in Services : ~discovery_done \/ should_be_requested(s)}
    /\ pc' = "query"
    /\ UNCHANGED <<box, discovery_done, found, schedule, query, ghosts>>

\* A thread begins.  query_service_data looks at the schedule once more, but
\* time cannot have made a due service undue.
Start(s) ==
    /\ pc = "query"
    /\ s \in pending
    /\ Cardinality(Running) < QueryLimit
    /\ pending' = pending \ {s}
    /\ at' = [at EXCEPT ![s] = 1]
    /\ UNCHANGED <<box, pc, discovery_done, found, schedule, successful,
                   transient, ghosts>>

\* gather() has all results; they are put on the queue, and the loop sleeps.
Gathered ==
    /\ pc = "query"
    /\ pending = {}
    /\ Running = {}
    /\ discovery_done' = TRUE
    /\ pc' = "sleep"
    /\ UNCHANGED <<box, found, schedule, pending, query, ghosts>>

\* The query's thread ends; what it recorded about its actions is dropped.
Return(s) ==
    /\ at' = [at EXCEPT ![s] = 0]
    /\ successful' = successful \ {s}
    /\ transient' = transient \ {s}

\* _query_service_with_backoff: False from a service that is still enabled
\* delays it, and an exception in that ends gather() and with it task_loop.
BackOff(s) ==
    /\ set_failed_query_now(s)
    /\ pc' = IF Overflows(s) THEN "raised" ELSE pc
    /\ Return(s)

(***************************************************************************)
(* FritzBoxHandler.query_service_data: one step per call_action            *)
(***************************************************************************)
Disabled(s) == discovery_done /\ <<s, at[s]>> \notin action_available

Calling(s) ==
    /\ handler = "TR069"
    /\ at[s] \in 1 .. NumActions[s]
    /\ s \in available

Skip(s) ==
    /\ Calling(s)
    /\ Disabled(s)
    /\ at' = [at EXCEPT ![s] = @ + 1]
    /\ UNCHANGED <<box, pc, discovery_done, found, schedule, pending,
                   successful, transient, ghosts>>

\* The action is called, and the loop goes on with the next one.
Call(s) ==
    /\ Calling(s)
    /\ ~Disabled(s)
    /\ at' = [at EXCEPT ![s] = @ + 1]
    /\ UNCHANGED <<box, pc, discovery_done, pending>>

Succeeds(s) ==
    /\ Call(s)
    /\ <<s, at[s]>> \in supported
    /\ successful' = successful \cup {s}
    /\ set_last_query_now(s)
    /\ UNCHANGED <<found, transient>>

\* FritzServiceError: the box does not list the service.
UnknownService(s) ==
    /\ Call(s)
    /\ s \notin listed
    /\ available' = IF discovery_done THEN available ELSE available \ {s}
    /\ UNCHANGED <<action_available, schedule, successful, transient, ghosts>>

\* The box refuses an action: the discovery disables it.
Without(s) == IF discovery_done THEN action_available
              ELSE action_available \ {<<s, at[s]>>}

Refuse(s) ==
    /\ action_available' = Without(s)
    /\ refused' = IF discovery_done THEN refused ELSE refused \cup {<<s, at[s]>>}
    /\ UNCHANGED <<streak, since, last>>

\* FritzActionError: the service has no such action.
UnknownAction(s) ==
    /\ Call(s)
    /\ s \in listed /\ <<s, at[s]>> \notin supported
    /\ Refuse(s)
    /\ UNCHANGED <<available, schedule, successful, transient>>

\* What a listed action answers that does not work, or not now.
NoResult(s) == s \in listed /\ (<<s, at[s]>> \notin supported \/ ~healthy)

\* UPnP error 820, the box's answer to an action it lists and cannot perform.
Error820(s) ==
    /\ Call(s)
    /\ NoResult(s)
    /\ Refuse(s)
    /\ transient' = IF discovery_done THEN transient \cup {s} ELSE transient
    /\ UNCHANGED <<available, schedule, successful>>

\* Fault of DiscoveryExact: a box that does not answer now never will.
DropsAction(s)  == Without(s)
KeepsAction(s)  == action_available

\* Any other FritzConnectionException.
Unreachable(s) ==
    /\ Call(s)
    /\ NoResult(s)
    /\ transient' = transient \cup {s}
    /\ action_available' = KeepsAction(s)
    /\ UNCHANGED <<available, schedule, successful, ghosts>>

\* A rejected password, an exception of another type, or no result.
Useless(s) ==
    /\ Call(s)
    /\ NoResult(s)
    /\ UNCHANGED <<found, schedule, successful, transient, ghosts>>

\* The loop over the actions is over.  True if any action succeeded, False if
\* one failed in transport, else None, which _query_service_with_backoff ignores.
NoActionLeft(s) ==
    ~discovery_done /\ Actions(s) \cap action_available = {}

Settles(s) ==
    IF s \in successful
    THEN Return(s) /\ UNCHANGED <<pc, schedule, ghosts>>
    ELSE IF s \in transient /\ s \in available'
    THEN BackOff(s)
    ELSE /\ Return(s)
         /\ since' = [since EXCEPT ![s] = 0]
         /\ last' = [last EXCEPT ![s] = "other"]
         /\ UNCHANGED <<pc, schedule, streak, refused>>

Finish(s) ==
    /\ handler = "TR069"
    /\ at[s] # 0
    /\ at[s] > NumActions[s] \/ s \notin available
    /\ available' = IF NoActionLeft(s) THEN available \ {s} ELSE available
    /\ Settles(s)
    /\ UNCHANGED <<box, discovery_done, action_available, pending>>

(***************************************************************************)
(* FritzBoxLuaHandler.query_service_data: one request per service          *)
(***************************************************************************)
LuaQuery(s) ==
    /\ handler = "Lua"
    /\ at[s] # 0
    /\ UNCHANGED <<box, discovery_done, action_available, pending>>

\* The versions of Fritz!OS or the link type rule the service out.
Incompatible(s) ==
    /\ LuaQuery(s)
    /\ ~discovery_done /\ s \notin listed
    /\ available' = available \ {s}
    /\ Return(s)
    /\ UNCHANGED <<pc, schedule, ghosts>>

LuaSucceeds(s) ==
    /\ LuaQuery(s)
    /\ Works(s)
    /\ set_last_query_now(s)
    /\ Return(s)
    /\ UNCHANGED <<pc, available>>

\* request() returned None, whatever the reason.
LuaFails(s) ==
    /\ LuaQuery(s)
    /\ s \in listed /\ (~Works(s) \/ ~healthy)
    /\ BackOff(s)
    /\ UNCHANGED available

Query(s) ==
    \/ Start(s) \/ Skip(s) \/ Finish(s)
    \/ Succeeds(s) \/ UnknownService(s) \/ UnknownAction(s) \/ Error820(s)
    \/ Unreachable(s) \/ Useless(s)
    \/ Incompatible(s) \/ LuaSucceeds(s) \/ LuaFails(s)

(***************************************************************************)
(* The box and the clock                                                   *)
(***************************************************************************)
\* Whatever works answers every request from now on.
Recover ==
    /\ ~healthy
    /\ healthy' = TRUE
    /\ UNCHANGED <<handler, listed, supported, pc, discovery_done, found, schedule,
                   pending, query, ghosts>>

\* Bound of since: no delay is longer.
Longest(s) == Greatest(Interval[s], MaxBackoff)

Tick ==
    /\ pc # "select"
    /\ pc' = IF pc = "sleep" THEN "select" ELSE pc
    /\ wait' = [s \in Services |-> Greatest(wait[s] - 1, 0)]
    /\ since' = [s \in Services |-> Least(since[s] + 1, Longest(s))]
    /\ UNCHANGED <<box, discovery_done, found, failure_count, pending, query,
                   streak, last, refused>>

Next ==
    \/ Select \/ Gathered \/ Recover \/ Tick
    \/ \E s \in Services : Query(s)

Spec == Init /\ [][Next]_vars

\* Every request ends, by an answer or by its timeout; the loop runs on.
FairSpec ==
    /\ Spec
    /\ WF_vars(Select) /\ WF_vars(Gathered) /\ WF_vars(Tick)
    /\ \A s \in Services : WF_vars(Query(s))

(***************************************************************************)
(* Properties                                                              *)
(***************************************************************************)
\* No service waits longer than its interval or max_backoff, whichever is more.
TypeOK ==
    /\ handler \in {"TR069", "Lua"}
    /\ listed \subseteq Services
    /\ supported \subseteq AllActions
    /\ healthy \in BOOLEAN
    /\ pc \in {"select", "query", "sleep", "raised"}
    /\ discovery_done \in BOOLEAN
    /\ available \subseteq Services
    /\ action_available \subseteq AllActions
    /\ failure_count \in [Services -> 0 .. FloatExponents + 1]
    /\ wait \in [Services -> Nat]
    /\ \A s \in Services : wait[s] <= Longest(s)
    /\ pending \subseteq Services
    /\ at \in [Services -> Nat]
    /\ \A s \in Services : at[s] <= NumActions[s] + 1
    /\ successful \subseteq Running
    /\ transient \subseteq Running
    /\ streak \in [Services -> Nat]
    /\ since \in [Services -> Nat]
    /\ last \in [Services -> {"never", "ok", "failed", "other"}]
    /\ refused \subseteq AllActions

\* The first turn disables for good the services the box does not list and those
\* it refused every action of, and no others: a request that timed out, or was
\* answered in any other way, costs no service and no action.  A service none of
\* whose actions works therefore stays if one of them timed out, and a service
\* that works is lost if the box happened to refuse each of its actions.
DiscoveryExact ==
    /\ action_available = AllActions \ refused
    /\ discovery_done =>
          available = {s \in listed : ~(Actions(s) \subseteq refused)}

\* "A FritzBox service that keeps failing is now automatically backed off with
\* an increasing delay" (CHANGELOG.md): how long the box is left alone after a
\* success, and after a number of transport failures in a row.
Pace(s) ==
    CASE last[s] = "ok" -> Interval[s]
      [] last[s] = "failed" ->
            Greatest(Interval[s],
                     Least(MaxBackoff, InitialBackoff * 2 ^ (streak[s] - 1)))
      [] OTHER -> 0

PacedRequests ==
    [][\A s \in Services : at[s] = 0 /\ at'[s] # 0 => since[s] >= Pace(s)]_vars

\* Only failures in a row, without a success between them, can end the task.
Survives == pc = "raised" => \E s \in Services : streak[s] > FloatExponents

\* Once the box answers again, every service with an action that works and was
\* not refused during the discovery is soon up to date and stays so, however long
\* it failed; short of the end of the task.
Recovers ==
    \A s \in Services :
        <>[](healthy /\ ~(Actions(s) \cap supported \subseteq refused)
                => last[s] = "ok" \/ pc = "raised")
=============================================================================
