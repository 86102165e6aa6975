------------------------ MODULE ServicePollingProofs ------------------------
(***************************************************************************)
(* Proofs about module ServicePolling, for any services, actions,          *)
(* intervals and limits.                                                   *)
(***************************************************************************)
EXTENDS ServicePolling, TLAPS

\* What the provers need to know of each variable's type.
Typed ==
    /\ handler \in {"TR069", "Lua"}
    /\ listed \subseteq Services
    /\ supported \subseteq UNION {Actions(s) : s \in listed}
    /\ healthy \in BOOLEAN
    /\ pc \in {"select", "query", "sleep", "raised"}
    /\ discovery_done \in BOOLEAN
    /\ available \subseteq Services
    /\ action_available \subseteq AllActions
    /\ failure_count \in [Services -> Nat]
    /\ wait \in [Services -> Nat]
    /\ pending \subseteq Services
    /\ at \in [Services -> Nat]
    /\ \A s \in Services : at[s] <= NumActions[s] + 1
    /\ streak \in [Services -> Nat]
    /\ since \in [Services -> Nat]
    /\ last \in [Services -> {"never", "ok", "failed", "other"}]
    /\ refused \subseteq AllActions

\* A query waits or runs in its own turn only, and never does both; what it
\* has recorded is gone when it ends.
Turn ==
    /\ pc \in {"select", "sleep"} => pending = {} /\ at = [s \in Services |-> 0]
    /\ pc = "sleep" => discovery_done
    /\ pc = "select" /\ ~discovery_done => wait = [s \in Services |-> 0]
    /\ \A s \in pending : at[s] = 0 /\ wait[s] = 0
    /\ successful \subseteq {s \in Services : at[s] # 0}
    /\ transient \subseteq {s \in Services : at[s] # 0}

\* The discovery has not begun with a service, or is through with it.
Untouched(s) == ~discovery_done /\ (pc = "select" \/ s \in pending)
Settled(s)   == discovery_done \/ (pc # "select" /\ s \notin pending /\ at[s] = 0)

\* A service the box does not list is enabled until its first request; one it
\* lists, until the end of a query after which each of its actions is refused.
FoundOf(s) ==
    /\ Untouched(s) => s \in available
    /\ ~discovery_done /\ at[s] # 0 =>
          IF s \in listed THEN s \in available
          ELSE s \notin available \/ at[s] = 1
    /\ Settled(s) =>
          (s \in available <=> s \in listed /\ ~(Actions(s) \subseteq refused))

Found ==
    /\ action_available = AllActions \ refused
    /\ handler = "Lua" => refused = {}
    /\ \A s \in Services : FoundOf(s)

\* failure_count is the length of the current row of failures; it exceeds the
\* floats only in a query that has ended the task, and no query starts after it.
Counted ==
    /\ failure_count = streak
    /\ \A s \in Services :
          /\ streak[s] <= FloatExponents + 1
          /\ streak[s] = FloatExponents + 1 => pc = "raised" /\ at[s] = 0
    /\ pc = "raised" => \E s \in Services : streak[s] > FloatExponents
    /\ \A s \in Services : last[s] = "failed" => streak[s] > 0

\* The time a service has waited and the time it still has to wait make up its
\* pace, as long as the task lives.
Paced ==
    /\ pc # "raised" => \A s \in Services : since[s] + wait[s] >= Pace(s)
    /\ \A s \in Services : wait[s] <= Longest(s)

PollingInv == Typed /\ Turn /\ Found /\ Counted /\ Paced

\* The backoff computed before the float overflow is a natural number between
\* the interval and the longest delay.
LEMMA DelayBounded ==
    ASSUME PollingAssumption, PowersAssumption,
           NEW s \in Services, NEW n \in 1 .. FloatExponents
    PROVE  /\ Delay(s, n) \in Nat
           /\ Delay(s, n) <= Longest(s)
           /\ Longest(s) \in Nat
           /\ Interval[s] <= Longest(s)
<1> DEFINE e == 2 ^ (n - 1)
<1>1. n - 1 \in 0 .. FloatExponents
  BY DEF PollingAssumption
<1>2. e \in Nat
  BY <1>1 DEF PowersAssumption
<1>3. InitialBackoff * e \in Nat
  BY <1>2 DEF PollingAssumption
<1>4. Interval[s] \in Nat /\ MaxBackoff \in Nat
  BY DEF PollingAssumption
<1>5. Delay(s, n) = Greatest(Interval[s], Least(MaxBackoff, InitialBackoff * e))
  BY DEF Delay
<1> HIDE DEF e
<1> QED  BY <1>3, <1>4, <1>5 DEF Greatest, Least, Longest

\* The actions of a service are its own, and there is one.
LEMMA OwnActions ==
    ASSUME PollingAssumption, NEW s \in Services
    PROVE  /\ <<s, 1>> \in Actions(s)
           /\ Actions(s) \subseteq AllActions
           /\ \A p \in Actions(s) : p[1] = s
           /\ \A r \in Services, n \in Nat : <<r, n>> \in Actions(s) => r = s
BY DEF PollingAssumption, Actions, AllActions

\* An action that works is one of a service the box lists.
LEMMA SupportedListed ==
    ASSUME Typed, NEW s \in Services, NEW action \in Actions(s),
           action \in supported
    PROVE  s \in listed
<1>1. PICK r \in listed : action \in Actions(r)
  BY DEF Typed
<1> QED  BY <1>1 DEF Actions

\* A failure that does not overflow sets a delay between the interval and the
\* longest one; before it, the count is one of a float exponent.
LEMMA BackOffTyped ==
    ASSUME PollingAssumption, PowersAssumption, Typed, Counted,
           NEW s \in Services, BackOff(s), at[s] # 0
    PROVE  /\ failure_count[s] \in 0 .. FloatExponents
           /\ ~Overflows(s) =>
                 /\ Delay(s, failure_count[s] + 1) \in Nat
                 /\ Delay(s, failure_count[s] + 1) <= Longest(s)
           /\ wait' \in [Services -> Nat]
<1>1. failure_count[s] \in 0 .. FloatExponents
  BY DEF Typed, Counted, PollingAssumption
<1>2. ~Overflows(s) =>
        /\ Delay(s, failure_count[s] + 1) \in Nat
        /\ Delay(s, failure_count[s] + 1) <= Longest(s)
  <2> SUFFICES ASSUME ~Overflows(s)
               PROVE  /\ Delay(s, failure_count[s] + 1) \in Nat
                      /\ Delay(s, failure_count[s] + 1) <= Longest(s)
    OBVIOUS
  <2>1. failure_count[s] + 1 \in 1 .. FloatExponents
    BY <1>1 DEF Overflows, PollingAssumption
  <2> QED  BY <2>1, DelayBounded
<1>3. wait' = IF Overflows(s) THEN wait
              ELSE [wait EXCEPT ![s] = Delay(s, failure_count[s] + 1)]
  BY DEF BackOff, set_failed_query_now
<1> QED  BY <1>1, <1>2, <1>3 DEF Typed

\* Every step keeps the types.
LEMMA TypedStep ==
    ASSUME PollingAssumption, PowersAssumption
    PROVE  PollingInv /\ [Next]_vars => Typed'
<1> SUFFICES ASSUME Typed, Counted, [Next]_vars  PROVE Typed'
  BY DEF PollingInv
<1> USE DEF Typed, box, found, schedule, query, ghosts
<1>1. CASE Select
  BY <1>1 DEF Select
<1>2. CASE Gathered
  BY <1>2 DEF Gathered
<1>3. CASE Recover
  BY <1>3 DEF Recover
<1>4. CASE Tick
  BY <1>4 DEF Tick, Greatest, Least, Longest, PollingAssumption
<1>5. CASE \E s \in Services : Start(s)
  BY <1>5 DEF Start
<1>6. CASE \E s \in Services : Skip(s)
  BY <1>6 DEF Skip, Calling, Disabled
<1>7. CASE \E s \in Services : Finish(s)
  <2> PICK s \in Services : Finish(s)
    BY <1>7
  <2>1. CASE BackOff(s)
    <3>1. wait' \in [Services -> Nat]
      BY <2>1, BackOffTyped DEF Finish
    <3> QED  BY <2>1, <3>1 DEF Finish, BackOff, Return, set_failed_query_now
  <2>2. CASE ~BackOff(s)
    BY <2>2 DEF Finish, Settles, Return
  <2> QED  BY <2>1, <2>2
<1>8. CASE \E s \in Services : Succeeds(s)
  BY <1>8 DEF Succeeds, Call, Calling, set_last_query_now, CountCleared
<1>9. CASE \E s \in Services : UnknownService(s)
  BY <1>9 DEF UnknownService, Call, Calling
<1>10. CASE \E s \in Services : UnknownAction(s)
  BY <1>10 DEF UnknownAction, Call, Calling, Without, Refuse, Actions, AllActions
<1>11. CASE \E s \in Services : Error820(s)
  BY <1>11 DEF Error820, Call, Calling, Without, Refuse, Actions, AllActions
<1>12. CASE \E s \in Services : Unreachable(s)
  BY <1>12 DEF Unreachable, Call, Calling, KeepsAction
<1>13. CASE \E s \in Services : Useless(s)
  BY <1>13 DEF Useless, Call, Calling
<1>14. CASE \E s \in Services : Incompatible(s)
  BY <1>14 DEF Incompatible, LuaQuery, Return
<1>15. CASE \E s \in Services : LuaSucceeds(s)
  BY <1>15 DEF LuaSucceeds, LuaQuery, Return, set_last_query_now, CountCleared
<1>16. CASE \E s \in Services : LuaFails(s)
  <2> PICK s \in Services : LuaFails(s)
    BY <1>16
  <2>1. BackOff(s)
    BY DEF LuaFails
  <2>2. wait' \in [Services -> Nat]
    BY <2>1, BackOffTyped DEF LuaFails, LuaQuery
  <2> QED
    BY <2>1, <2>2 DEF LuaFails, LuaQuery, BackOff, Return, set_failed_query_now
<1>17. CASE UNCHANGED vars
  BY <1>17 DEF vars
<1> QED
  BY <1>1, <1>2, <1>3, <1>4, <1>5, <1>6, <1>7, <1>8,
     <1>9, <1>10, <1>11, <1>12, <1>13, <1>14, <1>15, <1>16, <1>17
  DEF Next, Query

\* Every step keeps queries to their turn.
LEMMA TurnStep ==
    ASSUME PollingAssumption, PowersAssumption
    PROVE  PollingInv /\ [Next]_vars => Turn'
<1> SUFFICES ASSUME Typed, Turn, [Next]_vars  PROVE Turn'
  BY DEF PollingInv
<1> USE DEF Typed, Turn, box, found, schedule, query, ghosts
<1>1. CASE Select
  BY <1>1 DEF Select, should_be_requested
<1>2. CASE Gathered
  BY <1>2 DEF Gathered, Running
<1>3. CASE Recover
  BY <1>3 DEF Recover
<1>4. CASE Tick
  BY <1>4 DEF Tick, Greatest, Least, Longest
<1>5. CASE \E s \in Services : Start(s)
  BY <1>5 DEF Start
<1>6. CASE \E s \in Services : Skip(s)
  BY <1>6 DEF Skip, Calling, Disabled
<1>7. CASE \E s \in Services : Finish(s)
  BY <1>7 DEF Finish, Settles, BackOff, Return, set_failed_query_now
<1>8. CASE \E s \in Services : Succeeds(s)
  BY <1>8 DEF Succeeds, Call, Calling, set_last_query_now, CountCleared
<1>9. CASE \E s \in Services : UnknownService(s)
  BY <1>9 DEF UnknownService, Call, Calling
<1>10. CASE \E s \in Services : UnknownAction(s)
  BY <1>10 DEF UnknownAction, Call, Calling, Without, Refuse
<1>11. CASE \E s \in Services : Error820(s)
  BY <1>11 DEF Error820, Call, Calling, Without, Refuse
<1>12. CASE \E s \in Services : Unreachable(s)
  BY <1>12 DEF Unreachable, Call, Calling, KeepsAction
<1>13. CASE \E s \in Services : Useless(s)
  BY <1>13 DEF Useless, Call, Calling
<1>14. CASE \E s \in Services : Incompatible(s)
  BY <1>14 DEF Incompatible, LuaQuery, Return
<1>15. CASE \E s \in Services : LuaSucceeds(s)
  BY <1>15 DEF LuaSucceeds, LuaQuery, Return, set_last_query_now, CountCleared
<1>16. CASE \E s \in Services : LuaFails(s)
  BY <1>16 DEF LuaFails, LuaQuery, BackOff, Return, set_failed_query_now
<1>17. CASE UNCHANGED vars
  BY <1>17 DEF vars
<1> QED
  BY <1>1, <1>2, <1>3, <1>4, <1>5, <1>6, <1>7, <1>8,
     <1>9, <1>10, <1>11, <1>12, <1>13, <1>14, <1>15, <1>16, <1>17
  DEF Next, Query

\* A step of a running query decides about its own service only.
LEMMA QueryFound ==
    ASSUME PollingAssumption, Typed, Turn, Found,
           NEW s \in Services, at[s] # 0,
           NEW n \in Nat, at' = [at EXCEPT ![s] = n],
           UNCHANGED <<listed, discovery_done, pending>>,
           pc' \in {pc, "raised"},
           available' \in {available, available \ {s}},
           refused' \in {refused, refused \cup {<<s, at[s]>>}},
           discovery_done => available' = available /\ refused' = refused,
           ~discovery_done /\ n # 0 =>
              IF s \in listed THEN s \in available'
              ELSE s \notin available' \/ n = 1,
           ~discovery_done /\ n = 0 =>
              (s \in available' <=> s \in listed /\ ~(Actions(s) \subseteq refused'))
    PROVE  \A r \in Services : FoundOf(r)'
<1> SUFFICES ASSUME NEW r \in Services  PROVE FoundOf(r)'
  OBVIOUS
<1>1. pc \notin {"select", "sleep"} /\ s \notin pending /\ at'[s] = n
  BY DEF Turn, Typed
<1>2. CASE discovery_done
  BY <1>2 DEF FoundOf, Found, Untouched, Settled
<1>3. CASE ~discovery_done /\ r = s
  BY <1>1, <1>3 DEF FoundOf, Untouched, Settled
<1>4. CASE ~discovery_done /\ r # s
  <2>1. at'[r] = at[r] /\ (r \in available' <=> r \in available)
    BY <1>4 DEF Typed
  <2>2. Actions(r) \subseteq refused' <=> Actions(r) \subseteq refused
    <3>1. at[s] \in Nat
      BY DEF Typed
    <3>2. <<s, at[s]>> \notin Actions(r)
      BY <1>4, <3>1, OwnActions
    <3> QED  BY <3>2
  <2>3. FoundOf(r)
    BY DEF Found
  <2> QED  BY <1>1, <1>4, <2>1, <2>2, <2>3 DEF FoundOf, Untouched, Settled
<1> QED  BY <1>2, <1>3, <1>4

\* Every step keeps the account of what the box has refused.
LEMMA FoundStep ==
    ASSUME PollingAssumption, PowersAssumption
    PROVE  PollingInv /\ [Next]_vars => Found'
<1> SUFFICES ASSUME Typed, Turn, Found, [Next]_vars  PROVE Found'
  BY DEF PollingInv
<1>a. \A s \in Services : FoundOf(s)
  BY DEF Found
<1> USE DEF Typed, Turn, Found, box, found, schedule, query, ghosts
<1>1. CASE Select
  BY <1>1 DEF Select, FoundOf, Untouched, Settled
<1>2. CASE Gathered
  BY <1>2 DEF Gathered, Running, FoundOf, Untouched, Settled
<1>3. CASE Recover
  BY <1>3 DEF Recover, FoundOf, Untouched, Settled
<1>4. CASE Tick
  BY <1>4 DEF Tick, FoundOf, Untouched, Settled
<1>5. CASE \E s \in Services : Start(s)
  BY <1>5 DEF Start, FoundOf, Untouched, Settled
<1>6. CASE \E s \in Services : Skip(s)
  BY <1>6 DEF Skip, Calling, Disabled, FoundOf, Untouched, Settled
<1>7. CASE \E s \in Services : Finish(s)
  <2> PICK s \in Services : Finish(s)
    BY <1>7
  <2>1. ~discovery_done => (NoActionLeft(s) <=> Actions(s) \subseteq refused)
    <3>1. Actions(s) \subseteq AllActions
      BY OwnActions
    <3> QED  BY <3>1 DEF NoActionLeft
  <2>2. /\ available' = IF NoActionLeft(s) THEN available \ {s} ELSE available
        /\ at' = [at EXCEPT ![s] = 0]
        /\ UNCHANGED <<listed, handler, pending, discovery_done,
                       action_available, refused>>
        /\ pc' \in {pc, "raised"}
    BY DEF Finish, Settles, BackOff, Return, set_failed_query_now
  <2>3. ~discovery_done => (s \in available <=> s \in listed)
    BY <1>a DEF Finish, FoundOf, PollingAssumption
  <2>4. discovery_done => ~NoActionLeft(s)
    BY DEF NoActionLeft
  <2>5. at[s] # 0
    BY DEF Finish
  <2>6. \A r \in Services : FoundOf(r)'
    BY <2>1, <2>2, <2>3, <2>4, <2>5, QueryFound
  <2> QED  BY <2>2, <2>6
<1>8. CASE \E s \in Services : Succeeds(s)
  <2> PICK s \in Services : Succeeds(s)
    BY <1>8
  <2>1. s \in listed
    BY SupportedListed DEF Succeeds, Call, Calling, Actions
  <2>2. refused' = refused /\ action_available' = action_available
    BY DEF Succeeds, Call, Calling, set_last_query_now, CountCleared
  <2>3. /\ at' = [at EXCEPT ![s] = at[s] + 1] /\ at[s] # 0
        /\ at[s] + 1 \in Nat \ {0}
        /\ UNCHANGED <<listed, handler, pending, discovery_done, pc>>
        /\ handler = "TR069" /\ s \in available
        /\ available' = available
    BY DEF Succeeds, Call, Calling, set_last_query_now, CountCleared
  <2>4. \A r \in Services : FoundOf(r)'
    BY <2>1, <2>2, <2>3, QueryFound
  <2> QED  BY <2>2, <2>3, <2>4
<1>9. CASE \E s \in Services : UnknownService(s)
  <2> PICK s \in Services : UnknownService(s)
    BY <1>9
  <2>1. /\ s \notin listed
        /\ available' = IF discovery_done THEN available ELSE available \ {s}
    BY DEF UnknownService
  <2>2. refused' = refused /\ action_available' = action_available
    BY DEF UnknownService, Call, Calling
  <2>3. /\ at' = [at EXCEPT ![s] = at[s] + 1] /\ at[s] # 0
        /\ at[s] + 1 \in Nat \ {0}
        /\ UNCHANGED <<listed, handler, pending, discovery_done, pc>>
        /\ handler = "TR069" /\ s \in available
    BY DEF UnknownService, Call, Calling
  <2>4. \A r \in Services : FoundOf(r)'
    BY <2>1, <2>2, <2>3, QueryFound
  <2> QED  BY <2>2, <2>3, <2>4
<1>10. CASE \E s \in Services : UnknownAction(s)
  <2> PICK s \in Services : UnknownAction(s)
    BY <1>10
  <2>1. s \in listed
    BY DEF UnknownAction, NoResult
  <2>2. /\ refused' = IF discovery_done THEN refused
                      ELSE refused \cup {<<s, at[s]>>}
        /\ action_available' = IF discovery_done THEN action_available
                               ELSE action_available \ {<<s, at[s]>>}
        /\ available' = available
    BY DEF UnknownAction, Refuse, Without
  <2>3. /\ at' = [at EXCEPT ![s] = at[s] + 1] /\ at[s] # 0
        /\ at[s] + 1 \in Nat \ {0}
        /\ UNCHANGED <<listed, handler, pending, discovery_done, pc>>
        /\ handler = "TR069" /\ s \in available
    BY DEF UnknownAction, Call, Calling, Without, Refuse
  <2>4. \A r \in Services : FoundOf(r)'
    BY <2>1, <2>2, <2>3, QueryFound
  <2> QED  BY <2>2, <2>3, <2>4
<1>11. CASE \E s \in Services : Error820(s)
  <2> PICK s \in Services : Error820(s)
    BY <1>11
  <2>1. s \in listed
    BY DEF Error820, NoResult
  <2>2. /\ refused' = IF discovery_done THEN refused
                      ELSE refused \cup {<<s, at[s]>>}
        /\ action_available' = IF discovery_done THEN action_available
                               ELSE action_available \ {<<s, at[s]>>}
        /\ available' = available
    BY DEF Error820, Refuse, Without
  <2>3. /\ at' = [at EXCEPT ![s] = at[s] + 1] /\ at[s] # 0
        /\ at[s] + 1 \in Nat \ {0}
        /\ UNCHANGED <<listed, handler, pending, discovery_done, pc>>
        /\ handler = "TR069" /\ s \in available
    BY DEF Error820, Call, Calling, NoResult, Without, Refuse
  <2>4. \A r \in Services : FoundOf(r)'
    BY <2>1, <2>2, <2>3, QueryFound
  <2> QED  BY <2>2, <2>3, <2>4
<1>12. CASE \E s \in Services : Unreachable(s)
  <2> PICK s \in Services : Unreachable(s)
    BY <1>12
  <2>1. s \in listed
    BY DEF Unreachable, NoResult
  <2>2. refused' = refused /\ action_available' = action_available
    BY DEF Unreachable, Call, Calling, NoResult, KeepsAction
  <2>3. /\ at' = [at EXCEPT ![s] = at[s] + 1] /\ at[s] # 0
        /\ at[s] + 1 \in Nat \ {0}
        /\ UNCHANGED <<listed, handler, pending, discovery_done, pc>>
        /\ handler = "TR069" /\ s \in available
        /\ available' = available
    BY DEF Unreachable, Call, Calling, NoResult, KeepsAction
  <2>4. \A r \in Services : FoundOf(r)'
    BY <2>1, <2>2, <2>3, QueryFound
  <2> QED  BY <2>2, <2>3, <2>4
<1>13. CASE \E s \in Services : Useless(s)
  <2> PICK s \in Services : Useless(s)
    BY <1>13
  <2>1. s \in listed
    BY DEF Useless, NoResult
  <2>2. refused' = refused /\ action_available' = action_available
    BY DEF Useless, Call, Calling, NoResult
  <2>3. /\ at' = [at EXCEPT ![s] = at[s] + 1] /\ at[s] # 0
        /\ at[s] + 1 \in Nat \ {0}
        /\ UNCHANGED <<listed, handler, pending, discovery_done, pc>>
        /\ handler = "TR069" /\ s \in available
        /\ available' = available
    BY DEF Useless, Call, Calling, NoResult
  <2>4. \A r \in Services : FoundOf(r)'
    BY <2>1, <2>2, <2>3, QueryFound
  <2> QED  BY <2>2, <2>3, <2>4
<1>14. CASE \E s \in Services : Incompatible(s)
  <2> PICK s \in Services : Incompatible(s)
    BY <1>14
  <2>1. s \notin listed /\ available' = available \ {s} /\ ~discovery_done
    BY DEF Incompatible
  <2>2. /\ at' = [at EXCEPT ![s] = 0] /\ at[s] # 0
        /\ UNCHANGED <<listed, handler, pending, discovery_done, refused,
                       action_available>>
        /\ handler = "Lua" /\ pc' \in {pc, "raised"}
    BY DEF Incompatible, LuaQuery, Return
  <2>3. refused = {} /\ ~(Actions(s) \subseteq refused)
    BY <2>2, OwnActions
  <2>4. ~discovery_done /\ s \in listed => s \in available
    BY <1>a, <2>2 DEF FoundOf
  <2>5. \A r \in Services : FoundOf(r)'
    BY <2>1, <2>2, <2>3, <2>4, QueryFound
  <2> QED  BY <2>2, <2>5
<1>15. CASE \E s \in Services : LuaSucceeds(s)
  <2> PICK s \in Services : LuaSucceeds(s)
    BY <1>15
  <2>1. s \in listed /\ available' = available
    BY SupportedListed DEF LuaSucceeds, Works
  <2>2. /\ at' = [at EXCEPT ![s] = 0] /\ at[s] # 0
        /\ UNCHANGED <<listed, handler, pending, discovery_done, refused,
                       action_available>>
        /\ handler = "Lua" /\ pc' \in {pc, "raised"}
    BY DEF LuaSucceeds, LuaQuery, Return, set_last_query_now, CountCleared
  <2>3. refused = {} /\ ~(Actions(s) \subseteq refused)
    BY <2>2, OwnActions
  <2>4. ~discovery_done /\ s \in listed => s \in available
    BY <1>a, <2>2 DEF FoundOf
  <2>5. \A r \in Services : FoundOf(r)'
    BY <2>1, <2>2, <2>3, <2>4, QueryFound
  <2> QED  BY <2>2, <2>5
<1>16. CASE \E s \in Services : LuaFails(s)
  <2> PICK s \in Services : LuaFails(s)
    BY <1>16
  <2>1. s \in listed /\ available' = available
    BY DEF LuaFails
  <2>2. /\ at' = [at EXCEPT ![s] = 0] /\ at[s] # 0
        /\ UNCHANGED <<listed, handler, pending, discovery_done, refused,
                       action_available>>
        /\ handler = "Lua" /\ pc' \in {pc, "raised"}
    BY DEF LuaFails, LuaQuery, Return, BackOff, set_failed_query_now
  <2>3. refused = {} /\ ~(Actions(s) \subseteq refused)
    BY <2>2, OwnActions
  <2>4. ~discovery_done /\ s \in listed => s \in available
    BY <1>a, <2>2 DEF FoundOf
  <2>5. \A r \in Services : FoundOf(r)'
    BY <2>1, <2>2, <2>3, <2>4, QueryFound
  <2> QED  BY <2>2, <2>5
<1>17. CASE UNCHANGED vars
  BY <1>17 DEF vars, FoundOf, Untouched, Settled
<1> QED
  BY <1>1, <1>2, <1>3, <1>4, <1>5, <1>6, <1>7, <1>8,
     <1>9, <1>10, <1>11, <1>12, <1>13, <1>14, <1>15, <1>16, <1>17
  DEF Next, Query

\* Every step keeps the count of failures in a row.
LEMMA CountedStep ==
    ASSUME PollingAssumption, PowersAssumption
    PROVE  PollingInv /\ [Next]_vars => Counted'
<1> SUFFICES ASSUME Typed, Turn, Counted, [Next]_vars  PROVE Counted'
  BY DEF PollingInv
<1> USE DEF Typed, Turn, Counted, box, found, schedule, query, ghosts, PollingAssumption
<1>1. CASE Select
  BY <1>1 DEF Select
<1>2. CASE Gathered
  BY <1>2 DEF Gathered
<1>3. CASE Recover
  BY <1>3 DEF Recover
<1>4. CASE Tick
  BY <1>4 DEF Tick, Greatest, Least
<1>5. CASE \E s \in Services : Start(s)
  BY <1>5 DEF Start
<1>6. CASE \E s \in Services : Skip(s)
  BY <1>6 DEF Skip, Calling, Disabled
<1>7. CASE \E s \in Services : Finish(s)
  BY <1>7 DEF Finish, Settles, BackOff, Return, set_failed_query_now, Overflows
<1>8. CASE \E s \in Services : Succeeds(s)
  BY <1>8 DEF Succeeds, Call, Calling, set_last_query_now, CountCleared
<1>9. CASE \E s \in Services : UnknownService(s)
  BY <1>9 DEF UnknownService, Call, Calling
<1>10. CASE \E s \in Services : UnknownAction(s)
  BY <1>10 DEF UnknownAction, Call, Calling, Without, Refuse
<1>11. CASE \E s \in Services : Error820(s)
  BY <1>11 DEF Error820, Call, Calling, Without, Refuse
<1>12. CASE \E s \in Services : Unreachable(s)
  BY <1>12 DEF Unreachable, Call, Calling, KeepsAction
<1>13. CASE \E s \in Services : Useless(s)
  BY <1>13 DEF Useless, Call, Calling
<1>14. CASE \E s \in Services : Incompatible(s)
  BY <1>14 DEF Incompatible, LuaQuery, Return
<1>15. CASE \E s \in Services : LuaSucceeds(s)
  BY <1>15 DEF LuaSucceeds, LuaQuery, Return, set_last_query_now, CountCleared
<1>16. CASE \E s \in Services : LuaFails(s)
  BY <1>16 DEF LuaFails, LuaQuery, BackOff, Return, set_failed_query_now, Overflows
<1>17. CASE UNCHANGED vars
  BY <1>17 DEF vars
<1> QED
  BY <1>1, <1>2, <1>3, <1>4, <1>5, <1>6, <1>7, <1>8,
     <1>9, <1>10, <1>11, <1>12, <1>13, <1>14, <1>15, <1>16, <1>17
  DEF Next, Query

\* Pace depends on what a query recorded.
LEMMA PaceOf ==
    ASSUME NEW s \in Services
    PROVE  /\ last[s] = "ok" => Pace(s) = Interval[s]
           /\ last[s] = "failed" => Pace(s) = Delay(s, streak[s])
           /\ last[s] \in {"never", "other"} => Pace(s) = 0
           /\ last'[s] = "ok" => Pace(s)' = Interval[s]
           /\ last'[s] = "failed" => Pace(s)' = Delay(s, streak'[s])
           /\ last'[s] \in {"never", "other"} => Pace(s)' = 0
BY DEF Pace, Delay

\* No pace is longer than the longest delay.
LEMMA PaceBounded ==
    ASSUME PollingAssumption, PowersAssumption, Typed, Counted, pc # "raised",
           NEW s \in Services
    PROVE  Pace(s) \in Nat /\ Pace(s) <= Longest(s)
<1>1. CASE last[s] = "ok"
  BY <1>1, PaceOf, DelayBounded, 1 \in 1 .. FloatExponents DEF PollingAssumption
<1>2. CASE last[s] = "failed"
  <2>1. streak[s] \in 1 .. FloatExponents
    BY <1>2 DEF Typed, Counted, PollingAssumption
  <2> QED  BY <1>2, <2>1, PaceOf, DelayBounded
<1>3. CASE last[s] \in {"never", "other"}
  BY <1>3, PaceOf, DelayBounded, 1 \in 1 .. FloatExponents DEF PollingAssumption
<1> QED  BY <1>1, <1>2, <1>3 DEF Typed

\* Every step keeps the sum of the time waited and the time left at the pace.
LEMMA PacedStep ==
    ASSUME PollingAssumption, PowersAssumption
    PROVE  PollingInv /\ [Next]_vars => Paced'
<1> SUFFICES ASSUME Typed, Turn, Counted, Paced, [Next]_vars  PROVE Paced'
  BY DEF PollingInv
<1> USE DEF box, found, schedule, query, ghosts
<1>a. ASSUME UNCHANGED <<since, wait, last, streak>>,
             pc = "raised" => pc' = "raised"
      PROVE  Paced'
  BY <1>a DEF Paced, Pace
<1>b. ASSUME NEW s \in Services, set_last_query_now(s), pc' = pc
      PROVE  Paced'
  <2> SUFFICES ASSUME NEW r \in Services
               PROVE  /\ pc' # "raised" => since'[r] + wait'[r] >= Pace(r)'
                      /\ wait'[r] <= Longest(r)
    BY DEF Paced
  <2>1. CASE r = s
    <3>1. /\ since'[r] = 0 /\ wait'[r] = Interval[r] /\ last'[r] = "ok"
      BY <1>b, <2>1 DEF Typed, set_last_query_now
    <3>2. Interval[r] \in Nat /\ Interval[r] <= Longest(r)
      BY DelayBounded, 1 \in 1 .. FloatExponents DEF PollingAssumption
    <3> QED  BY <3>1, <3>2, PaceOf
  <2>2. CASE r # s
    BY <1>b, <2>2 DEF Typed, Paced, Pace, set_last_query_now
  <2> QED  BY <2>1, <2>2
<1>c. ASSUME NEW s \in Services, BackOff(s), at[s] # 0
      PROVE  Paced'
  <2> SUFFICES ASSUME NEW r \in Services
               PROVE  /\ pc' # "raised" => since'[r] + wait'[r] >= Pace(r)'
                      /\ wait'[r] <= Longest(r)
    BY DEF Paced
  <2>1. pc' = IF Overflows(s) THEN "raised" ELSE pc
    BY <1>c DEF BackOff
  <2>2. CASE r = s /\ ~Overflows(s)
    <3> DEFINE d == Delay(s, failure_count[s] + 1)
    <3>1. d \in Nat /\ d <= Longest(s)
      BY <1>c, <2>2, BackOffTyped
    <3>2. /\ since'[s] = 0 /\ wait'[s] = d
          /\ last'[s] = "failed" /\ streak'[s] = failure_count[s] + 1
      BY <1>c, <2>2 DEF Typed, Counted, BackOff, set_failed_query_now
    <3>3. Pace(s)' = d
      BY <3>2, PaceOf
    <3> QED  BY <2>2, <3>1, <3>2, <3>3
  <2>3. CASE r = s /\ Overflows(s)
    BY <1>c, <2>1, <2>3 DEF BackOff, set_failed_query_now, Paced
  <2>4. CASE r # s
    BY <1>c, <2>1, <2>4 DEF Typed, Paced, Pace, BackOff, set_failed_query_now
  <2> QED  BY <2>2, <2>3, <2>4
<1>1. CASE Select
  BY <1>1, <1>a DEF Select
<1>2. CASE Gathered
  BY <1>2, <1>a DEF Gathered
<1>3. CASE Recover
  BY <1>3, <1>a DEF Recover
<1>4. CASE Tick
  <2> SUFFICES ASSUME NEW s \in Services
               PROVE  /\ pc' # "raised" => since'[s] + wait'[s] >= Pace(s)'
                      /\ wait'[s] <= Longest(s)
    BY DEF Paced
  <2>1. /\ wait'[s] = Greatest(wait[s] - 1, 0)
        /\ since'[s] = Least(since[s] + 1, Longest(s))
        /\ pc' # "raised" => pc # "raised"
        /\ Pace(s)' = Pace(s)
    BY <1>4 DEF Tick, Pace
  <2>2. /\ wait[s] \in Nat /\ since[s] \in Nat /\ wait[s] <= Longest(s)
        /\ Longest(s) \in Nat
    BY DelayBounded, 1 \in 1 .. FloatExponents DEF Typed, Paced, PollingAssumption
  <2>3. pc # "raised" => /\ Pace(s) \in Nat /\ Pace(s) <= Longest(s)
                         /\ since[s] + wait[s] >= Pace(s)
    BY PaceBounded DEF Paced
  <2> QED  BY <2>1, <2>2, <2>3 DEF Greatest, Least
<1>5. CASE \E s \in Services : Start(s)
  BY <1>5, <1>a DEF Start
<1>6. CASE \E s \in Services : Skip(s)
  BY <1>6, <1>a DEF Skip, Calling, Disabled
<1>7. CASE \E s \in Services : Finish(s)
  <2> PICK s \in Services : Finish(s)
    BY <1>7
  <2>1. CASE BackOff(s)
    BY <2>1, <1>c DEF Finish
  <2>2. CASE Return(s) /\ UNCHANGED <<pc, schedule, ghosts>>
    BY <2>2, <1>a
  <2>3. CASE /\ since' = [since EXCEPT ![s] = 0]
             /\ last' = [last EXCEPT ![s] = "other"]
             /\ UNCHANGED <<pc, schedule, streak>>
    <3> SUFFICES ASSUME NEW r \in Services
                 PROVE  /\ pc' # "raised" => since'[r] + wait'[r] >= Pace(r)'
                        /\ wait'[r] <= Longest(r)
      BY DEF Paced
    <3>1. CASE r = s
      <4>1. Pace(r)' = 0
        BY <2>3, <3>1, PaceOf DEF Typed
      <4> QED  BY <2>3, <3>1, <4>1 DEF Typed, Paced
    <3>2. CASE r # s
      BY <2>3, <3>2 DEF Typed, Paced, Pace
    <3> QED  BY <3>1, <3>2
  <2> QED  BY <2>1, <2>2, <2>3 DEF Finish, Settles
<1>8. CASE \E s \in Services : Succeeds(s)
  BY <1>8, <1>b DEF Succeeds, Call
<1>9. CASE \E s \in Services : UnknownService(s)
  BY <1>9, <1>a DEF UnknownService, Call, Calling
<1>10. CASE \E s \in Services : UnknownAction(s)
  BY <1>10, <1>a DEF UnknownAction, Call, Calling, Without, Refuse
<1>11. CASE \E s \in Services : Error820(s)
  BY <1>11, <1>a DEF Error820, Call, Calling, Without, Refuse
<1>12. CASE \E s \in Services : Unreachable(s)
  BY <1>12, <1>a DEF Unreachable, Call, Calling, KeepsAction
<1>13. CASE \E s \in Services : Useless(s)
  BY <1>13, <1>a DEF Useless, Call, Calling
<1>14. CASE \E s \in Services : Incompatible(s)
  BY <1>14, <1>a DEF Incompatible, LuaQuery, Return
<1>15. CASE \E s \in Services : LuaSucceeds(s)
  BY <1>15, <1>b DEF LuaSucceeds
<1>16. CASE \E s \in Services : LuaFails(s)
  BY <1>16, <1>c DEF LuaFails, LuaQuery
<1>17. CASE UNCHANGED vars
  BY <1>17, <1>a DEF vars
<1> QED
  BY <1>1, <1>2, <1>3, <1>4, <1>5, <1>6, <1>7, <1>8,
     <1>9, <1>10, <1>11, <1>12, <1>13, <1>14, <1>15, <1>16, <1>17
  DEF Next, Query

\* The first state satisfies the invariant.
LEMMA PollingInit ==
    ASSUME PollingAssumption, PowersAssumption  PROVE Init => PollingInv
<1> SUFFICES ASSUME Init  PROVE PollingInv
  OBVIOUS
<1>1. Typed
  <2>1. /\ listed \subseteq Services
        /\ supported \subseteq UNION {Actions(s) : s \in listed}
        /\ refused \subseteq AllActions
        /\ action_available \subseteq AllActions
        /\ available \subseteq Services /\ pending \subseteq Services
        /\ handler \in {"TR069", "Lua"}
    BY DEF Init
  <2>2. \A s \in Services : at[s] <= NumActions[s] + 1
    BY DEF Init, PollingAssumption
  <2> QED  BY <2>1, <2>2 DEF Init, Typed
<1>5. Turn
  BY DEF Init, Turn
<1>6. Counted
  BY DEF Init, Counted, PollingAssumption
<1>2. Found
  BY DEF Init, Found, FoundOf, Untouched, Settled, PollingAssumption
<1>3. \A s \in Services : Pace(s) = 0 /\ 0 <= Longest(s)
  BY PaceOf, DelayBounded, 1 \in 1 .. FloatExponents DEF Init, PollingAssumption
<1>4. Paced
  BY <1>3 DEF Init, Paced
<1> QED  BY <1>1, <1>5, <1>6, <1>2, <1>4 DEF PollingInv

\* The invariant of all that follows.
LEMMA PollingInvariant == Spec => []PollingInv
<1>1. PollingInv /\ [Next]_vars => PollingInv'
  BY TypedStep, TurnStep, FoundStep, CountedStep, PacedStep, PollingAssumption,
     PowersAssumption DEF PollingInv
<1>2. Init => PollingInv
  BY PollingInit, PollingAssumption, PowersAssumption
<1> QED  BY <1>1, <1>2, PTL DEF Spec

\* Every variable keeps its type; in particular no service ever has to wait
\* longer than the longer of its interval and max_backoff (set_failed_query_now).
THEOREM TypeCorrect == Spec => []TypeOK
<1>1. PollingInv => TypeOK
  <2> SUFFICES ASSUME PollingInv  PROVE TypeOK
    OBVIOUS
  <2>1. failure_count \in [Services -> 0 .. FloatExponents + 1]
    BY PollingAssumption DEF PollingInv, Typed, Counted, PollingAssumption
  <2>2. supported \subseteq AllActions
    BY DEF PollingInv, Typed, AllActions
  <2> QED  BY <2>1, <2>2 DEF PollingInv, Typed, Turn, Paced, TypeOK, Running
<1> QED  BY <1>1, PollingInvariant, PTL

\* After the first turn of task_loop the services enabled are those the box lists
\* and has not refused every action of (query_service_data).
THEOREM DiscoveryExactCorrect == Spec => []DiscoveryExact
<1>1. PollingInv => DiscoveryExact
  BY DEF PollingInv, Found, FoundOf, Settled, DiscoveryExact, Typed
<1> QED  BY <1>1, PollingInvariant, PTL

\* The OverflowError of set_failed_query_now takes an unbroken row of failures
\* longer than the exponents of a float.
THEOREM SurvivesCorrect == Spec => []Survives
<1>1. PollingInv => Survives
  BY DEF PollingInv, Counted, Survives
<1> QED  BY <1>1, PollingInvariant, PTL

\* No query of task_loop comes sooner than interval and backoff allow.
THEOREM PacedRequestsCorrect == Spec => PacedRequests
<1> DEFINE Kept == \A s \in Services :
                      at[s] = 0 /\ at'[s] # 0 => since[s] >= Pace(s)
<1>1. PollingInv /\ [Next]_vars => [Kept]_vars
  <2> SUFFICES ASSUME PollingInv, Next,
                      NEW s \in Services, at[s] = 0, at'[s] # 0
               PROVE  since[s] >= Pace(s)
    BY DEF vars
  <2> USE DEF PollingInv, Typed, box, found, schedule, query, ghosts
  <2>1. Start(s)
    <3>1. ~(Select \/ Gathered \/ Recover \/ Tick)
      BY DEF Select, Gathered, Recover, Tick
    <3>2. PICK r \in Services : Query(r)
      BY <3>1 DEF Next
    <3>3. CASE Start(r)
      BY <3>3 DEF Start
    <3>4. CASE ~Start(r)
      <4>1. at[r] # 0
        BY <3>2, <3>4 DEF Query, Skip, Finish, Succeeds, UnknownService,
           UnknownAction, Error820, Unreachable, Useless, Call, Calling,
           Incompatible, LuaSucceeds, LuaFails, LuaQuery
      <4>2. \E n \in Nat : at' = [at EXCEPT ![r] = n]
        BY <3>2, <3>4 DEF Query, Skip, Finish, Settles, BackOff, Return,
           Succeeds, UnknownService, UnknownAction, Error820, Unreachable,
           Useless, Call, Incompatible, LuaSucceeds, LuaFails
      <4> QED  BY <4>1, <4>2
    <3> QED  BY <3>3, <3>4
  <2>2. pc # "raised" /\ wait[s] = 0
    BY <2>1 DEF Start, Turn
  <2>3. since[s] + wait[s] >= Pace(s) /\ since[s] \in Nat
    BY <2>2 DEF Paced
  <2> QED  BY <2>2, <2>3
<1> QED  BY <1>1, PollingInvariant, PTL DEF Spec, PacedRequests
=============================================================================
