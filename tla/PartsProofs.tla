---------------------------- MODULE PartsProofs ----------------------------
(***************************************************************************)
(* Proofs about four parts that share no variable: LogForwarding, for      *)
(* queues and ticks of any size; QuestDBAdmin, for any views, days and     *)
(* ranges, and whatever the daemon does meanwhile; BackendConfig, for any  *)
(* texts an administrator sets, and any numbers, flags and URLs they stand *)
(* for; and Discovery, for any services of the catalogue without a gap in  *)
(* their versions, and any boxes, versions and updates.                    *)
(***************************************************************************)
EXTENDS LogForwarding, QuestDBAdmin, BackendConfig, Discovery,
        FiniteSetTheorems, TLAPS
-----------------------------------------------------------------------------
(* The log: the forwarder is ended by nothing but a record it took too     *)
(* early.                                                                  *)

\* At the start nothing is queued and nothing is unfinished.
LEMMA LogInitially == LogInit => LogIInv
  <1> SUFFICES ASSUME LogInit PROVE LogIInv
    OBVIOUS
  <1>1. LogTypeOK
    <2>1. queued \in Nat /\ unfinished \in Int /\ taken \in Nat /\ output \in Nat
      BY DEF LogInit
    <2>2. emitting \in EmitPlaces /\ emitter \in {"loop", "worker"}
          /\ place \in Places
      BY DEF LogInit, EmitPlaces, Places
    <2>3. config_due \in BOOLEAN /\ overtook \in BOOLEAN
      BY DEF LogInit
    <2> QED
      BY <2>1, <2>2, <2>3 DEF LogTypeOK
  <1>2. Balanced
    BY DEF LogInit, Balanced, InHand, Uncounted
  <1>3. MissingIsInHand /\ RaisesOnlyOvertaking
    BY DEF LogInit, MissingIsInHand, RaisesOnlyOvertaking
  <1> QED
    BY <1>1, <1>2, <1>3 DEF LogIInv

\* task_done() raises only for a record whose count is missing: its own.
LEMMA TaskDone ==
    ASSUME LogIInv, place \in {"put", "done"}, NEW next \in {"take", "ended"},
           task_done(next),
           UNCHANGED <<queued, emitting, emitter, taken, config_due, output,
                       overtook>>
    PROVE  LogIInv'
  <1>1. CASE unfinished <= 0
    <2>1. place' = "raised" /\ unfinished' = unfinished
      BY <1>1 DEF task_done
    <2>2. emitting = "count" /\ queued = 0
      BY <1>1 DEF LogIInv, LogTypeOK, Balanced, InHand, Uncounted
    <2>3. overtook
      BY <2>2 DEF LogIInv, MissingIsInHand
    <2> QED
      BY <2>1, <2>3 DEF LogIInv, LogTypeOK, Places, Balanced, InHand,
         Uncounted, MissingIsInHand, RaisesOnlyOvertaking
  <1>2. CASE ~(unfinished <= 0)
    <2>1. place' = next /\ unfinished' = unfinished - 1
      BY <1>2 DEF task_done, Finished
    <2> QED
      BY <2>1 DEF LogIInv, LogTypeOK, Places, Balanced, InHand, Uncounted,
         MissingIsInHand, RaisesOnlyOvertaking
  <1> QED
    BY <1>1, <1>2

\* Every step of the loggers, the forwarder and the rest of the loop.
LEMMA LogPreserved == LogIInv /\ [LogNext]_log_vars => LogIInv'
  <1> SUFFICES ASSUME LogIInv, [LogNext]_log_vars PROVE LogIInv'
    OBVIOUS
  <1> USE LogAssumption
  <1> USE DEF LogIInv, LogTypeOK, EmitPlaces, Places, Balanced, InHand,
          Uncounted, MissingIsInHand, RaisesOnlyOvertaking
  <1>1. ASSUME NEW who \in {"loop", "worker"}, Emit(who) PROVE LogIInv'
    BY <1>1 DEF Emit
  <1>2. CASE AppendRecord
    BY <1>2 DEF AppendRecord
  <1>3. CASE CountRecord
    BY <1>3 DEF CountRecord
  <1>4. CASE Turn
    BY <1>4 DEF Turn
  <1>5. CASE PutSetting
    BY <1>5 DEF PutSetting
  <1>6. CASE TakeRecord
    <2>1. overtook' \in BOOLEAN
          /\ (emitting = "count" /\ queued = 1 => overtook')
      BY <1>6, Zenon DEF TakeRecord
    <2>2. /\ place = "take" /\ place' \in {"put", "done"}
          /\ queued > 0 /\ queued' = queued - 1 /\ taken' = taken + 1
          /\ output' \in {output, output + 1}
          /\ UNCHANGED <<unfinished, emitting, emitter, config_due>>
      BY <1>6 DEF TakeRecord
    <2> QED
      BY <2>1, <2>2
  <1>7. CASE TickEnds
    BY <1>7 DEF TickEnds
  <1>8. CASE PutRecord
    BY <1>8 DEF PutRecord
  <1>9. CASE Done
    BY <1>9, TaskDone DEF Done
  <1>10. CASE Wake
    BY <1>10 DEF Wake
  <1>11. CASE CancelForwarder
    <2>1. CASE place = "put"
      BY <1>11, <2>1, TaskDone DEF CancelForwarder
    <2>2. CASE place # "put"
      BY <1>11, <2>2 DEF CancelForwarder
    <2> QED
      BY <2>1, <2>2
  <1>12. CASE WriterTakes
    BY <1>12 DEF WriterTakes
  <1>13. CASE PollerPuts
    BY <1>13 DEF PollerPuts
  <1>14. CASE HourPasses
    BY <1>14 DEF HourPasses
  <1>15. CASE UNCHANGED log_vars
    BY <1>15 DEF log_vars
  <1> QED
    BY <1>1, <1>2, <1>3, <1>4, <1>5, <1>6, <1>7, <1>8, <1>9, <1>10, <1>11,
       <1>12, <1>13, <1>14, <1>15 DEF LogNext

\* The count of unfinished tasks and the deque agree but for the record that
\* is being put, at every moment.
THEOREM BalancedCorrect == LogSpec => []Balanced
  <1>1. LogIInv => Balanced
    BY DEF LogIInv
  <1> QED
    BY LogInitially, LogPreserved, <1>1, PTL DEF LogSpec

\* A daemon that ends because its log forwarder raised has met the race
\* between put_nowait in a thread and get_nowait in the event loop.
THEOREM RaisesOnlyOvertakingCorrect == LogSpec => []RaisesOnlyOvertaking
  <1>1. LogIInv => RaisesOnlyOvertaking
    BY DEF LogIInv
  <1> QED
    BY LogInitially, LogPreserved, <1>1, PTL DEF LogSpec
-----------------------------------------------------------------------------
(* The administrator's commands: what they leave of the rollups.           *)

\* What else the status table may say is no view.
ProfilesAreViews == {"none", "empty", "disabled"} \cap Views = {}

\* A rollup that holds nothing of the dropped days, or will not when QuestDB
\* has run the refreshes it has accepted.
Rebuilt(v) ==
    \/ rollup[v] \cap dropped = {}
    \/ v \in invalid
    \/ \E job \in refreshes : job.view = v /\ dropped \subseteq job.range

\* A dropped day has left the table, and counts as dropped only until the
\* daemon writes to it again.
Gone ==
    /\ raw \subseteq Days /\ dropped \subseteq Days
    /\ raw \cap dropped = {}

\* Where drop-partitions is: all partitions first, then each view, over all
\* days, and a view that has had its turn is rebuilt.
Rebuilding ==
    command = "drop-partitions" =>
        /\ pc \in {"drop_partition", "refresh", "done", "failed", "refused"}
        /\ pc = "drop_partition" => listed \subseteq views
        /\ pc = "refresh" => selected = Days
        /\ pc \in {"done", "failed"} => views = {}
        /\ pc \in {"refresh", "done", "failed"} =>
               \A v \in (listed \ views) \cap DOMAIN rollup : Rebuilt(v)

AdminInv == Gone /\ Rebuilding

\* A request of the daemon's setup.
SetupStep ==
    \/ CreateTable \/ \E v \in Views : CreateView(v) \/ CheckView(v)
    \/ SetupFails \/ RawTTL \/ ReadState \/ InsertRow

\* Steps of the daemon and of QuestDB: what is written to a dropped day again
\* is not dropped any more, and a refresh reads a table without those days.
LEMMA DaemonRebuilds ==
    ASSUME AdminInv, Write \/ NewDay \/ Age \/ Refresh \/ SetupStep
    PROVE  AdminInv'
<1> USE DEF AdminInv, Gone, Rebuilding, Rebuilt
<1>1. CASE Write
  <2>1. PICK day \in {today, today - 1} \cap Days :
           /\ raw' = raw \cup {day}
           /\ rollup' = [v \in DOMAIN rollup |->
                            IF v \in invalid THEN rollup[v]
                            ELSE rollup[v] \cup {day}]
           /\ dropped' = dropped \ {day}
           /\ UNCHANGED <<invalid, refreshes, command, pc, views, selected, listed>>
    BY <1>1 DEF Write
  <2>2. Gone'
    BY <2>1
  <2>3. ASSUME NEW v \in DOMAIN rollup, Rebuilt(v)  PROVE Rebuilt(v)'
    BY <2>1, <2>3
  <2>4. DOMAIN rollup' = DOMAIN rollup
    BY <2>1
  <2> QED  BY <2>1, <2>2, <2>3, <2>4
<1>2. CASE NewDay \/ Age
  BY <1>2 DEF NewDay, Age, admin
<1>3. CASE Refresh
  <2>1. PICK job \in refreshes :
           /\ refreshes' = refreshes \ {job}
           /\ rollup' = [v \in DOMAIN rollup |->
                   IF v = job.view /\ v \notin invalid
                   THEN (rollup[v] \ job.range) \cup (raw \cap job.range)
                   ELSE rollup[v]]
           /\ UNCHANGED <<raw, invalid, admin>>
    BY <1>3 DEF Refresh
  <2>2. ASSUME NEW v \in DOMAIN rollup, Rebuilt(v)  PROVE Rebuilt(v)'
    <3>1. CASE v \in invalid
      BY <2>1, <3>1 DEF admin
    <3>2. CASE v \notin invalid /\ rollup[v] \cap dropped = {}
      BY <2>1, <3>2 DEF admin
    <3>3. CASE v \notin invalid /\ \E j \in refreshes :
                   j.view = v /\ dropped \subseteq j.range
      BY <2>1, <3>3 DEF admin
    <3> QED  BY <2>2, <3>1, <3>2, <3>3
  <2>3. DOMAIN rollup' = DOMAIN rollup /\ Gone'
    BY <2>1 DEF admin
  <2> QED  BY <2>1, <2>2, <2>3 DEF admin
<1>4. CASE SetupStep
  <2>1. CASE \E v \in Views : CreateView(v)
    <3>1. PICK v \in Views : CreateView(v)
      BY <2>1
    <3>2. ASSUME NEW w \in DOMAIN rollup', w \in DOMAIN rollup => Rebuilt(w)
          PROVE  Rebuilt(w)'
      BY <3>1, <3>2 DEF CreateView, admin
    <3> QED  BY <3>1, <3>2 DEF CreateView, admin
  <2>2. CASE ~\E v \in Views : CreateView(v)
    <3>1. /\ UNCHANGED <<raw, rollup, invalid, refreshes>>
          /\ UNCHANGED <<command, pc, views, selected, listed, dropped>>
      BY <1>4, <2>2 DEF SetupStep, CreateTable, CheckView, SetupFails, RawTTL,
                        ReadState, InsertRow, admin
    <3> QED  BY <3>1
  <2> QED  BY <2>1, <2>2
<1> QED  BY <1>1, <1>2, <1>3, <1>4

\* Steps of drop-partitions and refresh.
LEMMA CommandRebuilds ==
    ASSUME AdminInv, DropPartitions \/ RefreshCommand \/ DropPartition
                     \/ RefreshView
    PROVE  AdminInv'
<1> USE DEF AdminInv, Gone, Rebuilding, Rebuilt
<1>1. CASE DropPartitions
  BY <1>1 DEF DropPartitions, Start, server
<1>2. CASE RefreshCommand
  BY <1>2 DEF RefreshCommand, server
<1>3. CASE DropPartition
  BY <1>3 DEF DropPartition, AfterErrorRefresh
<1>4. CASE RefreshView
  <2>1. /\ pc = "refresh" /\ UNCHANGED <<raw, rollup, invalid>>
        /\ UNCHANGED <<command, selected, listed, dropped>>
    BY <1>4 DEF RefreshView, End
  <2>2. CASE views = {}
    BY <1>4, <2>1, <2>2 DEF RefreshView, End
  <2>3. CASE views # {} /\ pc' = "refused"
    BY <2>1, <2>3
  <2>4. CASE views # {} /\ pc' # "refused"
    <3>1. PICK v \in views :
             /\ refreshes' = refreshes \cup {[view |-> v, range |-> selected]}
             /\ views' = views \ {v} /\ pc' = pc
      BY <1>4, <2>4 DEF RefreshView, End
    <3>2. ASSUME command = "drop-partitions"  PROVE Rebuilt(v)'
      <4>1. [view |-> v, range |-> Days] \in refreshes'
        BY <2>1, <3>1, <3>2
      <4> QED  BY <2>1, <4>1
    <3>3. ASSUME NEW w, Rebuilt(w)  PROVE Rebuilt(w)'
      BY <2>1, <3>1, <3>3
    <3> QED  BY <2>1, <3>1, <3>2, <3>3
  <2> QED  BY <2>2, <2>3, <2>4
<1> QED  BY <1>1, <1>2, <1>3, <1>4

\* Every step of a command keeps the invariant.
LEMMA AdminStep == AdminInv /\ [AdminNext]_admin_vars => AdminInv'
<1> SUFFICES ASSUME AdminInv, [AdminNext]_admin_vars  PROVE AdminInv'
  OBVIOUS
<1> USE DEF AdminInv, Gone, Rebuilding
<1>1. CASE DropBox \/ DropAll
  BY <1>1 DEF DropBox, DropAll, Start, server
<1>2. CASE DropView \/ DropTable \/ State \/ Record \/ DropState
  <2>1. command # "drop-partitions"
    BY <1>2 DEF DropView, DropTable, State, Record, DropState
  <2>2. UNCHANGED <<command, dropped>>
    BY <1>2 DEF DropView, DropTable, State, Record, DropState, End, Rewrite
  <2>3. raw' = raw \/ raw' = {}
    BY <1>2 DEF DropView, DropTable, State, Record, DropState, Rewrite, server
  <2> QED  BY <2>1, <2>2, <2>3
<1>3. CASE Exit
  BY <1>3 DEF Exit, server
<1>4. CASE UNCHANGED admin_vars
  BY <1>4 DEF Rebuilt, admin_vars, server, admin
<1> QED
  BY <1>1, <1>2, <1>3, <1>4, DaemonRebuilds, CommandRebuilds DEF AdminNext, SetupStep

\* Deleted raw metrics do not remain in the aggregates of a view, although
\* partitions may be refused and the daemon goes on writing.
THEOREM RollupsRebuiltCorrect ==
    ASSUME LastDay \in Nat \ {0}
    PROVE  AdminSpec => []RollupsRebuilt
<1>1. AdminInit => AdminInv
  BY DEF AdminInit, AdminInv, Gone, Rebuilding, Days
<1>2. AdminInv => RollupsRebuilt
  BY DEF AdminInv, Rebuilding, Rebuilt, RollupsRebuilt
<1> QED  BY <1>1, <1>2, AdminStep, PTL DEF AdminSpec
-----------------------------------------------------------------------------
(* The administrator's commands: the status row they leave.                *)

\* Which command is where: only drop-box writes the row, only drop-all drops
\* its table, and neither refreshes.
CommandPlaces ==
    /\ pc \in {"drop_partition", "refresh"} =>
           command \in {"drop-partitions", "refresh"}
    /\ pc = "record" => command = "drop-box"
    /\ pc = "drop_state" => command = "drop-all"

StatusInv == CommandPlaces /\ NoGhostProfile

\* A row that is written meanwhile names a valid view, or one that was when the
\* setup looked at it.
LEMMA StatusStep ==
    ASSUME ProfilesAreViews, StatusInv, [AdminNext]_admin_vars  PROVE StatusInv'
<1> USE DEF StatusInv, CommandPlaces, NoGhostProfile, ProfilesAreViews, Valid
<1>1. CASE Write \/ NewDay \/ Age \/ Refresh
  BY <1>1 DEF Write, NewDay, Age, Refresh, status, admin
<1>2. CASE SetupStep
  <2>1. CASE CreateTable \/ SetupFails
    BY <2>1 DEF CreateTable, SetupFails, SetupEnds, status, admin
  <2>2. CASE \E v \in Views : CreateView(v) \/ CheckView(v)
    BY <2>2 DEF CreateView, CheckView, status, admin
  <2>3. CASE RawTTL \/ ReadState
    BY <2>3 DEF RawTTL, ReadState, StatusTable, admin
  <2>4. CASE InsertRow
    BY <2>4 DEF InsertRow
  <2> QED  BY <1>2, <2>1, <2>2, <2>3, <2>4 DEF SetupStep
<1>3. CASE DropBox \/ DropAll \/ DropPartitions \/ RefreshCommand
  BY <1>3 DEF DropBox, DropAll, DropPartitions, RefreshCommand, Start, server
<1>4. CASE DropPartition \/ RefreshView
  BY <1>4 DEF DropPartition, RefreshView, End, AfterErrorRefresh
<1>5. CASE DropView \/ DropTable
  BY <1>5 DEF DropView, DropTable, End
<1>6. CASE State
  BY <1>6 DEF State, RecordDisabled, End, status, server
<1>7. CASE Record \/ DropState
  BY <1>7 DEF Record, DropState, Rewrite, End
<1>8. CASE Exit
  BY <1>8 DEF Exit, server
<1>9. CASE UNCHANGED admin_vars
  BY <1>9 DEF admin_vars, server, status, admin
<1> QED
  BY <1>1, <1>2, <1>3, <1>4, <1>5, <1>6, <1>7, <1>8, <1>9
  DEF AdminNext, SetupStep

\* drop-box and drop-all that report success leave no status row that sends
\* Grafana to a rollup that is gone, but for one of a setup they have overtaken.
THEOREM NoGhostProfileCorrect ==
    ASSUME ProfilesAreViews
    PROVE  AdminSpec => []NoGhostProfile
<1>1. AdminInit => StatusInv
  BY DEF AdminInit, StatusInv, CommandPlaces, NoGhostProfile
<1>2. StatusInv /\ [AdminNext]_admin_vars => StatusInv'
  BY StatusStep
<1>3. StatusInv => NoGhostProfile
  BY DEF StatusInv
<1> QED  BY <1>1, <1>2, <1>3, PTL DEF AdminSpec
-----------------------------------------------------------------------------
(* The configuration: what is accepted is what the documents describe.     *)

\* The names that tell QuestDB apart, written out.
LEMMA QuestDBNames ==
    \A name : IsQuestDBName(name) <=>
        name \in {"QUESTDB_TOKEN", "QUESTDB_HOST", "QUESTDB_HOSTNAME",
                  "QUESTDB_PORT", "QUESTDB_USERNAME", "QUESTDB_PASSWORD",
                  "QUESTDB_SSL", "QUESTDB_TLS_ENABLED",
                  "QUESTDB_DATA_RETENTION_DAYS", "QUESTDB_DOWNSAMPLING",
                  "QUESTDB_ALLOW_PLAINTEXT_CREDENTIALS"}
<1>1. \A a, b : /\ Head(<<a, b>>) = a /\ Last(<<a, b>>) = b
                /\ Head(<<a>>) = a /\ Last(<<a>>) = a
  BY DEF Last
<1>2. \A name : IsQuestDBName(name) <=>
          \/ name = "QUESTDB_TOKEN"
          \/ \E v \in {"INFLUXDB_HOSTNAME", "INFLUXDB_PORT", "INFLUXDB_USERNAME",
                       "INFLUXDB_PASSWORD", "INFLUXDB_TLS_ENABLED",
                       "INFLUXDB_DATA_RETENTION_DAYS", "INFLUXDB_DOWNSAMPLING",
                       "INFLUXDB_ALLOW_PLAINTEXT_CREDENTIALS"} :
                name \in {Head(questdb_mapping[v]), Last(questdb_mapping[v])}
  BY Zenon DEF IsQuestDBName, questdb_mapping
<1>3. /\ questdb_mapping["INFLUXDB_HOSTNAME"] = Hosts
      /\ questdb_mapping["INFLUXDB_PORT"] = <<"QUESTDB_PORT">>
      /\ questdb_mapping["INFLUXDB_USERNAME"] = <<"QUESTDB_USERNAME">>
      /\ questdb_mapping["INFLUXDB_PASSWORD"] = <<"QUESTDB_PASSWORD">>
      /\ questdb_mapping["INFLUXDB_TLS_ENABLED"] =
             <<"QUESTDB_SSL", "QUESTDB_TLS_ENABLED">>
      /\ questdb_mapping["INFLUXDB_DATA_RETENTION_DAYS"] =
             <<"QUESTDB_DATA_RETENTION_DAYS">>
      /\ questdb_mapping["INFLUXDB_DOWNSAMPLING"] = <<"QUESTDB_DOWNSAMPLING">>
      /\ questdb_mapping["INFLUXDB_ALLOW_PLAINTEXT_CREDENTIALS"] =
             <<"QUESTDB_ALLOW_PLAINTEXT_CREDENTIALS">>
  BY DEF questdb_mapping
<1>4. \A name : IsQuestDBName(name) <=>
          \/ name = "QUESTDB_TOKEN"
          \/ name \in {"QUESTDB_HOST", "QUESTDB_HOSTNAME"}
          \/ name = "QUESTDB_PORT" \/ name = "QUESTDB_USERNAME"
          \/ name = "QUESTDB_PASSWORD"
          \/ name \in {"QUESTDB_SSL", "QUESTDB_TLS_ENABLED"}
          \/ name = "QUESTDB_DATA_RETENTION_DAYS"
          \/ name = "QUESTDB_DOWNSAMPLING"
          \/ name = "QUESTDB_ALLOW_PLAINTEXT_CREDENTIALS"
  BY <1>1, <1>2, <1>3 DEF Hosts
<1> QED  BY <1>4

\* No option, old name or INFLUXDB_* variable is one of them.
LEMMA OptionNames ==
    \A option \in DOMAIN EnvName :
        /\ ~IsQuestDBName(EnvName[option]) /\ ~IsQuestDBName(option)
        /\ option \in DOMAIN Alt => ~IsQuestDBName(Alt[option])
BY QuestDBNames DEF EnvName, Alt

\* What parse_config sees in the environment.
LEMMA Seen ==
    ASSUME NEW from, NEW name
    PROVE  Get(Overridden(from), name) =
             OrElse(IF name = "INFLUXDB_VERSION" THEN Backend(from).version
                    ELSE IF Backend(from).is_questdb /\ name \in DOMAIN questdb_mapping
                    THEN OrElse(Get(from, Head(questdb_mapping[name])),
                                Get(from, Last(questdb_mapping[name])))
                    ELSE Unset, Get(from, name))
<1>1. CASE name \in DOMAIN Overridden(from)
  BY <1>1 DEF Overridden, Get
<1>2. CASE name \notin DOMAIN Overridden(from)
  BY <1>2 DEF Overridden, Get, OrElse, IsSet
<1> QED  BY <1>1, <1>2

\* Without the QUESTDB_* variables, the others are as before.
LEMMA Cleared ==
    ASSUME NEW from, NEW name
    PROVE  Get(WithoutQuestDB(from), name) =
               IF IsQuestDBName(name) THEN Unset ELSE Get(from, name)
BY DEF WithoutQuestDB, Get

\* The backend the environment and the file ask for.
LEMMA Chosen ==
    ASSUME NEW from, ~InvalidType(Get(from, "DB_TYPE"))
    PROVE  /\ Version(Options(Overridden(from))) = ChosenBackend(from)
           /\ Backend(from).is_questdb <=> ChosenBackend(from) = "questdb"
<1> DEFINE explicit == FirstGiven(Get(from, "INFLUXDB_VERSION"),
                                  Get(from, "version"))
           host == \E i \in DOMAIN Hosts : Given(Get(from, Hosts[i]))
           db_type == Get(from, "DB_TYPE")
<1>1. Options(Overridden(from)).version =
          OrElse(Get(Overridden(from), "INFLUXDB_VERSION"),
                 Get(Overridden(from), "version"))
  BY DEF Options, Text, EnvName, Alt, OrElse, IsSet
<1>2. /\ Get(Overridden(from), "INFLUXDB_VERSION") =
             OrElse(Backend(from).version, Get(from, "INFLUXDB_VERSION"))
      /\ Get(Overridden(from), "version") = Get(from, "version")
  BY Seen DEF questdb_mapping, OrElse, IsSet
<1>3. CASE Given(db_type)
  <2>1. db_type \in DOMAIN DBTypes
    BY <1>3 DEF InvalidType
  <2>2. DBTypes[db_type] \in {"1", "2", "questdb"}
    BY <2>1 DEF DBTypes
  <2>3. /\ Backend(from).version = DBTypes[db_type]
        /\ Backend(from).is_questdb <=> DBTypes[db_type] = "questdb"
    BY <1>3, <2>1, <2>2 DEF Backend, explicit_backend
  <2> QED
    BY <1>1, <1>2, <1>3, <2>2, <2>3
       DEF ChosenBackend, Version, OrElse, IsSet, Given, Unset
<1>4. CASE ~Given(db_type) /\ Given(explicit)
  <2>1. /\ Backend(from).version = explicit
        /\ Backend(from).is_questdb <=> explicit = "questdb"
    BY <1>4 DEF Backend, explicit_backend
  <2> QED
    BY <1>1, <1>2, <1>4, <2>1
       DEF ChosenBackend, Version, OrElse, IsSet, Given, Unset
<1>5. CASE ~Given(db_type) /\ ~Given(explicit)
  <2>1. /\ explicit = Unset
        /\ ~Given(Get(from, "INFLUXDB_VERSION")) /\ ~Given(Get(from, "version"))
    BY <1>5 DEF FirstGiven
  <2>2. /\ Backend(from).version = IF host THEN "questdb" ELSE Unset
        /\ Backend(from).is_questdb <=> host
    BY <1>5, <2>1 DEF Backend, explicit_backend, Unset
  <2> QED
    BY <1>1, <1>2, <1>5, <2>1, <2>2
       DEF ChosenBackend, Version, OrElse, IsSet, Given, Unset
<1> QED  BY <1>3, <1>4, <1>5

\* Where QuestDB is not chosen its variables might as well not be there.
LEMMA NothingLeftOver ==
    ASSUME NEW from, ~Backend(from).is_questdb,
           Version(Options(Overridden(from))) # "questdb"
    PROVE  parse_config(from) = parse_config(WithoutQuestDB(from))
<1> DEFINE cleared == WithoutQuestDB(from)
<1>1. \A name : ~IsQuestDBName(name) => Get(cleared, name) = Get(from, name)
  BY Cleared
<1>2. \A i \in DOMAIN Hosts : ~Given(Get(cleared, Hosts[i]))
  <2>1. \A i \in DOMAIN Hosts : IsQuestDBName(Hosts[i])
    BY QuestDBNames DEF Hosts
  <2> QED  BY <2>1, Cleared DEF Given
<1>3. /\ Get(cleared, "DB_TYPE") = Get(from, "DB_TYPE")
      /\ Get(cleared, "INFLUXDB_VERSION") = Get(from, "INFLUXDB_VERSION")
      /\ Get(cleared, "version") = Get(from, "version")
      /\ Get(cleared, "port") = Get(from, "port")
  BY <1>1, QuestDBNames
<1>4. /\ Backend(cleared).version = Backend(from).version
      /\ ~Backend(cleared).is_questdb
  BY <1>2, <1>3 DEF Backend
<1>5. ASSUME NEW name, ~IsQuestDBName(name)
      PROVE  Get(Overridden(cleared), name) = Get(Overridden(from), name)
  BY <1>1, <1>4, <1>5, Seen
<1>6. Options(Overridden(cleared)) = Options(Overridden(from))
  <2>1. ASSUME NEW option \in DOMAIN EnvName
        PROVE  Text(Overridden(cleared), option) = Text(Overridden(from), option)
    BY <1>5, OptionNames DEF Text
  <2> QED  BY <2>1 DEF Options
<1>7. has_port_config(cleared, Overridden(cleared)) =
          has_port_config(from, Overridden(from))
  BY <1>3, <1>5, QuestDBNames DEF has_port_config
<1> DEFINE options == Options(Overridden(from))
<1>8. \A url, port, tls :
          Validated(cleared, options, url, port, tls) =
              Validated(from, options, url, port, tls)
  <2>1. ASSUME NEW opts, NEW url, NEW version, version # "questdb"
        PROVE  Unusable(cleared, opts, url, version) =
                   Unusable(from, opts, url, version)
    <3>1. (version = "questdb" /\ Given(Get(cleared, "QUESTDB_TOKEN"))) =
              (version = "questdb" /\ Given(Get(from, "QUESTDB_TOKEN")))
      BY <2>1
    <3> QED  BY <3>1, Zenon DEF Unusable
  <2>2. Version(options) # "questdb"
    OBVIOUS
  <2> HIDE DEF options, cleared
  <2>3. ASSUME NEW url, NEW port, NEW tls
        PROVE  parser_error(cleared, options, url, port, tls) =
                   parser_error(from, options, url, port, tls)
    <3>1. Unusable(cleared, options, url, Version(options)) =
              Unusable(from, options, url, Version(options))
      BY <2>1, <2>2
    <3>2. InvalidType(Get(cleared, "DB_TYPE")) =
              InvalidType(Get(from, "DB_TYPE"))
      BY <1>3
    <3> QED  BY <3>1, <3>2, Zenon DEF parser_error
  <2> QED  BY <2>3, Zenon DEF Validated
<1> QED
  BY <1>6, <1>7, <1>8
     DEF parse_config, WithOverrides, WithOptions, WithUrl, WithPort

\* The host parse_config goes on with.
LEMMA HostFound ==
    ASSUME NEW from, NEW version, Backend(from).is_questdb <=> version = "questdb"
    PROVE  Options(Overridden(from)).hostname = DocumentedHost(from, version)
<1>1. Options(Overridden(from)).hostname =
          OrElse(Get(Overridden(from), "INFLUXDB_HOSTNAME"),
                 OrElse(Get(Overridden(from), "hostname"),
                        Get(Overridden(from), "host")))
  BY DEF Options, Text, EnvName, Alt
<1>2. /\ Get(Overridden(from), "hostname") = Get(from, "hostname")
      /\ Get(Overridden(from), "host") = Get(from, "host")
  BY Seen DEF questdb_mapping, OrElse, IsSet
<1>3. /\ Head(questdb_mapping["INFLUXDB_HOSTNAME"]) = Hosts[1]
      /\ Last(questdb_mapping["INFLUXDB_HOSTNAME"]) = Hosts[2]
      /\ "INFLUXDB_HOSTNAME" \in DOMAIN questdb_mapping
  BY DEF questdb_mapping, Hosts, Last
<1>4. Get(Overridden(from), "INFLUXDB_HOSTNAME") =
          OrElse(IF version = "questdb"
                 THEN OrElse(Get(from, Hosts[1]), Get(from, Hosts[2]))
                 ELSE Unset, Get(from, "INFLUXDB_HOSTNAME"))
  BY Seen, <1>3
<1> QED
  BY <1>1, <1>2, <1>4 DEF DocumentedHost, OrElse

\* No matter what is set: what is accepted is what the documents say.
LEMMA Precedence == DocumentedPrecedence
<1> SUFFICES ASSUME Accepted(settings)
             PROVE  Documented(parse_config(settings))
  BY DEF DocumentedPrecedence
<1> DEFINE options == Options(Overridden(settings))
           version == Version(options)
<1>1. /\ parse_config(settings).version = version
      /\ parse_config(settings).hostname = Split(options.hostname).hostname
      /\ ~InvalidType(Get(settings, "DB_TYPE"))
  <2>1. \E port, tls :
            parse_config(settings) =
                Validated(settings, options, Split(options.hostname), port, tls)
    BY DEF parse_config, WithOverrides, WithOptions, WithUrl, WithPort
  <2>2. PICK port, tls :
            parse_config(settings) =
                Validated(settings, options, Split(options.hostname), port, tls)
    BY <2>1
  <2> HIDE DEF options
  <2>3. /\ parse_config(settings).version = Version(options)
        /\ parse_config(settings).hostname = Split(options.hostname).hostname
        /\ ~parser_error(settings, options, Split(options.hostname), port, tls)
    BY <2>2 DEF Validated, Accepted
  <2>4. ~InvalidType(Get(settings, "DB_TYPE"))
    BY <2>3, Zenon DEF parser_error
  <2> QED  BY <2>3, <2>4
<1>2. version = ChosenBackend(settings)
      /\ (Backend(settings).is_questdb <=> version = "questdb")
  BY <1>1, Chosen
<1>3. options.hostname = DocumentedHost(settings, version)
  BY <1>2, HostFound
<1>4. version # "questdb" =>
          parse_config(settings) = parse_config(WithoutQuestDB(settings))
  BY <1>2, NothingLeftOver
<1> QED
  BY <1>1, <1>2, <1>3, <1>4 DEF Documented

\* For every table of texts, numbers and URLs, and however the administrator
\* got there: what is accepted is what the documents describe.
THEOREM DocumentedPrecedenceCorrect == BackendSpec => []DocumentedPrecedence
<1> QED  BY Precedence, PTL

-----------------------------------------------------------------------------
(* Discovery: of the services for one purpose one is asked.                *)

\* Version and link type have been read, the versions compared with are those
\* of some moment, and no service is taken out before it is checked.
Typed ==
    /\ firmware \in Firmwares
    /\ DOMAIN config = {"fw_version", "link_type"}
    /\ config.fw_version \in 0 .. Latest
    /\ IsFiniteSet(versions)
    /\ ~running => versions = {}
    /\ versions \subseteq 0 .. Latest
    /\ unchecked \subseteq available

\* A service that has been checked is available if it fits one of the versions
\* and the link type the box had at the connect; below Fritz!OS 7 none is
\* checked.
Decided ==
    running => \A s \in Lua \ unchecked :
        \/ versions = {} /\ unchecked \cap Lua = {} /\ s \notin available
        \/ \E v \in versions :
               s \in available <=> os_version_match(s, v) /\ ForThisLink(s)

DiscoveryInv == Typed /\ Decided

\* A box runs no version later than the latest.
LEMMA FirmwareRange == Firmwares \subseteq 0 .. Latest /\ 0 \in 0 .. Latest
<1>1. Firmwares \subseteq 0 .. Latest
  BY DiscoveryAssumption DEF DiscoveryAssumption
<1>2. 0 \in 0 .. Latest
  BY DEF Latest
<1> QED  BY <1>1, <1>2

\* What the proofs need to know of the catalogue: kind and versions.
WellTyped(d) ==
    d.handler = "Lua" /\ d.os_min_versions \in Nat /\ d.os_max_versions \in Nat

\* Every Lua service of the catalogue is one, with numbers for its versions.
LEMMA LuaTyped == \A d \in lua_services : WellTyped(d)
<1> USE DEF WellTyped, LuaService, Latest
<1>1. WellTyped(DSLInfo) /\ WellTyped(CableInfo)
  BY SMT DEF DSLInfo, CableInfo
<1>2. WellTyped(CableChannels757) /\ WellTyped(CableChannels758)
  BY SMT DEF CableChannels757, CableChannels758
<1>3. /\ WellTyped(VPNUsers738) /\ WellTyped(VPNUsersIPSec)
      /\ WellTyped(VPNUsersWireGuard)
  BY SMT DEF VPNUsers738, VPNUsersIPSec, VPNUsersWireGuard
<1>4. WellTyped(SystemStats) /\ WellTyped(EnergyStats) /\ WellTyped(CallList)
  BY SMT DEF SystemStats, EnergyStats, CallList
<1>5. WellTyped(ActiveHosts) /\ WellTyped(PassiveHosts)
  BY SMT DEF ActiveHosts, PassiveHosts
<1>6. WellTyped(HomeAutomation)
  BY SMT DEF HomeAutomation
<1>7. \A d \in LogServices : WellTyped(d)
  <2>1. \A log_type, from, upto :
            from \in Nat /\ upto \in Nat => WellTyped(LogService(log_type, from, upto))
    BY DEF LogService
  <2> QED
    BY <2>1, SMT DEF LogServices
<1> QED
  BY <1>1, <1>2, <1>3, <1>4, <1>5, <1>6, <1>7, Zenon DEF lua_services

\* Every TR-069 service is one.
LEMMA TR069Typed == \A d \in tr069_services : d.handler = "TR069"
<1>1. \A name, link, metrics : TR069Service(name, link, metrics).handler = "TR069"
  BY DEF TR069Service
<1>2. \A d \in OtherTR069 : d.handler = "TR069"
  BY <1>1, ZenonT(40) DEF OtherTR069
<1>3. WANPPPConnection.handler = "TR069" /\ WANIPConnection.handler = "TR069"
  BY <1>1, Zenon DEF WANPPPConnection, WANIPConnection
<1>4. WANDSLInterfaceConfig.handler = "TR069" /\ DeviceInfo.handler = "TR069"
  BY <1>1, Zenon DEF WANDSLInterfaceConfig, DeviceInfo
<1>5. \A r : WLANConfiguration(r).handler = "TR069"
  BY <1>1, Zenon DEF WLANConfiguration
<1> QED  BY <1>2, <1>3, <1>4, <1>5 DEF tr069_services

\* So the Lua services asked for are those the catalogue has as such.
LEMMA LuaDefined ==
    \A s \in Services : s \in Lua <=> Definition[s] \in lua_services
BY LuaTyped, TR069Typed, DiscoveryAssumption
   DEF DiscoveryAssumption, WellTyped, Lua

\* At the start no service has been checked.
LEMMA DiscoveryStarts == DiscoveryInit => DiscoveryInv
BY FS_EmptySet, FirmwareRange
   DEF DiscoveryInit, DiscoveryInv, Typed, Decided

\* Updates, connections and checks in any order keep it so.
LEMMA DiscoverySteps == DiscoveryInv /\ [DiscoveryNext]_discovery_vars => DiscoveryInv'
<1> SUFFICES ASSUME DiscoveryInv, [DiscoveryNext]_discovery_vars
             PROVE  DiscoveryInv'
  OBVIOUS
<1> USE FirmwareRange DEF DiscoveryInv, Typed
<1>1. ASSUME NEW link_type, Connect(link_type)  PROVE DiscoveryInv'
  BY <1>1 DEF Connect, Decided, Lua, TR069
<1>2. CASE Restart
  BY <1>2, FS_EmptySet DEF Restart, Decided
<1>3. CASE Poll
  BY <1>3 DEF Poll, Refreshed, Decided, ForThisLink, os_version_match
<1>4. CASE Update
  BY <1>4 DEF Update, Decided, ForThisLink, os_version_match
<1>5. ASSUME NEW s \in Services, CheckLua(s)  PROVE DiscoveryInv'
  <2>1. Typed'
    BY <1>5, FS_AddElement DEF CheckLua
  <2>2. /\ running /\ s \in unchecked \cap Lua /\ UNCHANGED config
        /\ unchecked' = unchecked \ {s}
        /\ config.fw_version \in versions'
        /\ versions \subseteq versions'
        /\ s \in available' <=>
               os_version_match(s, config.fw_version) /\ ForThisLink(s)
        /\ \A t \in Lua \ {s} : t \in available' <=> t \in available
    BY <1>5 DEF CheckLua
  <2>3. \E v \in versions' :
            s \in available' <=> (os_version_match(s, v) /\ ForThisLink(s))'
    BY <2>2 DEF ForThisLink, os_version_match
  <2>4. ASSUME NEW t \in Lua \ unchecked
        PROVE  \E v \in versions' :
                   t \in available' <=> (os_version_match(t, v) /\ ForThisLink(t))'
    BY <2>2, <2>4 DEF Decided, ForThisLink, os_version_match
  <2>5. Lua \ unchecked' \subseteq (Lua \ unchecked) \cup {s} /\ Lua' = Lua
    BY <2>2 DEF Lua
  <2>6. Decided'
    BY <2>3, <2>4, <2>5 DEF Decided
  <2> QED  BY <2>1, <2>6
<1>6. ASSUME NEW s \in Services, NEW answered \in BOOLEAN, CheckTR069(s, answered)
      PROVE  DiscoveryInv'
  <2>1. Typed' /\ config'.link_type = config.link_type
    BY <1>6 DEF CheckTR069, Refreshed
  <2>2. Lua \ unchecked' = Lua \ unchecked /\ unchecked' \cap Lua = unchecked \cap Lua
    BY <1>6 DEF CheckTR069, TR069
  <2>3. \A t \in Lua : t \in available' <=> t \in available
    BY <1>6 DEF CheckTR069, TR069
  <2>4. Decided'
    BY <1>6, <2>1, <2>2, <2>3 DEF CheckTR069, Decided, ForThisLink, os_version_match
  <2> QED  BY <2>1, <2>4
<1>7. CASE UNCHANGED discovery_vars
  BY <1>7 DEF discovery_vars, Decided, ForThisLink, os_version_match
<1> HIDE DEF DiscoveryInv
<1> QED
  BY <1>1, <1>2, <1>3, <1>4, <1>5, <1>6, <1>7 DEF DiscoveryNext

\* From Fritz!OS 7.29 on.
LEMMA FromDocumented ==
    ASSUME NEW upto \in Int, NEW v \in 0 .. upto, v >= 729
    PROVE  v \in 729 .. upto
OBVIOUS

\* Two different values make a set of two.
LEMMA OnlyOne ==
    ASSUME NEW S, IsFiniteSet(S), Cardinality(S) <= 1, NEW v \in S, NEW w \in S
    PROVE  v = w
<1> SUFFICES ASSUME v # w  PROVE FALSE
  OBVIOUS
<1>1. IsFiniteSet({v}) /\ Cardinality({v}) = 1
  BY FS_Singleton
<1>2. Cardinality({v} \cup {w}) = 2
  <2>1. w \notin {v}
    OBVIOUS
  <2>2. Cardinality({v} \cup {w}) = Cardinality({v}) + 1
    BY <1>1, <2>1, FS_AddElement
  <2> QED  BY <1>1, <2>2
<1>3. {v} \cup {w} \in SUBSET S
  OBVIOUS
<1>4. Cardinality({v} \cup {w}) <= Cardinality(S) /\ Cardinality(S) \in Nat
  BY <1>3, FS_Subset, FS_CardinalityType
<1> QED  BY <1>2, <1>4

\* All services were compared with the same version v; the tables have exactly
\* one variant for it.
LEMMA VariantDecided == DiscoveryInv => OneVariant
<1> SUFFICES ASSUME DiscoveryInv, running, unchecked \cap Lua = {},
                    Cardinality(versions) <= 1
             PROVE  /\ \A s, t \in Asked \cap Lua : s # t => ~SharesSeries[<<s, t>>]
                    /\ \A s \in Lua :
                          (ForThisLink(s) /\ \E v \in versions : v >= 729) =>
                              \E t \in Asked \cap Lua : SharesColumns[<<s, t>>]
  BY DEF OneVariant
<1>1. \A v, w \in versions : v = w
  BY OnlyOne DEF DiscoveryInv, Typed
<1>2. ASSUME NEW s \in Lua, NEW v \in versions
      PROVE  s \in available <=> os_version_match(s, v) /\ ForThisLink(s)
  BY <1>1 DEF DiscoveryInv, Decided
<1>3. ASSUME NEW s \in Asked \cap Lua, NEW t \in Asked \cap Lua, s # t
      PROVE  ~SharesSeries[<<s, t>>]
  <2>1. PICK v \in versions : os_version_match(s, v) /\ ForThisLink(s)
    BY <1>3 DEF Asked, DiscoveryInv, Decided
  <2>2. os_version_match(t, v) /\ ForThisLink(t)
    BY <1>2 DEF Asked
  <2>3. /\ Definition[s] \in lua_services /\ Definition[t] \in lua_services
        /\ Definition[s] # Definition[t]
    BY <1>3, LuaDefined, DiscoveryAssumption DEF DiscoveryAssumption, Lua
  <2>4. ~Apart(Definition[s], Definition[t])
    <3>1. v \in Nat
      BY DEF DiscoveryInv, Typed
    <3>2. WellTyped(Definition[s]) /\ WellTyped(Definition[t])
      BY <2>3, LuaTyped
    <3> QED
      BY <2>1, <2>2, <3>1, <3>2 DEF WellTyped, Apart, os_version_match, ForThisLink
  <2>5. Definition[s].metrics \cap Definition[t].metrics = {}
    BY <2>3, <2>4, VersionsFit DEF VersionsFit
  <2> QED  BY <1>3, <2>5 DEF SharesSeries, Lua
<1>4. ASSUME NEW s \in Lua, ForThisLink(s), NEW v \in versions, v >= 729
      PROVE  \E t \in Asked \cap Lua : SharesColumns[<<s, t>>]
  <2>1. v \in 729 .. Latest
    <3>1. versions \subseteq 0 .. Latest
      BY DEF DiscoveryInv, Typed
    <3>2. Latest \in Int
      BY DEF Latest
    <3>3. v \in 0 .. Latest /\ v >= 729
      BY <1>4, <3>1
    <3> QED  BY <3>2, <3>3, FromDocumented
  <2>2. Definition[s] \in lua_services
    BY LuaDefined DEF Lua
  <2>3. PICK d \in {Definition[t] : t \in Services} \cap lua_services :
           /\ d.link_type \in {AnyLink, Definition[s].link_type}
           /\ {m.column : m \in d.metrics}
                  \cap {m.column : m \in Definition[s].metrics} # {}
           /\ d.os_min_versions <= v /\ v <= d.os_max_versions
    <3> DEFINE services == {Definition[t] : t \in Services} \cap lua_services
    <3>1. NoGap(services)
      BY DiscoveryAssumption DEF DiscoveryAssumption
    <3>2. Definition[s] \in services
      BY <2>2 DEF Lua
    <3> HIDE DEF services
    <3>3. \E d \in {e \in services :
                      /\ e.link_type \in {AnyLink, Definition[s].link_type}
                      /\ {m.column : m \in e.metrics}
                             \cap {m.column : m \in Definition[s].metrics} # {}} :
              d.os_min_versions <= v /\ v <= d.os_max_versions
      BY <2>1, <3>1, <3>2 DEF NoGap
    <3> QED  BY <3>3 DEF services
  <2>4. PICK t \in Services : Definition[t] = d
    BY <2>3
  <2>5. t \in Lua
    BY <2>3, <2>4, LuaDefined
  <2>6. os_version_match(t, v) /\ ForThisLink(t)
    BY <1>4, <2>1, <2>3, <2>4 DEF os_version_match, ForThisLink
  <2>7. t \in Asked
    BY <1>2, <2>5, <2>6 DEF Asked
  <2>8. SharesColumns[<<s, t>>]
    BY <2>3, <2>4, <2>5 DEF SharesColumns, Columns, Lua
  <2> QED  BY <2>5, <2>7, <2>8
<1> QED  BY <1>3, <1>4

\* Once every Lua service has been checked against one version, no two of those
\* asked share a series, and from Fritz!OS 7.29 each has one that stands in for it.
THEOREM OneVariantCorrect == DiscoverySpec => []OneVariant
<1> QED  BY DiscoveryStarts, DiscoverySteps, VariantDecided, PTL DEF DiscoverySpec
=============================================================================
