---------------------------- MODULE QuestDBAdmin ----------------------------
(***************************************************************************)
(* fritzflux-cli (app/questdb_admin.py), run next to a daemon that keeps   *)
(* writing.  Every request is a step that QuestDB may refuse or whose      *)
(* answer may be lost: AdminError, which ends the command.  There is one   *)
(* box table; a partition is a day.                                        *)
(*                                                                         *)
(* Of the daemon's setup (module QuestDBProvisioning) there are here the   *)
(* requests that touch what the commands do, with any of them between two. *)
(***************************************************************************)
EXTENDS Integers

CONSTANTS
    Views,              \* rollup views of the profiles
    LastDay,            \* bound: days that pass
    RawDays,            \* TTL of the box table
    Ranges              \* ranges of days an administrator names

Days == 1 .. LastDay

VARIABLES
    today,
    exists,             \* the box table exists
    raw,                \* days it has partitions of
    rollup,             \* days each existing view has aggregates of
    invalid,            \* views whose base table was dropped
    refreshes,          \* refreshes QuestDB has not run yet: view and range
    profile,            \* latest row of the status table: "none" without a
                        \* table, "empty" without a row, "disabled", or the
                        \* view of the profile
    setup,              \* the next request of the daemon's setup
    setup_view,         \* and the view it is about
    command, pc,        \* the command that runs, and its next request
    views,              \* views require_box found, those still to handle
    selected,           \* days still to drop, or the range to refresh
    state,              \* the status table was there
    drop_error,         \* a DROP PARTITION was refused
    listed, dropped,    \* ghosts: all views found, days dropped since then,
    outdated            \* and whether the latest row was written since then, by
                        \* a setup whose view was gone by that time

status == <<profile, setup, setup_view>>
server == <<today, exists, raw, rollup, invalid, refreshes, status>>
admin  == <<command, pc, views, selected, state, drop_error, listed, dropped,
            outdated>>
admin_vars == <<server, admin>>

AdminInit ==
    /\ today = 1
    /\ exists = TRUE
    /\ raw = {1}
    /\ rollup = <<>>
    /\ invalid = {}
    /\ refreshes = {}
    /\ profile = "none"
    /\ setup = "idle" /\ setup_view = "none"
    /\ command = "none"
    /\ pc = "idle"
    /\ views = {}
    /\ selected = {}
    /\ state = FALSE
    /\ drop_error = FALSE
    /\ listed = {}
    /\ dropped = {}
    /\ outdated = FALSE

Largest(S) == CHOOSE d \in S : \A e \in S : e <= d
First(S)   == CHOOSE d \in S : \A e \in S : d <= e

(***************************************************************************)
(* The daemon and QuestDB                                                  *)
(***************************************************************************)
\* A batch that was retried over midnight belongs to the day before.  A table
\* that was dropped is created again by the write.
Write ==
    \E day \in {today, today - 1} \cap Days :
        /\ exists' = TRUE
        /\ raw' = raw \cup {day}
        /\ rollup' = [v \in DOMAIN rollup |->
                         IF v \in invalid THEN rollup[v]
                         ELSE rollup[v] \cup {day}]
        /\ dropped' = dropped \ {day}
        /\ UNCHANGED <<today, invalid, refreshes, status, command, pc, views,
                       selected, state, drop_error, listed, outdated>>

NewDay ==
    /\ today < LastDay
    /\ today' = today + 1
    /\ UNCHANGED <<exists, raw, rollup, invalid, refreshes, status, admin>>

\* The raw TTL ends days the rollups keep.
Age ==
    /\ raw # {}
    /\ raw' = {day \in raw : day > Largest(raw) - RawDays}
    /\ UNCHANGED <<today, exists, rollup, invalid, refreshes, status, admin>>

(***************************************************************************)
(* The daemon's setup of a profile, for a new connection or by the retry   *)
(* task.  A request that is refused ends it, one that is executed may, its *)
(* answer lost or the daemon killed.  Up to the check of its view a setup  *)
(* remembers nothing: its first requests may come at any time, from a      *)
(* setup that ends there or that goes on.  A daemon without a profile      *)
(* writes nothing but a disabled row, and is left out.                     *)
(***************************************************************************)
Valid(v) == v \in DOMAIN rollup \ invalid

CreateTable ==
    /\ setup = "idle" /\ exists' = TRUE
    /\ UNCHANGED <<today, raw, rollup, invalid, refreshes, status, admin>>

\* CREATE MATERIALIZED VIEW IF NOT EXISTS, which reads the table.
CreateView(v) ==
    /\ setup = "idle" /\ exists /\ v \notin DOMAIN rollup
    /\ rollup' = [w \in DOMAIN rollup \cup {v} |->
                     IF w = v THEN raw ELSE rollup[w]]
    /\ UNCHANGED <<today, exists, raw, invalid, refreshes, status, admin>>

\* An invalid view is not published.
CheckView(v) ==
    /\ setup = "idle" /\ Valid(v)
    /\ setup' = "raw_ttl" /\ setup_view' = v
    /\ UNCHANGED <<today, exists, raw, rollup, invalid, refreshes, profile, admin>>

SetupEnds == setup' = "idle" /\ setup_view' = "none"

\* From here on the setup relies on what it has found.
Goto(place) == (setup' = place /\ UNCHANGED setup_view) \/ SetupEnds

SetupFails ==
    /\ setup # "idle" /\ SetupEnds
    /\ UNCHANGED <<today, exists, raw, rollup, invalid, refreshes, profile, admin>>

\* Both create the status table first: the TTL of the table, with the owner
\* the latest row names, and that row itself.
StatusTable == profile' = IF profile = "none" THEN "empty" ELSE profile

RawTTL ==
    /\ setup = "raw_ttl" /\ exists
    /\ StatusTable /\ Goto("state")
    /\ UNCHANGED <<today, exists, raw, rollup, invalid, refreshes, admin>>

\* A row that agrees in everything, raw days included, ends the setup.
ReadState ==
    /\ setup = "state"
    /\ StatusTable /\ Goto("insert")
    /\ UNCHANGED <<today, exists, raw, rollup, invalid, refreshes, admin>>

InsertRow ==
    /\ setup = "insert" /\ profile # "none" /\ SetupEnds
    /\ profile' = setup_view
    /\ outdated' = (pc # "idle" /\ ~Valid(setup_view))
    /\ UNCHANGED <<today, exists, raw, rollup, invalid, refreshes, command, pc,
                   views, selected, state, drop_error, listed, dropped>>

\* A view that is gone or invalid is not refreshed.
Refresh ==
    \E job \in refreshes :
        /\ refreshes' = refreshes \ {job}
        /\ rollup' = [v \in DOMAIN rollup |->
                IF v = job.view /\ v \notin invalid
                THEN (rollup[v] \ job.range) \cup (raw \cap job.range)
                ELSE rollup[v]]
        /\ UNCHANGED <<today, exists, raw, invalid, status, admin>>

(***************************************************************************)
(* Commands that only read, or end at the preview or at the prompt, leave  *)
(* no trace.  These go on.                                                 *)
(***************************************************************************)
End(result) ==
    /\ pc' = result
    /\ UNCHANGED <<command, views, selected, state, drop_error, listed,
                   dropped, outdated>>

\* inventory or require_box, the checks and the confirmation.
Start(name, days) ==
    /\ pc = "idle"
    /\ command' = name
    /\ views' = DOMAIN rollup /\ listed' = DOMAIN rollup
    /\ selected' = days
    /\ state' = (profile # "none")
    /\ drop_error' = FALSE /\ dropped' = {} /\ outdated' = FALSE

DropBox ==
    /\ exists /\ Start("drop-box", {}) /\ pc' = "drop_view"
    /\ UNCHANGED server

\* The status table may be all there is to drop.
DropAll ==
    /\ exists \/ profile # "none"
    /\ Start("drop-all", {})
    /\ pc' = IF exists THEN "drop_view" ELSE "drop_state"
    /\ UNCHANGED server

\* "QuestDB cannot drop the newest partition"
DropPartitions ==
    \E range \in Ranges :
        /\ exists /\ range \cap raw # {} /\ Largest(raw) \notin range
        /\ Start("drop-partitions", range \cap raw) /\ pc' = "drop_partition"
        /\ UNCHANGED server

RefreshCommand ==
    \E range \in Ranges \cup {Days}, some \in SUBSET DOMAIN rollup :
        /\ exists /\ some # {}
        /\ pc = "idle" /\ pc' = "refresh" /\ command' = "refresh"
        /\ views' = some /\ listed' = DOMAIN rollup
        /\ selected' = range
        /\ state' = FALSE /\ drop_error' = FALSE
        /\ dropped' = {} /\ outdated' = FALSE
        /\ UNCHANGED server

\* Meanwhile the prompt waits for an answer, so none of what follows can rely
\* on what was read before.

(***************************************************************************)
(* drop-partitions and refresh                                             *)
(***************************************************************************)
\* Fault of RollupsRebuilt: the first refusal ends the command.
AfterErrorEnds    == "failed"
AfterErrorRefresh == "refresh"

\* Executed, refused, or executed without an answer.
DropPartition ==
    /\ pc = "drop_partition"
    /\ IF selected = {} THEN
          /\ pc' = "refresh"
          /\ selected' = Days
          /\ UNCHANGED <<raw, dropped, drop_error>>
       ELSE LET day == First(selected) IN
          /\ \/ raw' = raw \ {day} /\ dropped' = dropped \cup ({day} \cap raw)
             \/ UNCHANGED <<raw, dropped>>
          /\ \/ /\ raw' # raw \/ day \notin raw
                /\ selected' = selected \ {day}
                /\ UNCHANGED <<pc, drop_error>>
             \/ /\ pc' = AfterErrorRefresh
                /\ selected' = Days
                /\ drop_error' = TRUE
    /\ UNCHANGED <<today, exists, rollup, invalid, refreshes, status, command,
                   views, state, listed, outdated>>

RefreshView ==
    /\ pc = "refresh"
    /\ IF views = {} THEN
          /\ End(IF drop_error THEN "failed" ELSE "done")
          /\ UNCHANGED refreshes
       ELSE \E v \in views :
          \/ /\ v \in DOMAIN rollup
             /\ refreshes' = refreshes \cup {[view |-> v, range |-> selected]}
             /\ \/ views' = views \ {v} /\ UNCHANGED pc
                \/ pc' = "refused" /\ UNCHANGED views
             /\ UNCHANGED <<command, selected, state, drop_error, listed,
                            dropped, outdated>>
          \/ UNCHANGED refreshes /\ End("refused")
    /\ UNCHANGED <<today, exists, raw, rollup, invalid, status>>

(***************************************************************************)
(* drop-box and drop-all                                                   *)
(***************************************************************************)
DropView ==
    /\ pc = "drop_view"
    /\ IF views = {} THEN
          /\ pc' = "drop_table"
          /\ UNCHANGED <<rollup, invalid, views>>
       ELSE \E v \in views :
          \/ /\ v \in DOMAIN rollup
             /\ rollup' = [w \in DOMAIN rollup \ {v} |-> rollup[w]]
             /\ invalid' = invalid \ {v}
             /\ \/ views' = views \ {v} /\ UNCHANGED pc
                \/ pc' = "refused" /\ UNCHANGED views
          \/ pc' = "refused" /\ UNCHANGED <<rollup, invalid, views>>
    /\ UNCHANGED <<today, exists, raw, refreshes, status, command, selected,
                   state, drop_error, listed, dropped, outdated>>

DropTable ==
    /\ pc = "drop_table"
    /\ \/ /\ exists
          /\ exists' = FALSE /\ raw' = {}
          /\ invalid' = DOMAIN rollup
          /\ End("state") \/ End("refused")
       \/ UNCHANGED <<exists, raw, invalid>> /\ End("refused")
    /\ UNCHANGED <<today, rollup, refreshes, status>>

\* Fault of NoGhostProfile: drop-box leaves the status table alone as well.
NeverRecords   == FALSE
RecordDisabled == command = "drop-box"

\* drop-box looks for the status table only now, drop-all has done so before.
State ==
    /\ pc = "state"
    /\ IF RecordDisabled
       THEN End(IF profile = "none" THEN "done" ELSE "record")
            \/ End("refused")
       ELSE End(IF command = "drop-all" /\ state THEN "drop_state" ELSE "done")
    /\ UNCHANGED server

\* INSERT and DROP TABLE of the status table.
Rewrite(row) ==
    /\ \/ /\ profile # "none" /\ profile' = row
          /\ End("done") \/ End("refused")
       \/ UNCHANGED profile /\ End("refused")
    /\ UNCHANGED <<today, exists, raw, rollup, invalid, refreshes, setup,
                   setup_view>>

Record    == pc = "record" /\ Rewrite("disabled")
DropState == pc = "drop_state" /\ Rewrite("none")

Exit ==
    /\ pc \in {"done", "failed", "refused"}
    /\ pc' = "idle" /\ command' = "none"
    /\ views' = {} /\ selected' = {} /\ state' = FALSE
    /\ drop_error' = FALSE /\ listed' = {} /\ dropped' = {}
    /\ outdated' = FALSE
    /\ UNCHANGED server

AdminNext ==
    \/ Write \/ NewDay \/ Age \/ Refresh
    \/ CreateTable \/ \E v \in Views : CreateView(v) \/ CheckView(v)
    \/ SetupFails \/ RawTTL \/ ReadState \/ InsertRow
    \/ DropBox \/ DropAll \/ DropPartitions \/ RefreshCommand
    \/ DropPartition \/ RefreshView
    \/ DropView \/ DropTable \/ State \/ Record \/ DropState \/ Exit

AdminSpec == AdminInit /\ [][AdminNext]_admin_vars

(***************************************************************************)
(* Properties                                                              *)
(***************************************************************************)
\* "The operation rebuilds dependent rollups so deleted raw metrics do not
\* remain in their aggregates" (docs/storage/questdb.md), also when only some
\* partitions could be dropped: unless a REFRESH itself is refused, a view
\* found at the start keeps a dropped day only until its refresh has run.
RollupsRebuilt ==
    command = "drop-partitions" /\ pc \in {"done", "failed"} =>
        \A v \in listed \cap DOMAIN rollup :
            \/ rollup[v] \cap dropped = {}
            \/ v \in invalid
            \/ \E job \in refreshes :
                   job.view = v /\ dropped \subseteq job.range

\* When drop-box or drop-all report success, the status table does not send
\* Grafana to a rollup that is gone, unless a setup of the daemon had found the
\* view before it was dropped and published it only now: whatever row was there
\* before is replaced or gone, and a setup that comes to the view later finds
\* out.  For drop-all this needs the table to have been there at its start.
NoGhostProfile ==
    /\ pc = "done"
    /\ command = "drop-box" \/ (command = "drop-all" /\ state)
    /\ profile \in Views /\ ~outdated
    => Valid(profile)
=============================================================================
