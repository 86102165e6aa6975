------------------------- MODULE QuestDBProvisioning -------------------------
(***************************************************************************)
(* How fritzfluxdb prepares a QuestDB server: the schema of the raw table, *)
(* the rollup view of a downsampling profile, the TTL of the raw table and *)
(* the status row Grafana reads (_ensure_questdb_schema and what it calls  *)
(* in app/classes/influxdb/handler.py).                                    *)
(*                                                                         *)
(* Every place of pc is one request to /exec.  Its answer may be an error  *)
(* (refused: nothing happened) or may not come (lost: it happened or not). *)
(* The daemon may be killed between any two of them and started again with *)
(* another profile.  The flow runs under _write_lock, for a new connection *)
(* (dial) or for the background retry, never for both at once.             *)
(***************************************************************************)
EXTENDS Integers

CONSTANTS
    Profiles,           \* names of the downsampling profiles
    RawDays,            \* raw_retention_days of each profile
    Interval,           \* rollup_interval of each profile: it names the view
    NumColumns,         \* columns of questdb_expected_columns, in order
    RollupColumns,      \* how many of them the rollup views select from
    Retentions,         \* values of data_retention_days in use
    ConfiguredProfiles, \* values of downsampling in use
    InitialTTLs,        \* TTLs of the raw table before the first start
    AdminTTLs,          \* TTLs an administrator may set later
    Faults,             \* {"refused", "lost"}, or fewer
    RetryAttempts       \* downsampling_retry_attempts

Disabled == "disabled"

\* A TTL is a number of whole days, 0 for none.  Odd stands for one that is no
\* positive number of days: of an unknown unit, or shorter than a day.
Odd == -1

NoRow == [profile |-> "none", enabled |-> FALSE, raw_days |-> 0, managed |-> FALSE]

ASSUME ProvisioningAssumption ==
    /\ Disabled \notin Profiles /\ "none" \notin Profiles
    /\ RawDays \in [Profiles -> Nat \ {0}]
    /\ NumColumns \in Nat
    /\ RollupColumns \in 0..NumColumns
    /\ Retentions \subseteq Nat
    /\ ConfiguredProfiles \subseteq Profiles \cup {Disabled}
    /\ InitialTTLs \subseteq Nat \cup {Odd}
    /\ AdminTTLs \subseteq Nat \cup {Odd}
    /\ Faults \subseteq {"refused", "lost"}
    /\ RetryAttempts \in Nat \ {0}

VARIABLES
    \* the server
    columns,            \* columns the raw table has
    raw_ttl,            \* TTL of the raw table
    owner,              \* who set it: nobody, the daemon or the administrator
    view,               \* each rollup view: absent, behind or current
    view_ttl,
    state_exists,       \* the status table exists
    state,              \* latest status row of this measurement
    \* what nobody records
    claimed,            \* the daemon has set a TTL, and no status row since
                        \* has disowned it
    altered,            \* an administrator has set the TTL since the daemon
                        \* read it last
    \* the daemon
    config,             \* downsampling profile and data_retention_days
    client,             \* there is a connection
    questdb_schema_ensured,
    pc,                 \* next request of the flow
    flow,               \* on whose behalf it runs: dial or retry
    column,             \* columns ensured so far in this flow
    previously_managed, \* _questdb_raw_ttl_is_managed, read before the TTL
    raw,                \* (effective_raw_days, raw_ttl_managed) to publish
    retry,              \* _questdb_downsampling_retry_task: none or sleeping
    attempts            \* retries it has made

ttlVars == <<raw_ttl, owner, claimed, altered>>
server  == <<columns, ttlVars, view, view_ttl, state_exists, state>>
outcome == <<questdb_schema_ensured, retry, attempts>>
locals  == <<column, previously_managed, raw>>   \* of the flow's coroutines
vars == <<server, config, client, pc, flow, locals, outcome>>

Views == {Interval[p] : p \in Profiles}

Places == {"idle", "create_table", "columns", "state_table", "legacy_ttl",
           "legacy_alter", "create_view", "view_status", "view_ttl",
           "view_alter", "owner", "raw_ttl", "raw_alter", "raw_verify",
           "state", "insert"}

TTL == Nat \cup {Odd}

TypeOK ==
    /\ columns \in 0..NumColumns
    /\ raw_ttl \in TTL
    /\ owner \in {"none", "daemon", "admin"}
    /\ claimed \in BOOLEAN /\ altered \in BOOLEAN
    /\ view \in [Views -> {"absent", "behind", "current"}]
    /\ view_ttl \in [Views -> Nat]
    /\ state_exists \in BOOLEAN
    /\ state \in [profile: Profiles \cup {Disabled, "none"}, enabled: BOOLEAN,
                  raw_days: Nat, managed: BOOLEAN]
    /\ config \in [profile: Profiles \cup {Disabled}, retention: Retentions]
    /\ client \in BOOLEAN
    /\ questdb_schema_ensured \in BOOLEAN
    /\ pc \in Places
    /\ flow \in {"dial", "retry"}
    /\ column \in 0..NumColumns
    /\ previously_managed \in BOOLEAN
    /\ raw \in [days: Nat, managed: BOOLEAN]
    /\ retry \in {"none", "sleeping"}
    /\ attempts \in 0..(RetryAttempts - 1)

Nothing == [days |-> 0, managed |-> FALSE]

\* No flow runs: what it kept in local variables is gone.
FlowEnds ==
    /\ pc' = "idle" /\ flow' = "dial"
    /\ column' = 0 /\ previously_managed' = FALSE /\ raw' = Nothing

Start(c) ==
    /\ config' = c
    /\ client' = FALSE /\ questdb_schema_ensured' = FALSE
    /\ FlowEnds
    /\ retry' = "none" /\ attempts' = 0

Configurations == [profile: ConfiguredProfiles, retention: Retentions]

\* A server that never met fritzfluxdb, or one whose table an earlier version
\* or an administrator made.
Init ==
    /\ columns \in {0, NumColumns}
    /\ raw_ttl \in InitialTTLs
    /\ owner = IF raw_ttl = 0 THEN "none" ELSE "admin"
    /\ claimed = FALSE /\ altered = FALSE
    /\ view = [v \in Views |-> "absent"]
    /\ view_ttl = [v \in Views |-> 0]
    /\ state_exists = FALSE /\ state = NoRow
    /\ config \in Configurations
    /\ client = FALSE /\ questdb_schema_ensured = FALSE
    /\ pc = "idle" /\ flow = "dial" /\ column = 0
    /\ previously_managed = FALSE
    /\ raw = Nothing
    /\ retry = "none" /\ attempts = 0
-----------------------------------------------------------------------------
(* The configured profile.                                                 *)

MyView == Interval[config.profile]

RequestedDays ==
    IF config.retention > 0 /\ config.retention < RawDays[config.profile]
    THEN config.retention ELSE RawDays[config.profile]

\* _questdb_ttl_days of a TTL that cannot be expressed in days is None, which
\* equals no request and is published as 0.
PublishedDays(ttl) == IF ttl = Odd THEN 0 ELSE ttl

Row == IF config.profile = Disabled
       THEN [profile |-> Disabled, enabled |-> FALSE, raw_days |-> 0,
             managed |-> raw.managed]
       ELSE [profile |-> config.profile, enabled |-> TRUE,
             raw_days |-> raw.days, managed |-> raw.managed]
-----------------------------------------------------------------------------
(* How a flow goes on.                                                     *)

Goto(place) == pc' = place /\ UNCHANGED <<flow, outcome, config, client>>

\* The same where the flow remembers nothing more.
Pass(place) == Goto(place) /\ UNCHANGED locals

\* The flow of a new connection schedules a retry when it is not ready; the
\* retry task sleeps again until its attempts are used up.
\* Fault of RetryEnds: a failed attempt is not counted.
NotCounted == attempts
Attempted  == attempts + 1

LastAttempt == Attempted = RetryAttempts

Conclude(ready) ==
    /\ FlowEnds
    /\ questdb_schema_ensured' = (questdb_schema_ensured \/ ready)
    /\ IF flow = "dial"
       THEN IF ~ready /\ config.profile # Disabled /\ retry = "none"
            THEN retry' = "sleeping" /\ attempts' = 0
            ELSE UNCHANGED <<retry, attempts>>
       ELSE IF ready \/ LastAttempt
            THEN retry' = "none" /\ attempts' = 0
            ELSE attempts' = Attempted /\ UNCHANGED retry
    /\ UNCHANGED <<config, client>>

\* An exception ends the flow like the answer "not ready": _init_client and
\* the retry loop catch it.
Raise == Conclude(FALSE)

Refused == "refused" \in Faults
Lost    == "lost" \in Faults

\* Who owns the TTL the daemon has just set.
SetRawTTL(days) == /\ raw_ttl' = days /\ owner' = "daemon" /\ claimed' = TRUE
                   /\ UNCHANGED altered

\* A request that reads the TTL knows of every change before it.
ReadsTTL == altered' = FALSE /\ UNCHANGED <<raw_ttl, owner, claimed>>
-----------------------------------------------------------------------------
(* Connecting.                                                             *)

Dial ==
    /\ pc = "idle" /\ ~client
    /\ client' = TRUE
    /\ IF questdb_schema_ensured THEN UNCHANGED <<pc, flow, column>>
       ELSE pc' = "create_table" /\ flow' = "dial" /\ column' = 0
    /\ UNCHANGED <<server, config, previously_managed, raw, outcome>>

\* A failed write of the same writer drops the connection.
LoseClient ==
    /\ pc = "idle" /\ client /\ client' = FALSE
    /\ UNCHANGED <<server, config, pc, flow, locals, outcome>>

RetryWakes ==
    /\ pc = "idle" /\ retry = "sleeping"
    /\ IF client THEN /\ pc' = "create_view" /\ flow' = "retry"
                      /\ UNCHANGED <<retry, attempts>>
                 ELSE /\ retry' = "none" /\ attempts' = 0
                      /\ UNCHANGED <<pc, flow>>
    /\ UNCHANGED <<server, config, client, locals, questdb_schema_ensured>>
-----------------------------------------------------------------------------
(* The schema.                                                             *)

AfterSchema == IF config.profile = Disabled THEN "state_table" ELSE "create_view"

CreateTable ==
    /\ pc = "create_table"
    /\ \/ Pass(IF NumColumns = 0 THEN AfterSchema ELSE "columns")
       \/ (Refused \/ Lost) /\ Raise
    /\ UNCHANGED server

\* ALTER TABLE ADD COLUMN IF NOT EXISTS, one column at a time.
Grown(n) == IF columns < n THEN n ELSE columns

AddColumn ==
    /\ pc = "columns"
    /\ \/ /\ columns' = Grown(column + 1) /\ column' = column + 1
          /\ Goto(IF column + 1 = NumColumns THEN AfterSchema ELSE "columns")
          /\ UNCHANGED <<previously_managed, raw>>
       \/ Refused /\ Raise /\ UNCHANGED columns
       \/ Lost /\ Raise /\ columns' \in {columns, Grown(column + 1)}
    /\ UNCHANGED <<ttlVars, view, view_ttl, state_exists, state>>
-----------------------------------------------------------------------------
(* Without a profile: the retention of earlier versions, applied once.     *)

Publish(days, managed) ==
    /\ raw' = [days |-> days, managed |-> managed]
    /\ UNCHANGED <<column, previously_managed>>

StateTable ==
    /\ pc = "state_table"
    /\ \/ state_exists /\ Pass("owner")
       \/ /\ ~state_exists /\ Publish(0, FALSE)
          /\ Goto(IF config.retention = 0 THEN "state" ELSE "legacy_ttl")
       \/ (Refused \/ Lost) /\ Raise
    /\ UNCHANGED server

LegacyTTL ==
    /\ pc = "legacy_ttl"
    /\ \/ Pass(IF raw_ttl = 0 THEN "legacy_alter" ELSE "state")
       \/ Refused /\ Pass("state")
       \/ Lost /\ Raise
    /\ ReadsTTL
    /\ UNCHANGED <<columns, view, view_ttl, state_exists, state>>

LegacyAlter ==
    /\ pc = "legacy_alter"
    /\ \/ SetRawTTL(config.retention) /\ Publish(0, TRUE) /\ Goto("state")
       \/ Refused /\ Pass("state") /\ UNCHANGED ttlVars
       \/ /\ Lost /\ Raise
          /\ SetRawTTL(config.retention) \/ UNCHANGED ttlVars
    /\ UNCHANGED <<columns, view, view_ttl, state_exists, state>>
-----------------------------------------------------------------------------
(* With a profile: the rollup view ...                                     *)

Create(v) ==
    IF view[v] = "absent"
    THEN /\ view' = [view EXCEPT ![v] = "behind"]
         /\ view_ttl' = [view_ttl EXCEPT ![v] = config.retention]
    ELSE UNCHANGED <<view, view_ttl>>

\* CREATE ... IF NOT EXISTS looks at the columns of a new view only.
CanCreate(v) == view[v] # "absent" \/ columns >= RollupColumns

CreateView ==
    /\ pc = "create_view"
    /\ \/ CanCreate(MyView) /\ Create(MyView) /\ Pass("view_status")
       \/ /\ Refused \/ Lost \/ ~CanCreate(MyView)
          /\ Conclude(FALSE) /\ UNCHANGED <<view, view_ttl>>
       \/ Lost /\ CanCreate(MyView) /\ Create(MyView) /\ Conclude(FALSE)
    /\ UNCHANGED <<columns, ttlVars, state_exists, state>>

\* Fault of PublishedWhenReady and RollupBeforeTTL: a view that exists is
\* taken for complete.
ViewExists      == view[MyView] # "absent"
RefreshComplete == view[MyView] = "current"

ViewStatus ==
    /\ pc = "view_status"
    /\ \/ RefreshComplete /\ Pass("view_ttl")
       \/ ~RefreshComplete /\ Conclude(FALSE)
       \/ (Refused \/ Lost) /\ Conclude(FALSE)
    /\ UNCHANGED server

ViewTTL ==
    /\ pc = "view_ttl"
    /\ \/ Pass(IF config.retention > 0 /\ view_ttl[MyView] = 0
               THEN "view_alter" ELSE "owner")
       \/ Refused /\ Conclude(FALSE)
       \/ Lost /\ Raise
    /\ UNCHANGED server

ViewAlter ==
    /\ pc = "view_alter"
    /\ \/ /\ view_ttl' = [view_ttl EXCEPT ![MyView] = config.retention]
          /\ Pass("owner")
       \/ Refused /\ Conclude(FALSE) /\ UNCHANGED view_ttl
       \/ /\ Lost /\ Raise
          /\ view_ttl' \in {view_ttl,
                            [view_ttl EXCEPT ![MyView] = config.retention]}
    /\ UNCHANGED <<columns, ttlVars, view, state_exists, state>>
-----------------------------------------------------------------------------
(* ... and the TTL of the raw table.                                       *)

\* _questdb_raw_ttl_is_managed: creates the status table and reads its latest
\* row; a status that cannot be read counts as "not managed".
Owner ==
    /\ pc = "owner"
    /\ \E managed \in BOOLEAN :
          /\ \/ managed = state.managed /\ state_exists' = TRUE
             \/ /\ Refused \/ Lost
                /\ ~managed /\ state_exists' \in {state_exists, TRUE}
          /\ IF config.profile = Disabled
             THEN Publish(0, managed) /\ Goto("state")
             ELSE /\ previously_managed' = managed /\ UNCHANGED <<column, raw>>
                  /\ Goto("raw_ttl")
    /\ UNCHANGED <<columns, ttlVars, view, view_ttl, state>>

\* Fault of AdminTTLKept: any TTL may be replaced.
TTLIsAnybodys == FALSE
TTLIsAdmins   == raw_ttl # 0 /\ ~previously_managed

\* Fault of ManagedIsOurs: a TTL that already fits is taken over.
TakenOver  == TRUE
StillOwned == previously_managed

\* What is published is the TTL read back, not the one the profile wants.
EffectiveDays == PublishedDays(raw_ttl)

RawTTL ==
    /\ pc = "raw_ttl"
    /\ \/ /\ raw_ttl = RequestedDays
          /\ Publish(RequestedDays, StillOwned) /\ Goto("state")
       \/ /\ raw_ttl # RequestedDays /\ TTLIsAdmins
          /\ Publish(EffectiveDays, FALSE) /\ Goto("state")
       \/ /\ raw_ttl # RequestedDays /\ ~TTLIsAdmins
          /\ Pass("raw_alter")
       \/ (Refused \/ Lost) /\ Conclude(FALSE)
    /\ ReadsTTL
    /\ UNCHANGED <<columns, view, view_ttl, state_exists, state>>

RawAlter ==
    /\ pc = "raw_alter"
    /\ \/ SetRawTTL(RequestedDays) /\ Pass("raw_verify")
       \/ Refused /\ Conclude(FALSE) /\ UNCHANGED ttlVars
       \/ /\ Lost /\ Raise
          /\ SetRawTTL(RequestedDays) \/ UNCHANGED ttlVars
    /\ UNCHANGED <<columns, view, view_ttl, state_exists, state>>

RawVerify ==
    /\ pc = "raw_verify"
    /\ \/ /\ raw_ttl = RequestedDays
          /\ Publish(RequestedDays, TRUE) /\ Goto("state")
       \/ raw_ttl # RequestedDays /\ Conclude(FALSE)
       \/ (Refused \/ Lost) /\ Conclude(FALSE)
    /\ ReadsTTL
    /\ UNCHANGED <<columns, view, view_ttl, state_exists, state>>
-----------------------------------------------------------------------------
(* The status row.                                                         *)

\* Fault of EnsuredIsPublished: a row of another profile is good enough.
SimilarRow   == state.enabled = Row.enabled
RowPublished == state = Row

ReadState ==
    /\ pc = "state"
    /\ \/ state_exists' = TRUE /\ IF RowPublished THEN Conclude(TRUE) ELSE Pass("insert")
       \/ (Refused \/ Lost) /\ Conclude(FALSE) /\ state_exists' \in {state_exists, TRUE}
    /\ UNCHANGED <<columns, ttlVars, view, view_ttl, state>>

InsertState ==
    /\ pc = "insert"
    /\ \/ state' = Row /\ Conclude(TRUE)
       \/ Refused /\ Conclude(FALSE) /\ UNCHANGED state
       \/ Lost /\ Conclude(FALSE) /\ state' \in {state, Row}
    /\ claimed' = (claimed /\ (state' = state \/ state'.managed))
    /\ UNCHANGED <<columns, raw_ttl, owner, altered, view, view_ttl,
                   state_exists>>
-----------------------------------------------------------------------------
(* The environment.                                                        *)

\* The daemon dies, or is stopped, and starts again.
Restart ==
    /\ \E c \in Configurations : Start(c)
    /\ UNCHANGED server

\* QuestDB refreshes a view asynchronously; a write of the daemon, which never
\* happens during a flow, puts every view behind again.
Refresh ==
    /\ \E v \in Views : /\ view[v] = "behind"
                        /\ view' = [view EXCEPT ![v] = "current"]
    /\ UNCHANGED <<columns, ttlVars, view_ttl, state_exists, state,
                   config, client, pc, flow, locals, outcome>>

WriteRows ==
    /\ pc = "idle" /\ client
    /\ view' = [v \in Views |-> IF view[v] = "absent" THEN "absent" ELSE "behind"]
    /\ UNCHANGED <<columns, ttlVars, view_ttl, state_exists, state,
                   config, client, pc, flow, locals, outcome>>

\* ALTER TABLE ... SET TTL by an administrator, as the documentation tells, at
\* any time and whoever set the TTL before.
AdminSetsTTL ==
    /\ \E ttl \in AdminTTLs :
          raw_ttl' = ttl /\ owner' = IF ttl = 0 THEN "none" ELSE "admin"
    /\ altered' = TRUE
    /\ UNCHANGED <<columns, claimed, view, view_ttl, state_exists, state, config,
                   client, pc, flow, locals, outcome>>
-----------------------------------------------------------------------------
Flow ==
    \/ CreateTable \/ AddColumn
    \/ StateTable \/ LegacyTTL \/ LegacyAlter
    \/ CreateView \/ ViewStatus \/ ViewTTL \/ ViewAlter
    \/ Owner \/ RawTTL \/ RawAlter \/ RawVerify
    \/ ReadState \/ InsertState

Daemon == Dial \/ LoseClient \/ RetryWakes \/ Flow

Next == Daemon \/ Restart \/ Refresh \/ WriteRows \/ AdminSetsTTL

Spec == Init /\ [][Next]_vars

\* Requests end (httpx has a timeout) and asyncio.Lock is granted in order, so
\* a retry that wakes again and again gets its turn.
FairSpec == Spec /\ WF_vars(Flow) /\ SF_vars(RetryWakes)
-----------------------------------------------------------------------------
(* Properties.                                                             *)

\* An administrator's TTL is overwritten only where fritzfluxdb holds the TTL of
\* the table for its own, having set one before and recorded nothing else since,
\* or where it was set after the setup had read the TTL.
AdminTTLKept ==
    [][owner = "admin" /\ owner' = "daemon" => claimed \/ altered]_vars

\* "A raw TTL that fritzfluxdb did not set is treated as administrator-owned
\* and is never overwritten" (docs/storage/questdb.md), not even where the
\* administrator has changed the TTL of a profile since.
NeverOverwritten ==
    [][owner = "admin" /\ ~altered => owner' # "daemon"]_vars

\* The status table claims the TTL for fritzfluxdb only if fritzfluxdb has set
\* one and has not disowned it since, whatever was refused, lost or interrupted.
\* Whose the TTL is now is not recorded: it may have been changed since.
ManagedIsOurs == state.managed => claimed

\* "The active profile is published to the append-only status table only after
\* the rollup exists, is reported valid and current, and the raw TTL has been
\* applied and read back" (docs/storage/questdb.md): the row names the window in
\* force, unless an administrator has changed it since it was read back.
PublishedWhenReady ==
    [][state' # state /\ state'.enabled =>
          /\ view[Interval[state'.profile]] = "current"
          /\ altered \/ state'.raw_days = PublishedDays(raw_ttl)]_vars

\* A profile shortens the raw history only once its rollup has caught up:
\* what the TTL drops is in the rollup.
RollupBeforeTTL ==
    [][/\ owner' = "daemon" /\ raw_ttl' # raw_ttl
       /\ config.profile # Disabled
       => view[MyView] = "current"]_vars

\* "Grafana routes on that status, so the `raw_days` it reads always matches
\* the TTL QuestDB enforces" (docs/storage/questdb.md): between two setups the
\* published raw window is the one in force.
RawDaysMatchTTL ==
    pc = "idle" /\ state.enabled => state.raw_days = PublishedDays(raw_ttl)

\* A setup that reports success has published the configured profile, not
\* that of an earlier configuration.
EnsuredIsPublished ==
    questdb_schema_ensured =>
        /\ state.profile = config.profile
        /\ state.enabled = (config.profile # Disabled)

\* The background retry comes to an end, so that the next connection may start
\* another one.
RetryEnds == retry = "sleeping" ~> retry = "none"
=============================================================================
