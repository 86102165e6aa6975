# Verification of fritzFluxDB

fritzFluxDB is a Python daemon that polls an AVM FRITZ!Box over TR-069 and over
its Lua web interface and writes what it reads to InfluxDB or QuestDB. This
directory holds TLA+ modules of the daemon, the configurations that
model-check them with TLC, and theorems that TLAPS checks.

    tlc -workers 2 -config MCInfluxWriter_safety.cfg MCInfluxWriter
    tlapm InfluxWriterProofs.tla

## The system

| component | state | operations | talks to |
|---|---|---|---|
| buffered writer (`influxdb/handler.py`, `InfluxHandler`) | buffer, sort flag, batch size, retry interval, last attempt, client | `append_measurement`, `_write_data_unlocked`, `task_loop`, flush, `close` | measurement queue, database over HTTP |
| QuestDB provisioning (same class) | `questdb_schema_ensured`, retry task; on the server: table, rollup views, TTLs, status table | `_ensure_questdb_schema`, `_finalize_questdb_downsampling`, `_retry_questdb_downsampling` | database, Grafana through the status row |
| daemon (`main.py`) | tasks, shutdown event, exit status | start, supervision, ordered shutdown | everything below |
| pollers (`fritzbox/handler.py`, `service_handler.py`) | per service: availability, failure count, next request | discovery, `task_loop`, `query_service_data` | FRITZ!Box, measurement queue, worker threads |
| Lua session (`FritzBoxLuaHandler`) | `sid`, `session`, `url` | `connect`, `request`, `close` | FRITZ!Box; up to four worker threads share it |
| log line tracking (`FritzBoxLuaService`) | set and FIFO of reported lines | `skip_tracked_measurement`, `add_tracked_measurement` | Lua poller |
| log forwarding (`log.py`) | asyncio queue of records | `enqueue`, `task_loop` | worker threads, measurement queue |
| line bundling (`FritzMeasurement`, `bundle_measurements`) | none of its own | construct a measurement, make lines of a batch | pollers, writer |
| backend configuration (`influxdb/config.py`, `common.py`) | environment, ini files | `parse_config` | administrator |
| watchdog (`docker/entrypoint.sh`) | child, delay, counter, `terminating` | launch, wait, back-off, trap | daemon process, orchestrator |
| connection and discovery (`fritzbox/handler.py`, `config.py`, `model.py`) | version and link type of the box, which services are asked | `connect`, discovery of `query_service_data` | FRITZ!Box; one configuration for both pollers |
| service definitions (`service_definitions/`) | constant: services, their versions and link types, metrics, tags | none | discovery, the columns of the writer |
| value extraction (`fritzbox/handler.py`, `common.py`, `service_definitions/`) | none of its own | `query_service_data`, `extract_value`, `grab`, readers of one element | Lua poller |
| dashboards (`tools/build_questdb_dashboards.py`) | none of its own | queries routed to raw table or rollup | status row, table and views |
| administration (`questdb_admin.py`) | none of its own | `drop-box`, `drop-all`, `drop-partitions`, `refresh` | database, next to a running daemon |

Two pollers and a log writer put measurements on one bounded `asyncio.Queue`;
the writer takes them, batches them and posts them. Blocking requests to the
FRITZ!Box run in worker threads which asyncio cannot interrupt. The watchdog
starts the daemon, restarts it after a crash and, when the container stops,
sends it SIGTERM and later SIGKILL.

### What is hard

* Every `await` of the writer lets the producers append, and may be where a
  cancellation arrives: between an answer of the database and the cut of the
  buffer, between closing a client and forgetting it.
* Ordered shutdown: producers first, then the queue, then the writer, with a
  time limit on each step and a SIGKILL from outside that does not know them.
* QuestDB has no transactions over several statements: a crash or a refused
  request between any two leaves a state the next start must cope with.
* Worker threads share an HTTP client and a session id without a lock.
* Backoff, retry and restart counters over long runs.
* bash runs a trap between any two commands.
* Version and link type are read once and shared by threads of both pollers,
  one of whose services replaces the version.
* A panel takes one of two sources for the same history, one of which has lost
  its beginning and the other its detail.

`PROJECT.json` lists these hazards one by one with the line where each bites.

### What makes each part correct

| part | it must |
|---|---|
| writer | account for every measurement, count as written only what the database has, survive any answer, end with its buffer flushed |
| daemon | stop in order: producers, queue, writer, sessions; end in any case; report what went wrong in its exit status |
| provisioning | never touch an administrator's TTL, publish only what is in force, shorten raw history only under a current rollup |
| pollers | keep what the box knows, pace what fails, come back to it |
| Lua session | renew an expired session under four threads without losing the client |
| line tracking | report every line once with a bounded memory |
| log forwarding | move the daemon's log without stopping the daemon |
| line bundling | lose no value of a batch, although names and times may become equal |
| backend configuration | do what the documents say of precedence, whatever is left over from another backend |
| watchdog | surface a crash loop, start nothing after a signal, leave nothing running |
| discovery | ask for exactly one of the services that serve one purpose |
| service definitions | agree with each other: columns, types, tags, classes |
| value extraction | let no element of a response cost more than itself |
| dashboards | show the same history from either source |
| administration | keep rollups and status row in step with what was dropped, while the daemon writes |

## Modules

    module                run by                              proved in
    InfluxWriter          MCInfluxWriter                      InfluxWriterProofs
      Delivery            (what InfluxWriter implements)
    Daemon                MCDaemon (_kill), MCLifecycle       LifecycleProofs
    Watchdog              MCLifecycle                         LifecycleProofs
    QuestDBProvisioning   MCQuestDBProvisioning               QuestDBProvisioningProofs
    ServicePolling        MCServicePolling                    ServicePollingProofs
    LuaSession            MCLuaSession                        LuaSessionProofs
    LogForwarding, QuestDBAdmin, BackendConfig
                          MCParts                             PartsProofs
    MeasurementTracking, LineBundling, ValueExtraction
                          MCParts                             LoopProofs
    ServiceCatalogue      (through Discovery)
      Discovery           MCParts (with MCDiscovery)          PartsProofs
    RollupQueries         MCParts                             RollupProofs

The modules are composed by contract rather than by a product of their states:
`Daemon` has the whole life of the process with a writer that is only a place
and a number of measurements; `InfluxWriter` is that writer in detail, with the
cancellation that `Daemon` sends at any of its awaits; `LuaSession` is what
happens inside one query of `ServicePolling` and may raise, which `Daemon`
takes in as `QueriesMayFail`; the `SIGKILL` of `Daemon` is the `Kill` of
`Watchdog`. `Discovery` says which services there are for `ServicePolling` to
schedule; `ValueExtraction` what one response yields, `MeasurementTracking` what
is left of it over many, `LineBundling` what becomes of that in a batch of
`InfluxWriter`. `QuestDBProvisioning` puts the rollup and the status row in
place that `RollupQueries` reads; those of its requests that touch what the
administrator's commands do are steps of `QuestDBAdmin`.

Two MC modules are a sum, not a product, of parts that share no variable.
`MCParts` moves one of its eight parts in each behaviour and leaves the others
as they were at the start; `MCLifecycle` is the daemon with a watchdog that has
exited or the watchdog with a daemon that has. A property about one part holds
or fails in the sum exactly as it does alone, and the states add up.

Variables keep the source's names. `pc` (or `phase`, `task`) is the place in the
coroutine, thread or script. Everything between two awaits is one action; in
`LuaSession`, whose threads are preempted anywhere, every access to a shared
attribute is. Ghost variables are marked as such where they are declared.

### InfluxWriter and Delivery

`queue` and `buffer` hold measurements, numbered in the order of their arrival.
The turn of `task_loop` is the row of actions from `drain` over the permission
to write, dial, batch and `post` to the branch for the answer; `Post...` is one
action per kind of answer (`_write_data_unlocked`, handler.py:1093-1290), `aclose` the
await between closing the client and forgetting it. Cancellation, an exception
and the shutdown's timeout may strike at every await. The database is what it
answers and `stored`: an answer may be lost after the batch was stored. Whether
a measurement can be converted (`Convertible`) and its `Timestamp` are
constants; text, URLs and credentials are left out. `Delivery` says in fifty
lines what the rest of the program may rely on: at-least-once delivery, and no
measurement given up twice or silently.

### Daemon

`phase` follows `main_async`: configuration, connection, running, and either
shutdown path. `main()` turns a `KeyboardInterrupt` into status 0, so there is a
third path: a SIGINT before the signal handlers are installed (`Interrupt`)
cancels `main_async` at its first await, which is the wait for tasks that have
just started; it closes the sessions, in which queries may be running, and ends
with status 0 without the ordered shutdown. `CleanExit` and
`SessionOutlivesQueries` name this exception (`interrupted`). A query waits for
the semaphore, runs in a thread and leaves
results, and its thread outlives a cancelled poller. Deadlines are counters of
`timer`, set by the action that starts the wait. The watchdog is the action
that kills once `elapsed` reaches `KillTimeout`.

### QuestDBProvisioning

Each place is one HTTP request, with three outcomes: done, refused, and lost,
where the server may or may not have acted. `Restart` ends the flow anywhere and
picks another configuration. The administrator sets the TTL at any time, also
after the daemon has, as the documents tell him to; `claimed` and `altered` are
ghosts that remember who was last. The server's side is external: columns, TTL with
its owner, rollup views (absent, behind, current), and the latest status row.

### ServicePolling

`Select`, the queries of a turn and `Gathered` are `task_loop`. An action of a
query is one request; each `except` branch is a disjunct. `handler` chooses
between the two `query_service_data`. `wait` is the time until
`_next_request_monotonic`. Which services the box lists (`listed`) and which
actions of those work (`supported`) are any sets at all, so a listed service may
have no action that works: it is lost if the box refuses each of its actions,
and stays if one of them timed out. A box that answers for a moment that it does
not know an action loses that action. `refused` is a ghost.

### LuaSession

One process per worker thread, from `request()` into `connect()` and
`_build_session()` and back. A client is an identity that is open or closed and
whose id is used again once nobody refers to it. `Expire` is the box's: at any
time until `healthy`. `NextTurn` stands for `gather`, which waits for all
queries. This matters for `Heals`: threads that could start new queries all the
time would be able to close one another's client for ever.

### ServiceCatalogue and Discovery

`ServiceCatalogue` is the tables of the repository: every service with the range
of versions and the link type it is for, the column, type and tags of each of
its metrics, the model table with `get_link_type`, and the columns and classes
the table is created with. That these tables agree with one another is stated
as assumptions with names, which TLC evaluates whenever `MCParts` is run: a column has one type (`ColumnsAgree`), every tag has a
column and no metric takes the name of one (`TagsHaveColumns`), a column is of
one class (`ClassesAreDisjoint`), only numbers are aggregated, and a counter
has no tag the rollup drops (`RollupIsMeaningful`), and which numbers no class
covers (`OnlyTheseUnclassified`).

`Discovery` has the process connect, each worker thread compare one service with
the version and link type of the shared configuration, `DeviceInfo` replace that
version, and the box be updated at any time. `OneVariant` is about the tables
and the code at once: a version range with a gap or an overlap breaks it, and so
does a comparison that leaves a bound out.

### ValueExtraction

A response is a sequence of elements; a value is a tuple that begins with its
kind, or `Raised` where Python raises. One metric stands for each way to read an
element, with its `next`, `value_function`, `tags_function` and
`exclude_filter_function`, and the failure of each where the code catches it.
A parser that raises, as `reformat_homeauto_device_list` does for a device that
is no dict (`Unreadable`) and `CallLog` for a call without a date, loses the
whole response: `request()` catches it and has nothing.
`OnlyItsOwn` compares a whole response with its elements one by one. What is read
of one element looks at another in one place only: a unit takes the firmware of
the HAN-FUN device that `devices_by_id` has for it. So a unit is compared
together with its parents (`Family`), which yield nothing themselves, and the
last of several with one id is the one that counts (`DeviceOf`).

### RollupQueries

`rows` is all that was ever written. The table is what its TTL has left of it,
the rollup what `SAMPLE BY` makes of all of it, the view what its own TTL
(`view_days`) has left of that, the source of a panel whichever of table and view
`source_variable` chooses. Of the other gauges and counters a panel shows, a row
has whether any is there: `ts_agg` and `counter_delta_series` read a row that has
any of their fields, `counter_delta_24h` one that has its only one. Both are functions from numbers to rows, a
bucket having the number of its first row, so that the order of the numbers is
that of time and a sum is taken over a set of numbers. A missing value is
`Null`, a sum over no value as well. The documentation of QuestDB's `last()` and
the use the code makes of it do not settle whether it passes over NULL, so a
behaviour has either.

### MeasurementTracking

A query is a fold of `extract_value` over the box's list, per metric. The set
and the deque are both kept, as in the code.

### LogForwarding

`queued` and `unfinished` are the deque and the counter of one `asyncio.Queue`.
`put_nowait` appends and counts in two steps, under the lock of
`logging.Handler`, and may be called by the event loop or by a worker thread.
The forwarder's `get_nowait` and `task_done` take no lock, so they come between
the two steps of a thread, though not between those of the event loop. One
`+=`, and a test with the `-=` that follows, are taken as uninterrupted, as they
are in CPython. A full log queue drops the record without a step.

### LineBundling

A `FritzMeasurement` is constructed from the arguments a poller gives;
`Converted` is the conversion by data type, `Truncated` the time. `Bundle` is one
turn of the loop of `bundle_measurements`, which is a fold of it over the batch.
`NoFieldLost` defines the result without the loop.

### BackendConfig

`settings` is what the administrator has set, `parse_config` what the daemon
makes of it: `Backend` and `Overridden` the choice of the backend and the
variables it overrides, `Options` the part of `ConfigBase`, then URL, port, TLS
and the checks. What `int()`, `parse_bool()` and `urlsplit()` make of a text
stands in tables. Two starts of the daemon are one edit apart.

### Watchdog

One action per command that can be told apart from its neighbours by a signal
that arrives in between; `Untrapped` is bash's rule that a pending trap runs
first. `sleep` in the foreground is the exception. `failures` counts crashes as
they happen, without the script's counter.

### QuestDBAdmin

One action per request, with lost answers, for `drop-box`, `drop-all`,
`drop-partitions` and `refresh`. Reading and the confirmation are one step, after
which the daemon goes on writing, ageing, restarting and changing profiles. Its
setup is one action per request as well: table, view, check of the view, raw
TTL, read of the status row, insert. Up to the check it remembers nothing, so
those may come at any time; from there on `setup` is the next request, and any
step of a command fits between two. A setup that had found its view valid may
thus insert an active row after a command has dropped the view and recorded the
profile as disabled. This race is in the code; `outdated` remembers that it
happened, and `NoGhostProfile` exempts such a row and no other.

## What is checked

| run | expects | properties | question |
|---|---|---|---|
| writer_safety | pass | Conserved, PostedIsHead, DeliveredIsStored, SortedIsNewestFirst, FlushComplete, Delivers | does the writer keep its books and the contract under every answer, overflow and cancellation |
| writer_live | pass | InArrivalOrder, EventuallySettled, Terminates | does it get everything out to a database that recovers, in order, and end |
| writer_overflow | violation | OverflowDropsOldest | does a full buffer drop the oldest |
| lifecycle | pass | JoinedIsHanded, SessionOutlivesQueries, CleanExit, Stops, GivesUpInTime, CrashLoopSurfaces, StopEnds | is every shutdown ordered, honest and finite; do counter, delay and trap of the watchdog agree over long series of crashes |
| daemon_kill | violation | KilledAfterFlush | is the flush done when the default watchdog kills |
| provisioning | pass | AdminTTLKept, ManagedIsOurs, PublishedWhenReady, RollupBeforeTTL, EnsuredIsPublished, RetryEnds | can a fault or a crash leave a TTL or a status row that is wrong |
| raw_days | violation | RawDaysMatchTTL | is the raw window that Grafana reads always the one in force |
| admin_ttl | violation | NeverOverwritten | is a TTL that fritzfluxdb did not set never overwritten |
| polling | pass | DiscoveryExact, Survives, PacedRequests, Recovers | what do discovery and backoff do to services that fail |
| lua_session | pass | SessionOpenAtRest, RaisesOnlyCrossed, QueryEnds, Heals | do threads that renew one session leave a usable one |
| lua_raise | violation | PollingGoesOn | can a renewal end the polling loop |
| parts | pass | OneVariant, OnlyItsOwn, ReportedOnce, RaisesOnlyOvertaking, NoFieldLost, DocumentedPrecedence, SameAverage, SameIncrease, RollupsRebuilt, NoGhostProfile | is exactly one service of a purpose asked, does an element cost only itself, how large must the memory of lines be, what can stop the forwarder, which values reach a line, do all sources of the configuration agree with the documents, do rollup and table show one history, do drops leave rollups and status row in step |

Every property of a passing run has a mutant of the code that breaks it
(`PROJECT.json`); the mutated forms stand next to the definitions they replace.

### Bounds, and why they are enough

* writer: four or five measurements for a buffer of three or four and batches
  of one to four, so that the buffer overflows, a batch is smaller than the
  buffer, and halving and growth of the batch size meet. Timestamps differ from
  the order of arrival, and two are equal. Retry intervals reach their cap after
  one or two doublings; in `writer_live` a `Retry-After` of zero ends them. The
  database there takes one line at a time once it is well; with
  `RequestLimit = 0`, where each line is too large even alone, the run passes
  too. No property asks how often the writer tries.
* daemon: two pollers, two services each and a semaphore of one, so that a query
  waits, a query runs and a query has ended at the same time; deadlines of one
  tick, so that each may pass before or after anything else. `daemon_kill` has
  the code's default timeouts in steps of five seconds.
* provisioning: the windows and intervals of the code's profiles, two columns
  of which one is in the rollups, two of the background retries. `high` and
  `low` differ in view and window; `medium` shares its view with `low` and is
  left out of the configurations.
* polling: two services, one with two actions, listed or not, with any of their
  actions working; the backoff reaches its cap after
  two failures. `FloatExponents = 3` brings the end of Python's floats, 1024 in
  reality, within reach.
* Lua session: two threads cross one another in every way two steps can; the
  theorems are for any number.
* parts, lines of the box: the memory is exactly `NumMetrics * (2 * FeedSize - 1)` keys, the
  least that is enough here; with one less the property fails. The theorem is
  for all sizes that satisfy the formula.
* parts, log: three records for two a tick, and two places in the
  measurement queue, so that a tick ends early, a record waits for room and a
  thread appends to an empty queue; the theorems are for all sizes.
* parts, lines: batches of up to four out of eight measurements. They have
  names that differ in a dot only, times that differ below a second, two
  precisions, every data type and type of value, integers at and beyond the
  ends of an `INT64` of four values, and a tag that claims to be the box; the
  theorem is for batches of any size and content.
* parts, configuration: fourteen settings in all combinations, 110 592, with
  an empty variable, an invalid number, a URL, an old name in the ini file and
  half a login; the theorem is for any texts.
* watchdog: six crashes, a delay that doubles three times and then hits a cap
  no doubling reaches, and every status the script tells apart.
* parts, administration: one view, three days, one range. The properties are
  about each view by itself, and a command that was refused in the middle of
  several views is like one refused before or after one; the theorems are for
  any set of views.
* parts, discovery: two boxes, one update, versions on both sides of every bound
  in the ranges of the three purposes that have several services (and of the
  Lua interface itself), all of those services and `DeviceInfo`.
* parts, extraction: responses of up to three elements, so that one stands
  before, between and after others, with an element for each way to fail; nine
  metrics. The theorem is for any number of any elements.
* parts, rollups: three rows of two boxes in six units of time, with buckets of
  two units, a raw window of two to four, one of the view of four to six, and
  samples of four: a row may be in the view alone, in both, in neither any more,
  or in a partition that ends inside the range, and may have only another gauge
  or counter. The theorems are for any rows, times and lengths.

Deadlock is checked except where the system really may stop: `MCLuaSession`,
where a query that raises ends the polling task, and `MCParts`, where the forwarder may have ended, a batch or a response be
full, and a box have been updated for the last time.

### Fairness, and why the code justifies it

* asyncio runs every ready task, and every HTTP request ends by an answer or a
  timeout of the client: weak fairness of the writer, pollers, setup requests
  and Lua threads. It is never assumed that a request succeeds; where recovery
  is the question, `healthy` says that from some moment on it does.
* The writer's clock and the background retry have strong fairness: the loop
  sleeps again and again, and `asyncio.Lock` is granted in order.
* `MCLifecycle` has the fairness of `Daemon` and that of `Watchdog`; the one that
  is over has no step, so its fairness asks for nothing.
* bash and the forked child run; nothing is assumed of the daemon under it, and
  `CrashLoopSurfaces` states its premise itself.
* The threads of a turn are all waited for (`gather`), so a turn ends.

## What is proved

The theorems hold for every value of the constants that satisfies the named
assumption of each module, which states what the code's own validation does.

| module | theorems | argument |
|---|---|---|
| InfluxWriterProofs | TypeOK, PostedIsHead, DeliveredIsStored, Conserved, SortedIsNewestFirst, InArrivalOrder, FlushComplete, Delivers | types first, with the bounds of buffer, batch and interval; the batch stays the head of the buffer during the awaits, because nobody else appends to the buffer then; so what is cut afterwards is what was posted. On top of it the books balance, the sort flag is honest (appending clears it), delivered, buffer and queue are in order of arrival one after the other as long as no answer of the database asks for the sort (the theorem assumes a database without retention answers), and each step is a step of `Delivery` or a stutter |
| LifecycleProofs | JoinedIsHanded, CleanExit, SessionOutlivesQueries, GivesUpInTime | after the producers have ended the queue only shrinks; the phases are passed in order; a poller whose thread has a query waits for it or was cut short, and sessions are closed when all pollers have ended; an interrupt before the handlers is remembered, and is the only other way to status 0; in the watchdog `restart_count` is the number of crashes in a row, one behind between a crash and its judgement |
| QuestDBProvisioningProofs | RollupBeforeTTL, EnsuredIsPublished, AdminTTLKept, ManagedIsOurs, PublishedWhenReady | which places of the flow are reached for which configuration, and what they have established; ownership only becomes the daemon's where the status row or an absent TTL says so; a TTL of the administrator's is overwritten only where the daemon has set one before and no row has disowned it, or where it came after the setup had read the TTL |
| ServicePollingProofs | TypeOK, DiscoveryExact, Survives, PacedRequests | an action is off exactly if the box refused it, and a service exactly if it is not listed or all its actions are off; what a query has recorded so far belongs to its own turn; time waited and time to wait make up the pace |
| LuaSessionProofs | SessionOpenAtRest, RaisesOnlyCrossed | a closed client in `session` means that some thread is between `close()` and the assignment; a fresh client exists by counting references |
| PartsProofs (discovery) | OneVariant | `DiscoveryInv`: a service that has been checked is asked exactly if it fits one of the versions compared with, and the link type read at the connect. With a single version the two facts about the tables, `VersionsFit` (services with a common series exclude one another) and `NoGap` (some variant fits each version), give the rest |
| LoopProofs (tracking) | ReportedOnce | `TrackingInv`: deque and set agree; what came in after a line that is still listed is less than `FeedSize` lines older or newer than it, so a memory of `NumMetrics * (2 * FeedSize - 1)` overflows only by a key that has left the list; hence what the box lists and has been reported is remembered. `Extracted` keeps this for one key, `WalkIsSound` for the walk through a list of any length |
| LoopProofs (bundling) | NoFieldLost | `BundleStep`: what `Bundled` says of the first n measurements, one turn of the loop makes true of n + 1. The first line without the field is the right one because the lines that have it are, by their count (`NextPlace`), exactly the first of their series and time |
| LoopProofs (extraction) | OnlyItsOwn | `ExtractionInv` keeps the elements those of their metric. Sequences put together are the last value of a recursive function (`Joined`); a parser that leaves one element or none in each place, and a reader that yields one measurement or none, may therefore be exchanged with putting together (`EachOfFlat`). The device a unit finds in the whole list is the one it finds among its parents, since those are exactly the elements with that id, and the last of them is last in both (`LastPicked`, `SameDevice`). A response that can be parsed has no unreadable device, so no family of it has one (`FamilyReadable`) |
| PartsProofs (configuration) | DocumentedPrecedence | for each option, what `parse_config` sees once the overrides are in place (`Seen`, `Cleared`), case by case in what the backend is chosen by; it holds of any settings, so of those a run of `Edit`s leaves |
| PartsProofs (log) | RaisesOnlyOvertaking, Balanced | the counter is the records queued and in hand, less one that is appended and not counted yet; so `task_done` fails only where that one is in hand |
| PartsProofs (administration) | RollupsRebuilt, NoGhostProfile | a dropped day is out of the table until it is written again, and every view that has had its turn is rebuilt or has a refresh over all days queued (assuming at least one day); of the commands only `drop-box` writes the status row and only `drop-all` drops its table, each as its last step, so while a command that will report success is done the row was written by a setup since, whose view was valid then, or else it is marked `outdated` (assuming "none", "empty" and "disabled" are no views) |
| RollupProofs (averages) | SameAverage | `RowsInv`: rows are typed, in order of time, and none lies in the future. A sum over a finite set is the sum of the sums over its groups (`SumOfGroups`), and a whole interval of samples is made of whole buckets; so the view's sums and counts are those of the rows. What the view's TTL keeps of a time it keeps of every later one, so an interval that starts within it has all of its buckets. The table serves only ranges none of whose rows lies in a partition that the TTL has dropped |
| RollupProofs (increases) | SameIncrease | on top of it, a source has of each counter a part of the series, in its order: the table an end of it, the view the last of each bucket. What a part of a series rises by is never more than what the whole does, whatever restarts it has, and of a series that only rises it is the last value less the first |

Hardly any of these properties is inductive as it stands. Each proof module
states the strengthening as named conjuncts before it uses it.

Recursive definitions are reasoned about in `LoopProofs` by sets in place of
predicates: a set that has 0 and every successor has all numbers (`Induction`,
from the well-foundedness of `<`), a recursive function over `0 .. n` exists
(`Recursion`), and what each turn hands on holds to the end (`HandedOn`).
`RollupProofs` does the same for folds over finite sets: what holds of a set as
soon as it holds of all its proper subsets holds of all (`SetInduction`), and
the fold behind a sum exists and is the only one (`SumIsFolded`).

What the theorems assume of the constants beyond their types:

* `MemorySuffices`: the memory has at least `NumMetrics * (2 * FeedSize - 1)`
  keys. The code remembers 10 000 (service_handler.py:174), which is enough for
  714 phone calls of seven metrics, 9989 keys, and for 5000 log lines. `parts`
  runs with exactly as many as it asks for; with one less ReportedOnce fails.
* `DiscoveryAssumption`: no two names for one service; `NoGap` of the services
  asked; no box runs a version later than `Latest`. `VersionsFit` is a fact
  about the tables of the repository. TLC evaluates all of it.
* `RollupAssumption`: gauges and counters are integers or `Null`; a sample is a
  whole number of buckets; and the counters of a box are one series
  (`OneSeries`), as `counter_delta_series` partitions by the box alone, and is
  used for counters of the box itself.
* `ParentsAreDevices`: what a unit names as its `etsideviceid` is the id of HAN-FUN
  devices only. `reformat_homeauto_device_list` relies on it: it looks a unit's
  device up by the id alone (homeauto.py:215), so another element with that id
  could give a unit its own firmware. TLC evaluates it for the responses of
  `parts`.
* `ServicePolling` takes powers of two to be natural numbers, which the provers
  cannot derive.

Only model-checked, because liveness under fairness is out of the prover's
reach: EventuallySettled, Terminates, Stops, RetryEnds, Recovers, QueryEnds,
Heals, CrashLoopSurfaces, StopEnds. Every invariant and every action property of
a passing run has a theorem. The assumptions of `ServiceCatalogue` are facts
about constants that TLC computes.

## Where code and documents disagree

* `writer_overflow`: after a retention answer the buffer is newest first, and a
  full buffer drops its head, the newest (handler.py:418; data-model.md:48).
* `daemon_kill`: the watchdog's 15 s are less than the daemon's own shutdown may
  take before the flush starts (entrypoint.sh:70; README.md:43).
* `raw_days`: a setup shortens the TTL before it publishes the new window, in two
  requests; in between, and for as long as the second fails, the status row
  names a window that QuestDB does not keep (influxdb/handler.py:600;
  storage/questdb.md:129).
* `admin_ttl`: the status row says that fritzfluxdb manages the TTL, not which one
  it set: a TTL an administrator sets after that is taken for fritzfluxdb's own
  and replaced by the next setup (influxdb/handler.py:905;
  storage/questdb.md:135, and 71-76 and 142-147, which tell him to set one).
* `lua_raise`: a thread that renews the session closes the client under the
  others, whose `RuntimeError` ends the polling task (fritzbox/handler.py:444;
  the comment at 362).

## Known limits of the code

Met while modelling and kept out of the properties, each by a premise that its
comment names or by the choice of a constant:

* `Retry-After: 0` makes the retry interval zero, and doubling keeps it there:
  the writer then retries as often as its loop turns. `EventuallySettled` holds
  all the same.
* The permission to write compares times of the wall clock: one that is set back
  stops writing until it has caught up (influxdb/handler.py:1070).
* A query that raises ends the drain of its poller, so that its session is
  closed under the queries still running (fritzbox/handler.py:117).
* A crash between `ALTER TABLE` and the status row makes the daemon take its own
  TTL for an administrator's (influxdb/handler.py:887).
* A TTL that an administrator sets between the setup's read and its `ALTER TABLE`
  is overwritten (influxdb/handler.py:905); one set later is `admin_ttl`.
* While profiles are switched, status row and TTL differ for a moment (600).
* The background retry does the downsampling half of the setup only, so columns
  whose creation failed before stay missing (651).
* TR-069 queries that end without a success or a connection error return `None`
  and are neither backed off nor scheduled: they run again every cycle.
* The 1025th failure in a row raises `OverflowError` (service_handler.py:115):
  `Survives` says that nothing less does.
* A temporary UPnP error 820 during discovery disables its action for good. A
  listed service that timed out then stays enabled, whatever it can do: if it
  answers 820 ever after, each counts as a failure in a row, and the 1025th ends
  the task.
* A SIGINT before the signal handlers are installed, such as Ctrl-C during the
  start, ends with status 0 but without the ordered shutdown: what is queued or
  buffered by then is not flushed in order, and the sessions are closed under
  the first queries (main.py:71, 202).
* A signal between `setsid ... &` and `child_pid=$!` is not forwarded, and one
  before the child has called `setsid()` reaches no process group
  (entrypoint.sh:139): the daemon is then killed without a SIGTERM.
* `drop-box` whose last INSERT is refused leaves an active status row without a
  rollup; `drop-all` leaves one if the status table appeared after it looked.
  Either leaves one if a setup of the daemon had checked its view before the
  command dropped it and inserts its row afterwards.
* A worker thread that logs into an empty log queue may be overtaken by the
  forwarder before the record is counted. `task_done` then raises `ValueError`,
  which ends the forwarder and with it the daemon (log.py:21, influxdb/handler.py:1408).
  `RaisesOnlyOvertaking` says that nothing else does.
* An empty variable is not the same as none: an empty `QUESTDB_HOST` hides
  `QUESTDB_HOSTNAME`, an empty `INFLUXDB_...` hides the ini file's value, and
  `port =` left empty in the ini file gives QuestDB the port 8086
  (common.py:309, influxdb/config.py:188-209). `DocumentedPrecedence` takes a
  variable that is set as the source that decides.
* The request for the link type may fail while the connection succeeds. Every
  Lua service for DSL or cable is then off until the next start
  (fritzbox/handler.py:762).
* Discovery is done once. An update of the box that `DeviceInfo` notices during
  it, or that comes after it, leaves a purpose with two services, none or the
  wrong one until the next start.
* TR-069 services are asked whatever the link type: the handler never reads the
  one they are declared for (fritzbox/handler.py:304, service_handler.py:141).
* One line without a date hides the whole call list, and one empty `<device/>`
  the whole list of smart home devices; other lists lose the one element
  (service_definitions/telephone_list.py, homeauto.py:198).
* The rise of a counter is counted from row to row. When the end of a batch
  splits one poll into two rows, a bucket may end in a row without the counter,
  and if QuestDB's `last()` returns that NULL, the rise up to there is missing.
  `counter_delta_series` reads rows that have any of its counters
  (build_questdb_dashboards.py:372): one without this counter makes `lag()` NULL
  for the next, and the rise before and after it is missing, from the table and
  from the view alike.
* The panel of rates averages eight gauges in the rows that have one of two of
  them (build_questdb_dashboards.py:552). Rows with only one of the other six
  count where their bucket in the view has a rate, and do not in the table: of
  those six, the two sources may show different averages. `SameAverage` is about
  gauges their panel filters on.
* A panel zoomed in so far that a sample is shorter than a bucket shows, where it
  reads the view, the average of a whole bucket at its first sample and nothing
  in the others. `SameAverage` is about samples of whole buckets
  (`RollupAssumption`).
* A log line's time has no zone: an hour of the night in which the clock goes
  back is ambiguous, and its lines may lie one hour off.
* A URL whose port is out of range ends the start in a `ValueError` instead of
  exit status 78.
* Bundling keeps apart what is in one batch. On InfluxDB, router-log lines of one
  type and one second still overwrite each other; QuestDB keeps both.
* `last_config_write` starts at 0 and is compared with `time.monotonic()`: on a
  machine up for less than an hour the first time-zone record comes late
  (influxdb/handler.py:1382).
* A `None` for a text becomes the text `None`.
* `REFRESH ... FULL` after `drop-partitions` rebuilds a rollup from the raw table,
  whose TTL has ended older days: the rollup's own history before the raw window
  goes with it (questdb_admin.py:300).

## What is not modelled

Values, escaping and line protocol text; parsing of XML, JSON and CSV; the
challenge-response computation; URL and TLS probing; the checks of the FRITZ!Box
options; banner, command line, reading of ini files; titles, layout, JSON and
tables of current values of the dashboards; image and release scripts. They are
sequential or pure I/O, and the
models take their outcome as a choice or a constant. Time is a counter of ticks,
monotonic everywhere. The watchdog gets at most one signal. The administrator's
commands act on one box table, next to a daemon that has a profile (one that has
none writes only a disabled row). Text, escaping and order of the fields on a line,
and settings without a rule of their own, stay outside of `LineBundling` and
`BackendConfig`.

## Plan

The order was by what it costs when it goes wrong: lost or duplicated data
first (InfluxWriter, Delivery), then shutdown (Daemon), destruction of history
(QuestDBProvisioning), polling (ServicePolling, LuaSession,
MeasurementTracking), supervision (Watchdog), administration (QuestDBAdmin), the
paths around them (LogForwarding, LineBundling, BackendConfig), and what is read
from the box and shown of it (ServiceCatalogue, Discovery, ValueExtraction,
RollupQueries). What is left:

1. An abstract specification of the status row (what Grafana may rely on) that
   both `QuestDBProvisioning` and `QuestDBAdmin` implement.
2. OneVariant in `Discovery` for every catalogue that satisfies its assumption.
3. ReportedOnce for every feed size.
