---------------------------- MODULE RollupQueries ----------------------------
(***************************************************************************)
(* What a Grafana panel shows of a table that is downsampled: the rollup   *)
(* view of questdb_rollup_ddl (app/classes/influxdb/handler.py), and the   *)
(* queries of tools/build_questdb_dashboards.py, which read the table for  *)
(* a recent range and the view for a longer one.                           *)
(*                                                                         *)
(* One gauge and one counter stand for all of them; of the others that a   *)
(* panel shows beside it, a row has only whether any of them is there.     *)
(* The status row is up to date and the view refreshed: how they get there *)
(* is the subject of QuestDBProvisioning.  Time is counted in units the    *)
(* buckets of the view and the days of the partitions are multiples of.    *)
(*                                                                         *)
(* A source, table or view, is a function from numbers to rows: a row has  *)
(* the number it was written with, one of the view that of the first row   *)
(* of its bucket.  The order of the numbers is the order of time.          *)
(***************************************************************************)
EXTENDS Integers, Sequences, FiniteSets, FiniteSetsExt, Functions

CONSTANTS
    Lines,              \* box, name, gauge and counter of what is written,
                        \* and whether there is another gauge or counter
    Null,               \* a column without a value
    Bucket,             \* rollup_interval
    Day,                \* PARTITION BY DAY
    raw_days,           \* of the status row, the TTL of the table
    view_days,          \* data_retention_days, the TTL of the view, 0 for none
    Sample,             \* SAMPLE BY of a panel
    LastTime,           \* bounds on time and
    MaxRows             \* on the rows of the table

\* counter_delta_series partitions by box alone: a counter it is used for, one
\* of the box itself, has one series per box.
OneSeries ==
    \A l, m \in Lines :
        l.box = m.box /\ l.counter # Null /\ m.counter # Null => l.name = m.name

ASSUME RollupAssumption ==
    /\ \A l \in Lines : /\ {l.gauge, l.counter} \subseteq Int \cup {Null}
                       /\ {l.beside_gauge, l.beside_counter} \subseteq BOOLEAN
    /\ OneSeries
    /\ Null \notin Int
    /\ {Bucket, Day, Sample} \subseteq Nat \ {0}
    /\ Sample % Bucket = 0
    /\ {raw_days, view_days, LastTime, MaxRows} \subseteq Nat

VARIABLES
    rows,               \* every row ever written, in order of time
    now,
    last_skips_null     \* whether last() of QuestDB passes over NULL

rollup_vars == <<rows, now, last_skips_null>>

RollupInit == rows = <<>> /\ now = 0 /\ last_skips_null \in BOOLEAN

WriteRow(line) ==
    /\ Len(rows) < MaxRows
    /\ rows' = Append(rows, [time |-> now, box |-> line.box, name |-> line.name,
                             gauge |-> line.gauge, counter |-> line.counter,
                             beside_gauge |-> line.beside_gauge,
                             beside_counter |-> line.beside_counter])
    /\ UNCHANGED <<now, last_skips_null>>

TimePasses ==
    now < LastTime /\ now' = now + 1 /\ UNCHANGED <<rows, last_skips_null>>

RollupNext == TimePasses \/ \E l \in Lines : WriteRow(l)

RollupSpec == RollupInit /\ [][RollupNext]_rollup_vars

(***************************************************************************)
(* The table: the TTL drops a partition that lies before the window.       *)
(***************************************************************************)
Unexpired(time, days) == (time \div Day + 1) * Day > now - days * Day

Retained(row) == Unexpired(row.time, raw_days)

Raw == Restrict(rows, {i \in DOMAIN rows : Retained(rows[i])})

(***************************************************************************)
(* The view: it keeps its own rows for its own TTL, whatever became of     *)
(* those of the table.                                                     *)
(***************************************************************************)
\* WHERE any classified column IS NOT NULL, SAMPLE BY, and the dimensions.
Group(row) == <<row.time \div Bucket, row.box, row.name>>

InView(row) ==
    \/ row.gauge # Null \/ row.beside_gauge
    \/ row.counter # Null \/ row.beside_counter

Members(group) ==
    {i \in DOMAIN rows : InView(rows[i]) /\ Group(rows[i]) = group}

Gauged(members) == {i \in members : rows[i].gauge # Null}

Candidates(members) ==
    IF last_skips_null THEN {i \in members : rows[i].counter # Null} ELSE members

\* A mutant of LastOf: the first value of a bucket.
FirstOf(members) ==
    IF Candidates(members) = {} THEN Null ELSE rows[Min(Candidates(members))].counter

LastOf(members) ==
    IF Candidates(members) = {} THEN Null ELSE rows[Max(Candidates(members))].counter

BesideOf(members) ==
    \E i \in members :
        rows[i].beside_counter /\ (last_skips_null \/ i = Max(members))

\* sum(), count() and last(): over no value at all, a sum is NULL.
RollupRow(group) ==
    LET gauged == Gauged(Members(group))
    IN  [time |-> group[1] * Bucket, box |-> group[2], name |-> group[3],
         gauge |-> IF gauged = {} THEN Null
                   ELSE SumFunction([i \in gauged |-> rows[i].gauge]),
         count |-> Cardinality(gauged),
         counter |-> LastOf(Members(group)),
         beside_gauge |-> \E i \in Members(group) : rows[i].beside_gauge,
         beside_counter |-> BesideOf(Members(group))]

Opens(i) == InView(rows[i]) /\ i = Min(Members(Group(rows[i])))

Rollup == [i \in {j \in DOMAIN rows : Opens(j)} |-> RollupRow(Group(rows[i]))]

ViewKeeps(time) == view_days = 0 \/ Unexpired(time, view_days)

View == Restrict(Rollup, {i \in DOMAIN Rollup : ViewKeeps(Rollup[i].time)})

(***************************************************************************)
(* The queries.  A source is one of the two, with what the suffixes of     *)
(* routing_variables make of a column in it.                               *)
(***************************************************************************)
\* A mutant of ReadsRollup: one partition more is expected in the table.
ReadsRollupLate(from) == from < now - (raw_days + 1) * Day

\* source_variable: the view is preferred where the range starts too early.
ReadsRollup(from) == from < now - raw_days * Day

\* count() of a raw column, sum() of a column of counts.
Routed(row) == [time |-> row.time, box |-> row.box, name |-> row.name,
                gauge |-> row.gauge, counter |-> row.counter,
                beside_gauge |-> row.beside_gauge,
                beside_counter |-> row.beside_counter,
                count |-> IF row.gauge = Null THEN 0 ELSE 1]

RoutedRaw(table) == [i \in DOMAIN table |-> Routed(table[i])]

Source(from, view, table) == IF ReadsRollup(from) THEN view ELSE table

\* What a panel of gauges reads of the interval from a on: the rows in which
\* any gauge it shows has a value.
Sampled(source, boxes, name, a) ==
    {i \in DOMAIN source : /\ a <= source[i].time
                           /\ source[i].time < a + Sample
                           /\ source[i].box \in boxes
                           /\ source[i].name = name
                           /\ source[i].gauge # Null \/ source[i].beside_gauge}

\* gauge_avg: a quotient of two sums, which pass over NULL.
Averaged(source, boxes, name, a) ==
    {i \in Sampled(source, boxes, name, a) : source[i].gauge # Null}

gauge_avg(source, boxes, name, a) ==
    LET read == Averaged(source, boxes, name, a)
    IN  <<SumFunction([i \in read |-> source[i].gauge]),
          SumFunction([i \in read |-> source[i].count])>>

SameRatio(p, q) == (p[2] = 0 <=> q[2] = 0) /\ p[1] * q[2] = q[1] * p[2]

\* What is read of one box from a on: by counter_delta_24h, which shows a
\* counter alone, the rows that have it, and by counter_delta_series the rows
\* that have any counter it shows.
Counted(source, box, a, alone) ==
    {i \in DOMAIN source :
        /\ a <= source[i].time
        /\ source[i].box = box
        /\ source[i].counter # Null \/ (~alone /\ source[i].beside_counter)}

\* lag() is NULL for the first row and after a row without a value; a value
\* that is less than the one before is a restart.
Delta(source, read, i) ==
    LET earlier  == {j \in read : j < i}
        value    == source[i].counter
        previous == source[Max(earlier)].counter
    IN  IF earlier = {} \/ value = Null THEN 0
        ELSE IF previous = Null THEN 0
        ELSE IF value < previous THEN 0 ELSE value - previous

counter_delta(source, read) ==
    SumFunction([i \in read |-> Delta(source, read, i)])

(***************************************************************************)
(* Properties                                                              *)
(***************************************************************************)
BoxNames == {rows[i].box : i \in DOMAIN rows}

\* The whole intervals of a panel whose range starts at from, as far back as
\* the view goes where the panel reads that.
Intervals(from) ==
    {a \in from .. LastTime :
        a % Sample = 0 /\ (ReadsRollup(from) => ViewKeeps(a))}

AveragesAgree(view, table, all) ==
    \A from \in 0 .. now :
        \A a \in Intervals(from) :
            \A boxes \in SUBSET BoxNames,
               name \in {rows[i].name : i \in DOMAIN rows} :
                SameRatio(gauge_avg(Source(from, view, table), boxes, name, a),
                          gauge_avg(all, boxes, name, a))

Rises(source, read) ==
    \A i, j \in read : i < j => source[i].counter <= source[j].counter

HaveCounter(source, read) == \A i \in read : source[i].counter # Null

\* What a source yields, and what all rows do.
IncreaseAgrees(source, read, all) ==
    /\ counter_delta(source, read) <= counter_delta(rows, all)
    /\ last_skips_null /\ read # {} /\ HaveCounter(source, read)
          /\ Rises(rows, all) =>
             counter_delta(source, read) =
                 rows[Max(all)].counter - source[Min(read)].counter

IncreasesAgree(view, table) ==
    \A from \in 0 .. now, box \in BoxNames, alone \in BOOLEAN :
        LET source == Source(from, view, table)
        IN  IncreaseAgrees(source, Counted(source, box, from, alone),
                           Counted(rows, box, from, TRUE))

\* The average of a gauge over every whole interval of a range is that of all
\* values ever written in it, whether the panel reads the table or the view,
\* and although the TTL has removed the rows themselves: over every interval,
\* that is, which the TTL of the view has not removed too.  An average of the
\* averages of the buckets, a count of buckets, or a source that does not
\* reach back to the start of the range would give another.  Every gauge is
\* among those its panel filters on: the panel of rates is an exception.
SameAverage == AveragesAgree(View, RoutedRaw(Raw), RoutedRaw(rows))

\* The rise of a counter over a range is never more than all its values give,
\* restarts included.  Of a counter that only rose it lacks what it rose up to
\* the first value the source has, where last() skips NULL and every row that
\* is read has the counter, as it has for counter_delta_24h: a row with only
\* another counter of the panel hides the rise before and after it.
SameIncrease == IncreasesAgree(View, Raw)
=============================================================================
