---------------------------- MODULE LineBundling ----------------------------
(***************************************************************************)
(* From measurements to the lines of a request: FritzMeasurement           *)
(* (app/classes/common.py) and InfluxHandler.bundle_measurements           *)
(* (app/classes/influxdb/handler.py).                                      *)
(*                                                                         *)
(* A name is a sequence of characters, because QuestDB allows no dot in    *)
(* one; a value is its type and a number; the text of tags, values and     *)
(* lines, with its escaping, is left out.  Time is a number of ticks.  The *)
(* queue holds nothing but measurements.                                   *)
(***************************************************************************)
EXTENDS Integers, Sequences, FiniteSets, FiniteSetsExt

CONSTANTS
    Inputs,             \* arguments the pollers construct measurements from
    MaxBatch,           \* bound: measurements in a batch
    INT64_MIN, INT64_MAX,
    TicksPerS, TicksPerMs,
    measurement_name    \* config.measurement_name

VARIABLES
    version,            \* "questdb" or a version of InfluxDB
    batch               \* measurements of one request, in the buffer's order

NoName == "none"

(***************************************************************************)
(* FritzMeasurement                                                        *)
(***************************************************************************)
TicksOf(precision) == CASE precision = "s"  -> TicksPerS
                        [] precision = "ms" -> TicksPerMs
                        [] precision = "us" -> 1

\* update_timestamp_precision
Truncated(timestamp, precision) == timestamp - (timestamp % TicksOf(precision))

\* The box's own tag cannot be overridden by additional_tags.
Tags(box_tag, additional_tags) ==
    [key \in {"box"} \cup DOMAIN additional_tags |->
        IF key = "box" THEN box_tag ELSE additional_tags[key]]

\* int(), float(), str(), parse_bool() or sanitize_value(); "digits" is a text
\* that is a number.  What a data_type cannot take becomes None, but str(None)
\* is a text.
Numeric == {"bool", "int", "float", "digits"}
NoValue == [type |-> "none", number |-> 0]

Converted(data_type, raw) ==
    CASE data_type = "str" -> [raw EXCEPT !.type = "str"]
      [] data_type = "int" ->
            IF raw.type \in Numeric THEN [raw EXCEPT !.type = "int"] ELSE NoValue
      [] data_type = "float" ->
            IF raw.type \in Numeric THEN [raw EXCEPT !.type = "float"]
            ELSE IF raw.type = "nonfinite" THEN raw ELSE NoValue
      [] data_type = "bool" ->
            IF \/ raw.type \in {"bool", "int"}
               \/ raw.type = "digits" /\ raw.number \in {0, 1}
            THEN [type |-> "bool", number |-> IF raw.number = 0 THEN 0 ELSE 1]
            ELSE NoValue
      [] OTHER -> IF raw.type = "digits" THEN [raw EXCEPT !.type = "int"]
                  ELSE raw

FritzMeasurement(input) ==
    [name |-> input.key,
     value |-> Converted(input.data_type, input.value),
     tags |-> Tags(input.box_tag, input.additional_tags),
     timestamp |-> Truncated(input.timestamp, input.timestamp_precision),
     timestamp_precision |-> input.timestamp_precision,
     measurement |-> input.measurement]

line_protocol_series(m) ==
    [measurement |-> IF m.measurement = NoName THEN measurement_name
                     ELSE m.measurement,
     tags |-> m.tags]

line_protocol_timestamp(m) == m.timestamp \div TicksOf(m.timestamp_precision)

\* The values line_protocol_field has a text for: not None, no float that is
\* not finite, and no integer outside of 64 bits.  A bool is no integer here.
Writable(value) ==
    CASE value.type \in {"none", "nonfinite"} -> FALSE
      [] value.type = "int" -> value.number \in INT64_MIN .. INT64_MAX
      [] OTHER -> TRUE

(***************************************************************************)
(* bundle_measurements                                                     *)
(***************************************************************************)
FieldName(m) ==
    IF version = "questdb"
    THEN [i \in DOMAIN m.name |-> IF m.name[i] = "." THEN "_" ELSE m.name[i]]
    ELSE m.name

Key(m) == <<line_protocol_series(m), line_protocol_timestamp(m)>>

\* Faults of NoFieldLost: the name that is looked up is not the one that is
\* written.
LookedUpUnchanged(m) == m.name
LookedUp(m)          == FieldName(m)

Put(line, m) ==
    [line EXCEPT !.fields =
        [name \in DOMAIN line.fields \cup {FieldName(m)} |->
            IF name = FieldName(m) THEN m.value ELSE line.fields[name]]]

\* One turn of the loop: the first line of this series and time that has no
\* such field yet takes it, or a new one does.
Bundle(result, m) ==
    LET fitting == {i \in DOMAIN result.lines :
                       /\ result.lines[i].key = Key(m)
                       /\ LookedUp(m) \notin DOMAIN result.lines[i].fields}
        empty == [key |-> Key(m), fields |-> <<>>]
    IN  IF ~Writable(m.value) THEN result
        ELSE [lines |-> IF fitting = {} THEN Append(result.lines, Put(empty, m))
                        ELSE LET i == Min(fitting)
                             IN  [result.lines EXCEPT ![i] = Put(@, m)],
              valid |-> Append(result.valid, m)]

\* The loop over the batch.
bundle_measurements(measurements) ==
    LET result[n \in 0 .. Len(measurements)] ==
            IF n = 0 THEN [lines |-> <<>>, valid |-> <<>>]
            ELSE Bundle(result[n - 1], measurements[n])
    IN  result[Len(measurements)]

(***************************************************************************)
(* Batches                                                                 *)
(***************************************************************************)
BundlingInit ==
    /\ version \in {"1", "questdb"}
    /\ batch = <<>>

Add(input) ==
    /\ Len(batch) < MaxBatch
    /\ batch' = Append(batch, FritzMeasurement(input))
    /\ UNCHANGED version

BundlingNext == \E input \in Inputs : Add(input)

BundlingSpec == BundlingInit /\ [][BundlingNext]_<<version, batch>>

(***************************************************************************)
(* Properties                                                              *)
(***************************************************************************)
\* Of the first n measurements: those with a value that can be written, and
\* among them those for the same field of the same series and time as m.
WrittenOf(n) == {i \in 1 .. n : Writable(batch[i].value)}

SameField(m, n) ==
    {i \in WrittenOf(n) :
        Key(batch[i]) = Key(m) /\ FieldName(batch[i]) = FieldName(m)}

\* Of the first n lines, those of a series and time.
LinesOf(lines, key, n) == {l \in 1 .. n : lines[l].key = key}

\* The first value of a field is on the first line of its series and time, the
\* second on the second one, and so on.
Carries(lines, l, i) ==
    LET m == batch[i]
    IN  /\ lines[l].key = Key(m)
        /\ FieldName(m) \in DOMAIN lines[l].fields
        /\ lines[l].fields[FieldName(m)] = m.value
        /\ Cardinality(LinesOf(lines, Key(m), l)) = Cardinality(SameField(m, i))

\* What has become of the first n measurements.
Bundled(result, n) ==
    LET lines == result.lines
    IN  /\ Len(result.valid) = Cardinality(WrittenOf(n))
        /\ \A i \in WrittenOf(n) :
              /\ result.valid[Cardinality(WrittenOf(i))] = batch[i]
              /\ \E l \in DOMAIN lines : Carries(lines, l, i)
        /\ \A l \in DOMAIN lines :
              /\ DOMAIN lines[l].fields # {}
              /\ \A field \in DOMAIN lines[l].fields :
                    \E i \in WrittenOf(n) :
                        FieldName(batch[i]) = field /\ Carries(lines, l, i)

\* "Starts a new line instead of overwriting the earlier value" (the comment
\* of bundle_measurements): every value that can be written is on one line, in
\* the order of the batch, and there are no more lines than the values of one
\* field need, although names may become equal by losing their dots and times
\* by losing their fractions.
NoFieldLost == Bundled(bundle_measurements(batch), Len(batch))
=============================================================================
