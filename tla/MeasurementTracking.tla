------------------------ MODULE MeasurementTracking ------------------------
(***************************************************************************)
(* How FritzBoxLuaService (app/classes/fritzbox/service_handler.py) tells  *)
(* new log lines and phone calls from those it has reported before.        *)
(*                                                                         *)
(* The box lists its latest lines, newest first, at most FeedSize of them. *)
(* Every query walks through the list once per metric of the service and   *)
(* remembers the keys it has reported, no more than                        *)
(* max_tracked_measurements of them.  A service is never queried by two    *)
(* threads at once, so a query is one step.                                *)
(***************************************************************************)
EXTENDS Integers, Sequences, SequencesExt

CONSTANTS
    NumMetrics,                 \* value_instances of the service
    FeedSize,                   \* lines the box lists
    max_tracked_measurements,
    MaxLines                    \* bound: lines the box ever writes

ASSUME TrackingAssumption ==
    /\ NumMetrics \in Nat \ {0}
    /\ FeedSize \in Nat \ {0}
    /\ max_tracked_measurements \in Nat \ {0}
    /\ MaxLines \in Nat

\* The memory holds what the box lists, and what it may have pushed off the list
\* since: 10 000 keys do for a list of 714 calls with seven metrics each.
ASSUME MemorySuffices ==
    max_tracked_measurements >= NumMetrics * (2 * FeedSize - 1)

VARIABLES
    newest,                     \* last line the box has written
    cleared,                    \* last line its user has deleted
    tracked_measurements,       \* the set
    tracked_measurement_order,  \* the deque
    reported,                   \* ghost: keys put on the queue so far
    repeated                    \* ghost: keys put there more than once

vars == <<newest, cleared, tracked_measurements, tracked_measurement_order,
          reported, repeated>>

Init ==
    /\ newest = 0
    /\ cleared = 0
    /\ tracked_measurements = {}
    /\ tracked_measurement_order = <<>>
    /\ reported = {}
    /\ repeated = {}

\* The box's answer, newest line first.
Listed ==
    LET size == IF newest - cleared < FeedSize THEN newest - cleared
                ELSE FeedSize
    IN  [i \in 1 .. size |-> newest - i + 1]

\* Faults of ReportedOnce: a deque that forgets one key too many, or the wrong
\* end of it.
KeepsOneLess(order) == Len(order) >= max_tracked_measurements
TooMany(order)      == Len(order) > max_tracked_measurements

add_tracked_measurement(memory, key) ==
    LET order == Append(memory.order, key)
        known == memory.known \cup {key}
    IN  IF TooMany(order)
        THEN [memory EXCEPT !.order = Tail(order),
                            !.known = known \ {Head(order)}]
        ELSE [memory EXCEPT !.order = order, !.known = known]

\* The end of extract_value: skip_tracked_measurement, add_tracked_measurement
\* and the append to current_result_list.
extract_value(memory, key) ==
    IF key \in memory.known THEN memory
    ELSE [add_tracked_measurement(memory, key)
             EXCEPT !.results = Append(memory.results, key)]

\* query_service_data: one metric after the other; a key is a metric and a line
\* (_measurement_tracking_key).
ListedKeys ==
    FlattenSeq([m \in 1 .. NumMetrics |->
                   [i \in 1 .. Len(Listed) |-> <<m, Listed[i]>>]])

Remembered ==
    [known |-> tracked_measurements, order |-> tracked_measurement_order,
     results |-> <<>>]

Walked(keys) ==
    LET memory[n \in 0 .. Len(keys)] ==
            IF n = 0 THEN Remembered
            ELSE extract_value(memory[n - 1], keys[n])
    IN  memory[Len(keys)]

Query ==
    LET after == Walked(ListedKeys)
    IN  /\ tracked_measurements' = after.known
        /\ tracked_measurement_order' = after.order
        /\ reported' = reported \cup ToSet(after.results)
        /\ repeated' = repeated \cup
              {key \in ToSet(after.results) :
                  key \in reported \/ ~IsInjective(after.results)}
        /\ UNCHANGED <<newest, cleared>>

WriteLine ==
    /\ newest < MaxLines
    /\ newest' = newest + 1
    /\ UNCHANGED <<cleared, tracked_measurements, tracked_measurement_order,
                   reported, repeated>>

Clear ==
    /\ cleared' = newest
    /\ UNCHANGED <<newest, tracked_measurements, tracked_measurement_order,
                   reported, repeated>>

Next == Query \/ WriteLine \/ Clear

Spec == Init /\ [][Next]_vars

(***************************************************************************)
(* Properties                                                              *)
(***************************************************************************)
\* "only add logs which have not been seen before" (skip_tracked_measurement):
\* although keys are forgotten in the order they came in, which within a query
\* is newest first, none is forgotten that the box may still list.
ReportedOnce == repeated = {}
=============================================================================
