--------------------------- MODULE MCInfluxWriter ---------------------------
(***************************************************************************)
(* Instances of InfluxWriter for TLC.                                      *)
(***************************************************************************)
EXTENDS InfluxWriter

\* Event-log entries carry the box's own, older timestamps, so arrival order
\* and age differ; two measurements of one query share a timestamp.
MixedTimestamps == [m \in Measurements |-> <<2, 1, 3, 3, 4>>[m]]

\* Arrival order is age.
RisingTimestamps == [m \in Measurements |-> m]

\* The second measurement has no value bundle_measurements can convert.
AllButSecond == Measurements \ {2}

NoRetention == AllAnswers \ {"retention", "exception"}
=============================================================================
