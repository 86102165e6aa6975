--------------------------- MODULE MCServicePolling ---------------------------
(***************************************************************************)
(* An instance of ServicePolling for TLC: a service with two actions and   *)
(* one with a single action and a longer interval.                         *)
(***************************************************************************)
EXTENDS ServicePolling, TLC

CONSTANTS s1, s2

TwoAndOne     == (s1 :> 2) @@ (s2 :> 1)
TwoIntervals  == (s1 :> 1) @@ (s2 :> 2)
=============================================================================
