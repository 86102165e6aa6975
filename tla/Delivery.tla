------------------------------ MODULE Delivery ------------------------------
(***************************************************************************)
(* What the database writer promises for each measurement handed to it,    *)
(* whatever the database answers: it holds the measurement until the       *)
(* database has it (delivered) or until it gives it up for good            *)
(* (discarded).  It delivers nothing the database does not have, loses     *)
(* nothing silently, and never writes again what it has delivered or       *)
(* discarded.  A held measurement may reach the database more than once:   *)
(* delivery is at least once.                                              *)
(***************************************************************************)
CONSTANT Measurements

VARIABLES
    fate,       \* unseen, held, delivered or discarded, for each measurement
    database    \* the measurements the database has

vars == <<fate, database>>

InState(f) == {m \in Measurements : fate[m] = f}

TypeOK ==
    /\ fate \in [Measurements ->
                    {"unseen", "held", "delivered", "discarded"}]
    /\ database \subseteq Measurements

Init ==
    /\ fate = [m \in Measurements |-> "unseen"]
    /\ database = {}

Accept(m) ==
    /\ fate[m] = "unseen"
    /\ fate' = [fate EXCEPT ![m] = "held"]
    /\ UNCHANGED database

\* The measurements of written reach the database, and those of done and
\* given_up are settled.
Settle(written, done, given_up) ==
    /\ done \cap given_up = {}
    /\ done \subseteq database \cup written
    /\ database' = database \cup written
    /\ fate' = [m \in Measurements |->
                   IF m \in done THEN "delivered"
                   ELSE IF m \in given_up THEN "discarded" ELSE fate[m]]

Next ==
    \/ \E m \in Measurements : Accept(m)
    \/ \E written, done, given_up \in SUBSET InState("held") :
          Settle(written, done, given_up)

Spec == Init /\ [][Next]_vars
=============================================================================
