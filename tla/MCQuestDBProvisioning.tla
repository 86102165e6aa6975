------------------------ MODULE MCQuestDBProvisioning ------------------------
(***************************************************************************)
(* Instances of QuestDBProvisioning for TLC, with the windows and rollup   *)
(* intervals of the real profiles.                                         *)
(***************************************************************************)
EXTENDS QuestDBProvisioning

AllProfiles == {"low", "medium", "high"}

ProfileRawDays ==
    [p \in AllProfiles |-> CASE p = "low" -> 30 [] p = "medium" -> 7
                              [] p = "high" -> 1]

ProfileInterval ==
    [p \in AllProfiles |-> IF p = "high" THEN "5m" ELSE "1m"]

SomeTTLs == {0, 30, Odd}
=============================================================================
