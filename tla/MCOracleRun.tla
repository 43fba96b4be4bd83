---------------------------- MODULE MCOracleRun -----------------------------
(***************************************************************************)
(* Instances of OracleRun for TLC: a task with both markers, one with the  *)
(* success marker alone, and one that only a held flag can score.          *)
(***************************************************************************)
EXTENDS OracleRun

MCTasks == {[success |-> TRUE, fail |-> TRUE, flag |-> "none"],
            [success |-> TRUE, fail |-> FALSE, flag |-> "same"],
            [success |-> FALSE, fail |-> TRUE, flag |-> "same"]}
=============================================================================
