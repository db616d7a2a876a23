---------------------------- MODULE MCTaskCycle ----------------------------
(***************************************************************************)
(* Instance of TaskCycle for TLC: a task of Devon's and one the runtime    *)
(* verifies.                                                               *)
(***************************************************************************)
EXTENDS TaskCycle

MCTasks == {"t1", "t2"}
MCKind == [t \in MCTasks |-> IF t = "t1" THEN "rgr" ELSE "verification"]
=============================================================================
