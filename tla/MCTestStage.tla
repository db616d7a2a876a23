---------------------------- MODULE MCTestStage ----------------------------
(* TestStage for TLC: two attempts, two failures of each free kind, one    *)
(* return into the stage.                                                  *)
EXTENDS TestStage
=============================================================================
