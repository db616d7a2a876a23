------------------------------ MODULE MCDocGap ------------------------------
(* DocGap for TLC: one phase, two pauses.                                  *)
EXTENDS DocGap
=============================================================================
