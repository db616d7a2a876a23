---------------------------- MODULE MCVerifyWalk ----------------------------
(* Instance of VerifyWalk for TLC.                                         *)
EXTENDS VerifyWalk
=============================================================================
