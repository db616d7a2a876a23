--------------------------- MODULE MCCommandPlane ---------------------------
(***************************************************************************)
(* Small instances of CommandPlane.                                        *)
(***************************************************************************)
EXTENDS CommandPlane, TLC

CONSTANTS d1, d2

Symmetry == Permutations(Server) \cup Permutations(DriveCmd)
=============================================================================
