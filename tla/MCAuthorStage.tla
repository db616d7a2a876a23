--------------------------- MODULE MCAuthorStage ---------------------------
(***************************************************************************)
(* Instance of AuthorStage for TLC.  The limits are those of the code when *)
(* both are 3; 2 keeps "one more try" apart from "a human is asked".       *)
(***************************************************************************)
EXTENDS AuthorStage
=============================================================================
