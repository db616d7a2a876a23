----------------------------- MODULE MCPublish -----------------------------
(***************************************************************************)
(* Instance of Publish for TLC.  The sync operation comes first, so that a *)
(* conflict on the tag leaves a batch half published.                      *)
(***************************************************************************)
EXTENDS Publish

MCPlan == <<"sync", "merge", "tag">>
=============================================================================
