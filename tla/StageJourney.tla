---------------------------- MODULE StageJourney ----------------------------
(***************************************************************************)
(* What the requirement stages of a run promise (flow.md, M-STORY, M-SPEC, *)
(* M-ACC): a stage is left forward only after its reviewer passed the      *)
(* document and the human then let it through; the document may be         *)
(* reopened at any time; a run may be sent back to its own stage or an     *)
(* earlier one, where both approvals have to be earned again.              *)
(***************************************************************************)
EXTENDS Naturals

CONSTANT LastStage      \* a natural number

VARIABLES at, gate

Gates == {"open", "reviewed", "approved"}

Init == at = 1 /\ gate = "open"

ReviewerPasses == gate = "open" /\ gate' = "reviewed" /\ UNCHANGED at

HumanApproves == gate = "reviewed" /\ gate' = "approved" /\ UNCHANGED at

Reopen == gate # "open" /\ gate' = "open" /\ UNCHANGED at

\* The stage after LastStage is the requirement approval.
Advance == gate = "approved" /\ at <= LastStage /\ at' = at + 1 /\ gate' = "open"

SendBack == \E i \in 1..at : at' = i /\ gate' = "open"

Next == ReviewerPasses \/ HumanApproves \/ Reopen \/ Advance \/ SendBack

Spec == Init /\ [][Next]_<<at, gate>>
=============================================================================
