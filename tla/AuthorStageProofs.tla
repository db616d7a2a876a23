------------------------- MODULE AuthorStageProofs -------------------------
(***************************************************************************)
(* What a run of the requirement stages keeps, for any limits on attempts  *)
(* and infrastructure failures: the types in every state, and in a run     *)
(* nothing has damaged the accounts of its commits, exits and stops, and   *)
(* the promise of its stages (StageJourney).                               *)
(***************************************************************************)
EXTENDS AuthorStage, TLAPS

AuthorSubs == {"TRIAGE", "DRAFT", "RESPOND"}
HumanGates == {"triage", "review", "threads"}
ResultCommands == {"validate", "checkpoint", "publish"}
ExitCommands == {"validate_document", "write_frontmatter"}
RejectCommands == {"record_backlog", "delete_branch", "complete_run"}

(***************************************************************************)
(* In every state, damaged ones included: a spent budget leaves nothing to *)
(* attempt; a command about a result finds one; a return has a target; and *)
(* only a run that left is past the last stage.                            *)
(***************************************************************************)
BudgetLeft ==
    s.attempt = AttemptLimit =>
        /\ s.pending \notin {"dispatch", "validate", "checkpoint"} \cup ExitCommands
        /\ drv # "wait" /\ s.result = NoResult /\ s.sub \notin NoDiff
        /\ s.awaiting \notin HumanGates
        /\ \/ s.status = "awaiting_human" /\ s.awaiting = "escalation"
           \/ s.status = "completed"
           \/ s.sub = "RETURNED"

ResultsFound ==
    /\ s.pending \in ResultCommands => s.result # NoResult /\ s.sub \notin NoDiff
    /\ s.sub \in NoDiff => s.result # NoResult
    /\ s.result.origin \notin NoDiff
    /\ s.pending \in ExitCommands => s.sub = "EXIT"

\* No result, and no gate, while somebody works for one.
Unanswered ==
    s.infra > 0 \/ drv = "wait" \/ (s.pending = "dispatch" /\ s.sub \notin NoDiff) =>
        /\ s.result = NoResult /\ s.awaiting \notin HumanGates
        /\ s.sub \notin NoDiff \cup {"EXIT"}

ReturnsAimed ==
    /\ s.sub = "RETURNED" \/ s.result.origin = "RETURNED" => s.target \in 1..s.stage
    /\ s.pending = "rollback" => s.scopeOverflow \/ s.sub = "RETURNED"

StagesLeft ==
    /\ drv # "left" => s.stage \in Stages
    /\ drv \in {"loop", "wait", "emit", "left"} => s.pending = "none"
    /\ drv = "exec" => s.pending # "none"
    /\ drv = "emit" <=> todo # "none"

BInv == TypeOK /\ BudgetLeft /\ ResultsFound /\ Unanswered /\ ReturnsAimed /\ StagesLeft

(***************************************************************************)
(* The parts of an undamaged run's invariant.  What a run that is over,    *)
(* one the breaker stopped, and the three appends of an exit leave.        *)
(***************************************************************************)
Driven ==
    /\ s.status = "completed" =>
          /\ s.pending = "none" /\ s.awaiting = "none"
          /\ \/ drv = "off"
             \/ drv \in {"wait", "loop"} /\ s.result = NoResult /\ s.sub \notin NoDiff
    /\ tripped => /\ s.pending = "none"
                  /\ s.awaiting = "escalation" \/ s.sub = "RETURNED" \/ s.status = "completed"
    /\ todo # "none" => s.sub = "EXIT" /\ s.status = "active"
    /\ s.pending \notin ResultCommands \cup {"none"} /\ s.sub \notin NoDiff =>
          s.status = "active" /\ s.awaiting = "none"
    /\ s.pending \in RejectCommands => s.rejected
    /\ s.stageExited => todo = "entered"

Live == s.status # "completed"

(***************************************************************************)
(* Which gate is open where, and what each substate leaves of the rest.    *)
(***************************************************************************)
GatesPlaced ==
    /\ s.status = "active" => s.awaiting \in {"none", "triage", "review"}
    /\ s.status = "awaiting_human" => s.awaiting \in {"threads", "escalation"}
    /\ s.awaiting = "triage" => s.sub = "TRIAGE"
    /\ s.sub = "TRIAGE" => s.stage = 1
    /\ s.awaiting = "review" => GateSub = "HUMAN_REVIEW"
    /\ s.awaiting = "threads" => GateSub = "LEX_REVIEW"
    /\ Live /\ s.sub = "HUMAN_REVIEW" => s.awaiting = "review"
    /\ Live /\ s.sub \in NoDiff =>
          /\ s.awaiting \in {"review", "threads"}
          /\ s.result.by = "human" /\ s.result.step = "submitted"
    /\ s.sub # "PREVIEW" \/ drv = "left"
    /\ Live /\ s.sub = "NONE" => s.rejected
    /\ s.pending = "dispatch" => s.sub \in AuthorSubs \cup Review \cup NoDiff
    /\ s.rejected =>
          /\ s.stage = 1 /\ s.sub \in {"NONE", "RETURNED"} /\ s.result = NoResult
          /\ ~s.scopeOverflow /\ s.pending # "rollback"
    /\ Live /\ s.scopeOverflow =>
          /\ s.result = NoResult /\ s.pending \in {"none", "rollback"}
          /\ s.awaiting \notin HumanGates
          /\ s.sub \in {"DRAFT", "RESPOND", "RETURNED"} \cup Review
    /\ Live /\ s.sub \in {"EXIT", "RETURNED"} => s.result = NoResult

(***************************************************************************)
(* Whose result is in progress, by the gate it answers or the substate     *)
(* that asked for it.                                                      *)
(***************************************************************************)
ResultsPlaced ==
    Live /\ s.result # NoResult =>
        \/ /\ s.result.by = "human"
           /\ \/ s.awaiting = "triage" /\ s.result.verdict \in {"go", "no_go"}
              \/ /\ s.awaiting \in {"review", "threads"}
                 /\ s.result.verdict \in {"no_comment", "comment", "revise"}
           /\ s.result.verdict # "revise" => s.sub \notin NoDiff
        \/ /\ s.result.by = "agent" /\ s.awaiting = "none"
           /\ \/ s.sub \in {"DRAFT", "RESPOND"} /\ s.result.verdict = "draft"
              \/ s.sub \in Review /\ s.result.verdict \in {"pass", "comment"}
              \/ s.sub = "LEX_REVIEW" /\ s.result.verdict = "park"

(***************************************************************************)
(* A command about a result is about its step; the one commit of a result  *)
(* carries its marker until the next command.                              *)
(***************************************************************************)
StepsInOrder ==
    /\ s.pending = "validate" => s.result.step = "submitted"
    /\ s.pending = "checkpoint" => s.result.step = "validated"
    /\ s.pending = "publish" => s.result.step = "checkpointed"
    /\ Live /\ commits # 0 =>
          \/ s.result.step = "checkpointed"
          \/ s.pending = "checkpoint" /\ s.result.step = "validated" /\ marked

(***************************************************************************)
(* The exit verdict, and the flags that keep a dispatch from repeating.    *)
(***************************************************************************)
FlagsAnswered ==
    /\ Live /\ s.exitValidated => s.sub = "EXIT" /\ s.awaiting = "none"
    /\ Live /\ s.sub \in AuthorSubs /\ s.docDispatched =>
          s.pending = "dispatch" \/ s.result # NoResult \/ s.awaiting = "triage"
    /\ Live /\ s.sub \in Review /\ s.revDispatched =>
          s.pending = "dispatch" \/ s.result # NoResult \/ s.awaiting = "threads"

UInv == Driven /\ GatesPlaced /\ ResultsPlaced /\ StepsInOrder /\ FlagsAnswered

AInv == BInv /\ (scar = "none" => UInv)
-----------------------------------------------------------------------------
(* What decide() answers, and where.                                       *)

(***************************************************************************)
(* Each command is decided in the substates that know it; without a        *)
(* missing diff to explain, nothing but a result in progress is driven at  *)
(* a gate or in a run that is over.                                        *)
(***************************************************************************)
LEMMA DecideFacts ==
    LET c == Decide(s) IN
    /\ c \in Commands \cup {"none"}
    /\ s.sub \in NoDiff => c \in {"none", "dispatch"}
    /\ s.sub \notin NoDiff /\ s.result # NoResult => c \in ResultCommands
    /\ c \in ResultCommands => s.result # NoResult /\ s.sub \notin NoDiff
    /\ c = "validate" => s.result.step = "submitted"
    /\ c = "checkpoint" => s.result.step = "validated"
    /\ c = "publish" => s.result.step \notin {"submitted", "validated"}
    /\ c \notin ResultCommands \cup {"none"} /\ s.sub \notin NoDiff =>
          s.result = NoResult /\ s.status = "active" /\ s.awaiting = "none"
    /\ c = "dispatch" => s.sub \in AuthorSubs \cup Review \cup NoDiff
    /\ c = "dispatch" /\ s.sub \notin NoDiff => ~s.scopeOverflow /\ ~(s.stage = 1 /\ s.rejected)
    /\ c \in ExitCommands => s.sub = "EXIT" /\ ~s.scopeOverflow
    /\ c = "rollback" => /\ s.scopeOverflow \/ s.sub = "RETURNED"
                         /\ ~(s.stage = 1 /\ s.rejected)
    /\ s.sub \notin NoDiff /\ s.result = NoResult /\ s.status = "active"
       /\ s.awaiting = "none" /\ s.scopeOverflow => c \in {"rollback"} \cup RejectCommands
    /\ c \in RejectCommands =>
          s.stage = 1 /\ s.rejected
<1> USE DEF NoDiff, Review, AuthorSubs, ResultCommands, ExitCommands,
            RejectCommands, Commands
<1>1. CASE s.sub = "NO_DIFF_EXPLAIN"
  BY <1>1 DEF Decide
<1>2. CASE s.sub = "NO_DIFF_REVIEW"
  BY <1>2 DEF Decide
<1>3. CASE s.sub \notin NoDiff /\ s.result # NoResult
  <2>1. Decide(s) = ResultCommand(s)
    BY <1>3 DEF Decide
  <2> QED
    BY <1>3, <2>1 DEF ResultCommand
<1>4. CASE s.sub \notin NoDiff /\ s.result = NoResult
           /\ (s.status # "active" \/ s.awaiting # "none")
  <2>1. Decide(s) = "none"
    BY <1>4 DEF Decide
  <2> QED
    BY <1>4, <2>1
<1>5. CASE s.sub \notin NoDiff /\ s.result = NoResult
           /\ s.status = "active" /\ s.awaiting = "none"
  <2>1. Decide(s) = IF s.stage = 1 /\ s.rejected THEN RejectCommand(s)
                    ELSE IF s.scopeOverflow THEN "rollback" ELSE StageCommand(s)
    BY <1>5 DEF Decide
  <2>2. CASE s.stage = 1 /\ s.rejected
    BY <1>5, <2>1, <2>2 DEF RejectCommand
  <2>3. CASE ~(s.stage = 1 /\ s.rejected) /\ s.scopeOverflow
    BY <1>5, <2>1, <2>3
  <2>4. CASE ~(s.stage = 1 /\ s.rejected) /\ ~s.scopeOverflow
    <3>1. Decide(s) = StageCommand(s)
      BY <2>1, <2>4
    <3>2. CASE s.sub \in AuthorSubs
      BY <1>5, <2>4, <3>1, <3>2 DEF StageCommand
    <3>3. CASE s.sub \in Review
      BY <1>5, <2>4, <3>1, <3>3 DEF StageCommand
    <3>4. CASE s.sub = "EXIT"
      BY <1>5, <2>4, <3>1, <3>4 DEF StageCommand
    <3>5. CASE s.sub = "RETURNED"
      BY <1>5, <2>4, <3>1, <3>5 DEF StageCommand
    <3>6. CASE s.sub \notin AuthorSubs \cup Review \cup {"EXIT", "RETURNED"}
      BY <1>5, <2>4, <3>1, <3>6 DEF StageCommand
    <3> QED
      BY <3>2, <3>3, <3>4, <3>5, <3>6
  <2> QED
    BY <2>2, <2>3, <2>4
<1> QED
  BY <1>1, <1>2, <1>3, <1>4, <1>5

(***************************************************************************)
(* The reducers keep the projection one.                                   *)
(***************************************************************************)
LEMMA SmallReducersType ==
    ASSUME NEW t \in StateTypes
    PROVE  /\ ResetDoc(t) \in StateTypes /\ ResetReview(t) \in StateTypes
           /\ ResetActor(t) \in StateTypes /\ ResetActor(t).attempt = t.attempt
           /\ CountInfra(t) \in StateTypes
           /\ \A full \in BOOLEAN : EscalateWhen(t, full) \in StateTypes
           /\ t.attempt # AttemptLimit => Consume(t) \in StateTypes
           /\ [t EXCEPT !.result = NoResult] \in StateTypes
           /\ OnRunCompleted(t) \in StateTypes
<1> USE AuthorStageAssumption DEF StateTypes
<1>1. ResetDoc(t) \in StateTypes /\ ResetReview(t) \in StateTypes
  BY DEF ResetDoc, ResetReview
<1>2. ResetActor(t) \in StateTypes /\ ResetActor(t).attempt = t.attempt
  <2>1. CASE t.sub \in Review
    BY <2>1 DEF ResetActor, ResetReview
  <2>2. CASE t.sub \notin Review
    BY <2>2 DEF ResetActor, ResetDoc
  <2> QED
    BY <2>1, <2>2
<1>3. CountInfra(t) \in StateTypes
  BY DEF CountInfra
<1>4. ASSUME NEW full \in BOOLEAN PROVE EscalateWhen(t, full) \in StateTypes
  <2>1. [t EXCEPT !.status = "awaiting_human", !.awaiting = "escalation"] \in StateTypes
    OBVIOUS
  <2> HIDE DEF StateTypes
  <2> QED
    BY <2>1 DEF EscalateWhen
<1>5. ASSUME t.attempt # AttemptLimit PROVE Consume(t) \in StateTypes
  <2> DEFINE u == EscalateWhen(t, t.attempt + 1 >= AttemptLimit)
  <2>1. u \in StateTypes
    <3>1. (t.attempt + 1 >= AttemptLimit) \in BOOLEAN
      OBVIOUS
    <3> HIDE DEF StateTypes
    <3> QED
      BY <1>4, <3>1
  <2>2. u.attempt = t.attempt
    BY DEF EscalateWhen
  <2>3. u.attempt + 1 \in 0..AttemptLimit
    BY <1>5, <2>2
  <2> HIDE DEF u
  <2>4. [u EXCEPT !.attempt = @ + 1] \in StateTypes
    BY <2>1, <2>3
  <2> QED
    BY <2>4 DEF u, Consume
<1>6. [t EXCEPT !.result = NoResult] \in StateTypes
  OBVIOUS
<1>7. OnRunCompleted(t) \in StateTypes
  BY DEF OnRunCompleted
<1> QED
  BY <1>1, <1>2, <1>3, <1>4, <1>5, <1>6, <1>7

(* What the reducers of a turn give keeps the types.                       *)
LEMMA TurnReducersType ==
    ASSUME NEW t \in StateTypes
    PROVE  /\ \A c \in Commands : OnCommandIssued(t, c) \in StateTypes
           /\ \A v \in AgentVerdicts : OnOutcomeDone(t, v) \in StateTypes
           /\ OnInfraFailure(t) \in StateTypes
           /\ t.attempt # AttemptLimit => OnSemanticFailure(t) \in StateTypes
           /\ OnNoDiffExplained(t) \in StateTypes
           /\ t.result \in Results =>
                 /\ OnNoDiffDetected(t) \in StateTypes
                 /\ OnNoDiffReviewed(t, TRUE) \in StateTypes
                 /\ t.attempt # AttemptLimit => OnNoDiffReviewed(t, FALSE) \in StateTypes
<1> USE DEF StateTypes
<1>1. ASSUME NEW c \in Commands PROVE OnCommandIssued(t, c) \in StateTypes
  BY <1>1 DEF OnCommandIssued
<1>2. ASSUME NEW v \in AgentVerdicts PROVE OnOutcomeDone(t, v) \in StateTypes
  <2>1. [by |-> "agent", verdict |-> v, step |-> "submitted", origin |-> "none"] \in Results
    BY DEF Results
  <2> DEFINE reply == [by |-> "agent", verdict |-> v, step |-> "submitted", origin |-> "none"]
             u == [t EXCEPT !.infra = 0]
  <2>2. u \in StateTypes
    BY AuthorStageAssumption
  <2>3. [u EXCEPT !.awaiting = "triage"] \in StateTypes
    BY <2>2
  <2> HIDE DEF u
  <2>4. [u EXCEPT !.result = reply] \in StateTypes
    BY <2>1, <2>2
  <2> HIDE DEF StateTypes
  <2>5. OnOutcomeDone(t, v) \in {[u EXCEPT !.awaiting = "triage"], [u EXCEPT !.result = reply]}
    BY DEF OnOutcomeDone, u
  <2> QED
    BY <2>3, <2>4, <2>5
<1>3. OnInfraFailure(t) \in StateTypes
  <2> HIDE DEF StateTypes
  <2>1. CountInfra(t) \in StateTypes
    BY SmallReducersType
  <2>2. ResetActor(CountInfra(t)) \in StateTypes
    BY <2>1, SmallReducersType
  <2>3. (t.infra + 1 >= InfraLimit) \in BOOLEAN
    OBVIOUS
  <2> QED
    BY <2>2, <2>3, SmallReducersType DEF OnInfraFailure
<1>4. ASSUME t.attempt # AttemptLimit PROVE OnSemanticFailure(t) \in StateTypes
  <2> DEFINE u == [ResetActor(t) EXCEPT !.infra = 0]
  <2>1. ResetActor(t) \in StateTypes /\ ResetActor(t).attempt = t.attempt
    BY SmallReducersType
  <2>2. u \in StateTypes /\ u.attempt # AttemptLimit
    <3>1. 0 \in 0..InfraLimit
      BY AuthorStageAssumption
    <3> QED
      BY <1>4, <2>1, <3>1
  <2> HIDE DEF StateTypes, u
  <2>3. Consume(u) \in StateTypes
    BY <2>2, SmallReducersType
  <2> QED
    BY <2>3 DEF OnSemanticFailure, u
<1>5. OnNoDiffExplained(t) \in StateTypes
  BY DEF OnNoDiffExplained, Substates, NoDiff
<1>6. ASSUME t.result \in Results
      PROVE  /\ OnNoDiffDetected(t) \in StateTypes
             /\ OnNoDiffReviewed(t, TRUE) \in StateTypes
             /\ t.attempt # AttemptLimit => OnNoDiffReviewed(t, FALSE) \in StateTypes
  <2>1. OnNoDiffDetected(t) \in StateTypes
    <3>1. [t.result EXCEPT !.origin = t.sub] \in Results
      BY <1>6 DEF Results
    <3>2. OnNoDiffDetected(t) =
            [t EXCEPT !.result = [t.result EXCEPT !.origin = t.sub], !.sub = "NO_DIFF_EXPLAIN",
                      !.docDispatched = FALSE, !.noDiffDispatched = FALSE]
      BY DEF OnNoDiffDetected
    <3>3. "NO_DIFF_EXPLAIN" \in Substates
      BY DEF Substates, NoDiff
    <3> QED
      BY ZenonT(40), <3>1, <3>2, <3>3
  <2> DEFINE origin == IF t.result.origin = "none" THEN "DRAFT" ELSE t.result.origin
             u == [t EXCEPT !.sub = origin, !.noDiffDispatched = FALSE]
             w == [u EXCEPT !.result = NoResult]
  <2>2. origin \in Substates
    BY <1>6 DEF Results, Substates
  <2>3. u \in StateTypes /\ u.attempt = t.attempt /\ u.result = t.result
    BY ZenonT(40), <2>2
  <2>4. OnNoDiffReviewed(t, TRUE) \in StateTypes
    <3>1. [t.result EXCEPT !.step = "validated", !.origin = "none"] \in Results
      BY <1>6 DEF Results
    <3>2. OnNoDiffReviewed(t, TRUE) =
            [u EXCEPT !.result = [t.result EXCEPT !.step = "validated", !.origin = "none"]]
      BY DEF OnNoDiffReviewed
    <3> HIDE DEF u
    <3> QED
      BY <2>3, <3>1, <3>2
  <2>5. ASSUME t.attempt # AttemptLimit
        PROVE  OnNoDiffReviewed(t, FALSE) \in StateTypes
    <3>1. OnNoDiffReviewed(t, FALSE) = Consume(ResetActor(w))
      BY DEF OnNoDiffReviewed
    <3>2. w \in StateTypes /\ w.attempt = t.attempt
      <4> HIDE DEF u
      <4> QED
        BY <2>3
    <3> HIDE DEF StateTypes, w, u, origin
    <3>3. ResetActor(w) \in StateTypes /\ ResetActor(w).attempt = w.attempt
      BY <3>2, SmallReducersType
    <3> QED
      BY <2>5, <3>1, <3>2, <3>3, SmallReducersType
  <2> QED
    BY <2>1, <2>4, <2>5
<1> HIDE DEF StateTypes
<1> QED
  BY <1>1, <1>2, <1>3, <1>4, <1>5, <1>6

(* What the reducers of a verdict give keeps the types.                    *)
LEMMA VerdictReducersType ==
    ASSUME NEW t \in StateTypes
    PROVE  /\ OnVerdictPassed(t) \in StateTypes
           /\ t.attempt # AttemptLimit =>
                 \A check \in {"commit", "document", "scope_overflow"} :
                    OnVerdictFailed(t, check) \in StateTypes
           /\ OnDocCommitted(t) \in StateTypes
           /\ \A v \in AgentVerdicts \cup HumanVerdicts :
                 /\ OnReviewerVerdict(t, v) \in StateTypes
                 /\ OnHumanTriage(t, v) \in StateTypes /\ OnHumanReview(t, v) \in StateTypes
           /\ \A clear \in BOOLEAN : OnHumanRetry(t, clear) \in StateTypes
           /\ \A i \in Stages :
                 /\ OnHumanReturn(t, i) \in StateTypes /\ OnStageEntered(t, i) \in StateTypes
                 /\ OnStageEntered(t, i + 1) \in StateTypes
                 /\ OnStageRolledBack(t, i) \in StateTypes
<1> USE DEF StateTypes, Stages, LastStage
<1> DEFINE u == [t EXCEPT !.result = NoResult]
<1>0. 0 \in 0..InfraLimit /\ 0 \in 0..AttemptLimit
  BY AuthorStageAssumption
<1>1. OnVerdictPassed(t) \in StateTypes
  BY <1>0 DEF OnVerdictPassed
<1>2. u \in StateTypes /\ u.attempt = t.attempt
  OBVIOUS
<1>3. ASSUME t.attempt # AttemptLimit, NEW check \in {"commit", "document", "scope_overflow"}
      PROVE  OnVerdictFailed(t, check) \in StateTypes
  <2> DEFINE x == [IF u.sub \in Review THEN ResetReview(u)
                   ELSE [ResetDoc(u) EXCEPT !.sub = "DRAFT"] EXCEPT !.exitValidated = FALSE]
  <2>1. ResetActor(u) \in StateTypes /\ ResetActor(u).attempt # AttemptLimit
    <3> HIDE DEF StateTypes, u
    <3> QED
      BY <1>2, <1>3, SmallReducersType
  <2>2. Consume(ResetActor(u)) \in StateTypes
    <3> HIDE DEF StateTypes, u
    <3> QED
      BY <2>1, SmallReducersType
  <2>3. [ResetActor(u) EXCEPT !.scopeOverflow = TRUE] \in StateTypes
    <3> HIDE DEF u
    <3> QED
      BY <2>1
  <2>4. x \in StateTypes /\ x.attempt # AttemptLimit
    <3>1. "DRAFT" \in Substates
      BY DEF Substates
    <3> QED
      BY ZenonT(40), <1>3, <3>1 DEF ResetReview, ResetDoc
  <2>5. OnCommitRefused(u) \in StateTypes
    <3>1. OnCommitRefused(u) = Consume(x)
      BY DEF OnCommitRefused
    <3> HIDE DEF StateTypes, x, u
    <3> QED
      BY <2>4, <3>1, SmallReducersType
  <2>6. [u EXCEPT !.status = "awaiting_human", !.awaiting = "review"] \in StateTypes
    OBVIOUS
  <2> HIDE DEF StateTypes
  <2>7. OnVerdictFailed(t, check) \in
          {u, OnCommitRefused(u), [u EXCEPT !.status = "awaiting_human", !.awaiting = "review"],
           [ResetActor(u) EXCEPT !.scopeOverflow = TRUE], Consume(ResetActor(u))}
    BY <1>3 DEF OnVerdictFailed
  <2> QED
    BY <1>2, <2>2, <2>3, <2>5, <2>6, <2>7
<1>4. OnDocCommitted(t) \in StateTypes
  <2>1. ReviewOf(t.stage) \in Substates
    BY DEF ReviewOf, Substates, Review
  <2>2. [t EXCEPT !.result = NoResult, !.sub = ReviewOf(t.stage),
                  !.revDispatched = FALSE] \in StateTypes
    BY <2>1
  <2> QED
    BY <2>2 DEF OnDocCommitted, ResetReview
<1>5. ASSUME NEW v \in AgentVerdicts \cup HumanVerdicts
      PROVE  OnReviewerVerdict(t, v) \in StateTypes
  BY <1>0 DEF OnReviewerVerdict, ResetDoc, Substates
<1>6. ASSUME NEW v \in AgentVerdicts \cup HumanVerdicts
      PROVE  OnHumanTriage(t, v) \in StateTypes
  BY ZenonT(40), <1>0 DEF OnHumanTriage, ResetDoc, Substates
<1>7. ASSUME NEW v \in AgentVerdicts \cup HumanVerdicts
      PROVE  OnHumanReview(t, v) \in StateTypes
  BY ZenonT(40), <1>0
     DEF OnHumanReview, ResetDoc, ResetReview, Substates, Review
<1>8. ASSUME NEW clear \in BOOLEAN PROVE OnHumanRetry(t, clear) \in StateTypes
  BY <1>0 DEF OnHumanRetry, ResetDoc, ResetReview
<1>9. ASSUME NEW i \in Stages
      PROVE  /\ OnHumanReturn(t, i) \in StateTypes /\ OnStageEntered(t, i) \in StateTypes
             /\ OnStageEntered(t, i + 1) \in StateTypes
             /\ OnStageRolledBack(t, i) \in StateTypes
  <2> DEFINE base == ResetDoc(ResetReview(t))
  <2>0. base \in StateTypes /\ 0 \in 0..LastStage
    <3>1. base \in StateTypes
      BY SmallReducersType
    <3> QED
      BY <3>1
  <2>1. OnHumanReturn(t, i) \in StateTypes
    <3>1. "RETURNED" \in Substates /\ i \in 0..LastStage
      BY DEF Substates
    <3> QED
      BY <3>1 DEF OnHumanReturn
  <2>2. ASSUME NEW j \in 1..LastStage + 1
        PROVE  OnStageEntered(t, j) \in StateTypes
    <3> DEFINE x == IF j <= LastStage THEN "DRAFT" ELSE "PREVIEW"
    <3>1. x \in Substates
      BY DEF Substates
    <3>2. j \in 1..LastStage + 1
      BY <2>2
    <3> HIDE DEF base, x
    <3>3. [base EXCEPT !.stage = j, !.sub = x, !.attempt = 0, !.stageExited = FALSE,
                       !.exitValidated = FALSE, !.result = NoResult] \in StateTypes
      <4> USE DEF StateTypes
      <4> QED
        BY <1>0, <2>0, <3>1, <3>2
    <3> QED
      BY <3>3 DEF OnStageEntered, base, x
  <2>3. OnStageRolledBack(t, i) \in StateTypes
    <3>1. "DRAFT" \in Substates /\ i \in 1..LastStage + 1
      BY DEF Substates
    <3> HIDE DEF base
    <3>2. [base EXCEPT !.stage = i, !.sub = "DRAFT", !.attempt = 0, !.scopeOverflow = FALSE,
                    !.target = 0, !.result = NoResult] \in StateTypes
      BY <1>0, <2>0, <3>1
    <3> HIDE DEF StateTypes
    <3> QED
      BY <3>2 DEF OnStageRolledBack, base
  <2> QED
    BY <2>1, <2>2, <2>3
<1> HIDE DEF StateTypes
<1> QED
  BY <1>1, <1>3, <1>4, <1>5, <1>6, <1>7, <1>8, <1>9

-----------------------------------------------------------------------------
(* What the handlers with the larger reducers do, field by field.          *)

(***************************************************************************)
(* The fields no event of these handlers changes.                          *)
(***************************************************************************)
Frame ==
    /\ s'.pending = "none" /\ s'.stage = s.stage /\ s'.target = s.target
    /\ s'.rejected = s.rejected /\ s'.stageExited = s.stageExited
    /\ s'.backlog = s.backlog /\ s'.branchDeleted = s.branchDeleted
    /\ drv' = "loop" /\ todo' = todo /\ tripped' = tripped /\ mode' = mode
    /\ marked' = marked

GateSame == s'.status = s.status /\ s'.awaiting = s.awaiting
Escalated == s'.status = "awaiting_human" /\ s'.awaiting = "escalation"

Spends ==
    /\ s'.attempt = s.attempt + 1
    /\ IF s.attempt + 1 >= AttemptLimit THEN Escalated ELSE GateSame

Spares == s'.attempt = s.attempt /\ GateSame

FlagsSame == s'.docDispatched = s.docDispatched /\ s'.revDispatched = s.revDispatched

\* The flag of whoever works in the substate `sub' is taken back.
FlagReset(sub) ==
    IF sub \in Review
    THEN s'.revDispatched = FALSE /\ s'.docDispatched = s.docDispatched
    ELSE s'.docDispatched = FALSE /\ s'.revDispatched = s.revDispatched

\* The triage opens the human's gate.
AgentTriages ==
    /\ s.sub = "TRIAGE" /\ s'.awaiting = "triage" /\ s'.status = s.status
    /\ s'.result = s.result /\ s'.infra = 0 /\ s'.attempt = s.attempt
    /\ FlagsSame /\ commits' = 0

AgentAnswers ==
    /\ s.sub # "TRIAGE" /\ Spares /\ FlagsSame /\ s'.infra = 0 /\ commits' = 0
    /\ \E v \in AgentVerdicts :
          /\ v = "draft" <=> s.sub \notin Review
          /\ v = "park" => s.sub = "LEX_REVIEW"
          /\ s'.result.by = "agent" /\ s'.result.verdict = v
          /\ s'.result.step = "submitted" /\ s'.result.origin = "none"

AgentMissing ==
    /\ s'.result = s.result /\ s'.attempt = s.attempt /\ FlagReset(s.sub)
    /\ s'.infra \in 0..InfraLimit /\ commits' = commits
    /\ GateSame \/ Escalated

AgentErrs ==
    /\ s'.result = s.result /\ s'.infra = 0 /\ Spends /\ FlagReset(s.sub)
    /\ commits' = commits

AgentEffect ==
    /\ drv = "exec" /\ s.pending = "dispatch" /\ s.sub \notin NoDiff
    /\ Frame /\ scar' = scar
    /\ s'.sub = s.sub /\ s'.exitValidated = s.exitValidated
    /\ s'.scopeOverflow = s.scopeOverflow
    /\ AgentTriages \/ AgentAnswers \/ AgentMissing \/ AgentErrs

(***************************************************************************)
(* The reply of an agent.                                                  *)
(***************************************************************************)
LEMMA AgentProjects == ASSUME TypeOK, AgentReplies PROVE AgentEffect
<1> USE AuthorStageAssumption DEF TypeOK, StateTypes
<1>1. /\ drv = "exec" /\ s.pending = "dispatch" /\ s.sub \notin NoDiff
      /\ marked' = marked /\ scar' = scar
  BY DEF AgentReplies, Executing
<1>2. ASSUME NEW v \in AgentVerdicts, v = "draft" <=> s.sub \notin Review,
             v = "park" => s.sub = "LEX_REVIEW",
             Append(OnOutcomeDone(Cleared, v)), commits' = 0
      PROVE  AgentEffect
  <2>1. CASE s.sub = "TRIAGE"
    <3>1. s' = [s EXCEPT !.pending = "none", !.infra = 0, !.awaiting = "triage"]
      BY <1>2, <2>1 DEF Append, OnOutcomeDone, Cleared
    <3> QED
      BY <1>1, <1>2, <2>1, <3>1
         DEF Append, AgentEffect, AgentTriages, AgentAnswers, AgentMissing,
             AgentErrs, Frame, FlagsSame
  <2>2. CASE s.sub # "TRIAGE"
    <3>1. s' = [s EXCEPT !.pending = "none", !.infra = 0,
                         !.result = [by |-> "agent", verdict |-> v,
                                     step |-> "submitted", origin |-> "none"]]
      BY <1>2, <2>2 DEF Append, OnOutcomeDone, Cleared
    <3> QED
      BY <1>1, <1>2, <2>2, <3>1
         DEF Append, AgentEffect, AgentTriages, AgentAnswers, AgentMissing,
             AgentErrs, Frame, FlagsSame, Spares, GateSame
  <2> QED
    BY <2>1, <2>2
<1>3. ASSUME Append(OnInfraFailure(Cleared)), commits' = commits
      PROVE  AgentEffect
  <2> DEFINE n == IF s.infra < InfraLimit THEN s.infra + 1 ELSE s.infra
             full == s.infra + 1 >= InfraLimit
  <2>1. n \in 0..InfraLimit
    OBVIOUS
  <2> HIDE DEF n, full
  <2>2. s' = [s EXCEPT !.pending = "none", !.infra = n,
                 !.docDispatched = IF s.sub \in Review THEN s.docDispatched ELSE FALSE,
                 !.revDispatched = IF s.sub \in Review THEN FALSE ELSE s.revDispatched,
                 !.status = IF full THEN "awaiting_human" ELSE s.status,
                 !.awaiting = IF full THEN "escalation" ELSE s.awaiting]
    BY ZenonT(40), <1>3
       DEF n, full, Append, OnInfraFailure, CountInfra, Cleared, EscalateWhen,
                ResetActor, ResetDoc, ResetReview
  <2> QED
    BY <1>1, <1>3, <2>1, <2>2
       DEF Append, AgentEffect, AgentTriages, AgentAnswers, AgentMissing,
           AgentErrs, Frame, FlagReset, GateSame, Escalated
<1>4. ASSUME Append(OnSemanticFailure(Cleared)), commits' = commits
      PROVE  AgentEffect
  <2> DEFINE full == s.attempt + 1 >= AttemptLimit
  <2>1. s' = [s EXCEPT !.pending = "none", !.infra = 0, !.attempt = @ + 1,
                 !.docDispatched = IF s.sub \in Review THEN s.docDispatched ELSE FALSE,
                 !.revDispatched = IF s.sub \in Review THEN FALSE ELSE s.revDispatched,
                 !.status = IF full THEN "awaiting_human" ELSE s.status,
                 !.awaiting = IF full THEN "escalation" ELSE s.awaiting]
    BY ZenonT(40), <1>4
       DEF Append, OnSemanticFailure, Consume, Cleared, EscalateWhen,
                ResetActor, ResetDoc, ResetReview
  <2> QED
    BY <1>1, <1>4, <2>1
       DEF Append, AgentEffect, AgentTriages, AgentAnswers, AgentMissing,
           AgentErrs, Frame, FlagReset, Spends, GateSame, Escalated
<1> QED
  BY <1>2, <1>3, <1>4 DEF AgentReplies

NoDiffExplained ==
    /\ s'.sub = "NO_DIFF_REVIEW" /\ Spares /\ FlagsSame
    /\ s'.result = s.result /\ scar' = scar

\* Where an explanation that was judged resumes.
Origin == IF s.result.origin = "none" THEN "DRAFT" ELSE s.result.origin

NoDiffAccepted ==
    /\ s'.sub = Origin /\ Spares /\ FlagsSame /\ scar' = scar
    /\ s'.result = [s.result EXCEPT !.step = "validated", !.origin = "none"]

NoDiffRejected ==
    /\ s'.sub = Origin /\ Spends /\ FlagReset(s'.sub) /\ s'.result = NoResult
    /\ IF s'.awaiting = "escalation" THEN Blame("gate_escalated") ELSE scar' = scar

NoDiffEffect ==
    /\ drv = "exec" /\ s.pending = "dispatch" /\ s.sub \in NoDiff
    /\ Frame /\ commits' = commits
    /\ s'.exitValidated = s.exitValidated /\ s'.infra = s.infra
    /\ s'.scopeOverflow = s.scopeOverflow
    /\ NoDiffExplained \/ NoDiffAccepted \/ NoDiffRejected

(***************************************************************************)
(* The reply about a missing diff.                                         *)
(***************************************************************************)
LEMMA NoDiffProjects == ASSUME TypeOK, NoDiffReplies PROVE NoDiffEffect
<1> USE AuthorStageAssumption DEF TypeOK, StateTypes
<1> DEFINE origin == IF s.result.origin = "none" THEN "DRAFT" ELSE s.result.origin
           full == s.attempt + 1 >= AttemptLimit
<1>1. /\ drv = "exec" /\ s.pending = "dispatch" /\ s.sub \in NoDiff
      /\ marked' = marked /\ commits' = commits
  BY DEF NoDiffReplies, Executing
<1>2. ASSUME Append(OnNoDiffExplained(Cleared)), scar' = scar PROVE NoDiffEffect
  <2>1. s' = [s EXCEPT !.pending = "none", !.sub = "NO_DIFF_REVIEW",
                       !.noDiffDispatched = FALSE]
    BY <1>2 DEF Append, OnNoDiffExplained, Cleared
  <2> QED
    BY <1>1, <1>2, <2>1
       DEF Append, NoDiffEffect, NoDiffExplained, NoDiffAccepted,
           NoDiffRejected, Origin, Frame, FlagsSame, Spares, GateSame
<1>3. ASSUME Append(OnNoDiffReviewed(Cleared, TRUE)), scar' = scar
      PROVE  NoDiffEffect
  <2>1. s' = [s EXCEPT !.pending = "none", !.sub = origin, !.noDiffDispatched = FALSE,
                       !.result = [s.result EXCEPT !.step = "validated", !.origin = "none"]]
    BY <1>3 DEF Append, OnNoDiffReviewed, Cleared
  <2> QED
    BY <1>1, <1>3, <2>1
       DEF Append, NoDiffEffect, NoDiffExplained, NoDiffAccepted,
           NoDiffRejected, Origin, Frame, FlagsSame, Spares, GateSame
<1>4. ASSUME Append(OnNoDiffReviewed(Cleared, FALSE)),
             IF s'.awaiting = "escalation" THEN Blame("gate_escalated") ELSE scar' = scar
      PROVE  NoDiffEffect
  <2> DEFINE u == [s EXCEPT !.pending = "none", !.sub = origin, !.noDiffDispatched = FALSE,
                            !.result = NoResult]
  <2>1. s' = Consume(ResetActor(u))
    BY <1>4 DEF Append, OnNoDiffReviewed, Cleared
  <2>2. CASE origin \in Review
    <3>1. s' = [s EXCEPT !.pending = "none", !.sub = origin, !.noDiffDispatched = FALSE,
                   !.result = NoResult, !.attempt = @ + 1, !.revDispatched = FALSE,
                   !.status = IF full THEN "awaiting_human" ELSE s.status,
                   !.awaiting = IF full THEN "escalation" ELSE s.awaiting]
      <4>1. u.sub = origin
        OBVIOUS
      <4> DEFINE w == [u EXCEPT !.revDispatched = FALSE]
      <4>2. ResetActor(u) = w
        BY <2>2, <4>1 DEF ResetActor, ResetReview
      <4>3. w.attempt = s.attempt
        OBVIOUS
      <4>4. s' = [EscalateWhen(w, full) EXCEPT !.attempt = @ + 1]
        BY <2>1, <4>2, <4>3 DEF Consume
      <4>5. CASE full
        BY ZenonT(40), <4>4, <4>5 DEF EscalateWhen
      <4>6. CASE ~full
        <5>1. s' = [w EXCEPT !.attempt = @ + 1]
          BY <4>4, <4>6 DEF EscalateWhen
        <5> QED
          BY <4>6, <5>1
      <4> QED
        BY <4>5, <4>6
    <3> QED
      BY ZenonT(40), <1>1, <1>4, <2>2, <3>1
         DEF Append, NoDiffEffect, NoDiffExplained, NoDiffAccepted,
             NoDiffRejected, Origin, Frame, FlagReset, Spends, GateSame,
             Escalated
  <2>3. CASE origin \notin Review
    <3>1. s' = [s EXCEPT !.pending = "none", !.sub = origin, !.noDiffDispatched = FALSE,
                   !.result = NoResult, !.attempt = @ + 1, !.docDispatched = FALSE,
                   !.status = IF full THEN "awaiting_human" ELSE s.status,
                   !.awaiting = IF full THEN "escalation" ELSE s.awaiting]
      <4>1. u.sub = origin
        OBVIOUS
      <4> DEFINE w == [u EXCEPT !.docDispatched = FALSE]
      <4>2. ResetActor(u) = w
        BY <2>3, <4>1 DEF ResetActor, ResetDoc
      <4>3. w.attempt = s.attempt
        OBVIOUS
      <4>4. s' = [EscalateWhen(w, full) EXCEPT !.attempt = @ + 1]
        BY <2>1, <4>2, <4>3 DEF Consume
      <4>5. CASE full
        BY ZenonT(40), <4>4, <4>5 DEF EscalateWhen
      <4>6. CASE ~full
        <5>1. s' = [w EXCEPT !.attempt = @ + 1]
          BY <4>4, <4>6 DEF EscalateWhen
        <5> QED
          BY <4>6, <5>1
      <4> QED
        BY <4>5, <4>6
    <3> QED
      BY ZenonT(40), <1>1, <1>4, <2>3, <3>1
         DEF Append, NoDiffEffect, NoDiffExplained, NoDiffAccepted,
             NoDiffRejected, Origin, Frame, FlagReset, Spends, GateSame,
             Escalated
  <2> QED
    BY <2>2, <2>3
<1> QED
  BY <1>2, <1>3, <1>4 DEF NoDiffReplies

\* A human's own result failed: the gate stays open.
FailKeepsGate ==
    /\ s.result.by = "human" /\ FlagsSame /\ Spares
    /\ s'.sub = s.sub /\ s'.exitValidated = s.exitValidated
    /\ s'.scopeOverflow = s.scopeOverflow

FailOverflows(check) ==
    /\ s.result.by # "human" /\ check = "scope_overflow" /\ s.sub # "EXIT"
    /\ FlagReset(s.sub) /\ Spares /\ s'.scopeOverflow = TRUE
    /\ s'.sub = s.sub /\ s'.exitValidated = s.exitValidated

FailRedoes(check) ==
    /\ s.result.by # "human" /\ check = "document" /\ s.sub # "EXIT"
    /\ FlagReset(s.sub) /\ Spends /\ s'.scopeOverflow = s.scopeOverflow
    /\ s'.sub = s.sub /\ s'.exitValidated = s.exitValidated

FailRefuses(check) ==
    /\ s.result.by # "human" /\ check = "commit"
    /\ FlagReset(s.sub) /\ Spends /\ s'.scopeOverflow = s.scopeOverflow
    /\ s'.exitValidated = FALSE
    /\ s'.sub = IF s.sub \in Review THEN s.sub ELSE "DRAFT"

FailAsksHuman(check) ==
    /\ s.result.by # "human" /\ check # "commit" /\ s.sub = "EXIT"
    /\ s'.status = "awaiting_human" /\ s'.awaiting = "review"
    /\ s'.attempt = s.attempt /\ FlagsSame /\ s'.scopeOverflow = s.scopeOverflow
    /\ s'.sub = s.sub /\ s'.exitValidated = s.exitValidated

FailEffect(check) ==
    /\ Frame /\ commits' = commits
    /\ s'.result = NoResult /\ s'.infra = s.infra
    /\ \/ FailKeepsGate \/ FailOverflows(check) \/ FailRedoes(check)
       \/ FailRefuses(check) \/ FailAsksHuman(check)

(***************************************************************************)
(* A failed verdict about `check'.                                         *)
(***************************************************************************)
LEMMA FailProjects ==
    ASSUME TypeOK, NEW check \in {"commit", "document", "scope_overflow"},
           Append(OnVerdictFailed(Cleared, check)), marked' = marked, commits' = commits
    PROVE  FailEffect(check)
<1> USE AuthorStageAssumption DEF TypeOK, StateTypes
<1> DEFINE full == s.attempt + 1 >= AttemptLimit
           doc == IF s.sub \in Review THEN s.docDispatched ELSE FALSE
           rev == IF s.sub \in Review THEN FALSE ELSE s.revDispatched
           status == IF full THEN "awaiting_human" ELSE s.status
           awaiting == IF full THEN "escalation" ELSE s.awaiting
<1>1. s' = OnVerdictFailed(Cleared, check)
  BY DEF Append
<1>2. Cleared.result.by = s.result.by /\ Cleared.sub = s.sub
  BY DEF Cleared
<1>3. CASE s.result.by = "human"
  <2>1. s' = [s EXCEPT !.pending = "none", !.result = NoResult]
    BY <1>1, <1>2, <1>3 DEF OnVerdictFailed, Cleared
  <2> QED
    BY <1>3, <2>1
       DEF Append, FailEffect, FailKeepsGate, FailOverflows, FailRedoes,
           FailRefuses, FailAsksHuman, Frame, FlagsSame, Spares, GateSame
<1>4. CASE s.result.by # "human" /\ check = "commit"
  <2>1. s' = OnCommitRefused([Cleared EXCEPT !.result = NoResult])
    BY <1>1, <1>2, <1>4 DEF OnVerdictFailed
  <2>2. s' = [s EXCEPT !.pending = "none", !.result = NoResult, !.attempt = @ + 1,
                 !.docDispatched = doc, !.revDispatched = rev, !.exitValidated = FALSE,
                 !.sub = IF s.sub \in Review THEN s.sub ELSE "DRAFT",
                 !.status = status, !.awaiting = awaiting]
    BY ZenonT(40), <2>1
       DEF OnCommitRefused, Consume, Cleared, EscalateWhen, ResetDoc,
           ResetReview
  <2> QED
    BY ZenonT(40), <1>4, <2>2
       DEF Append, FailEffect, FailKeepsGate, FailOverflows, FailRedoes,
           FailRefuses, FailAsksHuman, Frame, FlagReset, Spends, GateSame,
           Escalated
<1>5. CASE s.result.by # "human" /\ check # "commit" /\ s.sub = "EXIT"
  <2>1. s' = [s EXCEPT !.pending = "none", !.result = NoResult,
                       !.status = "awaiting_human", !.awaiting = "review"]
    BY <1>1, <1>2, <1>5 DEF OnVerdictFailed, Cleared
  <2> QED
    BY <1>5, <2>1
       DEF Append, FailEffect, FailKeepsGate, FailOverflows, FailRedoes,
           FailRefuses, FailAsksHuman, Frame, FlagsSame
<1>6. CASE s.result.by # "human" /\ check = "scope_overflow" /\ s.sub # "EXIT"
  <2>1. s' = [ResetActor([Cleared EXCEPT !.result = NoResult]) EXCEPT !.scopeOverflow = TRUE]
    BY <1>1, <1>2, <1>6 DEF OnVerdictFailed
  <2>2. s' = [s EXCEPT !.pending = "none", !.result = NoResult, !.docDispatched = doc,
                       !.revDispatched = rev, !.scopeOverflow = TRUE]
    BY <2>1 DEF ResetActor, Cleared, ResetDoc, ResetReview
  <2> QED
    BY ZenonT(40), <1>6, <2>2
       DEF Append, FailEffect, FailKeepsGate, FailOverflows, FailRedoes,
           FailRefuses, FailAsksHuman, Frame, FlagReset, Spares, GateSame
<1>7. CASE s.result.by # "human" /\ check = "document" /\ s.sub # "EXIT"
  <2>1. s' = Consume(ResetActor([Cleared EXCEPT !.result = NoResult]))
    BY <1>1, <1>2, <1>7 DEF OnVerdictFailed
  <2>2. s' = [s EXCEPT !.pending = "none", !.result = NoResult, !.docDispatched = doc,
                       !.revDispatched = rev, !.attempt = @ + 1,
                       !.status = status, !.awaiting = awaiting]
    BY ZenonT(40), <2>1
       DEF ResetActor, Consume, EscalateWhen, Cleared, ResetDoc, ResetReview
  <2> QED
    BY ZenonT(40), <1>7, <2>2
       DEF Append, FailEffect, FailKeepsGate, FailOverflows, FailRedoes,
           FailRefuses, FailAsksHuman, Frame, FlagReset, Spends, GateSame,
           Escalated
<1> QED
  BY <1>3, <1>4, <1>5, <1>6, <1>7
-----------------------------------------------------------------------------
(* One step, each part of the invariant.                                   *)

(***************************************************************************)
(* Every step keeps the types.                                             *)
(***************************************************************************)
LEMMA TypesStep ==
    ASSUME BInv, [Next]_vars PROVE TypeOK'
<1> USE DEF BInv, TypeOK
<1>1. CASE Start
  BY <1>1 DEF Start
<1>2. CASE Stop
  BY <1>2 DEF Stop
<1>3. CASE BreakerTrips
  <2>1. Cleared \in StateTypes /\ Cleared.attempt = s.attempt /\ Cleared.result = s.result
    BY DEF Cleared, StateTypes
  <2>2. EscalateWhen(Cleared, TRUE) \in StateTypes
    BY <2>1, SmallReducersType
  <2> QED
    BY <1>3, <2>2 DEF BreakerTrips, Blame
<1>4. CASE Issue
  <2>1. Decide(s) \in Commands
    BY <1>4, DecideFacts DEF Issue, Halts, Commands
  <2>2. OnCommandIssued(s, Decide(s)) \in StateTypes
    BY <2>1, TurnReducersType
  <2> QED
    BY <1>4, <2>2 DEF Issue, AppendIssued, Blame
<1>5. CASE Backoff
  BY <1>5 DEF Backoff
<1>6. CASE Wake
  <2>1. "dispatch" \in Commands
    BY <1>6, DecideFacts DEF Wake, Halts, Commands
  <2>2. OnCommandIssued(s, "dispatch") \in StateTypes
    BY <2>1, TurnReducersType
  <2> QED
    BY <1>6, <2>2 DEF Wake, AppendIssued, Blame
<1>7. CASE Crash
  BY <1>7 DEF Crash, Blame
<1>8. CASE AgentReplies
  <2>1. Cleared \in StateTypes /\ Cleared.attempt = s.attempt /\ Cleared.result = s.result
    BY DEF Cleared, StateTypes
  <2>2. s.attempt # AttemptLimit
    BY <1>8 DEF AgentReplies, Executing, BudgetLeft
  <2>3. /\ \A v \in AgentVerdicts : OnOutcomeDone(Cleared, v) \in StateTypes
        /\ OnInfraFailure(Cleared) \in StateTypes /\ OnSemanticFailure(Cleared) \in StateTypes
    BY <2>1, <2>2, TurnReducersType
  <2> QED
    BY <1>8, <2>3 DEF AgentReplies, Append
<1>9. CASE NoDiffReplies
  <2>1. Cleared \in StateTypes /\ Cleared.attempt = s.attempt /\ Cleared.result = s.result
    BY DEF Cleared, StateTypes
  <2>2. s.attempt # AttemptLimit /\ s.result \in Results
    BY <1>9 DEF NoDiffReplies, Executing, BudgetLeft, ResultsFound, StateTypes
  <2>3. /\ OnNoDiffExplained(Cleared) \in StateTypes
        /\ OnNoDiffReviewed(Cleared, TRUE) \in StateTypes
        /\ OnNoDiffReviewed(Cleared, FALSE) \in StateTypes
    BY <2>1, <2>2, TurnReducersType
  <2> QED
    BY <1>9, <2>3 DEF NoDiffReplies, Append, Blame
<1>10. CASE ValidateResult
  <2>1. Cleared \in StateTypes /\ Cleared.attempt = s.attempt /\ Cleared.result = s.result
    BY DEF Cleared, StateTypes
  <2>2. s.attempt # AttemptLimit /\ s.result \in Results
    BY <1>10
       DEF ValidateResult, Executing, BudgetLeft, ResultsFound, ResultCommands,
           StateTypes
  <2>3. [Cleared EXCEPT !.result.step = "validated"] \in StateTypes
    <3>1. [s.result EXCEPT !.step = "validated"] \in Results
      BY <2>2 DEF Results
    <3>2. [Cleared EXCEPT !.result.step = "validated"] =
            [Cleared EXCEPT !.result = [s.result EXCEPT !.step = "validated"]]
      BY <2>1
    <3> QED
      BY <2>1, <3>1, <3>2 DEF StateTypes
  <2>4. /\ OnNoDiffDetected(Cleared) \in StateTypes
        /\ OnVerdictFailed(Cleared, "document") \in StateTypes
        /\ OnVerdictFailed(Cleared, "scope_overflow") \in StateTypes
    BY <2>1, <2>2, TurnReducersType, VerdictReducersType
  <2> QED
    BY <1>10, <2>3, <2>4 DEF ValidateResult, Append
<1>11. CASE CommitResult
  BY <1>11 DEF CommitResult
<1>12. CASE CheckpointResult
  <2>1. Cleared \in StateTypes /\ Cleared.attempt = s.attempt /\ Cleared.result = s.result
    BY DEF Cleared, StateTypes
  <2>2. s.attempt # AttemptLimit /\ s.result \in Results
    BY <1>12
       DEF CheckpointResult, Executing, BudgetLeft, ResultsFound,
           ResultCommands, StateTypes
  <2>3. [Cleared EXCEPT !.result.step = "checkpointed"] \in StateTypes
    <3>1. [s.result EXCEPT !.step = "checkpointed"] \in Results
      BY <2>2 DEF Results
    <3>2. [Cleared EXCEPT !.result.step = "checkpointed"] =
            [Cleared EXCEPT !.result = [s.result EXCEPT !.step = "checkpointed"]]
      BY <2>1
    <3> QED
      BY <2>1, <3>1, <3>2 DEF StateTypes
  <2>4. \A check \in {"commit", "document"} : OnVerdictFailed(Cleared, check) \in StateTypes
    BY <2>1, <2>2, VerdictReducersType
  <2> QED
    BY <1>12, <2>3, <2>4 DEF CheckpointResult, Append
<1>13. CASE PublishResult
  <2>1. Cleared \in StateTypes /\ Cleared.attempt = s.attempt /\ Cleared.result = s.result
    BY DEF Cleared, StateTypes
  <2>2. s.result \in Results
    BY <1>13
       DEF PublishResult, Executing, ResultsFound, ResultCommands, StateTypes
  <2>3. Published(Cleared, s.result) \in StateTypes
    <3>1. s.result.verdict \in AgentVerdicts \cup HumanVerdicts
          /\ s.result.by \in {"agent", "human"}
      BY <2>2 DEF Results
    <3>2. /\ OnDocCommitted(Cleared) \in StateTypes
          /\ \A v \in AgentVerdicts \cup HumanVerdicts :
                /\ OnReviewerVerdict(Cleared, v) \in StateTypes
                /\ OnHumanTriage(Cleared, v) \in StateTypes
                /\ OnHumanReview(Cleared, v) \in StateTypes
      BY <2>1, VerdictReducersType
    <3>3. \/ Published(Cleared, s.result) = OnDocCommitted(Cleared)
          \/ Published(Cleared, s.result) = OnReviewerVerdict(Cleared, s.result.verdict)
          \/ Published(Cleared, s.result) = OnHumanTriage(Cleared, s.result.verdict)
          \/ Published(Cleared, s.result) = OnHumanReview(Cleared, s.result.verdict)
      BY DEF Published
    <3> QED
      BY <3>1, <3>2, <3>3
  <2> QED
    BY <1>13, <2>3 DEF PublishResult, Append
<1>14. CASE ValidateDocument
  <2>1. Cleared \in StateTypes /\ Cleared.attempt = s.attempt /\ Cleared.result = s.result
    BY DEF Cleared, StateTypes
  <2>2. s.attempt # AttemptLimit
    BY <1>14 DEF ValidateDocument, Executing, BudgetLeft, ExitCommands
  <2>3. /\ OnVerdictPassed(Cleared) \in StateTypes
        /\ OnVerdictFailed(Cleared, "document") \in StateTypes
    BY <2>1, <2>2, VerdictReducersType
  <2> QED
    BY <1>14, <2>3 DEF ValidateDocument, Append, Blame
<1>15. CASE WriteFrontmatter
  <2>1. Cleared \in StateTypes /\ Cleared.attempt = s.attempt /\ Cleared.result = s.result
    BY DEF Cleared, StateTypes
  <2>2. s.attempt # AttemptLimit
    BY <1>15 DEF WriteFrontmatter, Executing, BudgetLeft, ExitCommands
  <2>3. /\ OnVerdictFailed(Cleared, "commit") \in StateTypes
        /\ [Cleared EXCEPT !.result = NoResult] \in StateTypes
    BY <2>1, <2>2, VerdictReducersType, SmallReducersType
  <2> QED
    BY <1>15, <2>3 DEF WriteFrontmatter, Append
<1>16. CASE AppendExited
  <2>1. [Cleared EXCEPT !.stageExited = TRUE] \in StateTypes
    BY DEF Cleared, StateTypes
  <2> QED
    BY <1>16, <2>1 DEF AppendExited
<1>17. CASE AppendEntered
  <2>1. Cleared \in StateTypes /\ Cleared.attempt = s.attempt /\ Cleared.result = s.result
    BY DEF Cleared, StateTypes
  <2>2. s.stage \in Stages
    BY <1>17 DEF AppendEntered, StagesLeft
  <2>3. OnStageEntered(Cleared, s.stage + 1) \in StateTypes
    BY <2>1, <2>2, VerdictReducersType
  <2> QED
    BY <1>17, <2>3 DEF AppendEntered
<1>18. CASE RollbackStage
  <2>1. Cleared \in StateTypes /\ Cleared.attempt = s.attempt /\ Cleared.result = s.result
    BY DEF Cleared, StateTypes
  <2>2. (IF s.scopeOverflow THEN 1 ELSE s.target) \in Stages
    BY <1>18
       DEF RollbackStage, Executing, ReturnsAimed, StagesLeft, Stages,
           LastStage, StateTypes
  <2>3. OnStageRolledBack(Cleared, IF s.scopeOverflow THEN 1 ELSE s.target) \in StateTypes
    BY <2>1, <2>2, VerdictReducersType
  <2> QED
    BY <1>18, <2>3 DEF RollbackStage, Append
<1>19. CASE RejectRun
  <2>1. Cleared \in StateTypes /\ Cleared.attempt = s.attempt /\ Cleared.result = s.result
    BY DEF Cleared, StateTypes
  <2>2. /\ [Cleared EXCEPT !.backlog = TRUE] \in StateTypes
        /\ [Cleared EXCEPT !.branchDeleted = TRUE] \in StateTypes
    BY <2>1 DEF StateTypes
  <2>3. OnRunCompleted(Cleared) \in StateTypes
    BY <2>1, SmallReducersType
  <2> QED
    BY <1>19, <2>2, <2>3 DEF RejectRun, Append
<1>20. ASSUME NEW d \in {"go", "no_go"}, HumanTriage(d) PROVE TypeOK'
  <2>1. Cleared \in StateTypes /\ Cleared.attempt = s.attempt /\ Cleared.result = s.result
    BY DEF Cleared, StateTypes
  <2> DEFINE r == [by |-> "human", verdict |-> d, step |-> "submitted", origin |-> "none"]
  <2>2. r \in Results
    BY DEF Results, HumanVerdicts
  <2>3. [Cleared EXCEPT !.result = r] \in StateTypes
    BY <2>1, <2>2 DEF StateTypes
  <2> QED
    BY <1>20, <2>3 DEF HumanTriage, Submit, Blame
<1>21. ASSUME NEW v \in {"no_comment", "comment", "revise"}, HumanReview(v)
       PROVE  TypeOK'
  <2>1. Cleared \in StateTypes /\ Cleared.attempt = s.attempt /\ Cleared.result = s.result
    BY DEF Cleared, StateTypes
  <2> DEFINE r == [by |-> "human", verdict |-> v, step |-> "submitted", origin |-> "none"]
  <2>2. r \in Results
    BY DEF Results, HumanVerdicts
  <2>3. [Cleared EXCEPT !.result = r] \in StateTypes
    BY <2>1, <2>2 DEF StateTypes
  <2> QED
    BY <1>21, <2>3 DEF HumanReview, Submit, Blame
<1>22. ASSUME NEW clear \in BOOLEAN, HumanRetry(clear) PROVE TypeOK'
  <2>1. Cleared \in StateTypes /\ Cleared.attempt = s.attempt /\ Cleared.result = s.result
    BY DEF Cleared, StateTypes
  <2>2. OnHumanRetry(Cleared, clear) \in StateTypes
    BY <2>1, VerdictReducersType
  <2> QED
    BY <1>22, <2>2 DEF HumanRetry, AppendHuman, Unlocked, Blame
<1>23. ASSUME NEW i \in Stages, HumanReturn(i) PROVE TypeOK'
  <2>1. Cleared \in StateTypes /\ Cleared.attempt = s.attempt /\ Cleared.result = s.result
    BY DEF Cleared, StateTypes
  <2>2. OnHumanReturn(Cleared, i) \in StateTypes
    BY <1>23, <2>1, VerdictReducersType
  <2> QED
    BY <1>23, <2>2 DEF HumanReturn, AppendHuman, Unlocked
<1>24. CASE Abandon
  <2>1. Cleared \in StateTypes /\ Cleared.attempt = s.attempt /\ Cleared.result = s.result
    BY DEF Cleared, StateTypes
  <2>2. OnRunCompleted(Cleared) \in StateTypes
    BY <2>1, SmallReducersType
  <2> QED
    BY <1>24, <2>2 DEF Abandon, AppendHuman, Unlocked
<1>25. CASE UNCHANGED vars
  BY <1>25 DEF vars
<1> HIDE DEF BInv, TypeOK
<1> QED
  BY <1>1, <1>2, <1>3, <1>4, <1>5, <1>6, <1>7, <1>8, <1>9, <1>10, <1>11, <1>12,
     <1>13, <1>14, <1>15, <1>16, <1>17, <1>18, <1>19, <1>20, <1>21, <1>22,
     <1>23, <1>24, <1>25
     DEF Next, Driver, Human

(***************************************************************************)
(* A spent budget is answered by a human, or the run is over.              *)
(***************************************************************************)
LEMMA BudgetStep ==
    ASSUME BInv, [Next]_vars PROVE BudgetLeft'
<1> USE AuthorStageAssumption
   DEF BInv, TypeOK, StateTypes, BudgetLeft, ResultsFound, Unanswered,
       StagesLeft, NoDiff, Review, HumanGates, ResultCommands, ExitCommands,
       AuthorSubs
<1>1. CASE Start
  BY <1>1 DEF Start
<1>2. CASE Stop
  BY <1>2, DecideFacts DEF Stop
<1>3. CASE BreakerTrips
  BY <1>3 DEF BreakerTrips, EscalateWhen, Cleared
<1>4. CASE Issue
  BY <1>4, DecideFacts DEF Issue, Halts, AppendIssued, OnCommandIssued
<1>5. CASE Backoff
  BY <1>5, DecideFacts DEF Backoff
<1>6. CASE Wake
  BY <1>6, DecideFacts DEF Wake, AppendIssued, OnCommandIssued
<1>7. CASE Crash
  BY <1>7 DEF Crash
<1>8. CASE AgentReplies
  <2>1. AgentEffect
    BY <1>8, AgentProjects
  <2>2. CASE AgentTriages
    BY <2>1, <2>2
       DEF AgentEffect, AgentTriages, Frame, GateSame, Escalated, Spends,
           Spares, FlagsSame, FlagReset
  <2>3. CASE AgentAnswers
    BY <2>1, <2>3
       DEF AgentEffect, AgentAnswers, Frame, GateSame, Escalated, Spends,
           Spares, FlagsSame, FlagReset
  <2>4. CASE AgentMissing
    BY <2>1, <2>4
       DEF AgentEffect, AgentMissing, Frame, GateSame, Escalated, Spends,
           Spares, FlagsSame, FlagReset
  <2>5. CASE AgentErrs
    BY <2>1, <2>5
       DEF AgentEffect, AgentErrs, Frame, GateSame, Escalated, Spends, Spares,
           FlagsSame, FlagReset
  <2> QED
    BY <2>1, <2>2, <2>3, <2>4, <2>5 DEF AgentEffect
<1>9. CASE NoDiffReplies
  <2>1. NoDiffEffect
    BY <1>9, NoDiffProjects
  <2>2. CASE NoDiffExplained
    BY <2>1, <2>2
       DEF NoDiffEffect, NoDiffExplained, Frame, GateSame, Escalated, Spends,
           Spares, FlagsSame, FlagReset, Origin
  <2>3. CASE NoDiffAccepted
    BY <2>1, <2>3
       DEF NoDiffEffect, NoDiffAccepted, Frame, GateSame, Escalated, Spends,
           Spares, FlagsSame, FlagReset, Origin
  <2>4. CASE NoDiffRejected
    BY <2>1, <2>4
       DEF NoDiffEffect, NoDiffRejected, Frame, GateSame, Escalated, Spends,
           Spares, FlagsSame, FlagReset, Origin
  <2> QED
    BY <2>1, <2>2, <2>3, <2>4 DEF NoDiffEffect
<1>10. CASE ValidateResult
  <2>1. s.pending = "validate" /\ UNCHANGED <<marked, commits, scar>>
    BY <1>10 DEF ValidateResult, Executing
  <2>2. CASE Append([Cleared EXCEPT !.result.step = "validated"])
    BY <2>1, <2>2 DEF Append, Cleared
  <2>3. CASE s.result.verdict = "revise" /\ Append(OnNoDiffDetected(Cleared))
    BY <2>1, <2>3 DEF Append, Cleared, OnNoDiffDetected
  <2>4. ASSUME NEW check \in {"document", "scope_overflow"},
               check = "scope_overflow" => s.stage = 2,
               Append(OnVerdictFailed(Cleared, check))
        PROVE  BudgetLeft'
    <3>1. FailEffect(check)
      BY <2>1, <2>4, FailProjects
    <3>2. CASE FailKeepsGate
      BY <2>1, <2>4, <3>1, <3>2
         DEF FailEffect, FailKeepsGate, Frame, GateSame, Escalated, Spends,
             Spares, FlagsSame, FlagReset
    <3>3. CASE FailOverflows(check)
      BY <2>1, <2>4, <3>1, <3>3
         DEF FailEffect, FailOverflows, Frame, GateSame, Escalated, Spends,
             Spares, FlagsSame, FlagReset
    <3>4. CASE FailRedoes(check)
      BY <2>1, <2>4, <3>1, <3>4
         DEF FailEffect, FailRedoes, Frame, GateSame, Escalated, Spends, Spares,
             FlagsSame, FlagReset
    <3>5. CASE FailRefuses(check)
      BY <2>1, <2>4, <3>1, <3>5
         DEF FailEffect, FailRefuses, Frame, GateSame, Escalated, Spends,
             Spares, FlagsSame, FlagReset
    <3>6. CASE FailAsksHuman(check)
      BY <2>1, <2>4, <3>1, <3>6
         DEF FailEffect, FailAsksHuman, Frame, GateSame, Escalated, Spends,
             Spares, FlagsSame, FlagReset
    <3> QED
      BY <3>1, <3>2, <3>3, <3>4, <3>5, <3>6 DEF FailEffect
  <2> QED
    BY <1>10, <2>2, <2>3, <2>4 DEF ValidateResult
<1>11. CASE CommitResult
  BY <1>11 DEF CommitResult, Executing
<1>12. CASE CheckpointResult
  <2>1. s.pending = "checkpoint" /\ UNCHANGED <<marked, commits, scar>>
    BY <1>12 DEF CheckpointResult, Executing
  <2>2. CASE (marked \/ commits = 0) /\ Append([Cleared EXCEPT !.result.step = "checkpointed"])
    BY <2>1, <2>2 DEF Append, Cleared
  <2>3. ASSUME ~marked, NEW check \in {"commit", "document"},
               Append(OnVerdictFailed(Cleared, check))
        PROVE  BudgetLeft'
    <3>1. FailEffect(check)
      BY <2>1, <2>3, FailProjects
    <3>2. CASE FailKeepsGate
      BY <2>1, <2>3, <3>1, <3>2
         DEF FailEffect, FailKeepsGate, Frame, GateSame, Escalated, Spends,
             Spares, FlagsSame, FlagReset
    <3>3. CASE FailOverflows(check)
      BY <2>1, <2>3, <3>1, <3>3
         DEF FailEffect, FailOverflows, Frame, GateSame, Escalated, Spends,
             Spares, FlagsSame, FlagReset
    <3>4. CASE FailRedoes(check)
      BY <2>1, <2>3, <3>1, <3>4
         DEF FailEffect, FailRedoes, Frame, GateSame, Escalated, Spends, Spares,
             FlagsSame, FlagReset
    <3>5. CASE FailRefuses(check)
      BY <2>1, <2>3, <3>1, <3>5
         DEF FailEffect, FailRefuses, Frame, GateSame, Escalated, Spends,
             Spares, FlagsSame, FlagReset
    <3>6. CASE FailAsksHuman(check)
      BY <2>1, <2>3, <3>1, <3>6
         DEF FailEffect, FailAsksHuman, Frame, GateSame, Escalated, Spends,
             Spares, FlagsSame, FlagReset
    <3> QED
      BY <3>1, <3>2, <3>3, <3>4, <3>5, <3>6 DEF FailEffect
  <2> QED
    BY <1>12, <2>2, <2>3 DEF CheckpointResult
<1>13. CASE PublishResult
  BY <1>13
     DEF PublishResult, Executing, Append, Cleared, Published, OnDocCommitted,
         OnReviewerVerdict, OnHumanTriage, OnHumanReview, ResetDoc, ResetReview,
         ReviewOf
<1>14. CASE ValidateDocument
  <2>1. s.pending = "validate_document" /\ UNCHANGED <<marked, commits>>
    BY <1>14 DEF ValidateDocument, Executing
  <2>2. CASE Append(OnVerdictPassed(Cleared)) /\ UNCHANGED scar
    BY <2>1, <2>2 DEF Append, Cleared, OnVerdictPassed
  <2>3. CASE Append(OnVerdictFailed(Cleared, "document")) /\ Blame("exit_gate")
    <3>1. FailEffect("document")
      BY <2>1, <2>3, FailProjects
    <3>2. CASE FailKeepsGate
      BY <2>1, <2>3, <3>1, <3>2
         DEF FailEffect, FailKeepsGate, Frame, GateSame, Escalated, Spends,
             Spares, FlagsSame, FlagReset
    <3>3. CASE FailRedoes("document")
      BY <2>1, <2>3, <3>1, <3>3
         DEF FailEffect, FailRedoes, Frame, GateSame, Escalated, Spends, Spares,
             FlagsSame, FlagReset
    <3>4. CASE FailAsksHuman("document")
      BY <2>1, <2>3, <3>1, <3>4
         DEF FailEffect, FailAsksHuman, Frame, GateSame, Escalated, Spends,
             Spares, FlagsSame, FlagReset
    <3> QED
      BY <3>1, <3>2, <3>3, <3>4 DEF FailEffect, FailOverflows, FailRefuses
  <2> QED
    BY <1>14, <2>2, <2>3 DEF ValidateDocument
<1>15. CASE WriteFrontmatter
  <2>1. s.pending = "write_frontmatter" /\ UNCHANGED <<marked, commits, scar>>
    BY <1>15 DEF WriteFrontmatter, Executing
  <2>2. CASE Append(OnVerdictFailed(Cleared, "commit"))
    <3>1. FailEffect("commit")
      BY <2>1, <2>2, FailProjects
    <3>2. CASE FailKeepsGate
      BY <2>1, <2>2, <3>1, <3>2
         DEF FailEffect, FailKeepsGate, Frame, GateSame, Escalated, Spends,
             Spares, FlagsSame, FlagReset
    <3>3. CASE FailRefuses("commit")
      BY <2>1, <2>2, <3>1, <3>3
         DEF FailEffect, FailRefuses, Frame, GateSame, Escalated, Spends,
             Spares, FlagsSame, FlagReset
    <3> QED
      BY <3>1, <3>2, <3>3
         DEF FailEffect, FailOverflows, FailRedoes, FailAsksHuman
  <2>3. CASE /\ s' = [Cleared EXCEPT !.result = NoResult]
             /\ drv' = "emit" /\ todo' = "exited" /\ UNCHANGED <<mode, tripped>>
    BY <2>1, <2>3 DEF Cleared
  <2> QED
    BY <1>15, <2>2, <2>3 DEF WriteFrontmatter
<1>16. CASE AppendExited
  BY <1>16 DEF AppendExited, Cleared
<1>17. CASE AppendEntered
  BY <1>17 DEF AppendEntered, Cleared, OnStageEntered, ResetDoc, ResetReview
<1>18. CASE RollbackStage
  BY <1>18
     DEF RollbackStage, Executing, Append, Cleared, OnStageRolledBack, ResetDoc,
         ResetReview
<1>19. CASE RejectRun
  <2>1. s.pending \in {"record_backlog", "delete_branch", "complete_run"}
    BY <1>19 DEF RejectRun, Executing
  <2>2. /\ drv = "exec" /\ drv' = "loop" /\ UNCHANGED <<mode, todo, tripped, marked, commits, scar>>
        /\ s'.pending = "none" /\ s'.result = s.result /\ s'.attempt = s.attempt
        /\ s'.sub = s.sub /\ s'.stage = s.stage /\ s'.infra = s.infra
        /\ s'.target = s.target /\ s'.scopeOverflow = s.scopeOverflow
        /\ s'.rejected = s.rejected /\ s'.stageExited = s.stageExited
        /\ s'.exitValidated = s.exitValidated /\ FlagsSame
        /\ GateSame \/ (s'.status = "completed" /\ s'.awaiting = "none")
    <3>1. CASE Append([Cleared EXCEPT !.backlog = TRUE])
      BY <1>19, <3>1
         DEF RejectRun, Executing, Append, Cleared, GateSame, FlagsSame
    <3>2. CASE Append([Cleared EXCEPT !.branchDeleted = TRUE])
      BY <1>19, <3>2
         DEF RejectRun, Executing, Append, Cleared, GateSame, FlagsSame
    <3>3. CASE Append(OnRunCompleted(Cleared))
      BY <1>19, <3>3
         DEF RejectRun, Executing, Append, Cleared, OnRunCompleted, GateSame,
             FlagsSame
    <3> QED
      BY <1>19, <3>1, <3>2, <3>3 DEF RejectRun
  <2> QED
    BY <2>1, <2>2 DEF GateSame, FlagsSame
<1>20. ASSUME NEW d \in {"go", "no_go"}, HumanTriage(d) PROVE BudgetLeft'
  BY <1>20 DEF HumanTriage, Submit, Cleared
<1>21. ASSUME NEW v \in {"no_comment", "comment", "revise"}, HumanReview(v)
       PROVE  BudgetLeft'
  BY <1>21 DEF HumanReview, Submit, Cleared
<1>22. ASSUME NEW clear \in BOOLEAN, HumanRetry(clear) PROVE BudgetLeft'
  BY <1>22
     DEF HumanRetry, AppendHuman, Unlocked, Cleared, OnHumanRetry, ResetDoc,
         ResetReview
<1>23. ASSUME NEW i \in Stages, HumanReturn(i) PROVE BudgetLeft'
  BY <1>23 DEF HumanReturn, AppendHuman, Unlocked, Cleared, OnHumanReturn
<1>24. CASE Abandon
  BY <1>24 DEF Abandon, AppendHuman, Unlocked, Cleared, OnRunCompleted
<1>25. CASE UNCHANGED vars
  BY <1>25 DEF vars
<1> HIDE DEF BInv, TypeOK, StateTypes, BudgetLeft, ResultsFound, Unanswered,
             StagesLeft, NoDiff, Review, HumanGates, ResultCommands,
             ExitCommands, AuthorSubs
<1> QED
  BY <1>1, <1>2, <1>3, <1>4, <1>5, <1>6, <1>7, <1>8, <1>9, <1>10, <1>11, <1>12,
     <1>13, <1>14, <1>15, <1>16, <1>17, <1>18, <1>19, <1>20, <1>21, <1>22,
     <1>23, <1>24, <1>25
     DEF Next, Driver, Human

(***************************************************************************)
(* Commands about results find one.                                        *)
(***************************************************************************)
LEMMA ResultsStep ==
    ASSUME BInv, [Next]_vars PROVE ResultsFound'
<1> USE DEF BInv, TypeOK, StateTypes, NoResult, Results, ResultsFound,
            Unanswered, StagesLeft, NoDiff, Review, HumanGates, ResultCommands,
            ExitCommands, AuthorSubs
<1>1. CASE Start
  BY <1>1 DEF Start
<1>2. CASE Stop
  BY <1>2, DecideFacts DEF Stop
<1>3. CASE BreakerTrips
  BY <1>3 DEF BreakerTrips, EscalateWhen, Cleared
<1>4. CASE Issue
  BY <1>4, DecideFacts DEF Issue, Halts, AppendIssued, OnCommandIssued
<1>5. CASE Backoff
  BY <1>5, DecideFacts DEF Backoff
<1>6. CASE Wake
  BY <1>6, DecideFacts DEF Wake, AppendIssued, OnCommandIssued
<1>7. CASE Crash
  BY <1>7 DEF Crash
<1>8. CASE AgentReplies
  <2>1. AgentEffect
    BY <1>8, AgentProjects
  <2>2. \/ s'.result = s.result
        \/ s'.result.by = "agent" /\ s'.result.origin = "none"
    BY <2>1 DEF AgentEffect, AgentTriages, AgentAnswers, AgentMissing, AgentErrs
  <2>3. /\ s'.pending = "none" /\ s'.sub = s.sub /\ s.sub \notin NoDiff
        /\ s'.stage = s.stage /\ s'.target = s.target
    BY <2>1 DEF AgentEffect, Frame
  <2> QED
    BY <2>2, <2>3
<1>9. CASE NoDiffReplies
  <2>1. NoDiffEffect
    BY <1>9, NoDiffProjects
  <2> DEFINE origin == IF s.result.origin = "none" THEN "DRAFT" ELSE s.result.origin
  <2>2. s.result \in Results
    BY <2>1 DEF NoDiffEffect
  <2>3. /\ s'.pending = "none" /\ s'.stage = s.stage /\ s'.target = s.target
        /\ \/ s'.sub = "NO_DIFF_REVIEW" /\ s'.result = s.result
           \/ s'.sub = origin /\ s'.result # NoResult /\ s'.result.origin = "none"
           \/ s'.sub = origin /\ s'.result = NoResult
    BY <2>1, <2>2
       DEF NoDiffEffect, NoDiffExplained, NoDiffAccepted, NoDiffRejected,
           Origin, Frame
  <2>4. NoResult.origin = "none"
    OBVIOUS
  <2> QED
    BY <2>2, <2>3, <2>4
<1>10. CASE ValidateResult
  <2>1. s.pending = "validate" /\ UNCHANGED <<marked, commits, scar>>
    BY <1>10 DEF ValidateResult, Executing
  <2>2. CASE Append([Cleared EXCEPT !.result.step = "validated"])
    BY <2>1, <2>2 DEF Append, Cleared
  <2>3. CASE s.result.verdict = "revise" /\ Append(OnNoDiffDetected(Cleared))
    BY <2>1, <2>3 DEF Append, Cleared, OnNoDiffDetected
  <2>4. ASSUME NEW check \in {"document", "scope_overflow"},
               check = "scope_overflow" => s.stage = 2,
               Append(OnVerdictFailed(Cleared, check))
        PROVE  ResultsFound'
    <3>1. FailEffect(check)
      BY <2>1, <2>4, FailProjects
    <3>2. CASE FailKeepsGate
      BY <2>1, <2>4, <3>1, <3>2
         DEF FailEffect, FailKeepsGate, Frame, GateSame, Escalated, Spends,
             Spares, FlagsSame, FlagReset
    <3>3. CASE FailOverflows(check)
      BY <2>1, <2>4, <3>1, <3>3
         DEF FailEffect, FailOverflows, Frame, GateSame, Escalated, Spends,
             Spares, FlagsSame, FlagReset
    <3>4. CASE FailRedoes(check)
      BY <2>1, <2>4, <3>1, <3>4
         DEF FailEffect, FailRedoes, Frame, GateSame, Escalated, Spends, Spares,
             FlagsSame, FlagReset
    <3>5. CASE FailRefuses(check)
      BY <2>1, <2>4, <3>1, <3>5
         DEF FailEffect, FailRefuses, Frame, GateSame, Escalated, Spends,
             Spares, FlagsSame, FlagReset
    <3>6. CASE FailAsksHuman(check)
      BY <2>1, <2>4, <3>1, <3>6
         DEF FailEffect, FailAsksHuman, Frame, GateSame, Escalated, Spends,
             Spares, FlagsSame, FlagReset
    <3> QED
      BY <3>1, <3>2, <3>3, <3>4, <3>5, <3>6 DEF FailEffect
  <2> QED
    BY <1>10, <2>2, <2>3, <2>4 DEF ValidateResult
<1>11. CASE CommitResult
  BY <1>11 DEF CommitResult, Executing
<1>12. CASE CheckpointResult
  <2>1. s.pending = "checkpoint" /\ UNCHANGED <<marked, commits, scar>>
    BY <1>12 DEF CheckpointResult, Executing
  <2>2. CASE (marked \/ commits = 0) /\ Append([Cleared EXCEPT !.result.step = "checkpointed"])
    BY <2>1, <2>2 DEF Append, Cleared
  <2>3. ASSUME ~marked, NEW check \in {"commit", "document"},
               Append(OnVerdictFailed(Cleared, check))
        PROVE  ResultsFound'
    <3>1. FailEffect(check)
      BY <2>1, <2>3, FailProjects
    <3>2. CASE FailKeepsGate
      BY <2>1, <2>3, <3>1, <3>2
         DEF FailEffect, FailKeepsGate, Frame, GateSame, Escalated, Spends,
             Spares, FlagsSame, FlagReset
    <3>3. CASE FailOverflows(check)
      BY <2>1, <2>3, <3>1, <3>3
         DEF FailEffect, FailOverflows, Frame, GateSame, Escalated, Spends,
             Spares, FlagsSame, FlagReset
    <3>4. CASE FailRedoes(check)
      BY <2>1, <2>3, <3>1, <3>4
         DEF FailEffect, FailRedoes, Frame, GateSame, Escalated, Spends, Spares,
             FlagsSame, FlagReset
    <3>5. CASE FailRefuses(check)
      BY <2>1, <2>3, <3>1, <3>5
         DEF FailEffect, FailRefuses, Frame, GateSame, Escalated, Spends,
             Spares, FlagsSame, FlagReset
    <3>6. CASE FailAsksHuman(check)
      BY <2>1, <2>3, <3>1, <3>6
         DEF FailEffect, FailAsksHuman, Frame, GateSame, Escalated, Spends,
             Spares, FlagsSame, FlagReset
    <3> QED
      BY <3>1, <3>2, <3>3, <3>4, <3>5, <3>6 DEF FailEffect
  <2> QED
    BY <1>12, <2>2, <2>3 DEF CheckpointResult
<1>13. CASE PublishResult
  BY <1>13
     DEF PublishResult, Executing, Append, Cleared, Published, OnDocCommitted,
         OnReviewerVerdict, OnHumanTriage, OnHumanReview, ResetDoc, ResetReview,
         ReviewOf
<1>14. CASE ValidateDocument
  <2>1. s.pending = "validate_document" /\ UNCHANGED <<marked, commits>>
    BY <1>14 DEF ValidateDocument, Executing
  <2>2. CASE Append(OnVerdictPassed(Cleared)) /\ UNCHANGED scar
    BY <2>1, <2>2 DEF Append, Cleared, OnVerdictPassed
  <2>3. CASE Append(OnVerdictFailed(Cleared, "document")) /\ Blame("exit_gate")
    <3>1. FailEffect("document")
      BY <2>1, <2>3, FailProjects
    <3>2. CASE FailKeepsGate
      BY <2>1, <2>3, <3>1, <3>2
         DEF FailEffect, FailKeepsGate, Frame, GateSame, Escalated, Spends,
             Spares, FlagsSame, FlagReset
    <3>3. CASE FailRedoes("document")
      BY <2>1, <2>3, <3>1, <3>3
         DEF FailEffect, FailRedoes, Frame, GateSame, Escalated, Spends, Spares,
             FlagsSame, FlagReset
    <3>4. CASE FailAsksHuman("document")
      BY <2>1, <2>3, <3>1, <3>4
         DEF FailEffect, FailAsksHuman, Frame, GateSame, Escalated, Spends,
             Spares, FlagsSame, FlagReset
    <3> QED
      BY <3>1, <3>2, <3>3, <3>4 DEF FailEffect, FailOverflows, FailRefuses
  <2> QED
    BY <1>14, <2>2, <2>3 DEF ValidateDocument
<1>15. CASE WriteFrontmatter
  <2>1. s.pending = "write_frontmatter" /\ UNCHANGED <<marked, commits, scar>>
    BY <1>15 DEF WriteFrontmatter, Executing
  <2>2. CASE Append(OnVerdictFailed(Cleared, "commit"))
    <3>1. FailEffect("commit")
      BY <2>1, <2>2, FailProjects
    <3>2. CASE FailKeepsGate
      BY <2>1, <2>2, <3>1, <3>2
         DEF FailEffect, FailKeepsGate, Frame, GateSame, Escalated, Spends,
             Spares, FlagsSame, FlagReset
    <3>3. CASE FailRefuses("commit")
      BY <2>1, <2>2, <3>1, <3>3
         DEF FailEffect, FailRefuses, Frame, GateSame, Escalated, Spends,
             Spares, FlagsSame, FlagReset
    <3> QED
      BY <3>1, <3>2, <3>3
         DEF FailEffect, FailOverflows, FailRedoes, FailAsksHuman
  <2>3. CASE /\ s' = [Cleared EXCEPT !.result = NoResult]
             /\ drv' = "emit" /\ todo' = "exited" /\ UNCHANGED <<mode, tripped>>
    BY <2>1, <2>3 DEF Cleared
  <2> QED
    BY <1>15, <2>2, <2>3 DEF WriteFrontmatter
<1>16. CASE AppendExited
  BY <1>16 DEF AppendExited, Cleared
<1>17. CASE AppendEntered
  BY <1>17 DEF AppendEntered, Cleared, OnStageEntered, ResetDoc, ResetReview
<1>18. CASE RollbackStage
  BY <1>18
     DEF RollbackStage, Executing, Append, Cleared, OnStageRolledBack, ResetDoc,
         ResetReview
<1>19. CASE RejectRun
  <2>1. s.pending \in {"record_backlog", "delete_branch", "complete_run"}
    BY <1>19 DEF RejectRun, Executing
  <2>2. /\ drv = "exec" /\ drv' = "loop" /\ UNCHANGED <<mode, todo, tripped, marked, commits, scar>>
        /\ s'.pending = "none" /\ s'.result = s.result /\ s'.attempt = s.attempt
        /\ s'.sub = s.sub /\ s'.stage = s.stage /\ s'.infra = s.infra
        /\ s'.target = s.target /\ s'.scopeOverflow = s.scopeOverflow
        /\ s'.rejected = s.rejected /\ s'.stageExited = s.stageExited
        /\ s'.exitValidated = s.exitValidated /\ FlagsSame
        /\ GateSame \/ (s'.status = "completed" /\ s'.awaiting = "none")
    <3>1. CASE Append([Cleared EXCEPT !.backlog = TRUE])
      BY <1>19, <3>1
         DEF RejectRun, Executing, Append, Cleared, GateSame, FlagsSame
    <3>2. CASE Append([Cleared EXCEPT !.branchDeleted = TRUE])
      BY <1>19, <3>2
         DEF RejectRun, Executing, Append, Cleared, GateSame, FlagsSame
    <3>3. CASE Append(OnRunCompleted(Cleared))
      BY <1>19, <3>3
         DEF RejectRun, Executing, Append, Cleared, OnRunCompleted, GateSame,
             FlagsSame
    <3> QED
      BY <1>19, <3>1, <3>2, <3>3 DEF RejectRun
  <2> QED
    BY <2>1, <2>2 DEF GateSame, FlagsSame
<1>20. ASSUME NEW d \in {"go", "no_go"}, HumanTriage(d) PROVE ResultsFound'
  BY <1>20 DEF HumanTriage, Submit, Cleared
<1>21. ASSUME NEW v \in {"no_comment", "comment", "revise"}, HumanReview(v)
       PROVE  ResultsFound'
  BY <1>21 DEF HumanReview, Submit, Cleared
<1>22. ASSUME NEW clear \in BOOLEAN, HumanRetry(clear) PROVE ResultsFound'
  BY <1>22
     DEF HumanRetry, AppendHuman, Unlocked, Cleared, OnHumanRetry, ResetDoc,
         ResetReview
<1>23. ASSUME NEW i \in Stages, HumanReturn(i) PROVE ResultsFound'
  BY <1>23 DEF HumanReturn, AppendHuman, Unlocked, Cleared, OnHumanReturn
<1>24. CASE Abandon
  BY <1>24 DEF Abandon, AppendHuman, Unlocked, Cleared, OnRunCompleted
<1>25. CASE UNCHANGED vars
  BY <1>25 DEF vars
<1> HIDE DEF BInv, TypeOK, StateTypes, NoResult, Results, ResultsFound,
             Unanswered, StagesLeft, NoDiff, Review, HumanGates, ResultCommands,
             ExitCommands, AuthorSubs
<1> QED
  BY <1>1, <1>2, <1>3, <1>4, <1>5, <1>6, <1>7, <1>8, <1>9, <1>10, <1>11, <1>12,
     <1>13, <1>14, <1>15, <1>16, <1>17, <1>18, <1>19, <1>20, <1>21, <1>22,
     <1>23, <1>24, <1>25
     DEF Next, Driver, Human

(***************************************************************************)
(* Nobody works for a result that is there.                                *)
(***************************************************************************)
LEMMA UnansweredStep ==
    ASSUME BInv, [Next]_vars PROVE Unanswered'
<1> USE AuthorStageAssumption
   DEF BInv, TypeOK, StateTypes, ResultsFound, Unanswered, StagesLeft, NoDiff,
       Review, HumanGates, ResultCommands, ExitCommands, AuthorSubs
<1>1. CASE Start
  BY <1>1 DEF Start
<1>2. CASE Stop
  BY <1>2, DecideFacts DEF Stop
<1>3. CASE BreakerTrips
  BY <1>3 DEF BreakerTrips, EscalateWhen, Cleared
<1>4. CASE Issue
  BY <1>4, DecideFacts DEF Issue, Halts, AppendIssued, OnCommandIssued
<1>5. CASE Backoff
  BY <1>5, DecideFacts DEF Backoff
<1>6. CASE Wake
  BY <1>6, DecideFacts DEF Wake, AppendIssued, OnCommandIssued
<1>7. CASE Crash
  BY <1>7 DEF Crash
<1>8. CASE AgentReplies
  <2>1. AgentEffect
    BY <1>8, AgentProjects
  <2>2. CASE AgentTriages
    BY <2>1, <2>2
       DEF AgentEffect, AgentTriages, Frame, GateSame, Escalated, Spends,
           Spares, FlagsSame, FlagReset
  <2>3. CASE AgentAnswers
    BY <2>1, <2>3
       DEF AgentEffect, AgentAnswers, Frame, GateSame, Escalated, Spends,
           Spares, FlagsSame, FlagReset
  <2>4. CASE AgentMissing
    BY <2>1, <2>4
       DEF AgentEffect, AgentMissing, Frame, GateSame, Escalated, Spends,
           Spares, FlagsSame, FlagReset
  <2>5. CASE AgentErrs
    BY <2>1, <2>5
       DEF AgentEffect, AgentErrs, Frame, GateSame, Escalated, Spends, Spares,
           FlagsSame, FlagReset
  <2> QED
    BY <2>1, <2>2, <2>3, <2>4, <2>5 DEF AgentEffect
<1>9. CASE NoDiffReplies
  <2>1. NoDiffEffect
    BY <1>9, NoDiffProjects
  <2>2. CASE NoDiffExplained
    BY <2>1, <2>2
       DEF NoDiffEffect, NoDiffExplained, Frame, GateSame, Escalated, Spends,
           Spares, FlagsSame, FlagReset, Origin
  <2>3. CASE NoDiffAccepted
    BY <2>1, <2>3
       DEF NoDiffEffect, NoDiffAccepted, Frame, GateSame, Escalated, Spends,
           Spares, FlagsSame, FlagReset, Origin
  <2>4. CASE NoDiffRejected
    BY <2>1, <2>4
       DEF NoDiffEffect, NoDiffRejected, Frame, GateSame, Escalated, Spends,
           Spares, FlagsSame, FlagReset, Origin
  <2> QED
    BY <2>1, <2>2, <2>3, <2>4 DEF NoDiffEffect
<1>10. CASE ValidateResult
  <2>1. s.pending = "validate" /\ UNCHANGED <<marked, commits, scar>>
    BY <1>10 DEF ValidateResult, Executing
  <2>2. CASE Append([Cleared EXCEPT !.result.step = "validated"])
    BY <2>1, <2>2 DEF Append, Cleared
  <2>3. CASE s.result.verdict = "revise" /\ Append(OnNoDiffDetected(Cleared))
    BY <2>1, <2>3 DEF Append, Cleared, OnNoDiffDetected
  <2>4. ASSUME NEW check \in {"document", "scope_overflow"},
               check = "scope_overflow" => s.stage = 2,
               Append(OnVerdictFailed(Cleared, check))
        PROVE  Unanswered'
    <3>1. FailEffect(check)
      BY <2>1, <2>4, FailProjects
    <3>2. CASE FailKeepsGate
      BY <2>1, <2>4, <3>1, <3>2
         DEF FailEffect, FailKeepsGate, Frame, GateSame, Escalated, Spends,
             Spares, FlagsSame, FlagReset
    <3>3. CASE FailOverflows(check)
      BY <2>1, <2>4, <3>1, <3>3
         DEF FailEffect, FailOverflows, Frame, GateSame, Escalated, Spends,
             Spares, FlagsSame, FlagReset
    <3>4. CASE FailRedoes(check)
      BY <2>1, <2>4, <3>1, <3>4
         DEF FailEffect, FailRedoes, Frame, GateSame, Escalated, Spends, Spares,
             FlagsSame, FlagReset
    <3>5. CASE FailRefuses(check)
      BY <2>1, <2>4, <3>1, <3>5
         DEF FailEffect, FailRefuses, Frame, GateSame, Escalated, Spends,
             Spares, FlagsSame, FlagReset
    <3>6. CASE FailAsksHuman(check)
      BY <2>1, <2>4, <3>1, <3>6
         DEF FailEffect, FailAsksHuman, Frame, GateSame, Escalated, Spends,
             Spares, FlagsSame, FlagReset
    <3> QED
      BY <3>1, <3>2, <3>3, <3>4, <3>5, <3>6 DEF FailEffect
  <2> QED
    BY <1>10, <2>2, <2>3, <2>4 DEF ValidateResult
<1>11. CASE CommitResult
  BY <1>11 DEF CommitResult, Executing
<1>12. CASE CheckpointResult
  <2>1. s.pending = "checkpoint" /\ UNCHANGED <<marked, commits, scar>>
    BY <1>12 DEF CheckpointResult, Executing
  <2>2. CASE (marked \/ commits = 0) /\ Append([Cleared EXCEPT !.result.step = "checkpointed"])
    BY <2>1, <2>2 DEF Append, Cleared
  <2>3. ASSUME ~marked, NEW check \in {"commit", "document"},
               Append(OnVerdictFailed(Cleared, check))
        PROVE  Unanswered'
    <3>1. FailEffect(check)
      BY <2>1, <2>3, FailProjects
    <3>2. CASE FailKeepsGate
      BY <2>1, <2>3, <3>1, <3>2
         DEF FailEffect, FailKeepsGate, Frame, GateSame, Escalated, Spends,
             Spares, FlagsSame, FlagReset
    <3>3. CASE FailOverflows(check)
      BY <2>1, <2>3, <3>1, <3>3
         DEF FailEffect, FailOverflows, Frame, GateSame, Escalated, Spends,
             Spares, FlagsSame, FlagReset
    <3>4. CASE FailRedoes(check)
      BY <2>1, <2>3, <3>1, <3>4
         DEF FailEffect, FailRedoes, Frame, GateSame, Escalated, Spends, Spares,
             FlagsSame, FlagReset
    <3>5. CASE FailRefuses(check)
      BY <2>1, <2>3, <3>1, <3>5
         DEF FailEffect, FailRefuses, Frame, GateSame, Escalated, Spends,
             Spares, FlagsSame, FlagReset
    <3>6. CASE FailAsksHuman(check)
      BY <2>1, <2>3, <3>1, <3>6
         DEF FailEffect, FailAsksHuman, Frame, GateSame, Escalated, Spends,
             Spares, FlagsSame, FlagReset
    <3> QED
      BY <3>1, <3>2, <3>3, <3>4, <3>5, <3>6 DEF FailEffect
  <2> QED
    BY <1>12, <2>2, <2>3 DEF CheckpointResult
<1>13. CASE PublishResult
  BY <1>13
     DEF PublishResult, Executing, Append, Cleared, Published, OnDocCommitted,
         OnReviewerVerdict, OnHumanTriage, OnHumanReview, ResetDoc, ResetReview,
         ReviewOf
<1>14. CASE ValidateDocument
  <2>1. s.pending = "validate_document" /\ UNCHANGED <<marked, commits>>
    BY <1>14 DEF ValidateDocument, Executing
  <2>2. CASE Append(OnVerdictPassed(Cleared)) /\ UNCHANGED scar
    BY <2>1, <2>2 DEF Append, Cleared, OnVerdictPassed
  <2>3. CASE Append(OnVerdictFailed(Cleared, "document")) /\ Blame("exit_gate")
    <3>1. FailEffect("document")
      BY <2>1, <2>3, FailProjects
    <3>2. CASE FailKeepsGate
      BY <2>1, <2>3, <3>1, <3>2
         DEF FailEffect, FailKeepsGate, Frame, GateSame, Escalated, Spends,
             Spares, FlagsSame, FlagReset
    <3>3. CASE FailRedoes("document")
      BY <2>1, <2>3, <3>1, <3>3
         DEF FailEffect, FailRedoes, Frame, GateSame, Escalated, Spends, Spares,
             FlagsSame, FlagReset
    <3>4. CASE FailAsksHuman("document")
      BY <2>1, <2>3, <3>1, <3>4
         DEF FailEffect, FailAsksHuman, Frame, GateSame, Escalated, Spends,
             Spares, FlagsSame, FlagReset
    <3> QED
      BY <3>1, <3>2, <3>3, <3>4 DEF FailEffect, FailOverflows, FailRefuses
  <2> QED
    BY <1>14, <2>2, <2>3 DEF ValidateDocument
<1>15. CASE WriteFrontmatter
  <2>1. s.pending = "write_frontmatter" /\ UNCHANGED <<marked, commits, scar>>
    BY <1>15 DEF WriteFrontmatter, Executing
  <2>2. CASE Append(OnVerdictFailed(Cleared, "commit"))
    <3>1. FailEffect("commit")
      BY <2>1, <2>2, FailProjects
    <3>2. CASE FailKeepsGate
      BY <2>1, <2>2, <3>1, <3>2
         DEF FailEffect, FailKeepsGate, Frame, GateSame, Escalated, Spends,
             Spares, FlagsSame, FlagReset
    <3>3. CASE FailRefuses("commit")
      BY <2>1, <2>2, <3>1, <3>3
         DEF FailEffect, FailRefuses, Frame, GateSame, Escalated, Spends,
             Spares, FlagsSame, FlagReset
    <3> QED
      BY <3>1, <3>2, <3>3
         DEF FailEffect, FailOverflows, FailRedoes, FailAsksHuman
  <2>3. CASE /\ s' = [Cleared EXCEPT !.result = NoResult]
             /\ drv' = "emit" /\ todo' = "exited" /\ UNCHANGED <<mode, tripped>>
    BY <2>1, <2>3 DEF Cleared
  <2> QED
    BY <1>15, <2>2, <2>3 DEF WriteFrontmatter
<1>16. CASE AppendExited
  BY <1>16 DEF AppendExited, Cleared
<1>17. CASE AppendEntered
  BY <1>17 DEF AppendEntered, Cleared, OnStageEntered, ResetDoc, ResetReview
<1>18. CASE RollbackStage
  BY <1>18
     DEF RollbackStage, Executing, Append, Cleared, OnStageRolledBack, ResetDoc,
         ResetReview
<1>19. CASE RejectRun
  <2>1. s.pending \in {"record_backlog", "delete_branch", "complete_run"}
    BY <1>19 DEF RejectRun, Executing
  <2>2. /\ drv = "exec" /\ drv' = "loop" /\ UNCHANGED <<mode, todo, tripped, marked, commits, scar>>
        /\ s'.pending = "none" /\ s'.result = s.result /\ s'.attempt = s.attempt
        /\ s'.sub = s.sub /\ s'.stage = s.stage /\ s'.infra = s.infra
        /\ s'.target = s.target /\ s'.scopeOverflow = s.scopeOverflow
        /\ s'.rejected = s.rejected /\ s'.stageExited = s.stageExited
        /\ s'.exitValidated = s.exitValidated /\ FlagsSame
        /\ GateSame \/ (s'.status = "completed" /\ s'.awaiting = "none")
    <3>1. CASE Append([Cleared EXCEPT !.backlog = TRUE])
      BY <1>19, <3>1
         DEF RejectRun, Executing, Append, Cleared, GateSame, FlagsSame
    <3>2. CASE Append([Cleared EXCEPT !.branchDeleted = TRUE])
      BY <1>19, <3>2
         DEF RejectRun, Executing, Append, Cleared, GateSame, FlagsSame
    <3>3. CASE Append(OnRunCompleted(Cleared))
      BY <1>19, <3>3
         DEF RejectRun, Executing, Append, Cleared, OnRunCompleted, GateSame,
             FlagsSame
    <3> QED
      BY <1>19, <3>1, <3>2, <3>3 DEF RejectRun
  <2> QED
    BY <2>1, <2>2 DEF GateSame, FlagsSame
<1>20. ASSUME NEW d \in {"go", "no_go"}, HumanTriage(d) PROVE Unanswered'
  BY <1>20 DEF HumanTriage, Submit, Cleared
<1>21. ASSUME NEW v \in {"no_comment", "comment", "revise"}, HumanReview(v)
       PROVE  Unanswered'
  BY <1>21 DEF HumanReview, Submit, Cleared
<1>22. ASSUME NEW clear \in BOOLEAN, HumanRetry(clear) PROVE Unanswered'
  BY <1>22
     DEF HumanRetry, AppendHuman, Unlocked, Cleared, OnHumanRetry, ResetDoc,
         ResetReview
<1>23. ASSUME NEW i \in Stages, HumanReturn(i) PROVE Unanswered'
  BY <1>23 DEF HumanReturn, AppendHuman, Unlocked, Cleared, OnHumanReturn
<1>24. CASE Abandon
  BY <1>24 DEF Abandon, AppendHuman, Unlocked, Cleared, OnRunCompleted
<1>25. CASE UNCHANGED vars
  BY <1>25 DEF vars
<1> HIDE DEF BInv, TypeOK, StateTypes, ResultsFound, Unanswered, StagesLeft,
             NoDiff, Review, HumanGates, ResultCommands, ExitCommands,
             AuthorSubs
<1> QED
  BY <1>1, <1>2, <1>3, <1>4, <1>5, <1>6, <1>7, <1>8, <1>9, <1>10, <1>11, <1>12,
     <1>13, <1>14, <1>15, <1>16, <1>17, <1>18, <1>19, <1>20, <1>21, <1>22,
     <1>23, <1>24, <1>25
     DEF Next, Driver, Human

(***************************************************************************)
(* Every return has its target.                                            *)
(***************************************************************************)
LEMMA ReturnsStep ==
    ASSUME BInv, [Next]_vars PROVE ReturnsAimed'
<1> USE DEF BInv, TypeOK, StateTypes, NoResult, Results, ReturnsAimed,
            StagesLeft, ResultsFound, Stages, LastStage, NoDiff, Review,
            HumanGates, ResultCommands, ExitCommands, AuthorSubs
<1>1. CASE Start
  BY <1>1 DEF Start
<1>2. CASE Stop
  BY <1>2, DecideFacts DEF Stop
<1>3. CASE BreakerTrips
  BY <1>3 DEF BreakerTrips, EscalateWhen, Cleared
<1>4. CASE Issue
  BY <1>4, DecideFacts DEF Issue, Halts, AppendIssued, OnCommandIssued
<1>5. CASE Backoff
  BY <1>5, DecideFacts DEF Backoff
<1>6. CASE Wake
  BY <1>6, DecideFacts DEF Wake, AppendIssued, OnCommandIssued
<1>7. CASE Crash
  BY <1>7 DEF Crash
<1>8. CASE AgentReplies
  <2>1. AgentEffect
    BY <1>8, AgentProjects
  <2>2. \/ s'.result = s.result
        \/ s'.result.by = "agent" /\ s'.result.origin = "none"
    BY <2>1 DEF AgentEffect, AgentTriages, AgentAnswers, AgentMissing, AgentErrs
  <2>3. /\ s'.pending = "none" /\ s'.sub = s.sub /\ s.sub \notin NoDiff
        /\ s'.stage = s.stage /\ s'.target = s.target
    BY <2>1 DEF AgentEffect, Frame
  <2> QED
    BY <2>2, <2>3
<1>9. CASE NoDiffReplies
  <2>1. NoDiffEffect
    BY <1>9, NoDiffProjects
  <2> DEFINE origin == IF s.result.origin = "none" THEN "DRAFT" ELSE s.result.origin
  <2>2. s.result \in Results
    BY <2>1 DEF NoDiffEffect
  <2>3. /\ s'.pending = "none" /\ s'.stage = s.stage /\ s'.target = s.target
        /\ \/ s'.sub = "NO_DIFF_REVIEW" /\ s'.result = s.result
           \/ s'.sub = origin /\ s'.result # NoResult /\ s'.result.origin = "none"
           \/ s'.sub = origin /\ s'.result = NoResult
    BY <2>1, <2>2
       DEF NoDiffEffect, NoDiffExplained, NoDiffAccepted, NoDiffRejected,
           Origin, Frame
  <2>4. NoResult.origin = "none"
    OBVIOUS
  <2> QED
    BY <2>2, <2>3, <2>4
<1>10. CASE ValidateResult
  <2>1. s.pending = "validate" /\ UNCHANGED <<marked, commits, scar>>
    BY <1>10 DEF ValidateResult, Executing
  <2>2. CASE Append([Cleared EXCEPT !.result.step = "validated"])
    BY <2>1, <2>2 DEF Append, Cleared
  <2>3. CASE s.result.verdict = "revise" /\ Append(OnNoDiffDetected(Cleared))
    BY <2>1, <2>3 DEF Append, Cleared, OnNoDiffDetected
  <2>4. ASSUME NEW check \in {"document", "scope_overflow"},
               check = "scope_overflow" => s.stage = 2,
               Append(OnVerdictFailed(Cleared, check))
        PROVE  ReturnsAimed'
    <3>1. FailEffect(check)
      BY <2>1, <2>4, FailProjects
    <3>2. CASE FailKeepsGate
      BY <2>1, <2>4, <3>1, <3>2
         DEF FailEffect, FailKeepsGate, Frame, GateSame, Escalated, Spends,
             Spares, FlagsSame, FlagReset
    <3>3. CASE FailOverflows(check)
      BY <2>1, <2>4, <3>1, <3>3
         DEF FailEffect, FailOverflows, Frame, GateSame, Escalated, Spends,
             Spares, FlagsSame, FlagReset
    <3>4. CASE FailRedoes(check)
      BY <2>1, <2>4, <3>1, <3>4
         DEF FailEffect, FailRedoes, Frame, GateSame, Escalated, Spends, Spares,
             FlagsSame, FlagReset
    <3>5. CASE FailRefuses(check)
      BY <2>1, <2>4, <3>1, <3>5
         DEF FailEffect, FailRefuses, Frame, GateSame, Escalated, Spends,
             Spares, FlagsSame, FlagReset
    <3>6. CASE FailAsksHuman(check)
      BY <2>1, <2>4, <3>1, <3>6
         DEF FailEffect, FailAsksHuman, Frame, GateSame, Escalated, Spends,
             Spares, FlagsSame, FlagReset
    <3> QED
      BY <3>1, <3>2, <3>3, <3>4, <3>5, <3>6 DEF FailEffect
  <2> QED
    BY <1>10, <2>2, <2>3, <2>4 DEF ValidateResult
<1>11. CASE CommitResult
  BY <1>11 DEF CommitResult, Executing
<1>12. CASE CheckpointResult
  <2>1. s.pending = "checkpoint" /\ UNCHANGED <<marked, commits, scar>>
    BY <1>12 DEF CheckpointResult, Executing
  <2>2. CASE (marked \/ commits = 0) /\ Append([Cleared EXCEPT !.result.step = "checkpointed"])
    BY <2>1, <2>2 DEF Append, Cleared
  <2>3. ASSUME ~marked, NEW check \in {"commit", "document"},
               Append(OnVerdictFailed(Cleared, check))
        PROVE  ReturnsAimed'
    <3>1. FailEffect(check)
      BY <2>1, <2>3, FailProjects
    <3>2. CASE FailKeepsGate
      BY <2>1, <2>3, <3>1, <3>2
         DEF FailEffect, FailKeepsGate, Frame, GateSame, Escalated, Spends,
             Spares, FlagsSame, FlagReset
    <3>3. CASE FailOverflows(check)
      BY <2>1, <2>3, <3>1, <3>3
         DEF FailEffect, FailOverflows, Frame, GateSame, Escalated, Spends,
             Spares, FlagsSame, FlagReset
    <3>4. CASE FailRedoes(check)
      BY <2>1, <2>3, <3>1, <3>4
         DEF FailEffect, FailRedoes, Frame, GateSame, Escalated, Spends, Spares,
             FlagsSame, FlagReset
    <3>5. CASE FailRefuses(check)
      BY <2>1, <2>3, <3>1, <3>5
         DEF FailEffect, FailRefuses, Frame, GateSame, Escalated, Spends,
             Spares, FlagsSame, FlagReset
    <3>6. CASE FailAsksHuman(check)
      BY <2>1, <2>3, <3>1, <3>6
         DEF FailEffect, FailAsksHuman, Frame, GateSame, Escalated, Spends,
             Spares, FlagsSame, FlagReset
    <3> QED
      BY <3>1, <3>2, <3>3, <3>4, <3>5, <3>6 DEF FailEffect
  <2> QED
    BY <1>12, <2>2, <2>3 DEF CheckpointResult
<1>13. CASE PublishResult
  BY <1>13
     DEF PublishResult, Executing, Append, Cleared, Published, OnDocCommitted,
         OnReviewerVerdict, OnHumanTriage, OnHumanReview, ResetDoc, ResetReview,
         ReviewOf
<1>14. CASE ValidateDocument
  <2>1. s.pending = "validate_document" /\ UNCHANGED <<marked, commits>>
    BY <1>14 DEF ValidateDocument, Executing
  <2>2. CASE Append(OnVerdictPassed(Cleared)) /\ UNCHANGED scar
    BY <2>1, <2>2 DEF Append, Cleared, OnVerdictPassed
  <2>3. CASE Append(OnVerdictFailed(Cleared, "document")) /\ Blame("exit_gate")
    <3>1. FailEffect("document")
      BY <2>1, <2>3, FailProjects
    <3>2. CASE FailKeepsGate
      BY <2>1, <2>3, <3>1, <3>2
         DEF FailEffect, FailKeepsGate, Frame, GateSame, Escalated, Spends,
             Spares, FlagsSame, FlagReset
    <3>3. CASE FailRedoes("document")
      BY <2>1, <2>3, <3>1, <3>3
         DEF FailEffect, FailRedoes, Frame, GateSame, Escalated, Spends, Spares,
             FlagsSame, FlagReset
    <3>4. CASE FailAsksHuman("document")
      BY <2>1, <2>3, <3>1, <3>4
         DEF FailEffect, FailAsksHuman, Frame, GateSame, Escalated, Spends,
             Spares, FlagsSame, FlagReset
    <3> QED
      BY <3>1, <3>2, <3>3, <3>4 DEF FailEffect, FailOverflows, FailRefuses
  <2> QED
    BY <1>14, <2>2, <2>3 DEF ValidateDocument
<1>15. CASE WriteFrontmatter
  <2>1. s.pending = "write_frontmatter" /\ UNCHANGED <<marked, commits, scar>>
    BY <1>15 DEF WriteFrontmatter, Executing
  <2>2. CASE Append(OnVerdictFailed(Cleared, "commit"))
    <3>1. FailEffect("commit")
      BY <2>1, <2>2, FailProjects
    <3>2. CASE FailKeepsGate
      BY <2>1, <2>2, <3>1, <3>2
         DEF FailEffect, FailKeepsGate, Frame, GateSame, Escalated, Spends,
             Spares, FlagsSame, FlagReset
    <3>3. CASE FailRefuses("commit")
      BY <2>1, <2>2, <3>1, <3>3
         DEF FailEffect, FailRefuses, Frame, GateSame, Escalated, Spends,
             Spares, FlagsSame, FlagReset
    <3> QED
      BY <3>1, <3>2, <3>3
         DEF FailEffect, FailOverflows, FailRedoes, FailAsksHuman
  <2>3. CASE /\ s' = [Cleared EXCEPT !.result = NoResult]
             /\ drv' = "emit" /\ todo' = "exited" /\ UNCHANGED <<mode, tripped>>
    BY <2>1, <2>3 DEF Cleared
  <2> QED
    BY <1>15, <2>2, <2>3 DEF WriteFrontmatter
<1>16. CASE AppendExited
  BY <1>16 DEF AppendExited, Cleared
<1>17. CASE AppendEntered
  BY <1>17 DEF AppendEntered, Cleared, OnStageEntered, ResetDoc, ResetReview
<1>18. CASE RollbackStage
  BY <1>18
     DEF RollbackStage, Executing, Append, Cleared, OnStageRolledBack, ResetDoc,
         ResetReview
<1>19. CASE RejectRun
  <2>1. s.pending \in {"record_backlog", "delete_branch", "complete_run"}
    BY <1>19 DEF RejectRun, Executing
  <2>2. /\ drv = "exec" /\ drv' = "loop" /\ UNCHANGED <<mode, todo, tripped, marked, commits, scar>>
        /\ s'.pending = "none" /\ s'.result = s.result /\ s'.attempt = s.attempt
        /\ s'.sub = s.sub /\ s'.stage = s.stage /\ s'.infra = s.infra
        /\ s'.target = s.target /\ s'.scopeOverflow = s.scopeOverflow
        /\ s'.rejected = s.rejected /\ s'.stageExited = s.stageExited
        /\ s'.exitValidated = s.exitValidated /\ FlagsSame
        /\ GateSame \/ (s'.status = "completed" /\ s'.awaiting = "none")
    <3>1. CASE Append([Cleared EXCEPT !.backlog = TRUE])
      BY <1>19, <3>1
         DEF RejectRun, Executing, Append, Cleared, GateSame, FlagsSame
    <3>2. CASE Append([Cleared EXCEPT !.branchDeleted = TRUE])
      BY <1>19, <3>2
         DEF RejectRun, Executing, Append, Cleared, GateSame, FlagsSame
    <3>3. CASE Append(OnRunCompleted(Cleared))
      BY <1>19, <3>3
         DEF RejectRun, Executing, Append, Cleared, OnRunCompleted, GateSame,
             FlagsSame
    <3> QED
      BY <1>19, <3>1, <3>2, <3>3 DEF RejectRun
  <2> QED
    BY <2>1, <2>2 DEF GateSame, FlagsSame
<1>20. ASSUME NEW d \in {"go", "no_go"}, HumanTriage(d) PROVE ReturnsAimed'
  BY <1>20 DEF HumanTriage, Submit, Cleared
<1>21. ASSUME NEW v \in {"no_comment", "comment", "revise"}, HumanReview(v)
       PROVE  ReturnsAimed'
  BY <1>21 DEF HumanReview, Submit, Cleared
<1>22. ASSUME NEW clear \in BOOLEAN, HumanRetry(clear) PROVE ReturnsAimed'
  BY <1>22
     DEF HumanRetry, AppendHuman, Unlocked, Cleared, OnHumanRetry, ResetDoc,
         ResetReview
<1>23. ASSUME NEW i \in Stages, HumanReturn(i) PROVE ReturnsAimed'
  BY <1>23 DEF HumanReturn, AppendHuman, Unlocked, Cleared, OnHumanReturn
<1>24. CASE Abandon
  BY <1>24 DEF Abandon, AppendHuman, Unlocked, Cleared, OnRunCompleted
<1>25. CASE UNCHANGED vars
  BY <1>25 DEF vars
<1> HIDE DEF BInv, TypeOK, StateTypes, NoResult, Results, ReturnsAimed,
             StagesLeft, ResultsFound, Stages, LastStage, NoDiff, Review,
             HumanGates, ResultCommands, ExitCommands, AuthorSubs
<1> QED
  BY <1>1, <1>2, <1>3, <1>4, <1>5, <1>6, <1>7, <1>8, <1>9, <1>10, <1>11, <1>12,
     <1>13, <1>14, <1>15, <1>16, <1>17, <1>18, <1>19, <1>20, <1>21, <1>22,
     <1>23, <1>24, <1>25
     DEF Next, Driver, Human

(***************************************************************************)
(* Only a run that left is past the last stage.                            *)
(***************************************************************************)
LEMMA StagesStep ==
    ASSUME BInv, [Next]_vars PROVE StagesLeft'
<1> USE DEF BInv, TypeOK, StateTypes, ReturnsAimed, StagesLeft, Stages,
            LastStage
<1>1. CASE Start
  BY <1>1 DEF Start
<1>2. CASE Stop
  BY <1>2, DecideFacts DEF Stop
<1>3. CASE BreakerTrips
  BY <1>3 DEF BreakerTrips, EscalateWhen, Cleared
<1>4. CASE Issue
  BY <1>4, DecideFacts
     DEF Issue, Halts, AppendIssued, OnCommandIssued, NoDiff, Review
<1>5. CASE Backoff
  BY <1>5, DecideFacts DEF Backoff
<1>6. CASE Wake
  BY <1>6, DecideFacts DEF Wake, AppendIssued, OnCommandIssued, NoDiff, Review
<1>7. CASE Crash
  BY <1>7 DEF Crash
<1>8. CASE AgentReplies
  <2>1. AgentEffect
    BY <1>8, AgentProjects
  <2>2. CASE AgentTriages
    BY <2>1, <2>2
       DEF AgentEffect, AgentTriages, Frame, GateSame, Escalated, Spends,
           Spares, FlagsSame, FlagReset
  <2>3. CASE AgentAnswers
    BY <2>1, <2>3
       DEF AgentEffect, AgentAnswers, Frame, GateSame, Escalated, Spends,
           Spares, FlagsSame, FlagReset
  <2>4. CASE AgentMissing
    BY <2>1, <2>4
       DEF AgentEffect, AgentMissing, Frame, GateSame, Escalated, Spends,
           Spares, FlagsSame, FlagReset
  <2>5. CASE AgentErrs
    BY <2>1, <2>5
       DEF AgentEffect, AgentErrs, Frame, GateSame, Escalated, Spends, Spares,
           FlagsSame, FlagReset
  <2> QED
    BY <2>1, <2>2, <2>3, <2>4, <2>5 DEF AgentEffect
<1>9. CASE NoDiffReplies
  <2>1. NoDiffEffect
    BY <1>9, NoDiffProjects
  <2>2. CASE NoDiffExplained
    BY <2>1, <2>2
       DEF NoDiffEffect, NoDiffExplained, Frame, GateSame, Escalated, Spends,
           Spares, FlagsSame, FlagReset, Origin
  <2>3. CASE NoDiffAccepted
    BY <2>1, <2>3
       DEF NoDiffEffect, NoDiffAccepted, Frame, GateSame, Escalated, Spends,
           Spares, FlagsSame, FlagReset, Origin
  <2>4. CASE NoDiffRejected
    BY <2>1, <2>4
       DEF NoDiffEffect, NoDiffRejected, Frame, GateSame, Escalated, Spends,
           Spares, FlagsSame, FlagReset, Origin
  <2> QED
    BY <2>1, <2>2, <2>3, <2>4 DEF NoDiffEffect
<1>10. CASE ValidateResult
  <2>1. s.pending = "validate" /\ UNCHANGED <<marked, commits, scar>>
    BY <1>10 DEF ValidateResult, Executing
  <2>2. CASE Append([Cleared EXCEPT !.result.step = "validated"])
    BY <2>1, <2>2 DEF Append, Cleared
  <2>3. CASE s.result.verdict = "revise" /\ Append(OnNoDiffDetected(Cleared))
    BY <2>1, <2>3 DEF Append, Cleared, OnNoDiffDetected
  <2>4. ASSUME NEW check \in {"document", "scope_overflow"},
               check = "scope_overflow" => s.stage = 2,
               Append(OnVerdictFailed(Cleared, check))
        PROVE  StagesLeft'
    <3>1. FailEffect(check)
      BY <2>1, <2>4, FailProjects
    <3>2. CASE FailKeepsGate
      BY <2>1, <2>4, <3>1, <3>2
         DEF FailEffect, FailKeepsGate, Frame, GateSame, Escalated, Spends,
             Spares, FlagsSame, FlagReset
    <3>3. CASE FailOverflows(check)
      BY <2>1, <2>4, <3>1, <3>3
         DEF FailEffect, FailOverflows, Frame, GateSame, Escalated, Spends,
             Spares, FlagsSame, FlagReset
    <3>4. CASE FailRedoes(check)
      BY <2>1, <2>4, <3>1, <3>4
         DEF FailEffect, FailRedoes, Frame, GateSame, Escalated, Spends, Spares,
             FlagsSame, FlagReset
    <3>5. CASE FailRefuses(check)
      BY <2>1, <2>4, <3>1, <3>5
         DEF FailEffect, FailRefuses, Frame, GateSame, Escalated, Spends,
             Spares, FlagsSame, FlagReset
    <3>6. CASE FailAsksHuman(check)
      BY <2>1, <2>4, <3>1, <3>6
         DEF FailEffect, FailAsksHuman, Frame, GateSame, Escalated, Spends,
             Spares, FlagsSame, FlagReset
    <3> QED
      BY <3>1, <3>2, <3>3, <3>4, <3>5, <3>6 DEF FailEffect
  <2> QED
    BY <1>10, <2>2, <2>3, <2>4 DEF ValidateResult
<1>11. CASE CommitResult
  BY <1>11 DEF CommitResult, Executing
<1>12. CASE CheckpointResult
  <2>1. s.pending = "checkpoint" /\ UNCHANGED <<marked, commits, scar>>
    BY <1>12 DEF CheckpointResult, Executing
  <2>2. CASE (marked \/ commits = 0) /\ Append([Cleared EXCEPT !.result.step = "checkpointed"])
    BY <2>1, <2>2 DEF Append, Cleared
  <2>3. ASSUME ~marked, NEW check \in {"commit", "document"},
               Append(OnVerdictFailed(Cleared, check))
        PROVE  StagesLeft'
    <3>1. FailEffect(check)
      BY <2>1, <2>3, FailProjects
    <3>2. CASE FailKeepsGate
      BY <2>1, <2>3, <3>1, <3>2
         DEF FailEffect, FailKeepsGate, Frame, GateSame, Escalated, Spends,
             Spares, FlagsSame, FlagReset
    <3>3. CASE FailOverflows(check)
      BY <2>1, <2>3, <3>1, <3>3
         DEF FailEffect, FailOverflows, Frame, GateSame, Escalated, Spends,
             Spares, FlagsSame, FlagReset
    <3>4. CASE FailRedoes(check)
      BY <2>1, <2>3, <3>1, <3>4
         DEF FailEffect, FailRedoes, Frame, GateSame, Escalated, Spends, Spares,
             FlagsSame, FlagReset
    <3>5. CASE FailRefuses(check)
      BY <2>1, <2>3, <3>1, <3>5
         DEF FailEffect, FailRefuses, Frame, GateSame, Escalated, Spends,
             Spares, FlagsSame, FlagReset
    <3>6. CASE FailAsksHuman(check)
      BY <2>1, <2>3, <3>1, <3>6
         DEF FailEffect, FailAsksHuman, Frame, GateSame, Escalated, Spends,
             Spares, FlagsSame, FlagReset
    <3> QED
      BY <3>1, <3>2, <3>3, <3>4, <3>5, <3>6 DEF FailEffect
  <2> QED
    BY <1>12, <2>2, <2>3 DEF CheckpointResult
<1>13. CASE PublishResult
  BY <1>13
     DEF PublishResult, Executing, Append, Cleared, Published, OnDocCommitted,
         OnReviewerVerdict, OnHumanTriage, OnHumanReview, ResetDoc, ResetReview,
         ReviewOf
<1>14. CASE ValidateDocument
  <2>1. s.pending = "validate_document" /\ UNCHANGED <<marked, commits>>
    BY <1>14 DEF ValidateDocument, Executing
  <2>2. CASE Append(OnVerdictPassed(Cleared)) /\ UNCHANGED scar
    BY <2>1, <2>2 DEF Append, Cleared, OnVerdictPassed
  <2>3. CASE Append(OnVerdictFailed(Cleared, "document")) /\ Blame("exit_gate")
    <3>1. FailEffect("document")
      BY <2>1, <2>3, FailProjects
    <3>2. CASE FailKeepsGate
      BY <2>1, <2>3, <3>1, <3>2
         DEF FailEffect, FailKeepsGate, Frame, GateSame, Escalated, Spends,
             Spares, FlagsSame, FlagReset
    <3>3. CASE FailRedoes("document")
      BY <2>1, <2>3, <3>1, <3>3
         DEF FailEffect, FailRedoes, Frame, GateSame, Escalated, Spends, Spares,
             FlagsSame, FlagReset
    <3>4. CASE FailAsksHuman("document")
      BY <2>1, <2>3, <3>1, <3>4
         DEF FailEffect, FailAsksHuman, Frame, GateSame, Escalated, Spends,
             Spares, FlagsSame, FlagReset
    <3> QED
      BY <3>1, <3>2, <3>3, <3>4 DEF FailEffect, FailOverflows, FailRefuses
  <2> QED
    BY <1>14, <2>2, <2>3 DEF ValidateDocument
<1>15. CASE WriteFrontmatter
  <2>1. s.pending = "write_frontmatter" /\ UNCHANGED <<marked, commits, scar>>
    BY <1>15 DEF WriteFrontmatter, Executing
  <2>2. CASE Append(OnVerdictFailed(Cleared, "commit"))
    <3>1. FailEffect("commit")
      BY <2>1, <2>2, FailProjects
    <3>2. CASE FailKeepsGate
      BY <2>1, <2>2, <3>1, <3>2
         DEF FailEffect, FailKeepsGate, Frame, GateSame, Escalated, Spends,
             Spares, FlagsSame, FlagReset
    <3>3. CASE FailRefuses("commit")
      BY <2>1, <2>2, <3>1, <3>3
         DEF FailEffect, FailRefuses, Frame, GateSame, Escalated, Spends,
             Spares, FlagsSame, FlagReset
    <3> QED
      BY <3>1, <3>2, <3>3
         DEF FailEffect, FailOverflows, FailRedoes, FailAsksHuman
  <2>3. CASE /\ s' = [Cleared EXCEPT !.result = NoResult]
             /\ drv' = "emit" /\ todo' = "exited" /\ UNCHANGED <<mode, tripped>>
    BY <2>1, <2>3 DEF Cleared
  <2> QED
    BY <1>15, <2>2, <2>3 DEF WriteFrontmatter
<1>16. CASE AppendExited
  BY <1>16 DEF AppendExited, Cleared
<1>17. CASE AppendEntered
  BY <1>17 DEF AppendEntered, Cleared, OnStageEntered, ResetDoc, ResetReview
<1>18. CASE RollbackStage
  BY <1>18
     DEF RollbackStage, Executing, Append, Cleared, OnStageRolledBack, ResetDoc,
         ResetReview
<1>19. CASE RejectRun
  <2>1. s.pending \in {"record_backlog", "delete_branch", "complete_run"}
    BY <1>19 DEF RejectRun, Executing
  <2>2. /\ drv = "exec" /\ drv' = "loop" /\ UNCHANGED <<mode, todo, tripped, marked, commits, scar>>
        /\ s'.pending = "none" /\ s'.result = s.result /\ s'.attempt = s.attempt
        /\ s'.sub = s.sub /\ s'.stage = s.stage /\ s'.infra = s.infra
        /\ s'.target = s.target /\ s'.scopeOverflow = s.scopeOverflow
        /\ s'.rejected = s.rejected /\ s'.stageExited = s.stageExited
        /\ s'.exitValidated = s.exitValidated /\ FlagsSame
        /\ GateSame \/ (s'.status = "completed" /\ s'.awaiting = "none")
    <3>1. CASE Append([Cleared EXCEPT !.backlog = TRUE])
      BY <1>19, <3>1
         DEF RejectRun, Executing, Append, Cleared, GateSame, FlagsSame
    <3>2. CASE Append([Cleared EXCEPT !.branchDeleted = TRUE])
      BY <1>19, <3>2
         DEF RejectRun, Executing, Append, Cleared, GateSame, FlagsSame
    <3>3. CASE Append(OnRunCompleted(Cleared))
      BY <1>19, <3>3
         DEF RejectRun, Executing, Append, Cleared, OnRunCompleted, GateSame,
             FlagsSame
    <3> QED
      BY <1>19, <3>1, <3>2, <3>3 DEF RejectRun
  <2> QED
    BY <2>1, <2>2 DEF GateSame, FlagsSame
<1>20. ASSUME NEW d \in {"go", "no_go"}, HumanTriage(d) PROVE StagesLeft'
  BY <1>20 DEF HumanTriage, Submit, Cleared
<1>21. ASSUME NEW v \in {"no_comment", "comment", "revise"}, HumanReview(v)
       PROVE  StagesLeft'
  BY <1>21 DEF HumanReview, Submit, Cleared
<1>22. ASSUME NEW clear \in BOOLEAN, HumanRetry(clear) PROVE StagesLeft'
  BY <1>22
     DEF HumanRetry, AppendHuman, Unlocked, Cleared, OnHumanRetry, ResetDoc,
         ResetReview
<1>23. ASSUME NEW i \in Stages, HumanReturn(i) PROVE StagesLeft'
  BY <1>23 DEF HumanReturn, AppendHuman, Unlocked, Cleared, OnHumanReturn
<1>24. CASE Abandon
  BY <1>24 DEF Abandon, AppendHuman, Unlocked, Cleared, OnRunCompleted
<1>25. CASE UNCHANGED vars
  BY <1>25 DEF vars
<1> HIDE DEF BInv, TypeOK, StateTypes, ReturnsAimed, StagesLeft, Stages,
             LastStage
<1> QED
  BY <1>1, <1>2, <1>3, <1>4, <1>5, <1>6, <1>7, <1>8, <1>9, <1>10, <1>11, <1>12,
     <1>13, <1>14, <1>15, <1>16, <1>17, <1>18, <1>19, <1>20, <1>21, <1>22,
     <1>23, <1>24, <1>25
     DEF Next, Driver, Human

(***************************************************************************)
(* A run that is over, stopped by the breaker or leaving its stage.        *)
(***************************************************************************)
LEMMA DrivenStep ==
    ASSUME BInv, UInv, scar' = "none", [Next]_vars PROVE Driven'
<1> USE DEF BInv, TypeOK, StateTypes, UInv, Blame, Live, BudgetLeft,
            ResultsFound, Unanswered, StagesLeft, Driven, GatesPlaced,
            ResultsPlaced, NoDiff, Review, HumanGates, ResultCommands,
            ExitCommands, RejectCommands, AuthorSubs
<1>1. CASE Start
  BY <1>1 DEF Start
<1>2. CASE Stop
  BY <1>2, DecideFacts DEF Stop
<1>3. CASE BreakerTrips
  BY <1>3 DEF BreakerTrips, EscalateWhen, Cleared
<1>4. CASE Issue
  <2>1. drv = "loop" /\ ~MustTrip /\ ~Halts /\ UNCHANGED todo
    BY <1>4 DEF Issue, AppendIssued
  <2>2. /\ s'.pending = Decide(s) /\ drv' = "exec" /\ scar' = scar
        /\ s'.sub = s.sub /\ s'.status = s.status /\ s'.awaiting = s.awaiting
        /\ s'.result = s.result /\ s'.stage = s.stage /\ s'.rejected = s.rejected
        /\ s'.scopeOverflow = s.scopeOverflow /\ s'.stageExited = s.stageExited
        /\ UNCHANGED <<mode, todo, commits, tripped>>
    BY <1>4 DEF Issue, AppendIssued, OnCommandIssued
  <2>3. Decide(s) # "none" /\ (mode = "gate" => s.result # NoResult)
    BY <2>1 DEF Halts
  <2>4. s.status # "completed"
    BY <2>1, <2>3, DecideFacts
  <2>5. ~tripped
    <3>1. CASE mode = "run"
      BY <2>1, <2>3, <2>4, <3>1, DecideFacts DEF MustTrip
    <3>2. CASE mode = "gate"
      BY <2>3, <2>4, <3>2
    <3> QED
      BY <3>1, <3>2
  <2> QED
    BY <2>1, <2>2, <2>3, <2>4, <2>5, DecideFacts
<1>5. CASE Backoff
  BY <1>5, DecideFacts DEF Backoff
<1>6. CASE Wake
  BY <1>6, DecideFacts DEF Wake, AppendIssued, OnCommandIssued
<1>7. CASE Crash
  BY <1>7 DEF Crash
<1>8. CASE AgentReplies
  <2>1. AgentEffect
    BY <1>8, AgentProjects
  <2>2. CASE AgentTriages
    BY <2>1, <2>2
       DEF AgentEffect, AgentTriages, Frame, GateSame, Escalated, Spends,
           Spares, FlagsSame, FlagReset
  <2>3. CASE AgentAnswers
    BY <2>1, <2>3
       DEF AgentEffect, AgentAnswers, Frame, GateSame, Escalated, Spends,
           Spares, FlagsSame, FlagReset
  <2>4. CASE AgentMissing
    BY <2>1, <2>4
       DEF AgentEffect, AgentMissing, Frame, GateSame, Escalated, Spends,
           Spares, FlagsSame, FlagReset
  <2>5. CASE AgentErrs
    BY <2>1, <2>5
       DEF AgentEffect, AgentErrs, Frame, GateSame, Escalated, Spends, Spares,
           FlagsSame, FlagReset
  <2> QED
    BY <2>1, <2>2, <2>3, <2>4, <2>5 DEF AgentEffect
<1>9. CASE NoDiffReplies
  <2>1. NoDiffEffect
    BY <1>9, NoDiffProjects
  <2>2. CASE NoDiffExplained
    BY <2>1, <2>2
       DEF NoDiffEffect, NoDiffExplained, Frame, GateSame, Escalated, Spends,
           Spares, FlagsSame, FlagReset, Origin
  <2>3. CASE NoDiffAccepted
    BY <2>1, <2>3
       DEF NoDiffEffect, NoDiffAccepted, Frame, GateSame, Escalated, Spends,
           Spares, FlagsSame, FlagReset, Origin
  <2>4. CASE NoDiffRejected
    BY <2>1, <2>4
       DEF NoDiffEffect, NoDiffRejected, Frame, GateSame, Escalated, Spends,
           Spares, FlagsSame, FlagReset, Origin
  <2> QED
    BY <2>1, <2>2, <2>3, <2>4 DEF NoDiffEffect
<1>10. CASE ValidateResult
  <2>1. s.pending = "validate" /\ UNCHANGED <<marked, commits, scar>>
    BY <1>10 DEF ValidateResult, Executing
  <2>2. CASE Append([Cleared EXCEPT !.result.step = "validated"])
    BY <2>1, <2>2 DEF Append, Cleared
  <2>3. CASE s.result.verdict = "revise" /\ Append(OnNoDiffDetected(Cleared))
    BY <2>1, <2>3 DEF Append, Cleared, OnNoDiffDetected
  <2>4. ASSUME NEW check \in {"document", "scope_overflow"},
               check = "scope_overflow" => s.stage = 2,
               Append(OnVerdictFailed(Cleared, check))
        PROVE  Driven'
    <3>1. FailEffect(check)
      BY <2>1, <2>4, FailProjects
    <3>2. CASE FailKeepsGate
      BY <2>1, <2>4, <3>1, <3>2
         DEF FailEffect, FailKeepsGate, Frame, GateSame, Escalated, Spends,
             Spares, FlagsSame, FlagReset
    <3>3. CASE FailOverflows(check)
      BY <2>1, <2>4, <3>1, <3>3
         DEF FailEffect, FailOverflows, Frame, GateSame, Escalated, Spends,
             Spares, FlagsSame, FlagReset
    <3>4. CASE FailRedoes(check)
      BY <2>1, <2>4, <3>1, <3>4
         DEF FailEffect, FailRedoes, Frame, GateSame, Escalated, Spends, Spares,
             FlagsSame, FlagReset
    <3>5. CASE FailRefuses(check)
      BY <2>1, <2>4, <3>1, <3>5
         DEF FailEffect, FailRefuses, Frame, GateSame, Escalated, Spends,
             Spares, FlagsSame, FlagReset
    <3>6. CASE FailAsksHuman(check)
      BY <2>1, <2>4, <3>1, <3>6
         DEF FailEffect, FailAsksHuman, Frame, GateSame, Escalated, Spends,
             Spares, FlagsSame, FlagReset
    <3> QED
      BY <3>1, <3>2, <3>3, <3>4, <3>5, <3>6 DEF FailEffect
  <2> QED
    BY <1>10, <2>2, <2>3, <2>4 DEF ValidateResult
<1>11. CASE CommitResult
  BY <1>11 DEF CommitResult, Executing
<1>12. CASE CheckpointResult
  <2>1. s.pending = "checkpoint" /\ UNCHANGED <<marked, commits, scar>>
    BY <1>12 DEF CheckpointResult, Executing
  <2>2. CASE (marked \/ commits = 0) /\ Append([Cleared EXCEPT !.result.step = "checkpointed"])
    BY <2>1, <2>2 DEF Append, Cleared
  <2>3. ASSUME ~marked, NEW check \in {"commit", "document"},
               Append(OnVerdictFailed(Cleared, check))
        PROVE  Driven'
    <3>1. FailEffect(check)
      BY <2>1, <2>3, FailProjects
    <3>2. CASE FailKeepsGate
      BY <2>1, <2>3, <3>1, <3>2
         DEF FailEffect, FailKeepsGate, Frame, GateSame, Escalated, Spends,
             Spares, FlagsSame, FlagReset
    <3>3. CASE FailOverflows(check)
      BY <2>1, <2>3, <3>1, <3>3
         DEF FailEffect, FailOverflows, Frame, GateSame, Escalated, Spends,
             Spares, FlagsSame, FlagReset
    <3>4. CASE FailRedoes(check)
      BY <2>1, <2>3, <3>1, <3>4
         DEF FailEffect, FailRedoes, Frame, GateSame, Escalated, Spends, Spares,
             FlagsSame, FlagReset
    <3>5. CASE FailRefuses(check)
      BY <2>1, <2>3, <3>1, <3>5
         DEF FailEffect, FailRefuses, Frame, GateSame, Escalated, Spends,
             Spares, FlagsSame, FlagReset
    <3>6. CASE FailAsksHuman(check)
      BY <2>1, <2>3, <3>1, <3>6
         DEF FailEffect, FailAsksHuman, Frame, GateSame, Escalated, Spends,
             Spares, FlagsSame, FlagReset
    <3> QED
      BY <3>1, <3>2, <3>3, <3>4, <3>5, <3>6 DEF FailEffect
  <2> QED
    BY <1>12, <2>2, <2>3 DEF CheckpointResult
<1>13. CASE PublishResult
  BY <1>13
     DEF PublishResult, Executing, Append, Cleared, Published, OnDocCommitted,
         OnReviewerVerdict, OnHumanTriage, OnHumanReview, ResetDoc, ResetReview,
         ReviewOf
<1>14. CASE ValidateDocument
  <2>1. s.pending = "validate_document" /\ UNCHANGED <<marked, commits>>
    BY <1>14 DEF ValidateDocument, Executing
  <2>2. CASE Append(OnVerdictPassed(Cleared)) /\ UNCHANGED scar
    BY <2>1, <2>2 DEF Append, Cleared, OnVerdictPassed
  <2>3. CASE Append(OnVerdictFailed(Cleared, "document")) /\ Blame("exit_gate")
    <3>1. FailEffect("document")
      BY <2>1, <2>3, FailProjects
    <3>2. CASE FailKeepsGate
      BY <2>1, <2>3, <3>1, <3>2
         DEF FailEffect, FailKeepsGate, Frame, GateSame, Escalated, Spends,
             Spares, FlagsSame, FlagReset
    <3>3. CASE FailRedoes("document")
      BY <2>1, <2>3, <3>1, <3>3
         DEF FailEffect, FailRedoes, Frame, GateSame, Escalated, Spends, Spares,
             FlagsSame, FlagReset
    <3>4. CASE FailAsksHuman("document")
      BY <2>1, <2>3, <3>1, <3>4
         DEF FailEffect, FailAsksHuman, Frame, GateSame, Escalated, Spends,
             Spares, FlagsSame, FlagReset
    <3> QED
      BY <3>1, <3>2, <3>3, <3>4 DEF FailEffect, FailOverflows, FailRefuses
  <2> QED
    BY <1>14, <2>2, <2>3 DEF ValidateDocument
<1>15. CASE WriteFrontmatter
  <2>1. s.pending = "write_frontmatter" /\ UNCHANGED <<marked, commits, scar>>
    BY <1>15 DEF WriteFrontmatter, Executing
  <2>2. CASE Append(OnVerdictFailed(Cleared, "commit"))
    <3>1. FailEffect("commit")
      BY <2>1, <2>2, FailProjects
    <3>2. CASE FailKeepsGate
      BY <2>1, <2>2, <3>1, <3>2
         DEF FailEffect, FailKeepsGate, Frame, GateSame, Escalated, Spends,
             Spares, FlagsSame, FlagReset
    <3>3. CASE FailRefuses("commit")
      BY <2>1, <2>2, <3>1, <3>3
         DEF FailEffect, FailRefuses, Frame, GateSame, Escalated, Spends,
             Spares, FlagsSame, FlagReset
    <3> QED
      BY <3>1, <3>2, <3>3
         DEF FailEffect, FailOverflows, FailRedoes, FailAsksHuman
  <2>3. CASE /\ s' = [Cleared EXCEPT !.result = NoResult]
             /\ drv' = "emit" /\ todo' = "exited" /\ UNCHANGED <<mode, tripped>>
    BY <2>1, <2>3 DEF Cleared
  <2> QED
    BY <1>15, <2>2, <2>3 DEF WriteFrontmatter
<1>16. CASE AppendExited
  BY <1>16 DEF AppendExited, Cleared
<1>17. CASE AppendEntered
  BY <1>17 DEF AppendEntered, Cleared, OnStageEntered, ResetDoc, ResetReview
<1>18. CASE RollbackStage
  BY <1>18
     DEF RollbackStage, Executing, Append, Cleared, OnStageRolledBack, ResetDoc,
         ResetReview
<1>19. CASE RejectRun
  <2>1. s.pending \in {"record_backlog", "delete_branch", "complete_run"}
    BY <1>19 DEF RejectRun, Executing
  <2>2. /\ drv = "exec" /\ drv' = "loop" /\ UNCHANGED <<mode, todo, tripped, marked, commits, scar>>
        /\ s'.pending = "none" /\ s'.result = s.result /\ s'.attempt = s.attempt
        /\ s'.sub = s.sub /\ s'.stage = s.stage /\ s'.infra = s.infra
        /\ s'.target = s.target /\ s'.scopeOverflow = s.scopeOverflow
        /\ s'.rejected = s.rejected /\ s'.stageExited = s.stageExited
        /\ s'.exitValidated = s.exitValidated /\ FlagsSame
        /\ GateSame \/ (s'.status = "completed" /\ s'.awaiting = "none")
    <3>1. CASE Append([Cleared EXCEPT !.backlog = TRUE])
      BY <1>19, <3>1
         DEF RejectRun, Executing, Append, Cleared, GateSame, FlagsSame
    <3>2. CASE Append([Cleared EXCEPT !.branchDeleted = TRUE])
      BY <1>19, <3>2
         DEF RejectRun, Executing, Append, Cleared, GateSame, FlagsSame
    <3>3. CASE Append(OnRunCompleted(Cleared))
      BY <1>19, <3>3
         DEF RejectRun, Executing, Append, Cleared, OnRunCompleted, GateSame,
             FlagsSame
    <3> QED
      BY <1>19, <3>1, <3>2, <3>3 DEF RejectRun
  <2> QED
    BY <2>1, <2>2 DEF GateSame, FlagsSame
<1>20. ASSUME NEW d \in {"go", "no_go"}, HumanTriage(d) PROVE Driven'
  BY <1>20 DEF HumanTriage, Submit, Cleared
<1>21. ASSUME NEW v \in {"no_comment", "comment", "revise"}, HumanReview(v)
       PROVE  Driven'
  BY <1>21 DEF HumanReview, Submit, Cleared
<1>22. ASSUME NEW clear \in BOOLEAN, HumanRetry(clear) PROVE Driven'
  BY <1>22
     DEF HumanRetry, AppendHuman, Unlocked, Cleared, OnHumanRetry, ResetDoc,
         ResetReview
<1>23. ASSUME NEW i \in Stages, HumanReturn(i) PROVE Driven'
  BY <1>23 DEF HumanReturn, AppendHuman, Unlocked, Cleared, OnHumanReturn
<1>24. CASE Abandon
  BY <1>24 DEF Abandon, AppendHuman, Unlocked, Cleared, OnRunCompleted
<1>25. CASE UNCHANGED vars
  BY <1>25 DEF vars
<1> HIDE DEF BInv, TypeOK, StateTypes, UInv, Blame, Live, BudgetLeft,
             ResultsFound, Unanswered, StagesLeft, Driven, GatesPlaced,
             ResultsPlaced, NoDiff, Review, HumanGates, ResultCommands,
             ExitCommands, RejectCommands, AuthorSubs
<1> QED
  BY <1>1, <1>2, <1>3, <1>4, <1>5, <1>6, <1>7, <1>8, <1>9, <1>10, <1>11, <1>12,
     <1>13, <1>14, <1>15, <1>16, <1>17, <1>18, <1>19, <1>20, <1>21, <1>22,
     <1>23, <1>24, <1>25
     DEF Next, Driver, Human

(***************************************************************************)
(* Each gate is open at its place.                                         *)
(***************************************************************************)
LEMMA GatesStep ==
    ASSUME BInv, UInv, scar' = "none", [Next]_vars PROVE GatesPlaced'
<1> USE DEF BInv, TypeOK, StateTypes, UInv, Blame, Live, GateSub, BudgetLeft,
            ResultsFound, Unanswered, StagesLeft, Driven, GatesPlaced,
            ResultsPlaced, StepsInOrder, FlagsAnswered, NoDiff, Review,
            HumanGates, ResultCommands, ExitCommands, RejectCommands, AuthorSubs
<1>1. CASE Start
  BY <1>1 DEF Start
<1>2. CASE Stop
  BY <1>2, DecideFacts DEF Stop
<1>3. CASE BreakerTrips
  BY <1>3 DEF BreakerTrips, EscalateWhen, Cleared
<1>4. CASE Issue
  <2>1. drv = "loop" /\ ~MustTrip /\ ~Halts /\ UNCHANGED todo
    BY <1>4 DEF Issue, AppendIssued
  <2>2. /\ s'.pending = Decide(s) /\ drv' = "exec" /\ scar' = scar
        /\ s'.sub = s.sub /\ s'.status = s.status /\ s'.awaiting = s.awaiting
        /\ s'.result = s.result /\ s'.stage = s.stage /\ s'.rejected = s.rejected
        /\ s'.scopeOverflow = s.scopeOverflow /\ s'.stageExited = s.stageExited
        /\ UNCHANGED <<mode, todo, commits, tripped>>
    BY <1>4 DEF Issue, AppendIssued, OnCommandIssued
  <2>3. Decide(s) # "none" /\ (mode = "gate" => s.result # NoResult)
    BY <2>1 DEF Halts
  <2>4. s.status # "completed"
    BY <2>1, <2>3, DecideFacts
  <2>5. GateSub' = GateSub
    BY <2>2 DEF GateSub
  <2> QED
    BY <2>1, <2>2, <2>3, <2>4, <2>5, DecideFacts
<1>5. CASE Backoff
  BY <1>5, DecideFacts DEF Backoff
<1>6. CASE Wake
  BY <1>6, DecideFacts DEF Wake, AppendIssued, OnCommandIssued
<1>7. CASE Crash
  BY <1>7 DEF Crash
<1>8. CASE AgentReplies
  <2>1. AgentEffect
    BY <1>8, AgentProjects
  <2>2. CASE AgentTriages
    BY <2>1, <2>2
       DEF AgentEffect, AgentTriages, Frame, GateSame, Escalated, Spends,
           Spares, FlagsSame, FlagReset
  <2>3. CASE AgentAnswers
    <3>1. s'.result # NoResult
      BY <2>1, <2>3 DEF AgentAnswers, NoResult
    <3> QED
      BY <2>1, <2>3, <3>1
         DEF AgentEffect, AgentAnswers, Frame, Spares, GateSame, FlagsSame
  <2>4. CASE AgentMissing
    BY <2>1, <2>4
       DEF AgentEffect, AgentMissing, Frame, GateSame, Escalated, Spends,
           Spares, FlagsSame, FlagReset
  <2>5. CASE AgentErrs
    BY <2>1, <2>5
       DEF AgentEffect, AgentErrs, Frame, GateSame, Escalated, Spends, Spares,
           FlagsSame, FlagReset
  <2> QED
    BY <2>1, <2>2, <2>3, <2>4, <2>5 DEF AgentEffect
<1>9. CASE NoDiffReplies
  <2>1. NoDiffEffect
    BY <1>9, NoDiffProjects
  <2>2. CASE NoDiffExplained
    BY <2>1, <2>2
       DEF NoDiffEffect, NoDiffExplained, Frame, GateSame, Escalated, Spends,
           Spares, FlagsSame, FlagReset, Origin
  <2>3. CASE NoDiffAccepted
    BY <2>1, <2>3
       DEF NoDiffEffect, NoDiffAccepted, Frame, GateSame, Escalated, Spends,
           Spares, FlagsSame, FlagReset, Origin
  <2>4. CASE NoDiffRejected
    BY <2>1, <2>4
       DEF NoDiffEffect, NoDiffRejected, Frame, GateSame, Escalated, Spends,
           Spares, FlagsSame, FlagReset, Origin
  <2> QED
    BY <2>1, <2>2, <2>3, <2>4 DEF NoDiffEffect
<1>10. CASE ValidateResult
  <2>1. s.pending = "validate" /\ UNCHANGED <<marked, commits, scar>>
    BY <1>10 DEF ValidateResult, Executing
  <2>2. CASE Append([Cleared EXCEPT !.result.step = "validated"])
    BY <2>1, <2>2 DEF Append, Cleared
  <2>3. CASE s.result.verdict = "revise" /\ Append(OnNoDiffDetected(Cleared))
    <3>1. s' = [s EXCEPT !.pending = "none", !.sub = "NO_DIFF_EXPLAIN",
                         !.result = [s.result EXCEPT !.origin = s.sub],
                         !.docDispatched = FALSE, !.noDiffDispatched = FALSE]
      BY <2>3 DEF Append, Cleared, OnNoDiffDetected
    <3>2. /\ s.result \in Results /\ s.sub \notin NoDiff /\ s.result.step = "submitted"
          /\ s.result.by = "human" /\ s.awaiting \in {"review", "threads"}
          /\ ~s.rejected /\ ~s.scopeOverflow /\ Live
      BY <2>1, <2>3
    <3>3. /\ s'.result.by = "human" /\ s'.result.step = "submitted"
          /\ s'.result.origin = s.sub
      BY <3>1, <3>2 DEF Results
    <3>4. GateSub' = GateSub
      BY <3>1, <3>2, <3>3 DEF GateSub
    <3> QED
      BY <2>1, <3>1, <3>2, <3>3, <3>4
  <2>4. ASSUME NEW check \in {"document", "scope_overflow"},
               check = "scope_overflow" => s.stage = 2,
               Append(OnVerdictFailed(Cleared, check))
        PROVE  GatesPlaced'
    <3>1. FailEffect(check)
      BY <2>1, <2>4, FailProjects
    <3>2. CASE FailKeepsGate
      BY <2>1, <2>4, <3>1, <3>2
         DEF FailEffect, FailKeepsGate, Frame, GateSame, Escalated, Spends,
             Spares, FlagsSame, FlagReset
    <3>3. CASE FailOverflows(check)
      BY <2>1, <2>4, <3>1, <3>3
         DEF FailEffect, FailOverflows, Frame, GateSame, Escalated, Spends,
             Spares, FlagsSame, FlagReset
    <3>4. CASE FailRedoes(check)
      BY <2>1, <2>4, <3>1, <3>4
         DEF FailEffect, FailRedoes, Frame, GateSame, Escalated, Spends, Spares,
             FlagsSame, FlagReset
    <3>5. CASE FailRefuses(check)
      BY <2>1, <2>4, <3>1, <3>5
         DEF FailEffect, FailRefuses, Frame, GateSame, Escalated, Spends,
             Spares, FlagsSame, FlagReset
    <3>6. CASE FailAsksHuman(check)
      BY <2>1, <2>4, <3>1, <3>6
         DEF FailEffect, FailAsksHuman, Frame, GateSame, Escalated, Spends,
             Spares, FlagsSame, FlagReset
    <3> QED
      BY <3>1, <3>2, <3>3, <3>4, <3>5, <3>6 DEF FailEffect
  <2> QED
    BY <1>10, <2>2, <2>3, <2>4 DEF ValidateResult
<1>11. CASE CommitResult
  BY <1>11 DEF CommitResult, Executing
<1>12. CASE CheckpointResult
  <2>1. s.pending = "checkpoint" /\ UNCHANGED <<marked, commits, scar>>
    BY <1>12 DEF CheckpointResult, Executing
  <2>2. CASE (marked \/ commits = 0) /\ Append([Cleared EXCEPT !.result.step = "checkpointed"])
    BY <2>1, <2>2 DEF Append, Cleared
  <2>3. ASSUME ~marked, NEW check \in {"commit", "document"},
               Append(OnVerdictFailed(Cleared, check))
        PROVE  GatesPlaced'
    <3>1. FailEffect(check)
      BY <2>1, <2>3, FailProjects
    <3>2. CASE FailKeepsGate
      BY <2>1, <2>3, <3>1, <3>2
         DEF FailEffect, FailKeepsGate, Frame, GateSame, Escalated, Spends,
             Spares, FlagsSame, FlagReset
    <3>3. CASE FailOverflows(check)
      BY <2>1, <2>3, <3>1, <3>3
         DEF FailEffect, FailOverflows, Frame, GateSame, Escalated, Spends,
             Spares, FlagsSame, FlagReset
    <3>4. CASE FailRedoes(check)
      BY <2>1, <2>3, <3>1, <3>4
         DEF FailEffect, FailRedoes, Frame, GateSame, Escalated, Spends, Spares,
             FlagsSame, FlagReset
    <3>5. CASE FailRefuses(check)
      BY <2>1, <2>3, <3>1, <3>5
         DEF FailEffect, FailRefuses, Frame, GateSame, Escalated, Spends,
             Spares, FlagsSame, FlagReset
    <3>6. CASE FailAsksHuman(check)
      BY <2>1, <2>3, <3>1, <3>6
         DEF FailEffect, FailAsksHuman, Frame, GateSame, Escalated, Spends,
             Spares, FlagsSame, FlagReset
    <3> QED
      BY <3>1, <3>2, <3>3, <3>4, <3>5, <3>6 DEF FailEffect
  <2> QED
    BY <1>12, <2>2, <2>3 DEF CheckpointResult
<1>13. CASE PublishResult
  <2>1. /\ drv = "exec" /\ s.pending = "publish" /\ drv' = "loop" /\ scar' = scar
        /\ s' = Published(Cleared, s.result)
    BY <1>13 DEF PublishResult, Executing, Append
  <2>2. /\ Live /\ s.result # NoResult /\ s.sub \notin NoDiff /\ ~s.rejected
        /\ ~s.scopeOverflow /\ s.sub \notin {"PREVIEW", "NONE"}
    BY <2>1
  <2>3. CASE s.result.verdict = "draft"
    <3>1. s' = [s EXCEPT !.pending = "none", !.result = NoResult, !.revDispatched = FALSE,
                         !.sub = ReviewOf(s.stage)]
      BY <2>1, <2>3 DEF Published, OnDocCommitted, Cleared, ResetReview
    <3>2. ReviewOf(s.stage) \in Review
      BY DEF ReviewOf
    <3>3. s.status = "active" /\ s.awaiting = "none"
      BY <2>2, <2>3
    <3> QED
      BY <2>1, <2>2, <3>1, <3>2, <3>3
  <2>4. CASE s.result.by = "agent" /\ s.result.verdict # "draft"
    <3>1. s' = OnReviewerVerdict(Cleared, s.result.verdict)
      BY <2>1, <2>4 DEF Published
    <3>2. s.status = "active" /\ s.awaiting = "none" /\ s.sub \in Review
      BY <2>2, <2>4
    <3>3. CASE s.result.verdict = "park"
      <4>1. s' = [s EXCEPT !.pending = "none", !.result = NoResult,
                           !.status = "awaiting_human", !.awaiting = "threads"]
        BY <3>1, <3>3 DEF OnReviewerVerdict, Cleared
      <4>2. s.sub = "LEX_REVIEW"
        BY <2>2, <2>4, <3>3
      <4> QED
        BY <2>1, <2>2, <4>1, <4>2
    <3>4. CASE s.result.verdict = "pass"
      <4>1. s' = [s EXCEPT !.pending = "none", !.result = NoResult,
                           !.sub = "HUMAN_REVIEW", !.awaiting = "review"]
        BY <3>1, <3>4 DEF OnReviewerVerdict, Cleared
      <4> QED
        BY <2>1, <2>2, <3>2, <4>1
    <3>5. CASE s.result.verdict \notin {"park", "pass"}
      <4>1. s' = [s EXCEPT !.pending = "none", !.result = NoResult, !.sub = "RESPOND",
                           !.attempt = 0, !.docDispatched = FALSE]
        BY <3>1, <3>5 DEF OnReviewerVerdict, Cleared, ResetDoc
      <4> QED
        BY <2>1, <2>2, <3>2, <4>1
    <3> QED
      BY <3>3, <3>4, <3>5
  <2>5. CASE s.result.by = "human" /\ s.result.verdict \in {"go", "no_go"}
    <3>1. s' = OnHumanTriage(Cleared, s.result.verdict)
      BY <2>1, <2>5 DEF Published
    <3>2. s.awaiting = "triage" /\ s.sub = "TRIAGE" /\ s.status = "active"
      BY <2>2, <2>5
    <3>3. CASE s.result.verdict = "go"
      <4>1. s' = [s EXCEPT !.pending = "none", !.result = NoResult, !.awaiting = "none",
                           !.sub = "DRAFT", !.attempt = 0, !.docDispatched = FALSE]
        BY <3>1, <3>3 DEF OnHumanTriage, Cleared, ResetDoc
      <4> QED
        BY <2>1, <2>2, <3>2, <4>1
    <3>4. CASE s.result.verdict = "no_go"
      <4>1. s' = [s EXCEPT !.pending = "none", !.result = NoResult, !.awaiting = "none",
                           !.sub = "NONE", !.rejected = TRUE]
        BY <3>1, <3>4 DEF OnHumanTriage, Cleared
      <4> QED
        BY <2>1, <2>2, <3>2, <4>1
    <3> QED
      BY <2>5, <3>3, <3>4
  <2>6. CASE s.result.by = "human" /\ s.result.verdict \in {"no_comment", "comment", "revise"}
    <3>1. s' = OnHumanReview(Cleared, s.result.verdict)
      BY <2>1, <2>6 DEF Published
    <3>2. s.awaiting \in {"review", "threads"}
      BY <2>2, <2>6
    <3>3. CASE s.awaiting = "threads"
      <4>1. s' = [s EXCEPT !.pending = "none", !.result = NoResult, !.awaiting = "none",
                           !.status = "active", !.sub = "LEX_REVIEW", !.attempt = 0,
                           !.revDispatched = FALSE]
        BY <3>1, <3>3 DEF OnHumanReview, Cleared, ResetReview
      <4> QED
        BY <2>1, <2>2, <4>1
    <3>4. CASE s.awaiting = "review" /\ s.result.verdict = "no_comment"
      <4>1. s' = [s EXCEPT !.pending = "none", !.result = NoResult, !.awaiting = "none",
                           !.sub = "EXIT"]
        BY <3>1, <3>4 DEF OnHumanReview, Cleared
      <4> QED
        BY <2>1, <2>2, <3>4, <4>1
    <3>5. CASE s.awaiting = "review" /\ s.result.verdict # "no_comment"
      <4>1. s' = [s EXCEPT !.pending = "none", !.result = NoResult, !.awaiting = "none",
                           !.sub = "RESPOND", !.attempt = 0, !.docDispatched = FALSE]
        BY <3>1, <3>5 DEF OnHumanReview, Cleared, ResetDoc
      <4> QED
        BY <2>1, <2>2, <3>5, <4>1
    <3> QED
      BY <3>2, <3>3, <3>4, <3>5
  <2> QED
    BY <2>2, <2>3, <2>4, <2>5, <2>6
<1>14. CASE ValidateDocument
  <2>1. s.pending = "validate_document" /\ UNCHANGED <<marked, commits>>
    BY <1>14 DEF ValidateDocument, Executing
  <2>2. CASE Append(OnVerdictPassed(Cleared)) /\ UNCHANGED scar
    BY <2>1, <2>2 DEF Append, Cleared, OnVerdictPassed
  <2>3. CASE Append(OnVerdictFailed(Cleared, "document")) /\ Blame("exit_gate")
    <3>1. FailEffect("document")
      BY <2>1, <2>3, FailProjects
    <3>2. CASE FailKeepsGate
      BY <2>1, <2>3, <3>1, <3>2
         DEF FailEffect, FailKeepsGate, Frame, GateSame, Escalated, Spends,
             Spares, FlagsSame, FlagReset
    <3>3. CASE FailRedoes("document")
      BY <2>1, <2>3, <3>1, <3>3
         DEF FailEffect, FailRedoes, Frame, GateSame, Escalated, Spends, Spares,
             FlagsSame, FlagReset
    <3>4. CASE FailAsksHuman("document")
      BY <2>1, <2>3, <3>1, <3>4
         DEF FailEffect, FailAsksHuman, Frame, GateSame, Escalated, Spends,
             Spares, FlagsSame, FlagReset
    <3> QED
      BY <3>1, <3>2, <3>3, <3>4 DEF FailEffect, FailOverflows, FailRefuses
  <2> QED
    BY <1>14, <2>2, <2>3 DEF ValidateDocument
<1>15. CASE WriteFrontmatter
  <2>1. s.pending = "write_frontmatter" /\ UNCHANGED <<marked, commits, scar>>
    BY <1>15 DEF WriteFrontmatter, Executing
  <2>2. CASE Append(OnVerdictFailed(Cleared, "commit"))
    <3>1. FailEffect("commit")
      BY <2>1, <2>2, FailProjects
    <3>2. CASE FailKeepsGate
      BY <2>1, <2>2, <3>1, <3>2
         DEF FailEffect, FailKeepsGate, Frame, GateSame, Escalated, Spends,
             Spares, FlagsSame, FlagReset
    <3>3. CASE FailRefuses("commit")
      BY <2>1, <2>2, <3>1, <3>3
         DEF FailEffect, FailRefuses, Frame, GateSame, Escalated, Spends,
             Spares, FlagsSame, FlagReset
    <3> QED
      BY <3>1, <3>2, <3>3
         DEF FailEffect, FailOverflows, FailRedoes, FailAsksHuman
  <2>3. CASE /\ s' = [Cleared EXCEPT !.result = NoResult]
             /\ drv' = "emit" /\ todo' = "exited" /\ UNCHANGED <<mode, tripped>>
    BY <2>1, <2>3 DEF Cleared
  <2> QED
    BY <1>15, <2>2, <2>3 DEF WriteFrontmatter
<1>16. CASE AppendExited
  BY <1>16 DEF AppendExited, Cleared
<1>17. CASE AppendEntered
  <2>1. /\ s.sub = "EXIT" /\ s.status = "active" /\ s.awaiting = "none" /\ s.stage \in Stages
    BY <1>17 DEF AppendEntered
  <2>2. s' = [s EXCEPT !.pending = "none", !.docDispatched = FALSE, !.revDispatched = FALSE,
                       !.stage = s.stage + 1, !.attempt = 0, !.stageExited = FALSE,
                       !.sub = IF s.stage + 1 <= LastStage THEN "DRAFT" ELSE "PREVIEW",
                       !.exitValidated = FALSE, !.result = NoResult]
    BY <1>17 DEF AppendEntered, Cleared, OnStageEntered, ResetDoc, ResetReview
  <2>3. s.stage = LastStage <=> ~(s.stage + 1 <= LastStage)
    BY <2>1 DEF Stages, LastStage
  <2>4. drv' = IF s.stage = LastStage THEN "left" ELSE "loop"
    BY <1>17 DEF AppendEntered
  <2> QED
    BY <2>1, <2>2, <2>3, <2>4
<1>18. CASE RollbackStage
  <2>1. s.pending = "rollback" /\ drv' = "loop" /\ UNCHANGED <<todo, tripped, marked, commits, scar>>
    BY <1>18 DEF RollbackStage, Executing, Append
  <2>2. /\ Live /\ s.sub \notin NoDiff /\ s.awaiting = "none" /\ s.status = "active"
        /\ ~s.rejected /\ s.result = NoResult /\ ~s.exitValidated
    BY <2>1 DEF ReturnsAimed
  <2> DEFINE i == IF s.scopeOverflow THEN 1 ELSE s.target
  <2>3. s' = [s EXCEPT !.pending = "none", !.docDispatched = FALSE, !.revDispatched = FALSE,
                       !.stage = i, !.sub = "DRAFT", !.attempt = 0, !.scopeOverflow = FALSE,
                       !.target = 0, !.result = NoResult]
    BY <1>18
       DEF RollbackStage, Append, Cleared, OnStageRolledBack, ResetDoc,
           ResetReview
  <2> HIDE DEF i
  <2> QED
    BY <2>1, <2>2, <2>3
<1>19. CASE RejectRun
  <2>1. s.pending \in {"record_backlog", "delete_branch", "complete_run"}
    BY <1>19 DEF RejectRun, Executing
  <2>2. /\ drv = "exec" /\ drv' = "loop" /\ UNCHANGED <<mode, todo, tripped, marked, commits, scar>>
        /\ s'.pending = "none" /\ s'.result = s.result /\ s'.attempt = s.attempt
        /\ s'.sub = s.sub /\ s'.stage = s.stage /\ s'.infra = s.infra
        /\ s'.target = s.target /\ s'.scopeOverflow = s.scopeOverflow
        /\ s'.rejected = s.rejected /\ s'.stageExited = s.stageExited
        /\ s'.exitValidated = s.exitValidated /\ FlagsSame
        /\ GateSame \/ (s'.status = "completed" /\ s'.awaiting = "none")
    <3>1. CASE Append([Cleared EXCEPT !.backlog = TRUE])
      BY <1>19, <3>1
         DEF RejectRun, Executing, Append, Cleared, GateSame, FlagsSame
    <3>2. CASE Append([Cleared EXCEPT !.branchDeleted = TRUE])
      BY <1>19, <3>2
         DEF RejectRun, Executing, Append, Cleared, GateSame, FlagsSame
    <3>3. CASE Append(OnRunCompleted(Cleared))
      BY <1>19, <3>3
         DEF RejectRun, Executing, Append, Cleared, OnRunCompleted, GateSame,
             FlagsSame
    <3> QED
      BY <1>19, <3>1, <3>2, <3>3 DEF RejectRun
  <2> QED
    BY <2>1, <2>2 DEF GateSame, FlagsSame
<1>20. ASSUME NEW d \in {"go", "no_go"}, HumanTriage(d) PROVE GatesPlaced'
  BY <1>20 DEF HumanTriage, Submit, Cleared
<1>21. ASSUME NEW v \in {"no_comment", "comment", "revise"}, HumanReview(v)
       PROVE  GatesPlaced'
  <2>1. /\ drv = "off" /\ s.awaiting \in {"review", "threads"}
        /\ s.sub \notin NoDiff /\ drv' = "loop" /\ scar' = scar
    BY <1>21 DEF HumanReview, Submit
  <2>2. s' = [s EXCEPT !.pending = "none", !.result = [by |-> "human", verdict |-> v,
                                                       step |-> "submitted", origin |-> "none"]]
    BY <1>21 DEF HumanReview, Submit, Cleared
  <2>3. s'.result # NoResult /\ ~s.rejected /\ ~s.scopeOverflow
    BY <2>1, <2>2 DEF NoResult
  <2> QED
    BY <2>1, <2>2, <2>3
<1>22. ASSUME NEW clear \in BOOLEAN, HumanRetry(clear) PROVE GatesPlaced'
  BY <1>22
     DEF HumanRetry, AppendHuman, Unlocked, Cleared, OnHumanRetry, ResetDoc,
         ResetReview
<1>23. ASSUME NEW i \in Stages, HumanReturn(i) PROVE GatesPlaced'
  BY <1>23 DEF HumanReturn, AppendHuman, Unlocked, Cleared, OnHumanReturn
<1>24. CASE Abandon
  BY <1>24 DEF Abandon, AppendHuman, Unlocked, Cleared, OnRunCompleted
<1>25. CASE UNCHANGED vars
  BY <1>25 DEF vars
<1> HIDE DEF BInv, TypeOK, StateTypes, UInv, Blame, Live, GateSub, BudgetLeft,
             ResultsFound, Unanswered, StagesLeft, Driven, GatesPlaced,
             ResultsPlaced, StepsInOrder, FlagsAnswered, NoDiff, Review,
             HumanGates, ResultCommands, ExitCommands, RejectCommands,
             AuthorSubs
<1> QED
  BY <1>1, <1>2, <1>3, <1>4, <1>5, <1>6, <1>7, <1>8, <1>9, <1>10, <1>11, <1>12,
     <1>13, <1>14, <1>15, <1>16, <1>17, <1>18, <1>19, <1>20, <1>21, <1>22,
     <1>23, <1>24, <1>25
     DEF Next, Driver, Human

(***************************************************************************)
(* Each result is of whoever was asked.                                    *)
(***************************************************************************)
LEMMA PlacedStep ==
    ASSUME BInv, UInv, scar' = "none", [Next]_vars PROVE ResultsPlaced'
<1> USE DEF BInv, TypeOK, StateTypes, UInv, Blame, Live, GateSub, NoResult,
            Results, ResultsFound, Unanswered, StagesLeft, Driven, GatesPlaced,
            ResultsPlaced, FlagsAnswered, NoDiff, Review, HumanGates,
            ResultCommands, ExitCommands, RejectCommands, AuthorSubs
<1>1. CASE Start
  BY <1>1 DEF Start
<1>2. CASE Stop
  BY <1>2, DecideFacts DEF Stop
<1>3. CASE BreakerTrips
  BY <1>3 DEF BreakerTrips, EscalateWhen, Cleared
<1>4. CASE Issue
  BY <1>4, DecideFacts DEF Issue, Halts, AppendIssued, OnCommandIssued
<1>5. CASE Backoff
  BY <1>5, DecideFacts DEF Backoff
<1>6. CASE Wake
  BY <1>6, DecideFacts DEF Wake, AppendIssued, OnCommandIssued
<1>7. CASE Crash
  BY <1>7 DEF Crash
<1>8. CASE AgentReplies
  <2>1. AgentEffect
    BY <1>8, AgentProjects
  <2>2. CASE AgentTriages
    BY <2>1, <2>2
       DEF AgentEffect, AgentTriages, Frame, GateSame, Escalated, Spends,
           Spares, FlagsSame, FlagReset
  <2>3. CASE AgentAnswers
    <3>1. s'.result # NoResult /\ s'.result.by = "agent" /\ s'.awaiting = "none" /\ s'.sub = s.sub
      BY <2>1, <2>3 DEF AgentEffect, AgentAnswers, Spares, GateSame
    <3>2. s.sub \in {"DRAFT", "RESPOND"} \cup Review
      BY <2>1, <2>3 DEF AgentEffect, AgentAnswers
    <3>3. /\ s.sub \in {"DRAFT", "RESPOND"} => s'.result.verdict = "draft"
          /\ s.sub \in Review => s'.result.verdict \in {"pass", "comment", "park"}
          /\ s'.result.verdict = "park" => s.sub = "LEX_REVIEW"
      BY <2>1, <2>3 DEF AgentAnswers, AgentVerdicts
    <3> QED
      BY <3>1, <3>2, <3>3
  <2>4. CASE AgentMissing
    BY <2>1, <2>4
       DEF AgentEffect, AgentMissing, Frame, GateSame, Escalated, Spends,
           Spares, FlagsSame, FlagReset
  <2>5. CASE AgentErrs
    BY <2>1, <2>5
       DEF AgentEffect, AgentErrs, Frame, GateSame, Escalated, Spends, Spares,
           FlagsSame, FlagReset
  <2> QED
    BY <2>1, <2>2, <2>3, <2>4, <2>5 DEF AgentEffect
<1>9. CASE NoDiffReplies
  <2>1. NoDiffEffect
    BY <1>9, NoDiffProjects
  <2>2. CASE NoDiffExplained
    BY <2>1, <2>2
       DEF NoDiffEffect, NoDiffExplained, Frame, GateSame, Escalated, Spends,
           Spares, FlagsSame, FlagReset, Origin
  <2>3. CASE NoDiffAccepted
    BY <2>1, <2>3
       DEF NoDiffEffect, NoDiffAccepted, Frame, GateSame, Escalated, Spends,
           Spares, FlagsSame, FlagReset, Origin
  <2>4. CASE NoDiffRejected
    BY <2>1, <2>4
       DEF NoDiffEffect, NoDiffRejected, Frame, GateSame, Escalated, Spends,
           Spares, FlagsSame, FlagReset, Origin
  <2> QED
    BY <2>1, <2>2, <2>3, <2>4 DEF NoDiffEffect
<1>10. CASE ValidateResult
  <2>1. s.pending = "validate" /\ UNCHANGED <<marked, commits, scar>>
    BY <1>10 DEF ValidateResult, Executing
  <2>2. CASE Append([Cleared EXCEPT !.result.step = "validated"])
    BY <2>1, <2>2 DEF Append, Cleared
  <2>3. CASE s.result.verdict = "revise" /\ Append(OnNoDiffDetected(Cleared))
    BY <2>1, <2>3 DEF Append, Cleared, OnNoDiffDetected
  <2>4. ASSUME NEW check \in {"document", "scope_overflow"},
               check = "scope_overflow" => s.stage = 2,
               Append(OnVerdictFailed(Cleared, check))
        PROVE  ResultsPlaced'
    <3>1. FailEffect(check)
      BY <2>1, <2>4, FailProjects
    <3>2. CASE FailKeepsGate
      BY <2>1, <2>4, <3>1, <3>2
         DEF FailEffect, FailKeepsGate, Frame, GateSame, Escalated, Spends,
             Spares, FlagsSame, FlagReset
    <3>3. CASE FailOverflows(check)
      BY <2>1, <2>4, <3>1, <3>3
         DEF FailEffect, FailOverflows, Frame, GateSame, Escalated, Spends,
             Spares, FlagsSame, FlagReset
    <3>4. CASE FailRedoes(check)
      BY <2>1, <2>4, <3>1, <3>4
         DEF FailEffect, FailRedoes, Frame, GateSame, Escalated, Spends, Spares,
             FlagsSame, FlagReset
    <3>5. CASE FailRefuses(check)
      BY <2>1, <2>4, <3>1, <3>5
         DEF FailEffect, FailRefuses, Frame, GateSame, Escalated, Spends,
             Spares, FlagsSame, FlagReset
    <3>6. CASE FailAsksHuman(check)
      BY <2>1, <2>4, <3>1, <3>6
         DEF FailEffect, FailAsksHuman, Frame, GateSame, Escalated, Spends,
             Spares, FlagsSame, FlagReset
    <3> QED
      BY <3>1, <3>2, <3>3, <3>4, <3>5, <3>6 DEF FailEffect
  <2> QED
    BY <1>10, <2>2, <2>3, <2>4 DEF ValidateResult
<1>11. CASE CommitResult
  BY <1>11 DEF CommitResult, Executing
<1>12. CASE CheckpointResult
  <2>1. s.pending = "checkpoint" /\ UNCHANGED <<marked, commits, scar>>
    BY <1>12 DEF CheckpointResult, Executing
  <2>2. CASE (marked \/ commits = 0) /\ Append([Cleared EXCEPT !.result.step = "checkpointed"])
    BY <2>1, <2>2 DEF Append, Cleared
  <2>3. ASSUME ~marked, NEW check \in {"commit", "document"},
               Append(OnVerdictFailed(Cleared, check))
        PROVE  ResultsPlaced'
    <3>1. FailEffect(check)
      BY <2>1, <2>3, FailProjects
    <3>2. CASE FailKeepsGate
      BY <2>1, <2>3, <3>1, <3>2
         DEF FailEffect, FailKeepsGate, Frame, GateSame, Escalated, Spends,
             Spares, FlagsSame, FlagReset
    <3>3. CASE FailOverflows(check)
      BY <2>1, <2>3, <3>1, <3>3
         DEF FailEffect, FailOverflows, Frame, GateSame, Escalated, Spends,
             Spares, FlagsSame, FlagReset
    <3>4. CASE FailRedoes(check)
      BY <2>1, <2>3, <3>1, <3>4
         DEF FailEffect, FailRedoes, Frame, GateSame, Escalated, Spends, Spares,
             FlagsSame, FlagReset
    <3>5. CASE FailRefuses(check)
      BY <2>1, <2>3, <3>1, <3>5
         DEF FailEffect, FailRefuses, Frame, GateSame, Escalated, Spends,
             Spares, FlagsSame, FlagReset
    <3>6. CASE FailAsksHuman(check)
      BY <2>1, <2>3, <3>1, <3>6
         DEF FailEffect, FailAsksHuman, Frame, GateSame, Escalated, Spends,
             Spares, FlagsSame, FlagReset
    <3> QED
      BY <3>1, <3>2, <3>3, <3>4, <3>5, <3>6 DEF FailEffect
  <2> QED
    BY <1>12, <2>2, <2>3 DEF CheckpointResult
<1>13. CASE PublishResult
  BY <1>13
     DEF PublishResult, Executing, Append, Cleared, Published, OnDocCommitted,
         OnReviewerVerdict, OnHumanTriage, OnHumanReview, ResetDoc, ResetReview,
         ReviewOf
<1>14. CASE ValidateDocument
  <2>1. s.pending = "validate_document" /\ UNCHANGED <<marked, commits>>
    BY <1>14 DEF ValidateDocument, Executing
  <2>2. CASE Append(OnVerdictPassed(Cleared)) /\ UNCHANGED scar
    BY <2>1, <2>2 DEF Append, Cleared, OnVerdictPassed
  <2>3. CASE Append(OnVerdictFailed(Cleared, "document")) /\ Blame("exit_gate")
    <3>1. FailEffect("document")
      BY <2>1, <2>3, FailProjects
    <3>2. CASE FailKeepsGate
      BY <2>1, <2>3, <3>1, <3>2
         DEF FailEffect, FailKeepsGate, Frame, GateSame, Escalated, Spends,
             Spares, FlagsSame, FlagReset
    <3>3. CASE FailRedoes("document")
      BY <2>1, <2>3, <3>1, <3>3
         DEF FailEffect, FailRedoes, Frame, GateSame, Escalated, Spends, Spares,
             FlagsSame, FlagReset
    <3>4. CASE FailAsksHuman("document")
      BY <2>1, <2>3, <3>1, <3>4
         DEF FailEffect, FailAsksHuman, Frame, GateSame, Escalated, Spends,
             Spares, FlagsSame, FlagReset
    <3> QED
      BY <3>1, <3>2, <3>3, <3>4 DEF FailEffect, FailOverflows, FailRefuses
  <2> QED
    BY <1>14, <2>2, <2>3 DEF ValidateDocument
<1>15. CASE WriteFrontmatter
  <2>1. s.pending = "write_frontmatter" /\ UNCHANGED <<marked, commits, scar>>
    BY <1>15 DEF WriteFrontmatter, Executing
  <2>2. CASE Append(OnVerdictFailed(Cleared, "commit"))
    <3>1. FailEffect("commit")
      BY <2>1, <2>2, FailProjects
    <3>2. CASE FailKeepsGate
      BY <2>1, <2>2, <3>1, <3>2
         DEF FailEffect, FailKeepsGate, Frame, GateSame, Escalated, Spends,
             Spares, FlagsSame, FlagReset
    <3>3. CASE FailRefuses("commit")
      BY <2>1, <2>2, <3>1, <3>3
         DEF FailEffect, FailRefuses, Frame, GateSame, Escalated, Spends,
             Spares, FlagsSame, FlagReset
    <3> QED
      BY <3>1, <3>2, <3>3
         DEF FailEffect, FailOverflows, FailRedoes, FailAsksHuman
  <2>3. CASE /\ s' = [Cleared EXCEPT !.result = NoResult]
             /\ drv' = "emit" /\ todo' = "exited" /\ UNCHANGED <<mode, tripped>>
    BY <2>1, <2>3 DEF Cleared
  <2> QED
    BY <1>15, <2>2, <2>3 DEF WriteFrontmatter
<1>16. CASE AppendExited
  BY <1>16 DEF AppendExited, Cleared
<1>17. CASE AppendEntered
  BY <1>17 DEF AppendEntered, Cleared, OnStageEntered, ResetDoc, ResetReview
<1>18. CASE RollbackStage
  BY <1>18
     DEF RollbackStage, Executing, Append, Cleared, OnStageRolledBack, ResetDoc,
         ResetReview
<1>19. CASE RejectRun
  <2>1. s.pending \in {"record_backlog", "delete_branch", "complete_run"}
    BY <1>19 DEF RejectRun, Executing
  <2>2. /\ drv = "exec" /\ drv' = "loop" /\ UNCHANGED <<mode, todo, tripped, marked, commits, scar>>
        /\ s'.pending = "none" /\ s'.result = s.result /\ s'.attempt = s.attempt
        /\ s'.sub = s.sub /\ s'.stage = s.stage /\ s'.infra = s.infra
        /\ s'.target = s.target /\ s'.scopeOverflow = s.scopeOverflow
        /\ s'.rejected = s.rejected /\ s'.stageExited = s.stageExited
        /\ s'.exitValidated = s.exitValidated /\ FlagsSame
        /\ GateSame \/ (s'.status = "completed" /\ s'.awaiting = "none")
    <3>1. CASE Append([Cleared EXCEPT !.backlog = TRUE])
      BY <1>19, <3>1
         DEF RejectRun, Executing, Append, Cleared, GateSame, FlagsSame
    <3>2. CASE Append([Cleared EXCEPT !.branchDeleted = TRUE])
      BY <1>19, <3>2
         DEF RejectRun, Executing, Append, Cleared, GateSame, FlagsSame
    <3>3. CASE Append(OnRunCompleted(Cleared))
      BY <1>19, <3>3
         DEF RejectRun, Executing, Append, Cleared, OnRunCompleted, GateSame,
             FlagsSame
    <3> QED
      BY <1>19, <3>1, <3>2, <3>3 DEF RejectRun
  <2> QED
    BY <2>1, <2>2 DEF GateSame, FlagsSame
<1>20. ASSUME NEW d \in {"go", "no_go"}, HumanTriage(d) PROVE ResultsPlaced'
  BY <1>20 DEF HumanTriage, Submit, Cleared
<1>21. ASSUME NEW v \in {"no_comment", "comment", "revise"}, HumanReview(v)
       PROVE  ResultsPlaced'
  BY <1>21 DEF HumanReview, Submit, Cleared
<1>22. ASSUME NEW clear \in BOOLEAN, HumanRetry(clear) PROVE ResultsPlaced'
  BY <1>22
     DEF HumanRetry, AppendHuman, Unlocked, Cleared, OnHumanRetry, ResetDoc,
         ResetReview
<1>23. ASSUME NEW i \in Stages, HumanReturn(i) PROVE ResultsPlaced'
  BY <1>23 DEF HumanReturn, AppendHuman, Unlocked, Cleared, OnHumanReturn
<1>24. CASE Abandon
  BY <1>24 DEF Abandon, AppendHuman, Unlocked, Cleared, OnRunCompleted
<1>25. CASE UNCHANGED vars
  BY <1>25 DEF vars
<1> HIDE DEF BInv, TypeOK, StateTypes, UInv, Blame, Live, GateSub, NoResult,
             Results, ResultsFound, Unanswered, StagesLeft, Driven, GatesPlaced,
             ResultsPlaced, FlagsAnswered, NoDiff, Review, HumanGates,
             ResultCommands, ExitCommands, RejectCommands, AuthorSubs
<1> QED
  BY <1>1, <1>2, <1>3, <1>4, <1>5, <1>6, <1>7, <1>8, <1>9, <1>10, <1>11, <1>12,
     <1>13, <1>14, <1>15, <1>16, <1>17, <1>18, <1>19, <1>20, <1>21, <1>22,
     <1>23, <1>24, <1>25
     DEF Next, Driver, Human

(***************************************************************************)
(* Results are driven in order.                                            *)
(***************************************************************************)
LEMMA OrderStep ==
    ASSUME BInv, UInv, scar' = "none", [Next]_vars PROVE StepsInOrder'
<1> USE DEF BInv, TypeOK, StateTypes, UInv, Blame, Live, NoResult, Results,
            ResultsFound, Unanswered, StagesLeft, Driven, GatesPlaced,
            ResultsPlaced, StepsInOrder, FlagsAnswered, NoDiff, Review,
            HumanGates, ResultCommands, ExitCommands, RejectCommands, AuthorSubs
<1>1. CASE Start
  BY <1>1 DEF Start
<1>2. CASE Stop
  BY <1>2, DecideFacts DEF Stop
<1>3. CASE BreakerTrips
  BY <1>3 DEF BreakerTrips, EscalateWhen, Cleared
<1>4. CASE Issue
  BY <1>4, DecideFacts DEF Issue, Halts, AppendIssued, OnCommandIssued
<1>5. CASE Backoff
  BY <1>5, DecideFacts DEF Backoff
<1>6. CASE Wake
  BY <1>6, DecideFacts DEF Wake, AppendIssued, OnCommandIssued
<1>7. CASE Crash
  BY <1>7 DEF Crash
<1>8. CASE AgentReplies
  <2>1. AgentEffect
    BY <1>8, AgentProjects
  <2>2. CASE AgentTriages
    BY <2>1, <2>2
       DEF AgentEffect, AgentTriages, Frame, GateSame, Escalated, Spends,
           Spares, FlagsSame, FlagReset
  <2>3. CASE AgentAnswers
    BY <2>1, <2>3
       DEF AgentEffect, AgentAnswers, Frame, GateSame, Escalated, Spends,
           Spares, FlagsSame, FlagReset
  <2>4. CASE AgentMissing
    BY <2>1, <2>4
       DEF AgentEffect, AgentMissing, Frame, GateSame, Escalated, Spends,
           Spares, FlagsSame, FlagReset
  <2>5. CASE AgentErrs
    BY <2>1, <2>5
       DEF AgentEffect, AgentErrs, Frame, GateSame, Escalated, Spends, Spares,
           FlagsSame, FlagReset
  <2> QED
    BY <2>1, <2>2, <2>3, <2>4, <2>5 DEF AgentEffect
<1>9. CASE NoDiffReplies
  <2>1. NoDiffEffect
    BY <1>9, NoDiffProjects
  <2>2. CASE NoDiffExplained
    BY <2>1, <2>2
       DEF NoDiffEffect, NoDiffExplained, Frame, GateSame, Escalated, Spends,
           Spares, FlagsSame, FlagReset, Origin
  <2>3. CASE NoDiffAccepted
    BY <2>1, <2>3
       DEF NoDiffEffect, NoDiffAccepted, Frame, GateSame, Escalated, Spends,
           Spares, FlagsSame, FlagReset, Origin
  <2>4. CASE NoDiffRejected
    BY <2>1, <2>4
       DEF NoDiffEffect, NoDiffRejected, Frame, GateSame, Escalated, Spends,
           Spares, FlagsSame, FlagReset, Origin
  <2> QED
    BY <2>1, <2>2, <2>3, <2>4 DEF NoDiffEffect
<1>10. CASE ValidateResult
  <2>1. s.pending = "validate" /\ UNCHANGED <<marked, commits, scar>>
    BY <1>10 DEF ValidateResult, Executing
  <2>2. CASE Append([Cleared EXCEPT !.result.step = "validated"])
    BY <2>1, <2>2 DEF Append, Cleared
  <2>3. CASE s.result.verdict = "revise" /\ Append(OnNoDiffDetected(Cleared))
    BY <2>1, <2>3 DEF Append, Cleared, OnNoDiffDetected
  <2>4. ASSUME NEW check \in {"document", "scope_overflow"},
               check = "scope_overflow" => s.stage = 2,
               Append(OnVerdictFailed(Cleared, check))
        PROVE  StepsInOrder'
    <3>1. FailEffect(check)
      BY <2>1, <2>4, FailProjects
    <3>2. CASE FailKeepsGate
      BY <2>1, <2>4, <3>1, <3>2
         DEF FailEffect, FailKeepsGate, Frame, GateSame, Escalated, Spends,
             Spares, FlagsSame, FlagReset
    <3>3. CASE FailOverflows(check)
      BY <2>1, <2>4, <3>1, <3>3
         DEF FailEffect, FailOverflows, Frame, GateSame, Escalated, Spends,
             Spares, FlagsSame, FlagReset
    <3>4. CASE FailRedoes(check)
      BY <2>1, <2>4, <3>1, <3>4
         DEF FailEffect, FailRedoes, Frame, GateSame, Escalated, Spends, Spares,
             FlagsSame, FlagReset
    <3>5. CASE FailRefuses(check)
      BY <2>1, <2>4, <3>1, <3>5
         DEF FailEffect, FailRefuses, Frame, GateSame, Escalated, Spends,
             Spares, FlagsSame, FlagReset
    <3>6. CASE FailAsksHuman(check)
      BY <2>1, <2>4, <3>1, <3>6
         DEF FailEffect, FailAsksHuman, Frame, GateSame, Escalated, Spends,
             Spares, FlagsSame, FlagReset
    <3> QED
      BY <3>1, <3>2, <3>3, <3>4, <3>5, <3>6 DEF FailEffect
  <2> QED
    BY <1>10, <2>2, <2>3, <2>4 DEF ValidateResult
<1>11. CASE CommitResult
  BY <1>11 DEF CommitResult, Executing
<1>12. CASE CheckpointResult
  <2>1. s.pending = "checkpoint" /\ UNCHANGED <<marked, commits, scar>>
    BY <1>12 DEF CheckpointResult, Executing
  <2>2. CASE (marked \/ commits = 0) /\ Append([Cleared EXCEPT !.result.step = "checkpointed"])
    BY <2>1, <2>2 DEF Append, Cleared
  <2>3. ASSUME ~marked, NEW check \in {"commit", "document"},
               Append(OnVerdictFailed(Cleared, check))
        PROVE  StepsInOrder'
    <3>1. FailEffect(check)
      BY <2>1, <2>3, FailProjects
    <3>2. CASE FailKeepsGate
      BY <2>1, <2>3, <3>1, <3>2
         DEF FailEffect, FailKeepsGate, Frame, GateSame, Escalated, Spends,
             Spares, FlagsSame, FlagReset
    <3>3. CASE FailOverflows(check)
      BY <2>1, <2>3, <3>1, <3>3
         DEF FailEffect, FailOverflows, Frame, GateSame, Escalated, Spends,
             Spares, FlagsSame, FlagReset
    <3>4. CASE FailRedoes(check)
      BY <2>1, <2>3, <3>1, <3>4
         DEF FailEffect, FailRedoes, Frame, GateSame, Escalated, Spends, Spares,
             FlagsSame, FlagReset
    <3>5. CASE FailRefuses(check)
      BY <2>1, <2>3, <3>1, <3>5
         DEF FailEffect, FailRefuses, Frame, GateSame, Escalated, Spends,
             Spares, FlagsSame, FlagReset
    <3>6. CASE FailAsksHuman(check)
      BY <2>1, <2>3, <3>1, <3>6
         DEF FailEffect, FailAsksHuman, Frame, GateSame, Escalated, Spends,
             Spares, FlagsSame, FlagReset
    <3> QED
      BY <3>1, <3>2, <3>3, <3>4, <3>5, <3>6 DEF FailEffect
  <2> QED
    BY <1>12, <2>2, <2>3 DEF CheckpointResult
<1>13. CASE PublishResult
  BY <1>13
     DEF PublishResult, Executing, Append, Cleared, Published, OnDocCommitted,
         OnReviewerVerdict, OnHumanTriage, OnHumanReview, ResetDoc, ResetReview,
         ReviewOf
<1>14. CASE ValidateDocument
  <2>1. s.pending = "validate_document" /\ UNCHANGED <<marked, commits>>
    BY <1>14 DEF ValidateDocument, Executing
  <2>2. CASE Append(OnVerdictPassed(Cleared)) /\ UNCHANGED scar
    BY <2>1, <2>2 DEF Append, Cleared, OnVerdictPassed
  <2>3. CASE Append(OnVerdictFailed(Cleared, "document")) /\ Blame("exit_gate")
    <3>1. FailEffect("document")
      BY <2>1, <2>3, FailProjects
    <3>2. CASE FailKeepsGate
      BY <2>1, <2>3, <3>1, <3>2
         DEF FailEffect, FailKeepsGate, Frame, GateSame, Escalated, Spends,
             Spares, FlagsSame, FlagReset
    <3>3. CASE FailRedoes("document")
      BY <2>1, <2>3, <3>1, <3>3
         DEF FailEffect, FailRedoes, Frame, GateSame, Escalated, Spends, Spares,
             FlagsSame, FlagReset
    <3>4. CASE FailAsksHuman("document")
      BY <2>1, <2>3, <3>1, <3>4
         DEF FailEffect, FailAsksHuman, Frame, GateSame, Escalated, Spends,
             Spares, FlagsSame, FlagReset
    <3> QED
      BY <3>1, <3>2, <3>3, <3>4 DEF FailEffect, FailOverflows, FailRefuses
  <2> QED
    BY <1>14, <2>2, <2>3 DEF ValidateDocument
<1>15. CASE WriteFrontmatter
  <2>1. s.pending = "write_frontmatter" /\ UNCHANGED <<marked, commits, scar>>
    BY <1>15 DEF WriteFrontmatter, Executing
  <2>2. CASE Append(OnVerdictFailed(Cleared, "commit"))
    <3>1. FailEffect("commit")
      BY <2>1, <2>2, FailProjects
    <3>2. CASE FailKeepsGate
      BY <2>1, <2>2, <3>1, <3>2
         DEF FailEffect, FailKeepsGate, Frame, GateSame, Escalated, Spends,
             Spares, FlagsSame, FlagReset
    <3>3. CASE FailRefuses("commit")
      BY <2>1, <2>2, <3>1, <3>3
         DEF FailEffect, FailRefuses, Frame, GateSame, Escalated, Spends,
             Spares, FlagsSame, FlagReset
    <3> QED
      BY <3>1, <3>2, <3>3
         DEF FailEffect, FailOverflows, FailRedoes, FailAsksHuman
  <2>3. CASE /\ s' = [Cleared EXCEPT !.result = NoResult]
             /\ drv' = "emit" /\ todo' = "exited" /\ UNCHANGED <<mode, tripped>>
    BY <2>1, <2>3 DEF Cleared
  <2> QED
    BY <1>15, <2>2, <2>3 DEF WriteFrontmatter
<1>16. CASE AppendExited
  BY <1>16 DEF AppendExited, Cleared
<1>17. CASE AppendEntered
  BY <1>17 DEF AppendEntered, Cleared, OnStageEntered, ResetDoc, ResetReview
<1>18. CASE RollbackStage
  <2>1. s.pending = "rollback" /\ drv' = "loop" /\ UNCHANGED <<todo, tripped, marked, commits, scar>>
    BY <1>18 DEF RollbackStage, Executing, Append
  <2>2. /\ Live /\ s.sub \notin NoDiff /\ s.awaiting = "none" /\ s.status = "active"
        /\ ~s.rejected /\ s.result = NoResult /\ ~s.exitValidated
    BY <2>1 DEF ReturnsAimed
  <2> DEFINE i == IF s.scopeOverflow THEN 1 ELSE s.target
  <2>3. s' = [s EXCEPT !.pending = "none", !.docDispatched = FALSE, !.revDispatched = FALSE,
                       !.stage = i, !.sub = "DRAFT", !.attempt = 0, !.scopeOverflow = FALSE,
                       !.target = 0, !.result = NoResult]
    BY <1>18
       DEF RollbackStage, Append, Cleared, OnStageRolledBack, ResetDoc,
           ResetReview
  <2> HIDE DEF i
  <2> QED
    BY <2>1, <2>2, <2>3
<1>19. CASE RejectRun
  <2>1. s.pending \in {"record_backlog", "delete_branch", "complete_run"}
    BY <1>19 DEF RejectRun, Executing
  <2>2. /\ drv = "exec" /\ drv' = "loop" /\ UNCHANGED <<mode, todo, tripped, marked, commits, scar>>
        /\ s'.pending = "none" /\ s'.result = s.result /\ s'.attempt = s.attempt
        /\ s'.sub = s.sub /\ s'.stage = s.stage /\ s'.infra = s.infra
        /\ s'.target = s.target /\ s'.scopeOverflow = s.scopeOverflow
        /\ s'.rejected = s.rejected /\ s'.stageExited = s.stageExited
        /\ s'.exitValidated = s.exitValidated /\ FlagsSame
        /\ GateSame \/ (s'.status = "completed" /\ s'.awaiting = "none")
    <3>1. CASE Append([Cleared EXCEPT !.backlog = TRUE])
      BY <1>19, <3>1
         DEF RejectRun, Executing, Append, Cleared, GateSame, FlagsSame
    <3>2. CASE Append([Cleared EXCEPT !.branchDeleted = TRUE])
      BY <1>19, <3>2
         DEF RejectRun, Executing, Append, Cleared, GateSame, FlagsSame
    <3>3. CASE Append(OnRunCompleted(Cleared))
      BY <1>19, <3>3
         DEF RejectRun, Executing, Append, Cleared, OnRunCompleted, GateSame,
             FlagsSame
    <3> QED
      BY <1>19, <3>1, <3>2, <3>3 DEF RejectRun
  <2> QED
    BY <2>1, <2>2 DEF GateSame, FlagsSame
<1>20. ASSUME NEW d \in {"go", "no_go"}, HumanTriage(d) PROVE StepsInOrder'
  BY <1>20 DEF HumanTriage, Submit, Cleared
<1>21. ASSUME NEW v \in {"no_comment", "comment", "revise"}, HumanReview(v)
       PROVE  StepsInOrder'
  BY <1>21 DEF HumanReview, Submit, Cleared
<1>22. ASSUME NEW clear \in BOOLEAN, HumanRetry(clear) PROVE StepsInOrder'
  BY <1>22
     DEF HumanRetry, AppendHuman, Unlocked, Cleared, OnHumanRetry, ResetDoc,
         ResetReview
<1>23. ASSUME NEW i \in Stages, HumanReturn(i) PROVE StepsInOrder'
  BY <1>23 DEF HumanReturn, AppendHuman, Unlocked, Cleared, OnHumanReturn
<1>24. CASE Abandon
  BY <1>24 DEF Abandon, AppendHuman, Unlocked, Cleared, OnRunCompleted
<1>25. CASE UNCHANGED vars
  BY <1>25 DEF vars
<1> HIDE DEF BInv, TypeOK, StateTypes, UInv, Blame, Live, NoResult, Results,
             ResultsFound, Unanswered, StagesLeft, Driven, GatesPlaced,
             ResultsPlaced, StepsInOrder, FlagsAnswered, NoDiff, Review,
             HumanGates, ResultCommands, ExitCommands, RejectCommands,
             AuthorSubs
<1> QED
  BY <1>1, <1>2, <1>3, <1>4, <1>5, <1>6, <1>7, <1>8, <1>9, <1>10, <1>11, <1>12,
     <1>13, <1>14, <1>15, <1>16, <1>17, <1>18, <1>19, <1>20, <1>21, <1>22,
     <1>23, <1>24, <1>25
     DEF Next, Driver, Human

(***************************************************************************)
(* A dispatch is waited for, or answered.                                  *)
(***************************************************************************)
LEMMA FlagsStep ==
    ASSUME BInv, UInv, scar' = "none", [Next]_vars PROVE FlagsAnswered'
<1> USE DEF BInv, TypeOK, StateTypes, UInv, Blame, Live, GateSub, ResultsFound,
            Unanswered, StagesLeft, Driven, GatesPlaced, ResultsPlaced,
            FlagsAnswered, NoDiff, Review, HumanGates, ResultCommands,
            ExitCommands, RejectCommands, AuthorSubs
<1>1. CASE Start
  BY <1>1 DEF Start
<1>2. CASE Stop
  BY <1>2, DecideFacts DEF Stop
<1>3. CASE BreakerTrips
  BY <1>3 DEF BreakerTrips, EscalateWhen, Cleared
<1>4. CASE Issue
  BY <1>4, DecideFacts DEF Issue, Halts, AppendIssued, OnCommandIssued
<1>5. CASE Backoff
  BY <1>5, DecideFacts DEF Backoff
<1>6. CASE Wake
  BY <1>6, DecideFacts DEF Wake, AppendIssued, OnCommandIssued
<1>7. CASE Crash
  BY <1>7 DEF Crash
<1>8. CASE AgentReplies
  <2>1. AgentEffect
    BY <1>8, AgentProjects
  <2>2. CASE AgentTriages
    BY <2>1, <2>2
       DEF AgentEffect, AgentTriages, Frame, GateSame, Escalated, Spends,
           Spares, FlagsSame, FlagReset
  <2>3. CASE AgentAnswers
    <3>1. s'.result # NoResult
      BY <2>1, <2>3 DEF AgentAnswers, NoResult
    <3> QED
      BY <2>1, <2>3, <3>1
         DEF AgentEffect, AgentAnswers, Frame, Spares, GateSame, FlagsSame
  <2>4. CASE AgentMissing
    BY <2>1, <2>4
       DEF AgentEffect, AgentMissing, Frame, GateSame, Escalated, Spends,
           Spares, FlagsSame, FlagReset
  <2>5. CASE AgentErrs
    BY <2>1, <2>5
       DEF AgentEffect, AgentErrs, Frame, GateSame, Escalated, Spends, Spares,
           FlagsSame, FlagReset
  <2> QED
    BY <2>1, <2>2, <2>3, <2>4, <2>5 DEF AgentEffect
<1>9. CASE NoDiffReplies
  <2>1. NoDiffEffect
    BY <1>9, NoDiffProjects
  <2>2. CASE NoDiffExplained
    BY <2>1, <2>2
       DEF NoDiffEffect, NoDiffExplained, Frame, GateSame, Escalated, Spends,
           Spares, FlagsSame, FlagReset, Origin
  <2>3. CASE NoDiffAccepted
    <3>1. s'.result # NoResult
      <4>1. s.result \in Results
        BY <2>1 DEF NoDiffEffect
      <4>2. s'.result.step = "validated"
        BY <2>3, <4>1 DEF NoDiffAccepted, Results
      <4> QED
        BY <4>2 DEF NoResult
    <3> QED
      BY <2>1, <2>3, <3>1
         DEF NoDiffEffect, NoDiffAccepted, Frame, Spares, GateSame, FlagsSame
  <2>4. CASE NoDiffRejected
    BY <2>1, <2>4
       DEF NoDiffEffect, NoDiffRejected, Frame, GateSame, Escalated, Spends,
           Spares, FlagsSame, FlagReset, Origin
  <2> QED
    BY <2>1, <2>2, <2>3, <2>4 DEF NoDiffEffect
<1>10. CASE ValidateResult
  <2>1. s.pending = "validate" /\ UNCHANGED <<marked, commits, scar>>
    BY <1>10 DEF ValidateResult, Executing
  <2>2. CASE Append([Cleared EXCEPT !.result.step = "validated"])
    <3>1. s' = [s EXCEPT !.pending = "none", !.result = [s.result EXCEPT !.step = "validated"]]
      BY <2>2 DEF Append, Cleared
    <3>2. s'.result # NoResult
      <4>1. s.result \in Results
        BY <2>1
      <4>2. s'.result.step = "validated"
        BY <3>1, <4>1 DEF Results
      <4> QED
        BY <4>2 DEF NoResult
    <3> QED
      BY <2>1, <2>2, <3>1, <3>2 DEF Append
  <2>3. CASE s.result.verdict = "revise" /\ Append(OnNoDiffDetected(Cleared))
    BY <2>1, <2>3 DEF Append, Cleared, OnNoDiffDetected
  <2>4. ASSUME NEW check \in {"document", "scope_overflow"},
               check = "scope_overflow" => s.stage = 2,
               Append(OnVerdictFailed(Cleared, check))
        PROVE  FlagsAnswered'
    <3>1. FailEffect(check)
      BY <2>1, <2>4, FailProjects
    <3>2. CASE FailKeepsGate
      BY <2>1, <2>4, <3>1, <3>2
         DEF FailEffect, FailKeepsGate, Frame, GateSame, Escalated, Spends,
             Spares, FlagsSame, FlagReset
    <3>3. CASE FailOverflows(check)
      BY <2>1, <2>4, <3>1, <3>3
         DEF FailEffect, FailOverflows, Frame, GateSame, Escalated, Spends,
             Spares, FlagsSame, FlagReset
    <3>4. CASE FailRedoes(check)
      BY <2>1, <2>4, <3>1, <3>4
         DEF FailEffect, FailRedoes, Frame, GateSame, Escalated, Spends, Spares,
             FlagsSame, FlagReset
    <3>5. CASE FailRefuses(check)
      BY <2>1, <2>4, <3>1, <3>5
         DEF FailEffect, FailRefuses, Frame, GateSame, Escalated, Spends,
             Spares, FlagsSame, FlagReset
    <3>6. CASE FailAsksHuman(check)
      BY <2>1, <2>4, <3>1, <3>6
         DEF FailEffect, FailAsksHuman, Frame, GateSame, Escalated, Spends,
             Spares, FlagsSame, FlagReset
    <3> QED
      BY <3>1, <3>2, <3>3, <3>4, <3>5, <3>6 DEF FailEffect
  <2> QED
    BY <1>10, <2>2, <2>3, <2>4 DEF ValidateResult
<1>11. CASE CommitResult
  BY <1>11 DEF CommitResult, Executing
<1>12. CASE CheckpointResult
  <2>1. s.pending = "checkpoint" /\ UNCHANGED <<marked, commits, scar>>
    BY <1>12 DEF CheckpointResult, Executing
  <2>2. CASE (marked \/ commits = 0) /\ Append([Cleared EXCEPT !.result.step = "checkpointed"])
    <3>1. s' = [s EXCEPT !.pending = "none", !.result = [s.result EXCEPT !.step = "checkpointed"]]
      BY <2>2 DEF Append, Cleared
    <3>2. s'.result # NoResult
      <4>1. s.result \in Results
        BY <2>1
      <4>2. s'.result.step = "checkpointed"
        BY <3>1, <4>1 DEF Results
      <4> QED
        BY <4>2 DEF NoResult
    <3> QED
      BY <2>1, <2>2, <3>1, <3>2 DEF Append
  <2>3. ASSUME ~marked, NEW check \in {"commit", "document"},
               Append(OnVerdictFailed(Cleared, check))
        PROVE  FlagsAnswered'
    <3>1. FailEffect(check)
      BY <2>1, <2>3, FailProjects
    <3>2. CASE FailKeepsGate
      BY <2>1, <2>3, <3>1, <3>2
         DEF FailEffect, FailKeepsGate, Frame, GateSame, Escalated, Spends,
             Spares, FlagsSame, FlagReset
    <3>3. CASE FailOverflows(check)
      BY <2>1, <2>3, <3>1, <3>3
         DEF FailEffect, FailOverflows, Frame, GateSame, Escalated, Spends,
             Spares, FlagsSame, FlagReset
    <3>4. CASE FailRedoes(check)
      BY <2>1, <2>3, <3>1, <3>4
         DEF FailEffect, FailRedoes, Frame, GateSame, Escalated, Spends, Spares,
             FlagsSame, FlagReset
    <3>5. CASE FailRefuses(check)
      BY <2>1, <2>3, <3>1, <3>5
         DEF FailEffect, FailRefuses, Frame, GateSame, Escalated, Spends,
             Spares, FlagsSame, FlagReset
    <3>6. CASE FailAsksHuman(check)
      BY <2>1, <2>3, <3>1, <3>6
         DEF FailEffect, FailAsksHuman, Frame, GateSame, Escalated, Spends,
             Spares, FlagsSame, FlagReset
    <3> QED
      BY <3>1, <3>2, <3>3, <3>4, <3>5, <3>6 DEF FailEffect
  <2> QED
    BY <1>12, <2>2, <2>3 DEF CheckpointResult
<1>13. CASE PublishResult
  BY <1>13
     DEF PublishResult, Executing, Append, Cleared, Published, OnDocCommitted,
         OnReviewerVerdict, OnHumanTriage, OnHumanReview, ResetDoc, ResetReview,
         ReviewOf
<1>14. CASE ValidateDocument
  <2>1. s.pending = "validate_document" /\ UNCHANGED <<marked, commits>>
    BY <1>14 DEF ValidateDocument, Executing
  <2>2. CASE Append(OnVerdictPassed(Cleared)) /\ UNCHANGED scar
    BY <2>1, <2>2 DEF Append, Cleared, OnVerdictPassed
  <2>3. CASE Append(OnVerdictFailed(Cleared, "document")) /\ Blame("exit_gate")
    <3>1. FailEffect("document")
      BY <2>1, <2>3, FailProjects
    <3>2. CASE FailKeepsGate
      BY <2>1, <2>3, <3>1, <3>2
         DEF FailEffect, FailKeepsGate, Frame, GateSame, Escalated, Spends,
             Spares, FlagsSame, FlagReset
    <3>3. CASE FailRedoes("document")
      BY <2>1, <2>3, <3>1, <3>3
         DEF FailEffect, FailRedoes, Frame, GateSame, Escalated, Spends, Spares,
             FlagsSame, FlagReset
    <3>4. CASE FailAsksHuman("document")
      BY <2>1, <2>3, <3>1, <3>4
         DEF FailEffect, FailAsksHuman, Frame, GateSame, Escalated, Spends,
             Spares, FlagsSame, FlagReset
    <3> QED
      BY <3>1, <3>2, <3>3, <3>4 DEF FailEffect, FailOverflows, FailRefuses
  <2> QED
    BY <1>14, <2>2, <2>3 DEF ValidateDocument
<1>15. CASE WriteFrontmatter
  <2>1. s.pending = "write_frontmatter" /\ UNCHANGED <<marked, commits, scar>>
    BY <1>15 DEF WriteFrontmatter, Executing
  <2>2. CASE Append(OnVerdictFailed(Cleared, "commit"))
    <3>1. FailEffect("commit")
      BY <2>1, <2>2, FailProjects
    <3>2. CASE FailKeepsGate
      BY <2>1, <2>2, <3>1, <3>2
         DEF FailEffect, FailKeepsGate, Frame, GateSame, Escalated, Spends,
             Spares, FlagsSame, FlagReset
    <3>3. CASE FailRefuses("commit")
      BY <2>1, <2>2, <3>1, <3>3
         DEF FailEffect, FailRefuses, Frame, GateSame, Escalated, Spends,
             Spares, FlagsSame, FlagReset
    <3> QED
      BY <3>1, <3>2, <3>3
         DEF FailEffect, FailOverflows, FailRedoes, FailAsksHuman
  <2>3. CASE /\ s' = [Cleared EXCEPT !.result = NoResult]
             /\ drv' = "emit" /\ todo' = "exited" /\ UNCHANGED <<mode, tripped>>
    BY <2>1, <2>3 DEF Cleared
  <2> QED
    BY <1>15, <2>2, <2>3 DEF WriteFrontmatter
<1>16. CASE AppendExited
  BY <1>16 DEF AppendExited, Cleared
<1>17. CASE AppendEntered
  BY <1>17 DEF AppendEntered, Cleared, OnStageEntered, ResetDoc, ResetReview
<1>18. CASE RollbackStage
  <2>1. s.pending = "rollback" /\ drv' = "loop" /\ UNCHANGED <<todo, tripped, marked, commits, scar>>
    BY <1>18 DEF RollbackStage, Executing, Append
  <2>2. /\ Live /\ s.sub \notin NoDiff /\ s.awaiting = "none" /\ s.status = "active"
        /\ ~s.rejected /\ s.result = NoResult /\ ~s.exitValidated
    BY <2>1 DEF ReturnsAimed
  <2> DEFINE i == IF s.scopeOverflow THEN 1 ELSE s.target
  <2>3. s' = [s EXCEPT !.pending = "none", !.docDispatched = FALSE, !.revDispatched = FALSE,
                       !.stage = i, !.sub = "DRAFT", !.attempt = 0, !.scopeOverflow = FALSE,
                       !.target = 0, !.result = NoResult]
    BY <1>18
       DEF RollbackStage, Append, Cleared, OnStageRolledBack, ResetDoc,
           ResetReview
  <2> HIDE DEF i
  <2> QED
    BY <2>1, <2>2, <2>3
<1>19. CASE RejectRun
  <2>1. s.pending \in {"record_backlog", "delete_branch", "complete_run"}
    BY <1>19 DEF RejectRun, Executing
  <2>2. /\ drv = "exec" /\ drv' = "loop" /\ UNCHANGED <<mode, todo, tripped, marked, commits, scar>>
        /\ s'.pending = "none" /\ s'.result = s.result /\ s'.attempt = s.attempt
        /\ s'.sub = s.sub /\ s'.stage = s.stage /\ s'.infra = s.infra
        /\ s'.target = s.target /\ s'.scopeOverflow = s.scopeOverflow
        /\ s'.rejected = s.rejected /\ s'.stageExited = s.stageExited
        /\ s'.exitValidated = s.exitValidated /\ FlagsSame
        /\ GateSame \/ (s'.status = "completed" /\ s'.awaiting = "none")
    <3>1. CASE Append([Cleared EXCEPT !.backlog = TRUE])
      BY <1>19, <3>1
         DEF RejectRun, Executing, Append, Cleared, GateSame, FlagsSame
    <3>2. CASE Append([Cleared EXCEPT !.branchDeleted = TRUE])
      BY <1>19, <3>2
         DEF RejectRun, Executing, Append, Cleared, GateSame, FlagsSame
    <3>3. CASE Append(OnRunCompleted(Cleared))
      BY <1>19, <3>3
         DEF RejectRun, Executing, Append, Cleared, OnRunCompleted, GateSame,
             FlagsSame
    <3> QED
      BY <1>19, <3>1, <3>2, <3>3 DEF RejectRun
  <2> QED
    BY <2>1, <2>2 DEF GateSame, FlagsSame
<1>20. ASSUME NEW d \in {"go", "no_go"}, HumanTriage(d) PROVE FlagsAnswered'
  BY <1>20 DEF HumanTriage, Submit, Cleared
<1>21. ASSUME NEW v \in {"no_comment", "comment", "revise"}, HumanReview(v)
       PROVE  FlagsAnswered'
  <2>1. /\ drv = "off" /\ s.awaiting \in {"review", "threads"}
        /\ s.sub \notin NoDiff /\ drv' = "loop" /\ scar' = scar
    BY <1>21 DEF HumanReview, Submit
  <2>2. s' = [s EXCEPT !.pending = "none", !.result = [by |-> "human", verdict |-> v,
                                                       step |-> "submitted", origin |-> "none"]]
    BY <1>21 DEF HumanReview, Submit, Cleared
  <2>3. s'.result # NoResult /\ ~s.rejected /\ ~s.scopeOverflow
    BY <2>1, <2>2 DEF NoResult
  <2> QED
    BY <2>1, <2>2, <2>3
<1>22. ASSUME NEW clear \in BOOLEAN, HumanRetry(clear) PROVE FlagsAnswered'
  BY <1>22
     DEF HumanRetry, AppendHuman, Unlocked, Cleared, OnHumanRetry, ResetDoc,
         ResetReview
<1>23. ASSUME NEW i \in Stages, HumanReturn(i) PROVE FlagsAnswered'
  BY <1>23 DEF HumanReturn, AppendHuman, Unlocked, Cleared, OnHumanReturn
<1>24. CASE Abandon
  BY <1>24 DEF Abandon, AppendHuman, Unlocked, Cleared, OnRunCompleted
<1>25. CASE UNCHANGED vars
  BY <1>25 DEF vars
<1> HIDE DEF BInv, TypeOK, StateTypes, UInv, Blame, Live, GateSub, ResultsFound,
             Unanswered, StagesLeft, Driven, GatesPlaced, ResultsPlaced,
             FlagsAnswered, NoDiff, Review, HumanGates, ResultCommands,
             ExitCommands, RejectCommands, AuthorSubs
<1> QED
  BY <1>1, <1>2, <1>3, <1>4, <1>5, <1>6, <1>7, <1>8, <1>9, <1>10, <1>11, <1>12,
     <1>13, <1>14, <1>15, <1>16, <1>17, <1>18, <1>19, <1>20, <1>21, <1>22,
     <1>23, <1>24, <1>25
     DEF Next, Driver, Human
-----------------------------------------------------------------------------
(* One step on the journey of a stage.                                     *)

Stays == s'.stage = s.stage /\ GateSub' = GateSub

\* Drafting again, in the same stage or an earlier one.
Backs == s'.stage \in 1..s.stage /\ GateSub' \notin {"EXIT", "HUMAN_REVIEW"}

Passes ==
    /\ GateSub \notin {"EXIT", "HUMAN_REVIEW"} /\ GateSub' = "HUMAN_REVIEW"
    /\ s'.stage = s.stage

LetsThrough == GateSub = "HUMAN_REVIEW" /\ GateSub' = "EXIT" /\ s'.stage = s.stage

Advances ==
    /\ GateSub = "EXIT" /\ GateSub' \notin {"EXIT", "HUMAN_REVIEW"}
    /\ s.stage <= LastStage /\ s'.stage = s.stage + 1

JourneyStep == Stays \/ Backs \/ Passes \/ LetsThrough \/ Advances

(***************************************************************************)
(* A step changes the gate of a stage as its journey allows.               *)
(***************************************************************************)
LEMMA JourneySteps ==
    ASSUME BInv, UInv, scar' = "none", [Next]_vars PROVE JourneyStep
<1> USE DEF BInv, TypeOK, StateTypes, UInv, Blame, Live, GateSub, NoResult,
            Results, ResultsFound, ReturnsAimed, StagesLeft, Driven,
            GatesPlaced, ResultsPlaced, StepsInOrder, JourneyStep, Stays, Backs,
            Passes, LetsThrough, Advances, NoDiff, Review, HumanGates,
            ResultCommands, ExitCommands, RejectCommands, AuthorSubs
<1>1. CASE Start
  BY <1>1 DEF Start
<1>2. CASE Stop
  BY <1>2, DecideFacts DEF Stop
<1>3. CASE BreakerTrips
  BY <1>3 DEF BreakerTrips, EscalateWhen, Cleared
<1>4. CASE Issue
  BY <1>4, DecideFacts DEF Issue, Halts, AppendIssued, OnCommandIssued
<1>5. CASE Backoff
  BY <1>5, DecideFacts DEF Backoff
<1>6. CASE Wake
  BY <1>6, DecideFacts DEF Wake, AppendIssued, OnCommandIssued
<1>7. CASE Crash
  BY <1>7 DEF Crash
<1>8. CASE AgentReplies
  <2>1. AgentEffect
    BY <1>8, AgentProjects
  <2>2. CASE AgentTriages
    BY <2>1, <2>2
       DEF AgentEffect, AgentTriages, Frame, GateSame, Escalated, Spends,
           Spares, FlagsSame, FlagReset
  <2>3. CASE AgentAnswers
    BY <2>1, <2>3
       DEF AgentEffect, AgentAnswers, Frame, GateSame, Escalated, Spends,
           Spares, FlagsSame, FlagReset
  <2>4. CASE AgentMissing
    BY <2>1, <2>4
       DEF AgentEffect, AgentMissing, Frame, GateSame, Escalated, Spends,
           Spares, FlagsSame, FlagReset
  <2>5. CASE AgentErrs
    BY <2>1, <2>5
       DEF AgentEffect, AgentErrs, Frame, GateSame, Escalated, Spends, Spares,
           FlagsSame, FlagReset
  <2> QED
    BY <2>1, <2>2, <2>3, <2>4, <2>5 DEF AgentEffect
<1>9. CASE NoDiffReplies
  <2>1. NoDiffEffect
    BY <1>9, NoDiffProjects
  <2>2. CASE NoDiffExplained
    BY <2>1, <2>2
       DEF NoDiffEffect, NoDiffExplained, Frame, GateSame, Escalated, Spends,
           Spares, FlagsSame, FlagReset, Origin
  <2>3. CASE NoDiffAccepted
    BY <2>1, <2>3
       DEF NoDiffEffect, NoDiffAccepted, Frame, GateSame, Escalated, Spends,
           Spares, FlagsSame, FlagReset, Origin
  <2>4. CASE NoDiffRejected
    BY <2>1, <2>4
       DEF NoDiffEffect, NoDiffRejected, Frame, GateSame, Escalated, Spends,
           Spares, FlagsSame, FlagReset, Origin
  <2> QED
    BY <2>1, <2>2, <2>3, <2>4 DEF NoDiffEffect
<1>10. CASE ValidateResult
  <2>1. s.pending = "validate" /\ UNCHANGED <<marked, commits, scar>>
    BY <1>10 DEF ValidateResult, Executing
  <2>2. CASE Append([Cleared EXCEPT !.result.step = "validated"])
    BY <2>1, <2>2 DEF Append, Cleared
  <2>3. CASE s.result.verdict = "revise" /\ Append(OnNoDiffDetected(Cleared))
    BY <2>1, <2>3 DEF Append, Cleared, OnNoDiffDetected
  <2>4. ASSUME NEW check \in {"document", "scope_overflow"},
               check = "scope_overflow" => s.stage = 2,
               Append(OnVerdictFailed(Cleared, check))
        PROVE  JourneyStep
    <3>1. FailEffect(check)
      BY <2>1, <2>4, FailProjects
    <3>2. CASE FailKeepsGate
      BY <2>1, <2>4, <3>1, <3>2
         DEF FailEffect, FailKeepsGate, Frame, GateSame, Escalated, Spends,
             Spares, FlagsSame, FlagReset
    <3>3. CASE FailOverflows(check)
      BY <2>1, <2>4, <3>1, <3>3
         DEF FailEffect, FailOverflows, Frame, GateSame, Escalated, Spends,
             Spares, FlagsSame, FlagReset
    <3>4. CASE FailRedoes(check)
      BY <2>1, <2>4, <3>1, <3>4
         DEF FailEffect, FailRedoes, Frame, GateSame, Escalated, Spends, Spares,
             FlagsSame, FlagReset
    <3>5. CASE FailRefuses(check)
      BY <2>1, <2>4, <3>1, <3>5
         DEF FailEffect, FailRefuses, Frame, GateSame, Escalated, Spends,
             Spares, FlagsSame, FlagReset
    <3>6. CASE FailAsksHuman(check)
      BY <2>1, <2>4, <3>1, <3>6
         DEF FailEffect, FailAsksHuman, Frame, GateSame, Escalated, Spends,
             Spares, FlagsSame, FlagReset
    <3> QED
      BY <3>1, <3>2, <3>3, <3>4, <3>5, <3>6 DEF FailEffect
  <2> QED
    BY <1>10, <2>2, <2>3, <2>4 DEF ValidateResult
<1>11. CASE CommitResult
  BY <1>11 DEF CommitResult, Executing
<1>12. CASE CheckpointResult
  <2>1. s.pending = "checkpoint" /\ UNCHANGED <<marked, commits, scar>>
    BY <1>12 DEF CheckpointResult, Executing
  <2>2. CASE (marked \/ commits = 0) /\ Append([Cleared EXCEPT !.result.step = "checkpointed"])
    BY <2>1, <2>2 DEF Append, Cleared
  <2>3. ASSUME ~marked, NEW check \in {"commit", "document"},
               Append(OnVerdictFailed(Cleared, check))
        PROVE  JourneyStep
    <3>1. FailEffect(check)
      BY <2>1, <2>3, FailProjects
    <3>2. CASE FailKeepsGate
      BY <2>1, <2>3, <3>1, <3>2
         DEF FailEffect, FailKeepsGate, Frame, GateSame, Escalated, Spends,
             Spares, FlagsSame, FlagReset
    <3>3. CASE FailOverflows(check)
      BY <2>1, <2>3, <3>1, <3>3
         DEF FailEffect, FailOverflows, Frame, GateSame, Escalated, Spends,
             Spares, FlagsSame, FlagReset
    <3>4. CASE FailRedoes(check)
      BY <2>1, <2>3, <3>1, <3>4
         DEF FailEffect, FailRedoes, Frame, GateSame, Escalated, Spends, Spares,
             FlagsSame, FlagReset
    <3>5. CASE FailRefuses(check)
      BY <2>1, <2>3, <3>1, <3>5
         DEF FailEffect, FailRefuses, Frame, GateSame, Escalated, Spends,
             Spares, FlagsSame, FlagReset
    <3>6. CASE FailAsksHuman(check)
      BY <2>1, <2>3, <3>1, <3>6
         DEF FailEffect, FailAsksHuman, Frame, GateSame, Escalated, Spends,
             Spares, FlagsSame, FlagReset
    <3> QED
      BY <3>1, <3>2, <3>3, <3>4, <3>5, <3>6 DEF FailEffect
  <2> QED
    BY <1>12, <2>2, <2>3 DEF CheckpointResult
<1>13. CASE PublishResult
  <2>1. /\ drv = "exec" /\ s.pending = "publish" /\ drv' = "loop" /\ scar' = scar
        /\ s' = Published(Cleared, s.result)
    BY <1>13 DEF PublishResult, Executing, Append
  <2>2. /\ Live /\ s.result # NoResult /\ s.sub \notin NoDiff /\ ~s.rejected
        /\ ~s.scopeOverflow /\ s.sub \notin {"PREVIEW", "NONE"}
    BY <2>1
  <2>3. CASE s.result.verdict = "draft"
    <3>1. s' = [s EXCEPT !.pending = "none", !.result = NoResult, !.revDispatched = FALSE,
                         !.sub = ReviewOf(s.stage)]
      BY <2>1, <2>3 DEF Published, OnDocCommitted, Cleared, ResetReview
    <3>2. ReviewOf(s.stage) \in Review
      BY DEF ReviewOf
    <3>3. s.status = "active" /\ s.awaiting = "none"
      BY <2>2, <2>3
    <3> QED
      BY <2>1, <2>2, <3>1, <3>2, <3>3
  <2>4. CASE s.result.by = "agent" /\ s.result.verdict # "draft"
    <3>1. s' = OnReviewerVerdict(Cleared, s.result.verdict)
      BY <2>1, <2>4 DEF Published
    <3>2. s.status = "active" /\ s.awaiting = "none" /\ s.sub \in Review
      BY <2>2, <2>4
    <3>3. CASE s.result.verdict = "park"
      <4>1. s' = [s EXCEPT !.pending = "none", !.result = NoResult,
                           !.status = "awaiting_human", !.awaiting = "threads"]
        BY <3>1, <3>3 DEF OnReviewerVerdict, Cleared
      <4>2. s.sub = "LEX_REVIEW"
        BY <2>2, <2>4, <3>3
      <4> QED
        BY <2>1, <2>2, <4>1, <4>2
    <3>4. CASE s.result.verdict = "pass"
      <4>1. s' = [s EXCEPT !.pending = "none", !.result = NoResult,
                           !.sub = "HUMAN_REVIEW", !.awaiting = "review"]
        BY <3>1, <3>4 DEF OnReviewerVerdict, Cleared
      <4> QED
        BY <2>1, <2>2, <3>2, <4>1
    <3>5. CASE s.result.verdict \notin {"park", "pass"}
      <4>1. s' = [s EXCEPT !.pending = "none", !.result = NoResult, !.sub = "RESPOND",
                           !.attempt = 0, !.docDispatched = FALSE]
        BY <3>1, <3>5 DEF OnReviewerVerdict, Cleared, ResetDoc
      <4> QED
        BY <2>1, <2>2, <3>2, <4>1
    <3> QED
      BY <3>3, <3>4, <3>5
  <2>5. CASE s.result.by = "human" /\ s.result.verdict \in {"go", "no_go"}
    <3>1. s' = OnHumanTriage(Cleared, s.result.verdict)
      BY <2>1, <2>5 DEF Published
    <3>2. s.awaiting = "triage" /\ s.sub = "TRIAGE" /\ s.status = "active"
      BY <2>2, <2>5
    <3>3. CASE s.result.verdict = "go"
      <4>1. s' = [s EXCEPT !.pending = "none", !.result = NoResult, !.awaiting = "none",
                           !.sub = "DRAFT", !.attempt = 0, !.docDispatched = FALSE]
        BY <3>1, <3>3 DEF OnHumanTriage, Cleared, ResetDoc
      <4> QED
        BY <2>1, <2>2, <3>2, <4>1
    <3>4. CASE s.result.verdict = "no_go"
      <4>1. s' = [s EXCEPT !.pending = "none", !.result = NoResult, !.awaiting = "none",
                           !.sub = "NONE", !.rejected = TRUE]
        BY <3>1, <3>4 DEF OnHumanTriage, Cleared
      <4> QED
        BY <2>1, <2>2, <3>2, <4>1
    <3> QED
      BY <2>5, <3>3, <3>4
  <2>6. CASE s.result.by = "human" /\ s.result.verdict \in {"no_comment", "comment", "revise"}
    <3>1. s' = OnHumanReview(Cleared, s.result.verdict)
      BY <2>1, <2>6 DEF Published
    <3>2. s.awaiting \in {"review", "threads"}
      BY <2>2, <2>6
    <3>3. CASE s.awaiting = "threads"
      <4>1. s' = [s EXCEPT !.pending = "none", !.result = NoResult, !.awaiting = "none",
                           !.status = "active", !.sub = "LEX_REVIEW", !.attempt = 0,
                           !.revDispatched = FALSE]
        BY <3>1, <3>3 DEF OnHumanReview, Cleared, ResetReview
      <4> QED
        BY <2>1, <2>2, <4>1
    <3>4. CASE s.awaiting = "review" /\ s.result.verdict = "no_comment"
      <4>1. s' = [s EXCEPT !.pending = "none", !.result = NoResult, !.awaiting = "none",
                           !.sub = "EXIT"]
        BY <3>1, <3>4 DEF OnHumanReview, Cleared
      <4> QED
        BY <2>1, <2>2, <3>4, <4>1
    <3>5. CASE s.awaiting = "review" /\ s.result.verdict # "no_comment"
      <4>1. s' = [s EXCEPT !.pending = "none", !.result = NoResult, !.awaiting = "none",
                           !.sub = "RESPOND", !.attempt = 0, !.docDispatched = FALSE]
        BY <3>1, <3>5 DEF OnHumanReview, Cleared, ResetDoc
      <4> QED
        BY <2>1, <2>2, <3>5, <4>1
    <3> QED
      BY <3>2, <3>3, <3>4, <3>5
  <2> QED
    BY <2>2, <2>3, <2>4, <2>5, <2>6
<1>14. CASE ValidateDocument
  <2>1. s.pending = "validate_document" /\ UNCHANGED <<marked, commits>>
    BY <1>14 DEF ValidateDocument, Executing
  <2>2. CASE Append(OnVerdictPassed(Cleared)) /\ UNCHANGED scar
    BY <2>1, <2>2 DEF Append, Cleared, OnVerdictPassed
  <2>3. CASE Append(OnVerdictFailed(Cleared, "document")) /\ Blame("exit_gate")
    <3>1. FailEffect("document")
      BY <2>1, <2>3, FailProjects
    <3>2. CASE FailKeepsGate
      BY <2>1, <2>3, <3>1, <3>2
         DEF FailEffect, FailKeepsGate, Frame, GateSame, Escalated, Spends,
             Spares, FlagsSame, FlagReset
    <3>3. CASE FailRedoes("document")
      BY <2>1, <2>3, <3>1, <3>3
         DEF FailEffect, FailRedoes, Frame, GateSame, Escalated, Spends, Spares,
             FlagsSame, FlagReset
    <3>4. CASE FailAsksHuman("document")
      BY <2>1, <2>3, <3>1, <3>4
         DEF FailEffect, FailAsksHuman, Frame, GateSame, Escalated, Spends,
             Spares, FlagsSame, FlagReset
    <3> QED
      BY <3>1, <3>2, <3>3, <3>4 DEF FailEffect, FailOverflows, FailRefuses
  <2> QED
    BY <1>14, <2>2, <2>3 DEF ValidateDocument
<1>15. CASE WriteFrontmatter
  <2>1. s.pending = "write_frontmatter" /\ UNCHANGED <<marked, commits, scar>>
    BY <1>15 DEF WriteFrontmatter, Executing
  <2>2. CASE Append(OnVerdictFailed(Cleared, "commit"))
    <3>1. FailEffect("commit")
      BY <2>1, <2>2, FailProjects
    <3>2. CASE FailKeepsGate
      BY <2>1, <2>2, <3>1, <3>2
         DEF FailEffect, FailKeepsGate, Frame, GateSame, Escalated, Spends,
             Spares, FlagsSame, FlagReset
    <3>3. CASE FailRefuses("commit")
      BY <2>1, <2>2, <3>1, <3>3
         DEF FailEffect, FailRefuses, Frame, GateSame, Escalated, Spends,
             Spares, FlagsSame, FlagReset
    <3> QED
      BY <3>1, <3>2, <3>3
         DEF FailEffect, FailOverflows, FailRedoes, FailAsksHuman
  <2>3. CASE /\ s' = [Cleared EXCEPT !.result = NoResult]
             /\ drv' = "emit" /\ todo' = "exited" /\ UNCHANGED <<mode, tripped>>
    BY <2>1, <2>3 DEF Cleared
  <2> QED
    BY <1>15, <2>2, <2>3 DEF WriteFrontmatter
<1>16. CASE AppendExited
  BY <1>16 DEF AppendExited, Cleared
<1>17. CASE AppendEntered
  <2>1. s.sub = "EXIT" /\ s.stage \in 1..3
    BY <1>17 DEF AppendEntered, Stages, LastStage
  <2>2. s'.stage = s.stage + 1 /\ s'.sub \in {"DRAFT", "PREVIEW"}
    <3>1. s' = [s EXCEPT !.pending = "none", !.docDispatched = FALSE, !.revDispatched = FALSE,
                         !.stage = s.stage + 1, !.attempt = 0, !.stageExited = FALSE,
                         !.sub = IF s.stage + 1 <= LastStage THEN "DRAFT" ELSE "PREVIEW",
                         !.exitValidated = FALSE, !.result = NoResult]
      BY <1>17 DEF AppendEntered, Cleared, OnStageEntered, ResetDoc, ResetReview
    <3> QED
      BY <3>1
  <2>3. Advances
    BY <2>1, <2>2 DEF Advances, GateSub, NoDiff, LastStage
  <2> QED
    BY <2>3
<1>18. CASE RollbackStage
  BY <1>18
     DEF RollbackStage, Executing, Append, Cleared, OnStageRolledBack, ResetDoc,
         ResetReview
<1>19. CASE RejectRun
  <2>1. s.pending \in {"record_backlog", "delete_branch", "complete_run"}
    BY <1>19 DEF RejectRun, Executing
  <2>2. /\ drv = "exec" /\ drv' = "loop" /\ UNCHANGED <<mode, todo, tripped, marked, commits, scar>>
        /\ s'.pending = "none" /\ s'.result = s.result /\ s'.attempt = s.attempt
        /\ s'.sub = s.sub /\ s'.stage = s.stage /\ s'.infra = s.infra
        /\ s'.target = s.target /\ s'.scopeOverflow = s.scopeOverflow
        /\ s'.rejected = s.rejected /\ s'.stageExited = s.stageExited
        /\ s'.exitValidated = s.exitValidated /\ FlagsSame
        /\ GateSame \/ (s'.status = "completed" /\ s'.awaiting = "none")
    <3>1. CASE Append([Cleared EXCEPT !.backlog = TRUE])
      BY <1>19, <3>1
         DEF RejectRun, Executing, Append, Cleared, GateSame, FlagsSame
    <3>2. CASE Append([Cleared EXCEPT !.branchDeleted = TRUE])
      BY <1>19, <3>2
         DEF RejectRun, Executing, Append, Cleared, GateSame, FlagsSame
    <3>3. CASE Append(OnRunCompleted(Cleared))
      BY <1>19, <3>3
         DEF RejectRun, Executing, Append, Cleared, OnRunCompleted, GateSame,
             FlagsSame
    <3> QED
      BY <1>19, <3>1, <3>2, <3>3 DEF RejectRun
  <2> QED
    BY <2>1, <2>2 DEF GateSame, FlagsSame
<1>20. ASSUME NEW d \in {"go", "no_go"}, HumanTriage(d) PROVE JourneyStep
  BY <1>20 DEF HumanTriage, Submit, Cleared
<1>21. ASSUME NEW v \in {"no_comment", "comment", "revise"}, HumanReview(v)
       PROVE  JourneyStep
  BY <1>21 DEF HumanReview, Submit, Cleared
<1>22. ASSUME NEW clear \in BOOLEAN, HumanRetry(clear) PROVE JourneyStep
  BY <1>22
     DEF HumanRetry, AppendHuman, Unlocked, Cleared, OnHumanRetry, ResetDoc,
         ResetReview
<1>23. ASSUME NEW i \in Stages, HumanReturn(i) PROVE JourneyStep
  BY <1>23 DEF HumanReturn, AppendHuman, Unlocked, Cleared, OnHumanReturn
<1>24. CASE Abandon
  BY <1>24 DEF Abandon, AppendHuman, Unlocked, Cleared, OnRunCompleted
<1>25. CASE UNCHANGED vars
  BY <1>25 DEF vars
<1> HIDE DEF BInv, TypeOK, StateTypes, UInv, Blame, Live, GateSub, NoResult,
             Results, ResultsFound, ReturnsAimed, StagesLeft, Driven,
             GatesPlaced, ResultsPlaced, StepsInOrder, JourneyStep, Stays,
             Backs, Passes, LetsThrough, Advances, NoDiff, Review, HumanGates,
             ResultCommands, ExitCommands, RejectCommands, AuthorSubs
<1> QED
  BY <1>1, <1>2, <1>3, <1>4, <1>5, <1>6, <1>7, <1>8, <1>9, <1>10, <1>11, <1>12,
     <1>13, <1>14, <1>15, <1>16, <1>17, <1>18, <1>19, <1>20, <1>21, <1>22,
     <1>23, <1>24, <1>25
     DEF Next, Driver, Human

-----------------------------------------------------------------------------
(* What every run keeps.                                                   *)

(***************************************************************************)
(* Damage stays known.                                                     *)
(***************************************************************************)
LEMMA ScarsStay == ASSUME [Next]_vars, scar' = "none" PROVE scar = "none"
<1>1. CASE UNCHANGED vars
  BY <1>1 DEF vars
<1>2. ASSUME NEW name, name # "none", Blame(name) PROVE FALSE
  BY <1>2 DEF Blame
<1>3. ASSUME NEW d, HumanTriage(d) PROVE scar = "none"
  BY <1>2, <1>3 DEF HumanTriage, Submit
<1>4. ASSUME NEW v, HumanReview(v) PROVE scar = "none"
  BY <1>2, <1>4 DEF HumanReview, Submit
<1>5. ASSUME NEW clear, HumanRetry(clear) PROVE scar = "none"
  BY <1>2, <1>5 DEF HumanRetry
<1>6. ASSUME NEW i, HumanReturn(i) PROVE scar = "none"
  BY <1>6 DEF HumanReturn
<1>7. CASE Start \/ Stop \/ BreakerTrips \/ Issue \/ Backoff \/ Wake \/ Crash
  BY <1>2, <1>7 DEF Start, Stop, BreakerTrips, Issue, Backoff, Wake, Crash
<1>8. CASE AgentReplies \/ NoDiffReplies \/ ValidateResult \/ CommitResult \/ CheckpointResult
  BY <1>2, <1>8
     DEF AgentReplies, NoDiffReplies, ValidateResult, CommitResult,
         CheckpointResult
<1>9. CASE PublishResult \/ ValidateDocument \/ WriteFrontmatter \/ AppendExited
  BY <1>2, <1>9
     DEF PublishResult, ValidateDocument, WriteFrontmatter, AppendExited
<1>10. CASE AppendEntered \/ RollbackStage \/ RejectRun \/ Abandon
  BY <1>10 DEF AppendEntered, RollbackStage, RejectRun, Abandon
<1> QED
  BY <1>1, <1>3, <1>4, <1>5, <1>6, <1>7, <1>8, <1>9, <1>10
     DEF Next, Driver, Human

(***************************************************************************)
(* A run that has just been started keeps the invariant.                   *)
(***************************************************************************)
LEMMA InitHolds == Init => AInv
<1> SUFFICES ASSUME Init PROVE AInv
  OBVIOUS
<1> USE DEF Init, NoDiff, Review, HumanGates, ResultCommands, ExitCommands,
            RejectCommands,
            AuthorSubs, NoResult, LastStage
<1>1. TypeOK
  <2>1. s \in StateTypes
    BY AuthorStageAssumption DEF StateTypes, Substates, Commands
  <2>2. marked \in BOOLEAN /\ tripped \in BOOLEAN
    OBVIOUS
  <2>3. drv = "off" /\ mode = "run" /\ todo = "none" /\ commits \in 0..1 /\ scar = "none"
    OBVIOUS
  <2> HIDE DEF Init
  <2> QED
    BY <2>1, <2>2, <2>3 DEF TypeOK
<1>2. BudgetLeft
  BY AuthorStageAssumption DEF BudgetLeft
<1>3. ResultsFound /\ Unanswered /\ ReturnsAimed
  BY AuthorStageAssumption DEF ResultsFound, Unanswered, ReturnsAimed
<1>4. StagesLeft
  BY DEF StagesLeft, Stages
<1>5. Driven /\ ResultsPlaced /\ StepsInOrder /\ FlagsAnswered
  BY DEF Driven, ResultsPlaced, StepsInOrder, FlagsAnswered, Live
<1>6. GatesPlaced
  BY DEF GatesPlaced, Live, GateSub
<1> QED
  BY <1>1, <1>2, <1>3, <1>4, <1>5, <1>6 DEF AInv, BInv, UInv

(***************************************************************************)
(* The invariant of a run of the requirement stages.                       *)
(***************************************************************************)
THEOREM AuthorStageInvariance == Spec => []AInv
<1>1. AInv /\ [Next]_vars => AInv'
  <2> SUFFICES ASSUME AInv, [Next]_vars PROVE AInv'
    OBVIOUS
  <2>1. BInv
    BY DEF AInv
  <2>2. BInv'
    BY <2>1, TypesStep, BudgetStep, ResultsStep, UnansweredStep, ReturnsStep,
       StagesStep
       DEF BInv
  <2>3. ASSUME scar' = "none" PROVE UInv'
    <3>1. UInv
      BY <2>3, ScarsStay DEF AInv
    <3> QED
      BY <2>1, <2>3, <3>1, DrivenStep, GatesStep, PlacedStep, OrderStep,
         FlagsStep
         DEF UInv
  <2> QED
    BY <2>2, <2>3 DEF AInv
<1> QED
  BY <1>1, InitHolds, PTL DEF Spec

(***************************************************************************)
(* The types, and with them that no attempt beyond the limit is counted.   *)
(***************************************************************************)
THEOREM AuthorStageTypes == Spec => []TypeOK
<1>1. AInv => TypeOK
  BY DEF AInv, BInv
<1> QED
  BY <1>1, AuthorStageInvariance, PTL

(***************************************************************************)
(* run_loop stops an undamaged run only when it is over or waits for a     *)
(* human at a gate.                                                        *)
(***************************************************************************)
THEOREM HaltsExplained == Spec => []HaltIsExplained
<1>1. AInv => HaltIsExplained
  <2> SUFFICES ASSUME AInv, scar = "none", drv = "off", Decide(s) = "none",
                      s.pending = "none", s.status # "completed", s.awaiting = "none"
               PROVE  FALSE
    BY DEF HaltIsExplained
  <2> USE DEF AInv, BInv, UInv, Live, NoDiff, Review, AuthorSubs
  <2>1. /\ s.status = "active" /\ s.sub \notin NoDiff /\ s.sub # "PREVIEW"
        /\ s.sub # "HUMAN_REVIEW"
    BY DEF GatesPlaced, TypeOK, StateTypes
  <2>2. s.result = NoResult
    BY <2>1 DEF Decide, ResultCommand
  <2>3. CASE s.stage = 1 /\ s.rejected
    BY <2>1, <2>2, <2>3 DEF Decide, RejectCommand
  <2>4. CASE ~(s.stage = 1 /\ s.rejected)
    <3>1. Decide(s) = IF s.scopeOverflow THEN "rollback" ELSE StageCommand(s)
      BY <2>1, <2>2, <2>4 DEF Decide
    <3>2. s.sub \in AuthorSubs \cup Review \cup {"EXIT", "RETURNED"}
      BY <2>1, <2>4 DEF GatesPlaced, TypeOK, StateTypes, Substates
    <3>3. ~s.docDispatched \/ s.sub \notin AuthorSubs
      BY <2>1, <2>2 DEF FlagsAnswered
    <3>4. ~s.revDispatched \/ s.sub \notin Review
      BY <2>1, <2>2 DEF FlagsAnswered
    <3>5. ~s.stageExited
      BY DEF Driven, StagesLeft
    <3> QED
      BY <3>1, <3>2, <3>3, <3>4, <3>5 DEF StageCommand
  <2> QED
    BY <2>3, <2>4
<1> QED
  BY <1>1, AuthorStageInvariance, PTL

(***************************************************************************)
(* A commit made for a result is never left without its result.            *)
(***************************************************************************)
THEOREM CommitsHaveResults == Spec => []CommitsAccounted
<1>1. AInv => CommitsAccounted
  BY DEF AInv, BInv, UInv, TypeOK, StepsInOrder, CommitsAccounted, Live,
         NoResult
<1> QED
  BY <1>1, AuthorStageInvariance, PTL

(***************************************************************************)
(* The verdict of the exit gate is never carried back into drafting.       *)
(***************************************************************************)
THEOREM ExitVerdictStays == Spec => []ExitVerdictIsFresh
<1>1. AInv => ExitVerdictIsFresh
  BY DEF AInv, UInv, FlagsAnswered, ExitVerdictIsFresh, Live
<1> QED
  BY <1>1, AuthorStageInvariance, PTL

(***************************************************************************)
(* The stages implement their promise: an undamaged run goes forward only  *)
(* past the reviewer and then the human (StageJourney).                    *)
(***************************************************************************)
THEOREM JourneyImplemented == Spec => ImplementsJourney
<1>1. Init => Journey!Init
  BY DEF Init, Journey!Init, GateSub, NoDiff
<1>2. ASSUME AInv, [Next]_vars
      PROVE  [scar' = "none" => Journey!Next]_<<s.stage, GateSub>>
  <2> SUFFICES ASSUME scar' = "none", ~UNCHANGED <<s.stage, GateSub>> PROVE Journey!Next
    OBVIOUS
  <2> DEFINE Gate == CASE GateSub = "EXIT" -> "approved"
                       [] GateSub = "HUMAN_REVIEW" -> "reviewed"
                       [] OTHER -> "open"
  <2>1. BInv /\ UInv /\ JourneyStep
    BY <1>2, ScarsStay, JourneySteps DEF AInv
  <2>2. s.stage \in Nat
    BY <2>1 DEF BInv, TypeOK, StateTypes, LastStage
  <2>3. CASE Backs
    <3>1. Gate' = "open" /\ s'.stage \in 1..s.stage
      BY <2>3 DEF Backs
    <3> QED
      BY <3>1 DEF Journey!Next, Journey!SendBack
  <2>4. CASE Passes
    BY <2>4 DEF Passes, Journey!Next, Journey!ReviewerPasses
  <2>5. CASE LetsThrough
    BY <2>5 DEF LetsThrough, Journey!Next, Journey!HumanApproves
  <2>6. CASE Advances
    BY <2>6 DEF Advances, Journey!Next, Journey!Advance
  <2> QED
    BY <2>1, <2>3, <2>4, <2>5, <2>6 DEF JourneyStep, Stays
<1> QED
  BY <1>1, <1>2, AuthorStageInvariance, PTL DEF Spec, ImplementsJourney
=============================================================================
