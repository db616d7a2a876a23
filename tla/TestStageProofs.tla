--------------------------- MODULE TestStageProofs ---------------------------
(***************************************************************************)
(* What a run keeps in M-TEST, for any limits: the types, the verdicts on  *)
(* the tests that leave for M-IMPL, the one budget of the stage and the    *)
(* explanation of every stop.                                              *)
(***************************************************************************)
EXTENDS TestStage, TLAPS

ResultCommands == {"validate", "checkpoint", "publish"}
ExitCommands == {"check_trace", "commit_tests", "write_frontmatter"}
Workers == {"WRITE", "PRISM_REVIEW"}

(***************************************************************************)
(* What the process holds: no command but the one it executes.             *)
(***************************************************************************)
Driving ==
    /\ drv = "left" <=> s.stage # "M-TEST"
    /\ drv = "emit" <=> todo # "none"
    /\ drv \in {"detached", "emit", "left"} => s.pending = "none"
    /\ drv = "exec" => s.pending # "none"
    /\ drv = "loop" => s.pending \in {"none", "collect_tests", "run_tests"}

(***************************************************************************)
(* A result is of the substate that asked for it, and nobody is asked      *)
(* while one is in progress; a missing diff is Shield's.                   *)
(***************************************************************************)
ResultsPlaced ==
    /\ s.result # NoResult =>
          s.awaiting = "none" /\ s.sub \in Workers \cup NoDiff
    /\ s.result # NoResult /\ s.sub \in Workers => s.result.of = s.sub
    /\ s.result.verdict \in {"diff", "no_diff"} => s.result.of = "WRITE"
    /\ s.sub \in NoDiff => s.result.of = "WRITE" /\ s.result.step = "submitted"

(***************************************************************************)
(* The command in flight, or the rest of one, belongs to the substate.     *)
(***************************************************************************)
CommandsPlaced ==
    /\ s.pending # "none" /\ s.sub \notin NoDiff =>
          /\ s.awaiting = "none"
          /\ s.pending \in ResultCommands <=> s.result # NoResult
    /\ s.sub \in NoDiff => s.pending \in {"none", "dispatch"}
    /\ s.pending = "validate" => s.result.step = "submitted"
    /\ s.pending = "dispatch" => s.sub \in Workers \cup NoDiff
    /\ s.pending = "capture_baseline" => s.sub \in {"DISPATCH", "WRITE"}
    /\ s.pending = "collect_tests" => s.sub = "COLLECT"
    /\ s.pending = "run_tests" => s.sub = "RED_CHECK"
    /\ s.pending \in ExitCommands => s.sub = "EXIT"
    /\ s.pending = "check_trace" => ~s.tracePassed
    /\ s.pending = "commit_tests" => s.tracePassed
    /\ s.pending = "write_frontmatter" => s.tracePassed /\ s.testCommitted
    /\ s.pending = "rollback" => s.sub \in {"DIAGNOSE", "RETURNED"}
    /\ drv = "detached" =>
          /\ s.awaiting = "none" /\ s.sub \in Workers \cup NoDiff \cup {"RED_CHECK"}
          /\ s.sub \notin NoDiff => s.result = NoResult

(***************************************************************************)
(* The event still owed belongs to the substate the first of the pair left.*)
(***************************************************************************)
OwedPlaced ==
    /\ todo # "none" => s.awaiting = "none"
    /\ todo # "none" /\ s.sub \notin NoDiff => s.result = NoResult
    /\ todo = "asset_deleted" => s.sub = "WRITE"
    /\ todo = "baseline_defect" => s.sub \in {"DISPATCH", "WRITE"}
    /\ todo \in {"contract_error", "diagnosis"} => s.sub = "DIAGNOSE"
    /\ todo = "rejected" => s.sub \in Workers \cup NoDiff
    /\ todo = "entered" => s.sub = "EXIT" /\ s.tracePassed /\ s.testCommitted

(***************************************************************************)
(* A spent budget has escalated: nothing is left to be attempted.          *)
(***************************************************************************)
BudgetLeft ==
    s.attempt = AttemptLimit =>
        s.awaiting = "escalation" \/ s.sub = "RETURNED" \/ drv = "left"

(***************************************************************************)
(* The verdicts on the tests as they lie in the tree, by the substate the  *)
(* run has come to.                                                        *)
(***************************************************************************)
VerdictsHold ==
    /\ s.baselineCaptured => "baseline" \in tests.judged
    /\ drv # "left" =>
        /\ \/ s.sub \in {"COLLECT", "RED_CHECK", "PRISM_REVIEW", "EXIT"} \cup NoDiff
           \/ s.result # NoResult \/ s.pending = "dispatch" \/ (drv = "detached" /\ s.sub # "RED_CHECK")
           => s.baselineCaptured
        /\ "cleaned" \notin hist.damage =>
              /\ s.sub \in {"RED_CHECK", "PRISM_REVIEW", "EXIT"} => "collected" \in tests.judged
              /\ s.sub \in {"PRISM_REVIEW", "EXIT"} => "red" \in tests.judged
              /\ s.sub = "EXIT" => "prism" \in tests.judged
              /\ s.sub = "EXIT" /\ s.tracePassed => "trace" \in tests.judged
              /\ s.sub = "EXIT" /\ s.testCommitted => "frozen" \in tests.judged
        /\ s.tracePassed => s.sub \in {"EXIT", "RETURNED"}
        /\ s.testCommitted => s.tracePassed
        /\ s.testCommitted /\ s.sub = "EXIT" => tests.dirty = "clean"

(***************************************************************************)
(* One charge per command; and where Shield may be asked again the rounds  *)
(* it has written are paid for.                                            *)
(***************************************************************************)
RoundsPaid ==
    /\ hist.paid <= 1
    /\ s.pending # "none" \/ drv \in {"detached", "emit"} => hist.paid = 0
    /\ "torn" \notin hist.damage =>
          /\ hist.rounds <= s.attempt + 1
          /\ s.sub \in {"DISPATCH", "WRITE"} /\ s.result = NoResult /\ todo # "asset_deleted"
                => hist.rounds <= s.attempt

(***************************************************************************)
(* In an undamaged run a flag stands for a dispatch under way, the next    *)
(* substate's conditions are met, and an exit goes on.                     *)
(***************************************************************************)
Busy == s.pending = "dispatch" \/ drv = "detached" \/ todo = "rejected"

FlagsAnswered ==
    /\ s.sub \in {"RED_CHECK", "PRISM_REVIEW"} => s.testCollected
    /\ s.sub = "PRISM_REVIEW" => s.redValidated
    /\ s.stage = "M-IMPL" => ~s.stageExited
    /\ hist.damage \subseteq {"cleaned"} =>
        /\ s.sub \in {"WRITE", "NO_DIFF_EXPLAIN"} /\ s.docDispatched =>
              Busy \/ (s.sub = "WRITE" /\ s.result # NoResult)
        /\ s.sub = "NO_DIFF_REVIEW" /\ s.noDiffDispatched => Busy
        /\ s.sub = "PRISM_REVIEW" /\ s.revDispatched =>
              Busy \/ s.result # NoResult \/ s.awaiting = "rollback"
        /\ s.stageExited => todo = "entered"
        /\ s.sub = "DIAGNOSE" =>
              s.stubGap \/ s.awaiting = "rollback" \/ todo \in {"contract_error", "diagnosis"}

TInv ==
    /\ TypeOK /\ Driving /\ ResultsPlaced /\ CommandsPlaced /\ OwedPlaced /\ BudgetLeft
    /\ VerdictsHold /\ FrozenIsJudged /\ RoundsPaid /\ FlagsAnswered
-----------------------------------------------------------------------------
(* What decide() answers, and where.                                       *)

(***************************************************************************)
(* Each command is decided in the substates that know it: the explanation  *)
(* of a missing diff first, then the result in progress, and nothing more  *)
(* at a human's gate.                                                      *)
(***************************************************************************)
LEMMA DecideFacts ==
    ASSUME s.sub \in Substates
    PROVE  LET c == Decide(s) IN
           /\ c \in Commands \cup {"none"}
           /\ s.sub \in NoDiff => c \in {"none", "dispatch"}
           /\ s.sub \notin NoDiff /\ s.result # NoResult => c \in ResultCommands
           /\ c \in ResultCommands => s.result # NoResult /\ s.sub \notin NoDiff
           /\ c = "validate" => s.result.step = "submitted"
           /\ c \notin ResultCommands \cup {"none"} /\ s.sub \notin NoDiff =>
                 s.awaiting = "none" /\ s.result = NoResult
           /\ c = "dispatch" => /\ s.sub \in {"DISPATCH"} \cup Workers \cup NoDiff
                                /\ s.sub \in {"DISPATCH", "WRITE"} => s.baselineCaptured
           /\ c = "capture_baseline" => s.sub \in {"DISPATCH", "WRITE"}
           /\ c = "collect_tests" => s.sub = "COLLECT"
           /\ c = "run_tests" => s.sub = "RED_CHECK"
           /\ c \in ExitCommands => s.sub = "EXIT"
           /\ c = "check_trace" => ~s.tracePassed
           /\ c = "commit_tests" => s.tracePassed
           /\ c = "write_frontmatter" => s.tracePassed /\ s.testCommitted
           /\ c = "rollback" => s.sub \in {"DIAGNOSE", "RETURNED"}
<1> USE DEF NoDiff, Workers, ResultCommands, ExitCommands, Commands
<1>1. CASE s.sub \in NoDiff
  BY <1>1 DEF Decide
<1>2. CASE s.sub \notin NoDiff /\ s.result # NoResult
  <2>1. Decide(s) = ResultCommand(s)
    BY <1>2 DEF Decide
  <2> QED
    BY <1>2, <2>1 DEF ResultCommand
<1>3. CASE s.sub \notin NoDiff /\ s.result = NoResult /\ s.awaiting # "none"
  <2>1. Decide(s) = "none"
    BY <1>3 DEF Decide
  <2> QED
    BY <1>3, <2>1
<1>4. CASE s.sub \notin NoDiff /\ s.result = NoResult /\ s.awaiting = "none"
  <2>1. Decide(s) = StageCommand(s)
    BY <1>4 DEF Decide
  <2>2. CASE s.sub \in {"DISPATCH", "WRITE"}
    BY <1>4, <2>1, <2>2 DEF StageCommand
  <2>3. CASE s.sub = "PRISM_REVIEW"
    BY <1>4, <2>1, <2>3 DEF StageCommand, ReviewCommand
  <2>4. CASE s.sub = "EXIT"
    BY <1>4, <2>1, <2>4 DEF StageCommand, ExitCommand
  <2>5. CASE s.sub \in {"COLLECT", "RED_CHECK", "DIAGNOSE", "RETURNED"}
    BY <1>4, <2>1, <2>5 DEF StageCommand
  <2> QED
    BY <1>4, <2>2, <2>3, <2>4, <2>5 DEF Substates
<1> QED
  BY <1>1, <1>2, <1>3, <1>4

-----------------------------------------------------------------------------
(* No result is none of the results.                                       *)
LEMMA NoResultFacts ==
    NoResult.of = "none" /\ NoResult.step = "none" /\ NoResult.verdict = "none"
BY DEF NoResult

(* What the events with several outcomes do, field by field.               *)

\* The fields no report of a failure changes.
Frame ==
    /\ s'.pending = "none" /\ s'.stage = s.stage
    /\ s'.baselineCaptured = s.baselineCaptured /\ s'.redValidated = s.redValidated
    /\ s'.testCommitted = s.testCommitted /\ s'.stageExited = s.stageExited
    /\ drv' = "loop" /\ todo' = "none" /\ cycles' = cycles

Charges ==
    /\ s'.attempt = IF s.attempt < AttemptLimit THEN s.attempt + 1 ELSE s.attempt
    /\ s'.awaiting = IF s.attempt + 1 >= AttemptLimit THEN "escalation" ELSE s.awaiting

Spares == s'.attempt = s.attempt /\ s'.awaiting = s.awaiting

ReviewSame == s'.revDispatched = s.revDispatched
FlagsSame == ReviewSame /\ s'.docDispatched = s.docDispatched

GoesToDesign ==
    /\ s'.sub = "DIAGNOSE" /\ s'.stubGap = TRUE /\ s'.tracePassed = s.tracePassed
    /\ Spares

AsksHuman(gate) ==
    /\ s'.sub = s.sub /\ s'.tracePassed = s.tracePassed
    /\ s'.attempt = s.attempt /\ s'.awaiting = gate /\ FlagsSame

GoesToWrite ==
    /\ s'.sub = "WRITE" /\ s'.docDispatched = FALSE /\ ReviewSame
    /\ s'.tracePassed \in {FALSE, s.tracePassed} /\ Charges

ReviewsAgain ==
    /\ s.sub = "PRISM_REVIEW" /\ s'.sub = s.sub /\ s'.revDispatched = FALSE
    /\ s'.tracePassed = s.tracePassed /\ Charges

(***************************************************************************)
(* A failed verdict about `check', whose charge is booked.                 *)
(***************************************************************************)
FailEffect(check) ==
    /\ Frame /\ hist' = Charged(hist)
    /\ s'.result = NoResult /\ s'.testCollected = s.testCollected
    /\ s'.noDiffDispatched = s.noDiffDispatched
    /\ \/ check \in {"upstream_defect", "stub_gap"} /\ GoesToDesign
       \/ check \in {"collect_defect", "contamination"} /\ AsksHuman("escalation")
             /\ s'.stubGap = s.stubGap
       \/ /\ check \in {"trace", "commit", "test_defect", "other", "rejected"}
          /\ check \in {"trace", "commit"} => s'.tracePassed = FALSE
          /\ GoesToWrite
       \/ check = "spec_gap" /\ AsksHuman("rollback")
       \/ check \in {"other", "rejected"} /\ ReviewsAgain

Checks == {"upstream_defect", "stub_gap", "collect_defect", "contamination", "trace",
           "commit", "test_defect", "spec_gap", "other", "rejected"}

(* What a failed verdict does to the fields of the invariant.              *)
LEMMA FailProjects ==
    ASSUME TypeOK, NEW check \in Checks, Append(OnVerdictFailed(Cleared, check))
    PROVE  FailEffect(check)
<1> USE DEF TypeOK, StateTypes
<1> DEFINE n == IF s.attempt < AttemptLimit THEN s.attempt + 1 ELSE s.attempt
           gate == IF s.attempt + 1 >= AttemptLimit THEN "escalation" ELSE s.awaiting
           u == [s EXCEPT !.pending = "none", !.result = NoResult, !.format = 0]
<1>1. /\ s' = OnVerdictFailed(Cleared, check) /\ drv' = "loop" /\ todo' = "none"
      /\ hist' = Charged(hist) /\ cycles' = cycles
  BY DEF Append, AppendThen
<1>2. [[Cleared EXCEPT !.result = NoResult] EXCEPT !.format = 0] = u
  BY DEF Cleared
<1>3. CASE check \in {"upstream_defect", "stub_gap"}
  <2>1. s' = [s EXCEPT !.pending = "none", !.result = NoResult, !.format = 0,
                       !.sub = "DIAGNOSE", !.stubGap = TRUE]
    BY <1>1, <1>3 DEF OnVerdictFailed, Cleared, ToDesign
  <2> QED
    BY ZenonT(40), <1>1, <1>3, <2>1 DEF FailEffect, Frame, GoesToDesign, Spares
<1>4. CASE check \in {"collect_defect", "contamination"}
  <2>1. s' = [s EXCEPT !.pending = "none", !.result = NoResult, !.format = 0,
                       !.awaiting = "escalation"]
    BY <1>1, <1>4 DEF OnVerdictFailed, Cleared
  <2> QED
    BY <1>1, <1>4, <2>1 DEF FailEffect, Frame, AsksHuman, FlagsSame, ReviewSame
<1>5. CASE check \in {"trace", "commit"}
  <2>1. s' = [s EXCEPT !.pending = "none", !.result = NoResult, !.format = 0,
                       !.tracePassed = FALSE, !.sub = "WRITE", !.docDispatched = FALSE,
                       !.attempt = n, !.awaiting = gate]
    BY <1>1, <1>5 DEF OnVerdictFailed, Cleared, ToWrite, ResetDoc, Consume
  <2> QED
    BY <1>1, <1>5, <2>1 DEF FailEffect, Frame, GoesToWrite, Charges, ReviewSame
<1>6. CASE check = "test_defect" \/ (check \in {"other", "rejected"} /\ s.sub # "PRISM_REVIEW")
  <2>1. s' = [s EXCEPT !.pending = "none", !.result = NoResult, !.format = 0,
                       !.stubGap = FALSE, !.sub = "WRITE", !.docDispatched = FALSE,
                       !.attempt = n, !.awaiting = gate]
    BY <1>1, <1>6 DEF OnVerdictFailed, Cleared, ToWrite, ResetDoc, Consume, Redo
  <2> QED
    BY ZenonT(40), <1>1, <1>6, <2>1
       DEF FailEffect, Frame, GoesToWrite, Charges, ReviewSame
<1>7. CASE check \in {"other", "rejected"} /\ s.sub = "PRISM_REVIEW"
  <2>1. s' = [s EXCEPT !.pending = "none", !.result = NoResult, !.format = 0,
                       !.stubGap = FALSE, !.revDispatched = FALSE,
                       !.attempt = n, !.awaiting = gate]
    BY <1>1, <1>7 DEF OnVerdictFailed, Cleared, ResetReview, Consume, Redo
  <2> QED
    BY ZenonT(40), <1>1, <1>7, <2>1 DEF FailEffect, Frame, ReviewsAgain, Charges
<1>8. CASE check = "spec_gap"
  <2>1. s' = [s EXCEPT !.pending = "none", !.result = NoResult, !.format = 0,
                       !.stubGap = FALSE, !.awaiting = "rollback"]
    BY <1>1, <1>8 DEF OnVerdictFailed, Cleared
  <2> QED
    BY ZenonT(40), <1>1, <1>8, <2>1
       DEF FailEffect, Frame, AsksHuman, FlagsSame, ReviewSame
<1> QED
  BY <1>3, <1>4, <1>5, <1>6, <1>7, <1>8 DEF Checks

(***************************************************************************)
(* A dispatch that failed without a verdict.                               *)
(***************************************************************************)
TurnFails ==
    \/ Append(OnSemanticFailure(Cleared))
    \/ Append(OnInfraFailure(Cleared)) \/ Append(OnFormatFailure(Cleared))

FlagReset ==
    CASE s.sub = "PRISM_REVIEW" ->
            /\ s'.revDispatched = FALSE /\ s'.docDispatched = s.docDispatched
            /\ s'.noDiffDispatched = s.noDiffDispatched
      [] s.sub = "NO_DIFF_REVIEW" -> FlagsSame /\ s'.noDiffDispatched = FALSE
      [] OTHER -> /\ s'.docDispatched = FALSE /\ ReviewSame
                  /\ s'.noDiffDispatched = s.noDiffDispatched

TurnEffect ==
    /\ Frame /\ hist' = Charged(hist)
    /\ s'.result = s.result /\ s'.testCollected = s.testCollected
    /\ s'.sub = s.sub /\ s'.tracePassed = s.tracePassed /\ s'.stubGap = s.stubGap
    /\ FlagReset
    /\ Charges \/ (s'.attempt = s.attempt /\ s'.awaiting \in {s.awaiting, "escalation"})

(* What a turn without a result does.                                      *)
LEMMA TurnProjects == ASSUME TypeOK, TurnFails PROVE TurnEffect
<1> USE DEF TypeOK, StateTypes
<1> DEFINE n == IF s.attempt < AttemptLimit THEN s.attempt + 1 ELSE s.attempt
           gate == IF s.attempt + 1 >= AttemptLimit THEN "escalation" ELSE s.awaiting
           doc == IF s.sub \in {"PRISM_REVIEW", "NO_DIFF_REVIEW"} THEN s.docDispatched
                  ELSE FALSE
           rev == IF s.sub = "PRISM_REVIEW" THEN FALSE ELSE s.revDispatched
           nd == IF s.sub = "NO_DIFF_REVIEW" THEN FALSE ELSE s.noDiffDispatched
<1>1. /\ drv' = "loop" /\ todo' = "none" /\ hist' = Charged(hist) /\ cycles' = cycles
  BY DEF TurnFails, Append, AppendThen
<1>2. ResetDispatchFlag(Cleared) =
        [s EXCEPT !.pending = "none", !.docDispatched = doc, !.revDispatched = rev,
                  !.noDiffDispatched = nd]
  BY DEF ResetDispatchFlag, Cleared, ResetReview, ResetDoc
<1>3. CASE Append(OnSemanticFailure(Cleared))
  <2>1. s' = [s EXCEPT !.pending = "none", !.docDispatched = doc, !.revDispatched = rev,
                       !.noDiffDispatched = nd, !.infra = 0, !.format = 0,
                       !.attempt = n, !.awaiting = gate]
    <3> DEFINE w == [s EXCEPT !.pending = "none", !.docDispatched = doc,
                              !.revDispatched = rev, !.noDiffDispatched = nd,
                              !.infra = 0, !.format = 0]
    <3> HIDE DEF doc, rev, nd
    <3>1. ResetDispatchFlag(Healthy(Cleared)) = w
      <4>1. CASE s.sub = "PRISM_REVIEW"
        BY ZenonT(40), <4>1
           DEF doc, rev, nd, Healthy, ResetDispatchFlag, Cleared, ResetReview
      <4>2. CASE s.sub = "NO_DIFF_REVIEW"
        BY ZenonT(40), <4>2
           DEF doc, rev, nd, Healthy, ResetDispatchFlag, Cleared
      <4>3. CASE s.sub \notin {"PRISM_REVIEW", "NO_DIFF_REVIEW"}
        BY <4>3 DEF doc, rev, nd, Healthy, ResetDispatchFlag, Cleared, ResetDoc
      <4> QED
        BY <4>1, <4>2, <4>3
    <3>2. s' = Consume(w)
      BY <1>3, <3>1 DEF Append, AppendThen, OnSemanticFailure
    <3>3. w.attempt = s.attempt /\ w.awaiting = s.awaiting
      OBVIOUS
    <3>4. s' = [w EXCEPT !.attempt = n, !.awaiting = gate]
      <4> HIDE DEF w
      <4> QED
        BY <3>2, <3>3 DEF Consume
    <3> QED
      BY <3>4
  <2> QED
    BY <1>1, <2>1
       DEF TurnEffect, Frame, FlagReset, Charges, FlagsSame, ReviewSame
<1>4. CASE Append(OnInfraFailure(Cleared)) \/ Append(OnFormatFailure(Cleared))
  <2>1. \E i, f, g : /\ s' = [s EXCEPT !.pending = "none", !.docDispatched = doc,
                                       !.revDispatched = rev, !.noDiffDispatched = nd,
                                       !.infra = i, !.format = f, !.awaiting = g]
                     /\ g \in {s.awaiting, "escalation"}
    <3>1. CASE Append(OnInfraFailure(Cleared))
      <4> DEFINE i == IF s.infra < InfraLimit THEN s.infra + 1 ELSE s.infra
                 g == IF s.infra + 1 >= InfraLimit THEN "escalation" ELSE s.awaiting
      <4>1. s' = [s EXCEPT !.pending = "none", !.docDispatched = doc, !.revDispatched = rev,
                           !.noDiffDispatched = nd, !.infra = i, !.format = s.format,
                           !.awaiting = g]
        BY ZenonT(40), <1>2, <3>1
           DEF Append, AppendThen, OnInfraFailure, Cleared
      <4> QED
        BY <4>1
    <3>2. CASE Append(OnFormatFailure(Cleared))
      <4> DEFINE f == IF s.format < FormatLimit THEN s.format + 1 ELSE s.format
                 g == IF s.format + 1 >= FormatLimit THEN "escalation" ELSE s.awaiting
      <4>1. s' = [s EXCEPT !.pending = "none", !.docDispatched = doc, !.revDispatched = rev,
                           !.noDiffDispatched = nd, !.infra = s.infra, !.format = f,
                           !.awaiting = g]
        BY ZenonT(40), <1>2, <3>2
           DEF Append, AppendThen, OnFormatFailure, Cleared
      <4> QED
        BY <4>1
    <3> QED
      BY <1>4, <3>1, <3>2
  <2>2. /\ Frame /\ s'.result = s.result /\ s'.testCollected = s.testCollected
        /\ s'.sub = s.sub /\ s'.tracePassed = s.tracePassed /\ s'.stubGap = s.stubGap
        /\ s'.attempt = s.attempt /\ s'.awaiting \in {s.awaiting, "escalation"}
    BY <1>1, <2>1 DEF Frame
  <2>3. FlagReset
    BY ZenonT(40), <2>1 DEF FlagReset, FlagsSame, ReviewSame
  <2> QED
    BY <1>1, <2>2, <2>3 DEF TurnEffect
<1> QED
  BY <1>3, <1>4 DEF TurnFails

(***************************************************************************)
(* The verdict on the explanation of a missing diff.                       *)
(***************************************************************************)
NoDiffEffect ==
    /\ Frame /\ hist' = Charged(hist)
    /\ s'.testCollected = s.testCollected
    /\ \/ /\ s.sub = "NO_DIFF_EXPLAIN" /\ s'.sub = "NO_DIFF_REVIEW"
          /\ s'.noDiffDispatched = FALSE
          /\ s'.result = s.result /\ s'.tracePassed = s.tracePassed /\ Spares
       \/ /\ s.sub = "NO_DIFF_REVIEW" /\ s'.sub = "WRITE" /\ s'.tracePassed = s.tracePassed
          /\ s'.result # NoResult /\ s'.result.of = s.result.of /\ Spares
          /\ s'.result.step = "validated" /\ s'.result.verdict = s.result.verdict
       \/ s'.result = NoResult /\ GoesToWrite

(* What the reply on a missing diff does.                                  *)
LEMMA NoDiffProjects == ASSUME TypeOK, ResultsPlaced, NoDiffReplies PROVE NoDiffEffect
<1> USE DEF TypeOK, StateTypes
<1> DEFINE n == IF s.attempt < AttemptLimit THEN s.attempt + 1 ELSE s.attempt
           gate == IF s.attempt + 1 >= AttemptLimit THEN "escalation" ELSE s.awaiting
<1>1. CASE s.sub = "NO_DIFF_EXPLAIN" /\ Append(OnNoDiffExplained(Cleared))
  <2>1. s' = [s EXCEPT !.pending = "none", !.sub = "NO_DIFF_REVIEW",
                       !.noDiffDispatched = FALSE]
    BY <1>1 DEF Append, AppendThen, OnNoDiffExplained, Cleared
  <2> QED
    BY <1>1, <2>1 DEF Append, AppendThen, NoDiffEffect, Frame, Spares
<1>2. CASE s.sub = "NO_DIFF_REVIEW" /\ Append(OnNoDiffReviewed(Cleared, TRUE))
  <2> DEFINE r == [s.result EXCEPT !.step = "validated"]
  <2>1. s' = [s EXCEPT !.pending = "none", !.sub = "WRITE", !.noDiffDispatched = FALSE,
                       !.result = r]
    BY <1>2 DEF Append, AppendThen, OnNoDiffReviewed, Cleared
  <2>2. s.result \in Results
    BY <1>2 DEF ResultsPlaced, NoDiff, NoResult
  <2>3. /\ r # NoResult /\ r.of = s.result.of /\ r.step = "validated"
        /\ r.verdict = s.result.verdict
    BY <2>2 DEF Results, NoResult
  <2> HIDE DEF r
  <2>4. /\ s'.result = r /\ s'.sub = "WRITE" /\ Frame /\ Spares /\ hist' = Charged(hist)
        /\ s'.testCollected = s.testCollected /\ s'.tracePassed = s.tracePassed
    BY ZenonT(40), <1>2, <2>1 DEF Append, AppendThen, Frame, Spares
  <2> QED
    BY <1>2, <2>3, <2>4 DEF NoDiffEffect
<1>3. CASE Append(OnNoDiffReviewed(Cleared, FALSE))
  <2>1. s' = [s EXCEPT !.pending = "none", !.sub = "WRITE", !.noDiffDispatched = FALSE,
                       !.result = NoResult, !.stubGap = FALSE, !.docDispatched = FALSE,
                       !.attempt = n, !.awaiting = gate]
    BY ZenonT(40), <1>3
       DEF Append, AppendThen, OnNoDiffReviewed, ToWrite, ResetDoc, Consume,
           Cleared
  <2> QED
    BY ZenonT(40), <1>3, <2>1
       DEF Append, AppendThen, NoDiffEffect, Frame, GoesToWrite, Charges,
           ReviewSame
<1> QED
  BY <1>1, <1>2, <1>3 DEF NoDiffReplies

(***************************************************************************)
(* Prism's verdict, and a collection that failed by itself.                *)
(***************************************************************************)
PrismEffect ==
    /\ Frame /\ s'.result = NoResult /\ s'.testCollected = s.testCollected
    /\ s'.noDiffDispatched = s.noDiffDispatched
    /\ \/ /\ s.result.verdict = "pass" /\ s'.sub = "EXIT"
          /\ s'.tracePassed = s.tracePassed /\ Spares
       \/ s.result.verdict = "test_defect" /\ GoesToWrite
       \/ s.result.verdict = "test_plan_defect" /\ GoesToDesign
       \/ s.result.verdict = "spec_defect" /\ AsksHuman("rollback")
       \/ /\ s.result.verdict \notin {"pass", "test_defect", "test_plan_defect", "spec_defect"}
          /\ s'.sub = s.sub /\ s'.tracePassed = s.tracePassed /\ Spares

(* What the review of the tests does.                                      *)
LEMMA PrismProjects ==
    ASSUME TypeOK, s' = OnPrismVerdict(Cleared, s.result.verdict),
           drv' = "loop", todo = "none", todo' = todo, cycles' = cycles
    PROVE  PrismEffect
<1> USE DEF TypeOK, StateTypes
<1> DEFINE n == IF s.attempt < AttemptLimit THEN s.attempt + 1 ELSE s.attempt
           gate == IF s.attempt + 1 >= AttemptLimit THEN "escalation" ELSE s.awaiting
<1>1. CASE s.result.verdict = "test_defect"
  <2>1. s' = [s EXCEPT !.pending = "none", !.result = NoResult, !.sub = "WRITE",
                       !.docDispatched = FALSE, !.attempt = n, !.awaiting = gate]
    BY <1>1 DEF OnPrismVerdict, ToWrite, ResetDoc, Consume, Cleared
  <2> QED
    BY ZenonT(40), <1>1, <2>1
       DEF PrismEffect, Frame, GoesToWrite, Charges, ReviewSame
<1>2. CASE s.result.verdict = "test_plan_defect"
  <2>1. s' = [s EXCEPT !.pending = "none", !.result = NoResult, !.sub = "DIAGNOSE",
                       !.stubGap = TRUE]
    BY <1>2 DEF OnPrismVerdict, ToDesign, Cleared
  <2> QED
    BY ZenonT(40), <1>2, <2>1 DEF PrismEffect, Frame, GoesToDesign, Spares
<1>3. CASE s.result.verdict \notin {"test_defect", "test_plan_defect"}
  <2>1. s' = [s EXCEPT !.pending = "none", !.result = NoResult,
                       !.sub = IF s.result.verdict = "pass" THEN "EXIT" ELSE s.sub,
                       !.awaiting = IF s.result.verdict = "spec_defect" THEN "rollback"
                                    ELSE s.awaiting]
    BY <1>3 DEF OnPrismVerdict, Cleared
  <2> QED
    BY <1>3, <2>1
       DEF PrismEffect, Frame, AsksHuman, Spares, FlagsSame, ReviewSame
<1> QED
  BY <1>1, <1>2, <1>3

CollectionEffect(companion) ==
    /\ s'.pending = "none" /\ s'.sub = "WRITE" /\ s'.docDispatched = FALSE
    /\ s'.testCollected = FALSE /\ s'.result = s.result /\ s'.stage = s.stage
    /\ s'.revDispatched = s.revDispatched /\ s'.noDiffDispatched = s.noDiffDispatched
    /\ s'.baselineCaptured = s.baselineCaptured /\ s'.redValidated = s.redValidated
    /\ s'.testCommitted = s.testCommitted /\ s'.stageExited = s.stageExited
    /\ s'.tracePassed = s.tracePassed
    /\ IF companion = "asset_deleted" THEN Spares ELSE Charges

(* What a failed collection does.                                          *)
LEMMA CollectionProjects ==
    ASSUME TypeOK, NEW companion, s' = OnCollectionFailed(Cleared, companion)
    PROVE  CollectionEffect(companion)
<1> USE DEF TypeOK, StateTypes
<1> DEFINE n == IF s.attempt < AttemptLimit THEN s.attempt + 1 ELSE s.attempt
           gate == IF s.attempt + 1 >= AttemptLimit THEN "escalation" ELSE s.awaiting
<1>1. CASE companion = "asset_deleted"
  <2>1. s' = [s EXCEPT !.pending = "none", !.testCollected = FALSE, !.sub = "WRITE",
                       !.docDispatched = FALSE]
    BY <1>1 DEF OnCollectionFailed, ToWrite, ResetDoc, Cleared
  <2> QED
    BY ZenonT(40), <1>1, <2>1 DEF CollectionEffect, Spares
<1>2. CASE companion # "asset_deleted"
  <2>1. s' = [s EXCEPT !.pending = "none", !.testCollected = FALSE, !.sub = "WRITE",
                       !.docDispatched = FALSE, !.attempt = n, !.awaiting = gate]
    BY <1>2 DEF OnCollectionFailed, ToWrite, ResetDoc, Consume, Cleared
  <2> QED
    BY <1>2, <2>1 DEF CollectionEffect, Charges
<1> QED
  BY <1>1, <1>2


(***************************************************************************)
(* A result that goes on through the pipeline, or turns out to be none.    *)
(***************************************************************************)
PipelineEffect(step) ==
    /\ Frame /\ Spares /\ FlagsSame /\ hist' = Charged(hist)
    /\ s'.sub = s.sub /\ s'.tracePassed = s.tracePassed /\ s'.stubGap = s.stubGap
    /\ s'.testCollected = s.testCollected /\ s'.noDiffDispatched = s.noDiffDispatched
    /\ s'.result # NoResult /\ s'.result.of = s.result.of /\ s'.result.step = step
    /\ s'.result.verdict = s.result.verdict

(* What a step of the pipeline does.                                       *)
LEMMA PipelineProjects ==
    ASSUME TypeOK, s.result # NoResult, NEW step \in {"validated", "checkpointed"},
           Append([Cleared EXCEPT !.result.step = step])
    PROVE  PipelineEffect(step)
<1> USE DEF TypeOK, StateTypes
<1> DEFINE r == [s.result EXCEPT !.step = step]
<1>1. s' = [s EXCEPT !.pending = "none", !.result = r]
  BY DEF Append, AppendThen, Cleared
<1>2. s.result \in Results
  OBVIOUS
<1>3. /\ r # NoResult /\ r.of = s.result.of /\ r.step = step
      /\ r.verdict = s.result.verdict
  BY <1>2 DEF Results, NoResult
<1> HIDE DEF r
<1> QED
  BY ZenonT(40), <1>1, <1>3
     DEF Append, AppendThen, PipelineEffect, Frame, Spares, FlagsSame,
         ReviewSame

DetectEffect ==
    /\ Frame /\ Spares /\ ReviewSame /\ hist' = Charged(hist)
    /\ s'.sub = "NO_DIFF_EXPLAIN" /\ s'.tracePassed = s.tracePassed
    /\ s'.testCollected = s.testCollected /\ s'.result = s.result
    /\ s'.docDispatched = FALSE /\ s'.noDiffDispatched = FALSE

(* What the detection of a missing diff does.                              *)
LEMMA DetectProjects ==
    ASSUME TypeOK, Append(OnNoDiffDetected(Cleared)) PROVE DetectEffect
<1>1. s' = [s EXCEPT !.pending = "none", !.sub = "NO_DIFF_EXPLAIN", !.docDispatched = FALSE,
                     !.noDiffDispatched = FALSE]
  BY DEF Append, AppendThen, OnNoDiffDetected, Cleared
<1> QED
  BY <1>1
     DEF TypeOK, StateTypes, Append, AppendThen, DetectEffect, Frame, Spares,
         ReviewSame

(***************************************************************************)
(* A turn that produced a result.                                          *)
(***************************************************************************)
ReplyEffect ==
    /\ s'.pending = "none" /\ s'.stage = s.stage /\ s'.sub = s.sub /\ Spares /\ FlagsSame
    /\ s'.baselineCaptured = s.baselineCaptured /\ s'.redValidated = s.redValidated
    /\ s'.testCommitted = s.testCommitted /\ s'.stageExited = s.stageExited
    /\ s'.tracePassed = s.tracePassed /\ s'.stubGap = s.stubGap
    /\ s'.testCollected = s.testCollected /\ s'.noDiffDispatched = s.noDiffDispatched
    /\ s'.result # NoResult /\ s'.result.of = s.sub /\ s'.result.step = "submitted"
    /\ s'.result.verdict \in {"diff", "no_diff"} => s.sub = "WRITE"

(* What a reply with a result does.                                        *)
LEMMA ReplyProjects == ASSUME TypeOK, WriteReplies \/ PrismReplies PROVE ReplyEffect
<1>0. PICK v : /\ s' = OnOutcomeDone(Cleared, v) /\ s.sub \in Workers
               /\ v \in {"diff", "no_diff"} => s.sub = "WRITE"
  BY DEF WriteReplies, PrismReplies, Append, AppendThen, PrismVerdicts, Workers
<1> DEFINE r == [of |-> s.sub, step |-> "submitted", verdict |-> v]
<1>1. s' = [s EXCEPT !.pending = "none", !.infra = 0, !.format = 0, !.result = r]
  BY <1>0 DEF OnOutcomeDone, Healthy, Cleared, TypeOK, StateTypes
<1>2. /\ r # NoResult /\ r.of = s.sub /\ r.step = "submitted"
      /\ r.verdict \in {"diff", "no_diff"} => s.sub = "WRITE"
  BY <1>0 DEF NoResult, Workers
<1> HIDE DEF r
<1> QED
  BY <1>1, <1>2
     DEF TypeOK, StateTypes, ReplyEffect, Spares, FlagsSame, ReviewSame

(***************************************************************************)
(* A command that only clears its write-ahead record, or sets one verdict. *)
(***************************************************************************)
GatesKept ==
    /\ s'.result = s.result
    /\ s'.baselineCaptured = s.baselineCaptured /\ s'.redValidated = s.redValidated
    /\ s'.testCommitted = s.testCommitted /\ s'.stageExited = s.stageExited
    /\ s'.tracePassed = s.tracePassed /\ s'.stubGap = s.stubGap
    /\ s'.testCollected = s.testCollected /\ s'.noDiffDispatched = s.noDiffDispatched

Cleaned == s'.pending = "none" /\ s'.sub = s.sub /\ Spares /\ FlagsSame

PlainEffect == Cleaned /\ GatesKept /\ s'.stage = s.stage

(* The handlers that only run on or leave an event owed.                   *)
LEMMA PlainProjects ==
    ASSUME TypeOK, Detach \/ SelectTests \/ BaselineFails \/ RejectDispatch
    PROVE  PlainEffect
BY DEF TypeOK, StateTypes, Detach, SelectTests, BaselineFails, RejectDispatch,
       AppendThen,
       Cleared, PlainEffect, Cleaned, GatesKept, Spares, FlagsSame, ReviewSame

BaselineEffect ==
    /\ Cleaned /\ s'.stage = s.stage
    /\ s'.result = s.result /\ s'.baselineCaptured = TRUE
    /\ s'.redValidated = s.redValidated /\ s'.testCommitted = s.testCommitted
    /\ s'.stageExited = s.stageExited /\ s'.tracePassed = s.tracePassed
    /\ s'.stubGap = s.stubGap /\ s'.testCollected = s.testCollected
    /\ s'.noDiffDispatched = s.noDiffDispatched

(* What the captured baseline does.                                        *)
LEMMA BaselineProjects == ASSUME TypeOK, CaptureBaseline PROVE BaselineEffect
BY DEF TypeOK, StateTypes, CaptureBaseline, Append, AppendThen,
       OnBaselineCaptured, Cleared,
       BaselineEffect, Cleaned, Spares, FlagsSame, ReviewSame

LeaveEffect ==
    /\ Cleaned /\ s'.result = s.result
    /\ s'.baselineCaptured = s.baselineCaptured /\ s'.redValidated = s.redValidated
    /\ s'.testCommitted = s.testCommitted /\ s'.tracePassed = s.tracePassed
    /\ s'.stubGap = s.stubGap /\ s'.testCollected = s.testCollected
    /\ s'.noDiffDispatched = s.noDiffDispatched
    /\ \/ s'.stage = s.stage /\ s'.stageExited = TRUE /\ todo' = "entered"
       \/ s'.stage = "upstream" /\ s'.stageExited = s.stageExited /\ drv' = "left"

(* What the exit and the rollback do.                                      *)
LEMMA LeaveProjects == ASSUME TypeOK, WriteFrontmatter \/ RollbackStage PROVE LeaveEffect
BY ZenonT(40)
   DEF TypeOK, StateTypes, WriteFrontmatter, RollbackStage, AppendThen, Cleared,
       LeaveEffect, Cleaned, Spares, FlagsSame, ReviewSame

RedEffect(valid) ==
    /\ s'.pending = "none" /\ s'.stage = s.stage /\ s'.result = s.result /\ Spares
    /\ s'.baselineCaptured = s.baselineCaptured /\ s'.testCommitted = s.testCommitted
    /\ s'.stageExited = s.stageExited /\ s'.tracePassed = s.tracePassed
    /\ s'.stubGap = s.stubGap /\ s'.testCollected = s.testCollected
    /\ s'.noDiffDispatched = s.noDiffDispatched /\ s'.docDispatched = s.docDispatched
    /\ \/ /\ valid
          /\ s'.redValidated = TRUE /\ s'.sub = "PRISM_REVIEW" /\ s'.revDispatched = FALSE
       \/ /\ ~valid
          /\ s'.redValidated = FALSE /\ s'.sub = "DIAGNOSE"

(* What the judgment of the red run does, valid or not.                    *)
LEMMA RedProjects ==
    ASSUME TypeOK
    PROVE  /\ RedCheck => RedEffect(TRUE)
           /\ ContractError \/ RedCheckInvalid => RedEffect(FALSE)
<1>1. ASSUME RedCheck PROVE RedEffect(TRUE)
  <2>1. s' = [s EXCEPT !.pending = "none", !.redValidated = TRUE, !.sub = "PRISM_REVIEW",
                       !.revDispatched = FALSE]
    BY <1>1
       DEF RedCheck, Append, AppendThen, OnRedValidated, ResetReview, Cleared,
           TypeOK, StateTypes
  <2> QED
    BY <2>1 DEF RedEffect, Spares, TypeOK, StateTypes
<1>2. ASSUME ContractError \/ RedCheckInvalid PROVE RedEffect(FALSE)
  <2>1. s' = [s EXCEPT !.pending = "none", !.redValidated = FALSE, !.sub = "DIAGNOSE"]
    BY <1>2
       DEF ContractError, RedCheckInvalid, AppendThen, OnRedValidated, Cleared,
           TypeOK, StateTypes
  <2> QED
    BY <2>1 DEF RedEffect, Spares, TypeOK, StateTypes
<1> QED
  BY <1>1, <1>2

(***************************************************************************)
(* A dispatch raises the flag of whoever is asked.                         *)
(***************************************************************************)
IssueEffect(c) ==
    /\ s'.pending = c /\ s'.stage = s.stage /\ Spares /\ s'.result = s.result
    /\ s'.baselineCaptured = s.baselineCaptured /\ s'.redValidated = s.redValidated
    /\ s'.testCommitted = s.testCommitted /\ s'.stageExited = s.stageExited
    /\ s'.tracePassed = s.tracePassed /\ s'.stubGap = s.stubGap
    /\ s'.testCollected = s.testCollected
    /\ s'.sub = IF c = "dispatch" /\ s.sub = "DISPATCH" THEN "WRITE" ELSE s.sub
    /\ c # "dispatch" => FlagsSame /\ s'.noDiffDispatched = s.noDiffDispatched

(* What the issue of a command does.                                       *)
LEMMA IssueProjects ==
    ASSUME TypeOK, NEW c, s' = OnCommandIssued(s, c)
    PROVE  IssueEffect(c)
<1> USE DEF TypeOK, StateTypes
<1>1. CASE c # "dispatch"
  BY <1>1 DEF OnCommandIssued, IssueEffect, Spares, FlagsSame, ReviewSame
<1>2. CASE c = "dispatch" /\ s.sub \in {"NO_DIFF_REVIEW", "PRISM_REVIEW"}
  BY <1>2 DEF OnCommandIssued, IssueEffect, Spares
<1>3. CASE c = "dispatch" /\ s.sub \notin {"NO_DIFF_REVIEW", "PRISM_REVIEW"}
  <2>1. s' = [s EXCEPT !.pending = c, !.docDispatched = TRUE,
                       !.sub = IF s.sub = "DISPATCH" THEN "WRITE" ELSE s.sub]
    BY <1>3 DEF OnCommandIssued
  <2> QED
    BY <1>3, <2>1 DEF IssueEffect, Spares
<1> QED
  BY <1>1, <1>2, <1>3

(***************************************************************************)
(* The human.                                                              *)
(***************************************************************************)
RetryEffect ==
    /\ AtGate /\ GatesKept /\ s'.pending = "none" /\ s'.stage = s.stage /\ s'.sub = s.sub
    /\ s'.awaiting = "none" /\ s'.attempt = 0 /\ s.awaiting # "rollback"
    /\ s'.docDispatched \in {FALSE, s.docDispatched}
    /\ s'.revDispatched \in {FALSE, s.revDispatched}
    /\ s.awaiting = "none" => ~s'.docDispatched /\ ~s'.revDispatched
    /\ hist'.rounds = 0 /\ hist'.paid = hist.paid
    /\ hist'.damage = IF s.sub = "NO_DIFF_REVIEW" /\ s.noDiffDispatched
                      THEN hist.damage \cup {"lost"} ELSE hist.damage
    /\ UNCHANGED <<drv, todo, tests, cycles>>

(* What the retry of a human does.                                         *)
LEMMA RetryProjects == ASSUME TypeOK, HumanRetry PROVE RetryEffect
<1> USE DEF TypeOK, StateTypes
<1>1. PICK clear \in BOOLEAN : /\ s.awaiting = "escalation" \/ (clear /\ s.awaiting = "none")
                               /\ s' = OnHumanRetry(Cleared, clear)
  BY DEF HumanRetry
<1> DEFINE doc == IF clear THEN FALSE ELSE s.docDispatched
           rev == IF clear THEN FALSE ELSE s.revDispatched
<1>2. s' = [s EXCEPT !.pending = "none", !.docDispatched = doc, !.revDispatched = rev,
                     !.awaiting = "none", !.attempt = 0, !.infra = 0, !.format = 0]
  <2>1. CASE clear
    BY <1>1, <2>1 DEF OnHumanRetry, ResetDoc, ResetReview, Healthy, Cleared
  <2>2. CASE ~clear
    BY <1>1, <2>2 DEF OnHumanRetry, Healthy, Cleared
  <2> QED
    BY <2>1, <2>2
<1>3. /\ doc \in {FALSE, s.docDispatched} /\ rev \in {FALSE, s.revDispatched}
      /\ s.awaiting = "none" => ~doc /\ ~rev
  BY <1>1
<1>4. /\ AtGate /\ UNCHANGED <<drv, todo, tests, cycles>>
      /\ hist'.rounds = 0 /\ hist'.paid = hist.paid
      /\ hist'.damage = IF s.sub = "NO_DIFF_REVIEW" /\ s.noDiffDispatched
                        THEN hist.damage \cup {"lost"} ELSE hist.damage
  BY DEF HumanRetry
<1> HIDE DEF doc, rev
<1>5. GatesKept
  BY <1>2 DEF GatesKept
<1>6. /\ s'.pending = "none" /\ s'.stage = s.stage /\ s'.sub = s.sub
      /\ s'.awaiting = "none" /\ s'.attempt = 0
      /\ s'.docDispatched = doc /\ s'.revDispatched = rev
  BY <1>2
<1>7. s.awaiting # "rollback"
  BY <1>1
<1> QED
  BY <1>3, <1>4, <1>5, <1>6, <1>7 DEF RetryEffect

ReturnEffect ==
    /\ AtGate /\ GatesKept /\ FlagsSame /\ s'.pending = "none" /\ s'.stage = s.stage
    /\ s'.sub = "RETURNED" /\ s'.awaiting = "none" /\ s'.attempt = s.attempt
    /\ s.awaiting # "none" /\ UNCHANGED <<drv, todo, tests, hist, cycles>>

(* What the return of a human does.                                        *)
LEMMA ReturnProjects == ASSUME TypeOK, HumanReturn PROVE ReturnEffect
<1>1. s' = [s EXCEPT !.pending = "none", !.awaiting = "none", !.sub = "RETURNED"]
  BY DEF HumanReturn, OnHumanReturn, Cleared
<1> QED
  BY <1>1
     DEF TypeOK, StateTypes, HumanReturn, ReturnEffect, GatesKept, FlagsSame,
         ReviewSame

(***************************************************************************)
(* A cycle starts with no verdict, but for the flag of the exit.           *)
(***************************************************************************)
EnterEffect ==
    /\ drv = "left" /\ drv' = "off" /\ UNCHANGED todo /\ cycles' = cycles + 1
    /\ s'.stage = "M-TEST" /\ s'.sub = "DISPATCH" /\ s'.attempt = 0
    /\ s'.result = NoResult /\ s'.pending = s.pending /\ s'.awaiting = s.awaiting
    /\ s'.docDispatched = FALSE /\ s'.revDispatched = FALSE
    /\ s'.noDiffDispatched = s.noDiffDispatched
    /\ ~s'.baselineCaptured /\ ~s'.testCollected /\ ~s'.redValidated /\ ~s'.tracePassed
    /\ ~s'.testCommitted /\ ~s'.stubGap
    /\ s'.stageExited => s.stage = "M-IMPL" /\ s.stageExited
    /\ tests'.judged = {}
    /\ hist'.rounds = 0 /\ hist'.paid = 0 /\ hist'.damage = hist.damage

(* What the next entry does.                                               *)
LEMMA EnterProjects == ASSUME TypeOK, Reenter PROVE EnterEffect
<1> USE DEF TypeOK, StateTypes
<1> DEFINE exited == IF s.stage = "M-IMPL" THEN s.stageExited ELSE FALSE
<1>1. s' = [s EXCEPT !.stage = "M-TEST", !.sub = "DISPATCH", !.attempt = 0,
                     !.stageExited = exited, !.result = NoResult,
                     !.docDispatched = FALSE, !.revDispatched = FALSE,
                     !.testCollected = FALSE, !.redValidated = FALSE, !.tracePassed = FALSE,
                     !.testCommitted = FALSE, !.baselineCaptured = FALSE, !.stubGap = FALSE]
  <2>1. CASE s.stage = "upstream" /\ s' = OnStageEntered(s)
    BY ZenonT(40), <2>1 DEF OnStageEntered, ResetCycle, ResetDoc, ResetReview
  <2>2. CASE s.stage = "M-IMPL" /\ s' = OnStageRolledBack(s)
    BY ZenonT(40), <2>2
       DEF OnStageRolledBack, OnStageEntered, ResetCycle, ResetDoc, ResetReview
  <2> QED
    BY <2>1, <2>2 DEF Reenter
<1>2. exited => s.stage = "M-IMPL" /\ s.stageExited
  OBVIOUS
<1>3. exited \in BOOLEAN
  OBVIOUS
<1>4. /\ drv = "left" /\ drv' = "off" /\ UNCHANGED todo /\ cycles' = cycles + 1
      /\ tests'.judged = {}
      /\ hist'.rounds = 0 /\ hist'.paid = 0 /\ hist'.damage = hist.damage
  BY DEF Reenter
<1> HIDE DEF exited
<1> QED
  BY <1>1, <1>2, <1>3, <1>4 DEF EnterEffect
-----------------------------------------------------------------------------
(* The types.                                                              *)

\* The limits allow a first attempt of everything.
LEMMA LimitsFacts ==
    /\ AttemptLimit \in Nat /\ AttemptLimit # 0 /\ 0 \in 0..AttemptLimit
    /\ \A a \in 0..AttemptLimit : a < AttemptLimit => a + 1 \in 0..AttemptLimit
    /\ 0 \in 0..InfraLimit /\ \A i \in 0..InfraLimit : i < InfraLimit => i + 1 \in 0..InfraLimit
    /\ 0 \in 0..FormatLimit
    /\ \A f \in 0..FormatLimit : f < FormatLimit => f + 1 \in 0..FormatLimit
BY TestStageAssumption

(***************************************************************************)
(* The small reducers keep the projection one.                             *)
(***************************************************************************)
LEMMA SmallReducersType ==
    ASSUME NEW t \in StateTypes
    PROVE  /\ [t EXCEPT !.pending = "none"] \in StateTypes
           /\ [t EXCEPT !.result = NoResult] \in StateTypes
           /\ ResetDoc(t) \in StateTypes /\ ResetReview(t) \in StateTypes
           /\ Consume(t) \in StateTypes /\ ToWrite(t) \in StateTypes
           /\ ToDesign(t) \in StateTypes /\ Healthy(t) \in StateTypes
           /\ ResetDispatchFlag(t) \in StateTypes
           /\ ResetCycle(t) \in StateTypes
<1> USE LimitsFacts DEF StateTypes
<1>1. [t EXCEPT !.pending = "none"] \in StateTypes /\ [t EXCEPT !.result = NoResult] \in StateTypes
  OBVIOUS
<1>2. ResetDoc(t) \in StateTypes /\ ResetReview(t) \in StateTypes
  BY DEF ResetDoc, ResetReview
<1>3. Consume(t) \in StateTypes
  <2> DEFINE n == IF t.attempt < AttemptLimit THEN t.attempt + 1 ELSE t.attempt
             gate == IF t.attempt + 1 >= AttemptLimit THEN "escalation" ELSE t.awaiting
  <2>1. n \in 0..AttemptLimit /\ gate \in {"none", "escalation", "rollback"}
    OBVIOUS
  <2>2. Consume(t) = [t EXCEPT !.attempt = n, !.awaiting = gate]
    BY DEF Consume
  <2> HIDE DEF n, gate
  <2> QED
    BY ZenonT(40), <2>1, <2>2
<1>4. ToWrite(t) \in StateTypes
  BY DEF ToWrite, ResetDoc, Substates
<1>5. ToDesign(t) \in StateTypes
  BY DEF ToDesign, Substates
<1>6. Healthy(t) \in StateTypes
  BY DEF Healthy
<1>7. ResetDispatchFlag(t) \in StateTypes
  <2>1. [t EXCEPT !.noDiffDispatched = FALSE] \in StateTypes
    OBVIOUS
  <2> HIDE DEF StateTypes
  <2> QED
    BY <1>2, <2>1 DEF ResetDispatchFlag
<1>8. ResetCycle(t) \in StateTypes
  BY ZenonT(40) DEF ResetCycle
<1> QED
  BY <1>1, <1>2, <1>3, <1>4, <1>5, <1>6, <1>7, <1>8

(***************************************************************************)
(* So do the events of a turn and of a dispatch.                           *)
(***************************************************************************)
LEMMA TurnReducersType ==
    ASSUME NEW t \in StateTypes
    PROVE  /\ \A c \in Commands : OnCommandIssued(t, c) \in StateTypes
           /\ \A v \in PrismVerdicts \cup {"diff", "no_diff"} :
                 t.sub \in Workers => OnOutcomeDone(t, v) \in StateTypes
           /\ OnSemanticFailure(t) \in StateTypes
           /\ OnInfraFailure(t) \in StateTypes /\ OnFormatFailure(t) \in StateTypes
           /\ OnStubGapOutcome(t) \in StateTypes
<1>1. ASSUME NEW c \in Commands PROVE OnCommandIssued(t, c) \in StateTypes
  <2> DEFINE u == [t EXCEPT !.pending = c]
  <2>1. u \in StateTypes
    BY DEF StateTypes
  <2>2. /\ [u EXCEPT !.noDiffDispatched = TRUE] \in StateTypes
        /\ [u EXCEPT !.revDispatched = TRUE] \in StateTypes
        /\ [u EXCEPT !.docDispatched = TRUE,
                     !.sub = IF @ = "DISPATCH" THEN "WRITE" ELSE @] \in StateTypes
    <3> DEFINE sub == IF u.sub = "DISPATCH" THEN "WRITE" ELSE u.sub
    <3> HIDE DEF u
    <3>1. sub \in Substates
      BY <2>1 DEF StateTypes, Substates
    <3>2. [u EXCEPT !.docDispatched = TRUE, !.sub = sub] \in StateTypes
      <4> HIDE DEF sub
      <4> QED
        BY <2>1, <3>1 DEF StateTypes
    <3>3. /\ [u EXCEPT !.noDiffDispatched = TRUE] \in StateTypes
          /\ [u EXCEPT !.revDispatched = TRUE] \in StateTypes
      BY <2>1 DEF StateTypes
    <3> QED
      BY <3>2, <3>3
  <2> QED
    BY <2>1, <2>2 DEF OnCommandIssued
<1>2. ASSUME NEW v \in PrismVerdicts \cup {"diff", "no_diff"}, t.sub \in Workers
      PROVE  OnOutcomeDone(t, v) \in StateTypes
  <2>1. [of |-> t.sub, step |-> "submitted", verdict |-> v] \in Results
    BY <1>2 DEF Results, Workers
  <2>2. Healthy(t) \in StateTypes
    BY SmallReducersType
  <2> QED
    BY <2>1, <2>2 DEF OnOutcomeDone, StateTypes
<1>3. OnSemanticFailure(t) \in StateTypes
  BY SmallReducersType DEF OnSemanticFailure
<1>4. OnInfraFailure(t) \in StateTypes /\ OnFormatFailure(t) \in StateTypes
  <2> DEFINE u == ResetDispatchFlag(t)
  <2>1. u \in StateTypes
    BY SmallReducersType
  <2>2. t.infra \in 0..InfraLimit /\ t.format \in 0..FormatLimit
    BY DEF StateTypes
  <2> DEFINE i == IF u.infra < InfraLimit THEN u.infra + 1 ELSE u.infra
             f == IF u.format < FormatLimit THEN u.format + 1 ELSE u.format
             iGate == IF t.infra + 1 >= InfraLimit THEN "escalation" ELSE u.awaiting
             fGate == IF t.format + 1 >= FormatLimit THEN "escalation" ELSE u.awaiting
  <2>3. /\ OnInfraFailure(t) = [u EXCEPT !.infra = i, !.awaiting = iGate]
        /\ OnFormatFailure(t) = [u EXCEPT !.format = f, !.awaiting = fGate]
    BY DEF OnInfraFailure, OnFormatFailure
  <2> HIDE DEF u
  <2>4. /\ i \in 0..InfraLimit /\ f \in 0..FormatLimit
        /\ {iGate, fGate} \subseteq {"none", "escalation", "rollback"}
    BY <2>1, <2>2, LimitsFacts DEF StateTypes
  <2> HIDE DEF i, f, iGate, fGate
  <2> QED
    BY ZenonT(40), <2>1, <2>3, <2>4 DEF StateTypes
<1>5. OnStubGapOutcome(t) \in StateTypes
  BY SmallReducersType DEF OnStubGapOutcome
<1> QED
  BY <1>1, <1>2, <1>3, <1>4, <1>5

(***************************************************************************)
(* And the verdicts, the events of the pipeline and the human's commands.  *)
(***************************************************************************)
LEMMA VerdictReducersType ==
    ASSUME NEW t \in StateTypes
    PROVE  /\ \A check : OnVerdictFailed(t, check) \in StateTypes
           /\ OnBaselineCaptured(t) \in StateTypes /\ OnTestWritten(t) \in StateTypes
           /\ \A companion : OnCollectionFailed(t, companion) \in StateTypes
           /\ OnCollected(t) \in StateTypes
           /\ \A valid \in BOOLEAN : OnRedValidated(t, valid) \in StateTypes
           /\ \A v : OnPrismVerdict(t, v) \in StateTypes
           /\ OnNoDiffDetected(t) \in StateTypes /\ OnNoDiffExplained(t) \in StateTypes
           /\ t.result \in Results => OnNoDiffReviewed(t, TRUE) \in StateTypes
           /\ OnNoDiffReviewed(t, FALSE) \in StateTypes
           /\ OnTestCommitted(t) \in StateTypes
           /\ \A clear \in BOOLEAN : OnHumanRetry(t, clear) \in StateTypes
           /\ OnHumanReturn(t) \in StateTypes
           /\ OnStageEntered(t) \in StateTypes /\ OnStageRolledBack(t) \in StateTypes
<1> DEFINE plain == [t EXCEPT !.result = NoResult]
<1>1. plain \in StateTypes
  BY SmallReducersType
<1>2. ASSUME NEW check PROVE OnVerdictFailed(t, check) \in StateTypes
  <2> DEFINE u == [t EXCEPT !.result = NoResult, !.format = 0]
  <2>1. u \in StateTypes
    BY LimitsFacts DEF StateTypes
  <2> HIDE DEF u
  <2>2. [u EXCEPT !.awaiting = "escalation"] \in StateTypes
    BY <2>1 DEF StateTypes
  <2>3. [u EXCEPT !.tracePassed = FALSE] \in StateTypes
    BY <2>1 DEF StateTypes
  <2>4. [u EXCEPT !.stubGap = FALSE] \in StateTypes
    BY <2>1 DEF StateTypes
  <2>5. [u EXCEPT !.awaiting = "rollback", !.stubGap = FALSE] \in StateTypes
    BY ZenonT(40), <2>1 DEF StateTypes
  <2>6. Redo([u EXCEPT !.stubGap = FALSE]) \in StateTypes
    BY <2>4, SmallReducersType DEF Redo
  <2>7. /\ ToDesign(u) \in StateTypes
        /\ Consume(ToWrite([u EXCEPT !.tracePassed = FALSE])) \in StateTypes
        /\ Consume(ToWrite([u EXCEPT !.stubGap = FALSE])) \in StateTypes
    BY <2>1, <2>3, <2>4, SmallReducersType
  <2> QED
    BY <2>2, <2>5, <2>6, <2>7 DEF u, OnVerdictFailed
<1>3. OnBaselineCaptured(t) \in StateTypes /\ OnTestCommitted(t) \in StateTypes
  BY DEF OnBaselineCaptured, OnTestCommitted, StateTypes
<1>4. OnTestWritten(t) \in StateTypes
  BY DEF OnTestWritten, StateTypes, Substates
<1>5. ASSUME NEW companion PROVE OnCollectionFailed(t, companion) \in StateTypes
  <2>1. [t EXCEPT !.testCollected = FALSE] \in StateTypes
    BY DEF StateTypes
  <2>2. ToWrite([t EXCEPT !.testCollected = FALSE]) \in StateTypes
    BY <2>1, SmallReducersType
  <2> QED
    BY <2>2, SmallReducersType DEF OnCollectionFailed
<1>6. OnCollected(t) \in StateTypes
  BY DEF OnCollected, StateTypes, Substates
<1>7. ASSUME NEW valid \in BOOLEAN PROVE OnRedValidated(t, valid) \in StateTypes
  <2>1. /\ [t EXCEPT !.redValidated = TRUE, !.sub = "PRISM_REVIEW"] \in StateTypes
        /\ [t EXCEPT !.redValidated = FALSE, !.sub = "DIAGNOSE"] \in StateTypes
    BY ZenonT(40) DEF StateTypes, Substates
  <2> QED
    BY <2>1, SmallReducersType DEF OnRedValidated
<1>8. ASSUME NEW v PROVE OnPrismVerdict(t, v) \in StateTypes
  <2> HIDE DEF plain
  <2>1. /\ [plain EXCEPT !.sub = "EXIT"] \in StateTypes
        /\ [plain EXCEPT !.awaiting = "rollback"] \in StateTypes
    BY <1>1 DEF StateTypes, Substates
  <2>2. Consume(ToWrite(plain)) \in StateTypes /\ ToDesign(plain) \in StateTypes
    BY <1>1, SmallReducersType
  <2> QED
    BY <1>1, <2>1, <2>2 DEF plain, OnPrismVerdict
<1>9. OnNoDiffDetected(t) \in StateTypes /\ OnNoDiffExplained(t) \in StateTypes
  BY ZenonT(40)
     DEF OnNoDiffDetected, OnNoDiffExplained, StateTypes, Substates, NoDiff
<1>10. /\ t.result \in Results => OnNoDiffReviewed(t, TRUE) \in StateTypes
       /\ OnNoDiffReviewed(t, FALSE) \in StateTypes
  <2> DEFINE u == [t EXCEPT !.sub = "WRITE", !.noDiffDispatched = FALSE]
  <2>1. u \in StateTypes /\ u.result = t.result
    BY DEF StateTypes, Substates
  <2> HIDE DEF u
  <2>2. [u EXCEPT !.result = NoResult, !.stubGap = FALSE] \in StateTypes
    BY <2>1 DEF StateTypes
  <2>3. OnNoDiffReviewed(t, FALSE) \in StateTypes
    BY <2>2, SmallReducersType DEF OnNoDiffReviewed, u
  <2>4. ASSUME t.result \in Results
        PROVE  [u EXCEPT !.result.step = "validated"] \in StateTypes
    <3>1. [t.result EXCEPT !.step = "validated"] \in Results
      BY <2>4 DEF Results
    <3>2. [u EXCEPT !.result.step = "validated"] =
             [u EXCEPT !.result = [t.result EXCEPT !.step = "validated"]]
      BY <2>1
    <3> QED
      BY <2>1, <3>1, <3>2 DEF StateTypes
  <2> QED
    BY <2>3, <2>4 DEF OnNoDiffReviewed, u
<1>11. ASSUME NEW clear \in BOOLEAN PROVE OnHumanRetry(t, clear) \in StateTypes
  <2> DEFINE u == IF clear THEN ResetDoc(ResetReview(t)) ELSE t
  <2>1. u \in StateTypes
    BY SmallReducersType
  <2> HIDE DEF u
  <2>2. [u EXCEPT !.awaiting = "none", !.attempt = 0] \in StateTypes
    BY <2>1, LimitsFacts DEF StateTypes
  <2> QED
    BY <2>2, SmallReducersType DEF OnHumanRetry, u
<1>12. OnHumanReturn(t) \in StateTypes
  BY DEF OnHumanReturn, StateTypes, Substates
<1>13. OnStageEntered(t) \in StateTypes /\ OnStageRolledBack(t) \in StateTypes
  <2> DEFINE u == [t EXCEPT !.stage = "M-TEST", !.sub = "DISPATCH", !.attempt = 0,
                            !.stageExited = FALSE, !.result = NoResult]
  <2>1. u \in StateTypes
    BY LimitsFacts DEF StateTypes, Substates
  <2> HIDE DEF u
  <2>2. ResetCycle(ResetDoc(ResetReview(u))) \in StateTypes
    BY <2>1, SmallReducersType
  <2>3. OnStageEntered(t) \in StateTypes
    BY <2>2 DEF u, OnStageEntered
  <2> QED
    BY <2>3 DEF OnStageRolledBack, StateTypes
<1> QED
  BY <1>2, <1>3, <1>4, <1>5, <1>6, <1>7, <1>8, <1>9, <1>10, <1>11, <1>12, <1>13

(***************************************************************************)
(* The histories and the tests.                                            *)
(***************************************************************************)
HistTypes == [paid : 0..2, rounds : 0..MaxRounds, damage : SUBSET Damages]
TestTypes == [judged : SUBSET Judgements, dirty : {"clean", "round", "residue"}, stamped : BOOLEAN]

(* What is judged of a tree keeps its type.                                *)
LEMMA TreesType ==
    ASSUME hist \in HistTypes, tests \in TestTypes
    PROVE  /\ Charged(hist) \in HistTypes
           /\ \A name \in Damages : [hist EXCEPT !.damage = @ \cup {name}] \in HistTypes
           /\ \A name \in Judgements : Judged(name) \in TestTypes
           /\ Rewritten \subseteq TestTypes /\ Littered \subseteq TestTypes
           /\ Dropped(tests) \in TestTypes
           /\ [hist EXCEPT !.rounds = 0, !.paid = 0] \in HistTypes
<1>1. Charged(hist) \in HistTypes
  BY DEF HistTypes, Charged
<1>2. ASSUME NEW name \in Damages
      PROVE  [hist EXCEPT !.damage = @ \cup {name}] \in HistTypes
  BY DEF HistTypes
<1>3. ASSUME NEW name \in Judgements PROVE Judged(name) \in TestTypes
  BY DEF TestTypes, Judged
<1>4. Rewritten \subseteq TestTypes
  BY DEF TestTypes, Rewritten
<1>5. Littered \subseteq TestTypes
  <2>1. \A x \in Rewritten : [x EXCEPT !.dirty = "residue"] \in TestTypes
    BY <1>4 DEF TestTypes
  <2> QED
    BY <2>1 DEF Littered
<1>6. Dropped(tests) \in TestTypes
  BY DEF TestTypes, Dropped
<1>7. [hist EXCEPT !.rounds = 0, !.paid = 0] \in HistTypes
  <2>1. MaxRounds \in Nat
    BY LimitsFacts DEF MaxRounds
  <2> DEFINE h == [hist EXCEPT !.rounds = 0]
  <2>2. h \in HistTypes
    BY <2>1 DEF HistTypes
  <2> HIDE DEF h
  <2>3. [h EXCEPT !.paid = 0] \in HistTypes
    BY <2>2 DEF HistTypes
  <2> QED
    BY <2>3 DEF h
<1> QED
  BY <1>1, <1>2, <1>3, <1>4, <1>5, <1>6, <1>7

(***************************************************************************)
(* An event folded in, with another owed or none.                          *)
(***************************************************************************)
LEMMA AppendTypes ==
    ASSUME NEW t \in StateTypes, NEW owed, AppendThen(t, owed), hist \in HistTypes
    PROVE  s' \in StateTypes /\ hist' \in HistTypes
<1>1. Charged(hist) \in HistTypes
  BY DEF HistTypes, Charged
<1> QED
  BY <1>1 DEF AppendThen


(***************************************************************************)
(* Every step keeps the types.                                             *)
(***************************************************************************)
LEMMA TypesStep == ASSUME TypeOK, ResultsPlaced, CommandsPlaced, [Next]_vars PROVE TypeOK'
<1> DEFINE t == Cleared
<1>1. /\ s \in StateTypes /\ hist \in HistTypes /\ tests \in TestTypes
      /\ drv \in {"off", "loop", "exec", "detached", "emit", "left"}
      /\ todo \in {"none", "asset_deleted", "baseline_defect", "contract_error", "diagnosis",
                   "rejected", "entered"}
      /\ cycles \in 0..MaxCycles
  BY DEF TypeOK, HistTypes, TestTypes
<1>2. t \in StateTypes
  BY <1>1, SmallReducersType DEF Cleared
<1>3. /\ Charged(hist) \in HistTypes
      /\ \A name \in Damages : [hist EXCEPT !.damage = @ \cup {name}] \in HistTypes
      /\ \A name \in Judgements : Judged(name) \in TestTypes
      /\ Rewritten \subseteq TestTypes /\ Littered \subseteq TestTypes
      /\ Dropped(tests) \in TestTypes
  BY <1>1, TreesType
<1> DEFINE Typed == s' \in StateTypes /\ hist' \in HistTypes /\ tests' \in TestTypes
           Moved == /\ drv' \in {"off", "loop", "exec", "detached", "emit", "left"}
                    /\ todo' \in {"none", "asset_deleted", "baseline_defect", "contract_error",
                                  "diagnosis", "rejected", "entered"}
                    /\ cycles' \in 0..MaxCycles
<1> SUFFICES Typed /\ Moved
  BY DEF TypeOK, HistTypes, TestTypes
<1> USE DEF Executing
<1>m. Moved
  <2>1. CASE UNCHANGED vars
    BY <1>1, <2>1 DEF vars
  <2>2. CASE Start \/ Stop \/ Issue \/ Crash \/ Detach \/ SelectTests \/ RollbackStage
             \/ HumanRetry \/ HumanReturn \/ OperatorCleans
    BY <1>1, <2>2
       DEF Start, Stop, Issue, Crash, Detach, SelectTests, RollbackStage,
                      HumanRetry, HumanReturn, OperatorCleans
  <2>3. CASE CaptureBaseline \/ BaselineFails \/ PrismReplies \/ DispatchFails
             \/ TestTasksInvalid \/ RejectDispatch \/ NoDiffReplies \/ ValidateResult
             \/ CheckpointResult
    BY <1>1, <2>3
       DEF Append, AppendThen, CaptureBaseline, BaselineFails, PrismReplies,
       DispatchFails, TestTasksInvalid, RejectDispatch, NoDiffReplies, ValidateResult,
       CheckpointResult
  <2>4. CASE WriteReplies \/ PublishResult \/ AppendOwed
    BY <1>1, <2>4
       DEF Append, AppendThen, WriteReplies, PublishResult, AppendOwed
  <2>5. CASE CollectTests \/ CollectionFails \/ AssetsRemoved \/ EmptySelection
             \/ ContractError \/ RedCheck \/ RedCheckInvalid \/ CheckTrace
             \/ CommitTests \/ WriteFrontmatter
    BY <1>1, <2>5
       DEF Append, AppendThen, CollectTests, CollectionFails, AssetsRemoved,
       EmptySelection, ContractError, RedCheck, RedCheckInvalid, CheckTrace, CommitTests,
       WriteFrontmatter
  <2>6. CASE Reenter
    <3>1. cycles + 1 \in 0..MaxCycles
      BY <1>1, <2>6, TestStageAssumption DEF Reenter
    <3> QED
      BY <1>1, <2>6, <3>1 DEF Reenter
  <2> QED
    BY <2>1, <2>2, <2>3, <2>4, <2>5, <2>6 DEF Next, DriverStep
<1> HIDE DEF t, Moved
<1>t. Typed
  <2> USE <1>1, <1>2, <1>3
  <2>1. CASE UNCHANGED vars
    BY <2>1 DEF vars
  <2>2. CASE Start \/ Stop
    BY <2>2 DEF Start, Stop
  <2>3. CASE Issue
    <3>1. Decide(s) \in Commands
      BY <2>3, DecideFacts DEF Issue, StateTypes
    <3>2. [hist EXCEPT !.paid = 0] \in HistTypes
      BY DEF HistTypes
    <3> QED
      BY <2>3, <3>1, <3>2, TurnReducersType DEF Issue
  <2>4. CASE Crash
    <3>1. [hist EXCEPT !.damage = @ \cup Loses] \in HistTypes
      <4>1. Loses \subseteq Damages
        BY DEF Loses, Damages
      <4> QED
        BY <4>1 DEF HistTypes
    <3> QED
      BY <2>4, <3>1 DEF Crash
  <2>5. CASE Detach \/ SelectTests
    BY <2>5 DEF Detach, SelectTests, t
  <2>6. CASE CaptureBaseline
    BY <2>6, VerdictReducersType, AppendTypes
       DEF CaptureBaseline, Append, Judgements, t
  <2>7. CASE BaselineFails \/ RejectDispatch
    BY <2>7, AppendTypes DEF BaselineFails, RejectDispatch, t
  <2>8. CASE WriteReplies
    <3>1. /\ OnOutcomeDone(t, "diff") \in StateTypes /\ OnOutcomeDone(t, "no_diff") \in StateTypes
      BY ZenonT(40), <2>8, TurnReducersType
         DEF WriteReplies, t, Cleared, StateTypes, Workers
    <3>2. [hist EXCEPT !.rounds = IF @ < MaxRounds THEN @ + 1 ELSE @] \in HistTypes
      <4>1. MaxRounds \in Nat
        BY LimitsFacts DEF MaxRounds
      <4> HIDE DEF MaxRounds
      <4> QED
        BY <4>1 DEF HistTypes
    <3> QED
      BY <2>8, <3>1, <3>2 DEF WriteReplies, t
  <2>9. CASE PrismReplies
    <3>1. \A v \in PrismVerdicts : OnOutcomeDone(t, v) \in StateTypes
      BY ZenonT(40), <2>9, TurnReducersType
         DEF PrismReplies, t, Cleared, StateTypes, Workers
    <3> QED
      BY <2>9, <3>1, AppendTypes DEF PrismReplies, Append, t
  <2>10. CASE DispatchFails
    BY <2>10, TurnReducersType, VerdictReducersType, AppendTypes
       DEF DispatchFails, Append, t
  <2>11. CASE TestTasksInvalid
    BY <2>11, TurnReducersType, AppendTypes DEF TestTasksInvalid, Append, t
  <2>12. CASE NoDiffReplies
    <3>1. t.result \in Results
      BY <2>12
         DEF NoDiffReplies, ResultsPlaced, StateTypes, NoResult, t, Cleared
    <3> QED
      BY <2>12, <3>1, VerdictReducersType, AppendTypes
         DEF NoDiffReplies, Append, t
  <2>13. CASE ValidateResult \/ CheckpointResult
    <3>1. ASSUME s.pending \in ResultCommands, NEW step \in {"validated", "checkpointed"},
                 Append([Cleared EXCEPT !.result.step = step])
          PROVE  s' \in StateTypes /\ hist' \in HistTypes
      <4>1. [s.result EXCEPT !.step = step] \in Results
        BY <3>1
           DEF Results, StateTypes, NoResult, ResultCommands, CommandsPlaced,
               ResultsPlaced
      <4>2. [Cleared EXCEPT !.result.step = step] =
              [t EXCEPT !.result = [s.result EXCEPT !.step = step]]
        BY DEF t, Cleared, StateTypes
      <4>3. [t EXCEPT !.result = [s.result EXCEPT !.step = step]] \in StateTypes
        BY <4>1 DEF StateTypes
      <4> QED
        BY <3>1, <4>2, <4>3, AppendTypes DEF Append
    <3>2. s.pending \in ResultCommands
      BY <2>13 DEF ValidateResult, CheckpointResult, ResultCommands
    <3>3. tests' \in TestTypes
      BY <2>13 DEF ValidateResult, CheckpointResult, TestTypes
    <3>4. CASE ValidateResult
      BY <3>1, <3>2, <3>3, <3>4, VerdictReducersType, AppendTypes
         DEF ValidateResult, Append, t
    <3>5. CASE CheckpointResult
      BY <3>1, <3>2, <3>3, <3>5, VerdictReducersType, AppendTypes
         DEF CheckpointResult, Append, t
    <3> QED
      BY <2>13, <3>4, <3>5
  <2>14. CASE PublishResult
    <3>1. s' \in StateTypes
      BY <2>14, VerdictReducersType DEF PublishResult, t
    <3> QED
      BY <2>14, <3>1 DEF PublishResult, Damaged, Judgements, Damages
  <2>15. CASE CollectTests
    <3>1. \A new \in BOOLEAN : [Judged("collected") EXCEPT !.stamped = @ \/ new] \in TestTypes
      BY DEF TestTypes, Judged, Judgements
    <3> QED
      BY <2>15, <3>1, VerdictReducersType, AppendTypes
         DEF CollectTests, Append, t
  <2>16. CASE CollectionFails \/ AssetsRemoved \/ EmptySelection
    BY <2>16, VerdictReducersType, AppendTypes
       DEF CollectionFails, AssetsRemoved, EmptySelection, Append, t
  <2>17. CASE ContractError \/ RedCheckInvalid \/ RedCheck
    BY <2>17, VerdictReducersType, AppendTypes
       DEF ContractError, RedCheckInvalid, RedCheck, Append, Judgements, t
  <2>18. CASE CheckTrace
    <3>1. [Healthy(t) EXCEPT !.tracePassed = TRUE] \in StateTypes
      <4> DEFINE u == Healthy(t)
      <4>1. u \in StateTypes
        BY SmallReducersType
      <4> HIDE DEF u
      <4>2. [u EXCEPT !.tracePassed = TRUE] \in StateTypes
        BY <4>1 DEF StateTypes
      <4> QED
        BY <4>2 DEF u
    <3> QED
      BY <2>18, <3>1, VerdictReducersType, AppendTypes
         DEF CheckTrace, Append, Judgements, t
  <2>19. CASE CommitTests
    BY <2>19, VerdictReducersType, AppendTypes
       DEF CommitTests, Append, Judgements, t
  <2>20. CASE WriteFrontmatter
    <3>1. [t EXCEPT !.stageExited = TRUE] \in StateTypes
      BY DEF StateTypes
    <3> QED
      BY <2>20, <3>1, AppendTypes DEF WriteFrontmatter, t
  <2>21. CASE RollbackStage
    <3>1. [t EXCEPT !.stage = "upstream"] \in StateTypes
      BY DEF StateTypes
    <3> QED
      BY <2>21, <3>1 DEF RollbackStage, t
  <2>22. CASE AppendOwed
    <3>1. [t EXCEPT !.stage = "M-IMPL", !.stageExited = FALSE] \in StateTypes
      BY ZenonT(40) DEF StateTypes
    <3> QED
      BY <2>22, <3>1, VerdictReducersType, AppendTypes DEF AppendOwed, Append, t
  <2>23. CASE HumanRetry
    <3>1. \A d \in {hist.damage, hist.damage \cup {"lost"}} :
             [hist EXCEPT !.rounds = 0, !.damage = d] \in HistTypes
      <4>1. 0 \in 0..MaxRounds
        BY LimitsFacts DEF MaxRounds
      <4>2. hist.damage \cup {"lost"} \in SUBSET Damages
        BY DEF HistTypes, Damages
      <4> QED
        BY <4>1, <4>2 DEF HistTypes
    <3>2. hist' \in HistTypes
      BY <2>23, <3>1 DEF HumanRetry
    <3> QED
      BY <2>23, <3>2, VerdictReducersType DEF HumanRetry, t
  <2>24. CASE HumanReturn
    BY <2>24, VerdictReducersType DEF HumanReturn, t
  <2>25. CASE OperatorCleans
    <3>1. [tests EXCEPT !.dirty = "clean", !.judged = @ \cap {"baseline"}] \in TestTypes
      BY DEF TestTypes
    <3> QED
      BY <2>25, <3>1 DEF OperatorCleans, Damaged, Damages
  <2>26. CASE Reenter
    <3>1. [hist EXCEPT !.rounds = 0, !.paid = 0] \in HistTypes
      BY TreesType
    <3>2. tests' \in TestTypes
      BY <2>26 DEF Reenter, TestTypes
    <3> QED
      BY <2>26, <3>1, <3>2, VerdictReducersType DEF Reenter
  <2> QED
    BY <2>1, <2>2, <2>3, <2>4, <2>5, <2>6, <2>7, <2>8, <2>9, <2>10, <2>11,
       <2>12, <2>13,
       <2>14, <2>15, <2>16, <2>17, <2>18, <2>19, <2>20, <2>21, <2>22, <2>23, <2>24, <2>25,
       <2>26 DEF Next, DriverStep
<1> QED
  BY <1>m, <1>t
-----------------------------------------------------------------------------
(* What the steps share.                                                   *)

(***************************************************************************)
(* Whoever executes or owes something waits for nobody and has an attempt  *)
(* left; a charge at the limit escalates.                                  *)
(***************************************************************************)
LEMMA ChargeFacts ==
    ASSUME TypeOK, Driving, ResultsPlaced, CommandsPlaced, OwedPlaced, BudgetLeft,
           drv \in {"exec", "detached", "emit"}, s.sub # "RETURNED"
    PROVE  /\ s.awaiting = "none" /\ s.attempt # AttemptLimit
           /\ Charges => /\ s'.attempt = s.attempt + 1
                         /\ s'.awaiting \in {"none", "escalation"}
                         /\ s'.attempt = AttemptLimit => s'.awaiting = "escalation"
<1>1. s.awaiting = "none"
  <2>1. CASE s.sub \in NoDiff
    <3>1. s.result.of = "WRITE"
      BY <2>1 DEF ResultsPlaced
    <3>2. s.result # NoResult
      BY <3>1 DEF NoResult
    <3> QED
      BY <3>2 DEF ResultsPlaced
  <2>2. CASE s.sub \notin NoDiff /\ drv = "exec"
    BY <2>2 DEF Driving, CommandsPlaced
  <2>3. CASE drv = "detached"
    BY <2>3 DEF CommandsPlaced
  <2>4. CASE drv = "emit"
    BY <2>4 DEF Driving, OwedPlaced
  <2> QED
    BY <2>1, <2>2, <2>3, <2>4
<1>2. s.attempt # AttemptLimit
  BY <1>1 DEF BudgetLeft
<1>3. s.attempt \in 0..AttemptLimit
  BY DEF TypeOK, StateTypes
<1> QED
  BY <1>1, <1>2, <1>3, LimitsFacts DEF Charges

(***************************************************************************)
(* What a step books.                                                      *)
(***************************************************************************)
LEMMA BookFacts ==
    ASSUME TypeOK
    PROVE  /\ hist.rounds \in Nat /\ hist.paid \in 0..2 /\ s.attempt \in 0..AttemptLimit
           /\ hist' = Charged(hist) =>
                 /\ hist'.rounds = hist.rounds /\ hist'.damage = hist.damage
                 /\ hist.paid = 0 => hist'.paid \in 0..1
                 /\ s'.attempt = s.attempt => hist'.paid = hist.paid
           /\ \A d : hist' = [hist EXCEPT !.damage = @ \cup d] =>
                 /\ hist'.rounds = hist.rounds /\ hist'.paid = hist.paid
                 /\ hist'.damage = hist.damage \cup d
           /\ WriteReplies => /\ hist'.rounds \in Nat /\ hist'.rounds <= hist.rounds + 1
                              /\ hist'.paid = hist.paid /\ hist'.damage = hist.damage
<1>1. /\ hist \in [paid : 0..2, rounds : 0..MaxRounds, damage : SUBSET Damages]
      /\ s.attempt \in 0..AttemptLimit
  BY DEF TypeOK, StateTypes
<1>2. hist.rounds \in Nat
  BY <1>1, LimitsFacts DEF MaxRounds
<1> QED
  BY <1>1, <1>2, LimitsFacts DEF Charged, WriteReplies

(***************************************************************************)
(* The baseline outlives a rewrite; nothing but a turn makes files dirty.  *)
(***************************************************************************)
LEMMA TreeFacts ==
    ASSUME TypeOK
    PROVE  /\ \A x \in Rewritten \cup Littered :
                 "baseline" \in tests.judged => "baseline" \in x.judged
           /\ \A name : /\ Judged(name).judged = tests.judged \cup {name}
                        /\ Judged(name).dirty = tests.dirty
           /\ Dropped(tests).judged = tests.judged
           /\ tests.dirty = "clean" => Dropped(tests).dirty = "clean"
<1>1. tests \in TestTypes
  BY DEF TypeOK, TestTypes
<1>2. \A x \in Rewritten : /\ x \in TestTypes
                           /\ "baseline" \in tests.judged => "baseline" \in x.judged
  BY <1>1, TreesType DEF Rewritten, TestTypes
<1>3. \A x \in Rewritten : [x EXCEPT !.dirty = "residue"].judged = x.judged
  BY <1>2 DEF TestTypes
<1>4. \A x \in Littered : "baseline" \in tests.judged => "baseline" \in x.judged
  BY <1>2, <1>3 DEF Littered
<1> QED
  BY <1>1, <1>2, <1>4 DEF TestTypes, Judged, Dropped

(***************************************************************************)
(* A command with a charge, or without one but with no new round to pay.   *)
(***************************************************************************)
LEMMA RoundsKept ==
    ASSUME TypeOK, Driving, ResultsPlaced, CommandsPlaced, OwedPlaced, BudgetLeft, RoundsPaid,
           drv \in {"exec", "detached", "emit"}, s.sub # "RETURNED",
           hist' = Charged(hist), s'.pending = "none", drv' \in {"loop", "emit"},
           \/ Charges /\ drv' = "loop"
           \/ /\ s'.attempt = s.attempt
              /\ s'.sub \in {"DISPATCH", "WRITE"} /\ s'.result = NoResult
                 /\ todo' # "asset_deleted" =>
                    /\ s.sub \in {"DISPATCH", "WRITE"} /\ s.result = NoResult
                    /\ todo # "asset_deleted"
    PROVE  RoundsPaid'
<1>1. hist.paid = 0
  BY DEF RoundsPaid, Driving
<1>2. CASE Charges /\ drv' = "loop"
  <2>1. s'.attempt = s.attempt + 1
    BY <1>2, ChargeFacts
  <2> HIDE DEF Charges
  <2> QED
    BY <1>1, <1>2, <2>1, BookFacts DEF RoundsPaid
<1>3. CASE ~(Charges /\ drv' = "loop")
  BY <1>1, <1>3, BookFacts DEF RoundsPaid
<1> QED
  BY <1>2, <1>3
-----------------------------------------------------------------------------
(* The kinds of steps: where each is taken, and what it does to the fields *)
(* the invariant speaks of.                                                *)

Runs(c) == drv = "exec" /\ s.pending = c
Dispatched == drv \in {"exec", "detached"} /\ (drv = "exec" => s.pending = "dispatch")
GoesOn == drv' = "loop" /\ todo' = "none" /\ hist' = Charged(hist)
TreeKept == tests'.judged = tests.judged /\ (tests.dirty = "clean" => tests'.dirty = "clean")
BaselineKept == "baseline" \in tests.judged => "baseline" \in tests'.judged
Gives(name) == tests'.judged = tests.judged \cup {name} /\ tests'.dirty = tests.dirty

StillStep == UNCHANGED vars \/ Start \/ Stop

IssueStep ==
    /\ drv = "loop" /\ drv' = "exec" /\ Decide(s) # "none" /\ IssueEffect(Decide(s))
    /\ UNCHANGED <<todo, tests>>
    /\ hist'.paid = 0 /\ hist'.rounds = hist.rounds /\ hist'.damage = hist.damage

CrashStep ==
    /\ drv \in {"loop", "exec", "detached", "emit"} /\ drv' = "off" /\ todo' = "none"
    /\ UNCHANGED <<s, tests>>
    /\ hist'.rounds = hist.rounds /\ hist'.paid = hist.paid
    /\ hist'.damage = hist.damage \cup Loses

CleanStep ==
    /\ drv = "off" /\ s.stage = "M-TEST" /\ UNCHANGED <<s, drv, todo>>
    /\ tests'.dirty = "clean" /\ tests'.judged = tests.judged \cap {"baseline"}
    /\ hist'.rounds = hist.rounds /\ hist'.paid = hist.paid
    /\ \/ hist'.damage = hist.damage \cup {"cleaned"}
       \/ hist'.damage = hist.damage /\ tests.judged \subseteq {"baseline"}

DetachStep ==
    /\ Runs("dispatch") \/ Runs("run_tests")
    /\ PlainEffect /\ drv' = "detached" /\ UNCHANGED <<todo, tests, hist>>

OwingStep ==
    /\ PlainEffect /\ drv' = "emit" /\ hist' = Charged(hist)
    /\ \/ Runs("capture_baseline") /\ todo' = "baseline_defect" /\ UNCHANGED tests
       \/ Dispatched /\ s.sub # "RED_CHECK" /\ todo' = "rejected"
             /\ BaselineKept /\ (s.sub # "WRITE" => UNCHANGED tests)

BaselineStep == Runs("capture_baseline") /\ BaselineEffect /\ GoesOn /\ Gives("baseline")

ExitStep ==
    /\ Runs("write_frontmatter") /\ LeaveEffect /\ drv' = "emit" /\ todo' = "entered"
    /\ hist' = Charged(hist) /\ UNCHANGED tests

RollbackStep ==
    /\ Runs("rollback") /\ LeaveEffect /\ drv' = "left" /\ UNCHANGED <<todo, tests, hist>>
    /\ s'.stage = "upstream"

ReplyStep ==
    /\ Dispatched /\ ReplyEffect /\ drv' = "loop"
    /\ \/ /\ s.sub = "WRITE" /\ BaselineKept /\ todo' = todo
          /\ hist'.rounds \in Nat /\ hist'.rounds <= hist.rounds + 1
          /\ hist'.paid = hist.paid /\ hist'.damage = hist.damage
       \/ s.sub = "PRISM_REVIEW" /\ UNCHANGED tests /\ hist' = Charged(hist) /\ todo' = "none"

TurnFailsStep ==
    /\ Dispatched /\ s.sub \in Workers /\ TurnEffect /\ BaselineKept
    /\ s.sub # "WRITE" => UNCHANGED tests

TasksStep ==
    /\ Runs("dispatch") /\ s.sub = "WRITE" /\ Frame /\ GoesToDesign /\ ReviewSame /\ GoesOn
    /\ s'.result = s.result /\ s'.testCollected = s.testCollected /\ UNCHANGED tests

NoDiffStep == Dispatched /\ s.sub \in NoDiff /\ NoDiffEffect /\ UNCHANGED tests

PipelineStep ==
    /\ TreeKept
    /\ \/ Runs("validate") /\ PipelineEffect("validated")
       \/ Runs("checkpoint") /\ PipelineEffect("checkpointed")

DetectStep ==
    Runs("validate") /\ s.result.verdict = "no_diff" /\ DetectEffect /\ TreeKept

WrittenStep ==
    /\ Runs("publish") /\ s.result.of = "WRITE" /\ Frame /\ Spares /\ FlagsSame
    /\ s'.result = NoResult /\ s'.sub = "COLLECT" /\ s'.tracePassed = s.tracePassed
    /\ s'.testCollected = s.testCollected /\ UNCHANGED <<tests, hist>>

PrismStep ==
    /\ Runs("publish") /\ s.sub = "PRISM_REVIEW" /\ PrismEffect
    /\ s.result.verdict \in PrismVerdicts
    /\ IF s.result.verdict = "pass" THEN Gives("prism") ELSE UNCHANGED tests
    /\ \/ s.result.verdict # "unknown" /\ hist' = Charged(hist)
       \/ /\ s.result.verdict = "unknown" /\ hist'.damage = hist.damage \cup {"lost"}
          /\ hist'.rounds = hist.rounds /\ hist'.paid = hist.paid

CollectStep ==
    /\ Runs("collect_tests") /\ Frame /\ Spares /\ FlagsSame /\ GoesOn /\ Gives("collected")
    /\ s'.sub = "RED_CHECK" /\ s'.testCollected = TRUE /\ s'.result = s.result
    /\ s'.tracePassed = s.tracePassed

UncollectedStep ==
    /\ Runs("collect_tests") /\ UNCHANGED tests /\ hist' = Charged(hist)
    /\ \/ CollectionEffect("none") /\ drv' = "loop" /\ todo' = "none"
       \/ CollectionEffect("asset_deleted") /\ drv' = "emit" /\ todo' = "asset_deleted"

RedStep ==
    /\ drv = "detached" /\ s.sub = "RED_CHECK" /\ RedEffect(TRUE) /\ GoesOn /\ Gives("red")

NotRedStep ==
    /\ Runs("run_tests") \/ (drv = "detached" /\ s.sub = "RED_CHECK")
    /\ RedEffect(FALSE) /\ drv' = "emit" /\ todo' \in {"contract_error", "diagnosis"}
    /\ hist' = Charged(hist) /\ UNCHANGED tests

ExitGateEffect ==
    /\ s'.pending = "none" /\ s'.stage = s.stage /\ s'.sub = s.sub /\ s'.result = s.result
    /\ Spares /\ FlagsSame
    /\ s'.baselineCaptured = s.baselineCaptured /\ s'.redValidated = s.redValidated
    /\ s'.stageExited = s.stageExited /\ s'.testCollected = s.testCollected
    /\ s'.stubGap = s.stubGap

TracedStep ==
    /\ Runs("check_trace") /\ ExitGateEffect /\ GoesOn /\ Gives("trace")
    /\ s'.tracePassed = TRUE /\ s'.testCommitted = s.testCommitted

FrozenStep ==
    /\ Runs("commit_tests") /\ ExitGateEffect /\ GoesOn /\ Gives("frozen")
    /\ tests.dirty = "clean" /\ s'.tracePassed = s.tracePassed /\ s'.testCommitted = TRUE

EnteredStep ==
    /\ drv = "emit" /\ todo = "entered" /\ drv' = "left" /\ todo' = "none"
    /\ s'.pending = "none" /\ s'.stage = "M-IMPL" /\ s'.sub = s.sub /\ s'.result = s.result
    /\ Spares /\ ~s'.stageExited /\ UNCHANGED <<tests, hist>>
    /\ s'.baselineCaptured = s.baselineCaptured /\ s'.redValidated = s.redValidated
    /\ s'.testCollected = s.testCollected

\* Who gives which failed verdict.
FailSource(check) ==
    \/ /\ Dispatched /\ s.sub \in Workers /\ check = "rejected" /\ BaselineKept
       /\ s.sub # "WRITE" => UNCHANGED tests
    \/ Runs("validate") /\ check \in {"other", "test_defect"} /\ TreeKept
    \/ Runs("checkpoint") /\ check \in {"commit", "other"} /\ TreeKept
    \/ /\ UNCHANGED tests
       /\ \/ Runs("run_tests") /\ check \in {"other", "collect_defect"}
          \/ Runs("check_trace") /\ check = "trace"
          \/ Runs("commit_tests") /\ check = "contamination"
          \/ drv = "emit" /\ todo = "asset_deleted" /\ check = "test_defect"
          \/ drv = "emit" /\ todo \in {"baseline_defect", "contract_error"}
                /\ check = "upstream_defect"
          \/ drv = "emit" /\ todo = "diagnosis"
                /\ check \in {"test_defect", "stub_gap", "spec_gap"}
          \/ drv = "emit" /\ todo = "rejected" /\ check = "rejected"

FailStep == \E check \in Checks : FailSource(check) /\ FailEffect(check)

RetryStep == HumanRetry /\ RetryEffect
ReturnStep == HumanReturn /\ ReturnEffect
EnterStep == Reenter /\ EnterEffect

Kinds ==
    \/ StillStep \/ IssueStep \/ CrashStep \/ CleanStep \/ DetachStep \/ OwingStep
    \/ BaselineStep \/ ExitStep \/ RollbackStep \/ ReplyStep \/ TurnFailsStep \/ TasksStep
    \/ NoDiffStep \/ PipelineStep \/ DetectStep \/ WrittenStep \/ PrismStep \/ CollectStep
    \/ UncollectedStep \/ RedStep \/ NotRedStep \/ TracedStep \/ FrozenStep \/ EnteredStep
    \/ FailStep \/ RetryStep \/ ReturnStep \/ EnterStep

(***************************************************************************)
(* There are no others.                                                    *)
(***************************************************************************)
LEMMA StepKinds ==
    ASSUME TypeOK, Driving, ResultsPlaced, CommandsPlaced, [Next]_vars
    PROVE  Kinds
<1> USE BookFacts, TreeFacts
   DEF Runs, Dispatched, GoesOn, TreeKept, BaselineKept, Gives
<1>1. CASE UNCHANGED vars \/ Start \/ Stop
  BY <1>1 DEF StillStep, Kinds
<1>2. CASE Issue
  <2>1. IssueEffect(Decide(s)) /\ Decide(s) # "none"
    BY <1>2, IssueProjects DEF Issue
  <2>2. hist'.paid = 0 /\ hist'.rounds = hist.rounds /\ hist'.damage = hist.damage
    BY <1>2 DEF Issue, TypeOK
  <2> HIDE DEF Decide, IssueEffect
  <2> QED
    BY <1>2, <2>1, <2>2 DEF Issue, IssueStep, Kinds
<1>3. CASE Crash
  <2>1. CrashStep
    BY <1>3 DEF Crash, CrashStep
  <2> QED
    BY <2>1 DEF Kinds
<1>4. CASE OperatorCleans
  <2>1. CleanStep
    BY <1>4 DEF OperatorCleans, CleanStep, AtGate, Damaged, TypeOK
  <2> QED
    BY <2>1 DEF Kinds
<1>5. CASE Detach \/ SelectTests
  <2>1. DetachStep
    BY <1>5, PlainProjects DEF Detach, SelectTests, DetachStep
  <2> QED
    BY <2>1 DEF Kinds
<1>6. CASE BaselineFails \/ RejectDispatch
  <2>1. OwingStep
    BY <1>6, PlainProjects
       DEF BaselineFails, RejectDispatch, AppendThen, Executing, OwingStep,
           CommandsPlaced,
           Workers, NoDiff
  <2> QED
    BY <2>1 DEF Kinds
<1>7. CASE CaptureBaseline
  <2>1. BaselineStep
    BY <1>7, BaselineProjects
       DEF CaptureBaseline, Append, AppendThen, Executing, BaselineStep
  <2> QED
    BY <2>1 DEF Kinds
<1>8. CASE WriteFrontmatter
  <2>1. ExitStep
    BY <1>8, LeaveProjects DEF WriteFrontmatter, AppendThen, Executing, ExitStep
  <2> QED
    BY <2>1 DEF Kinds
<1>9. CASE RollbackStage
  <2>1. RollbackStep
    BY <1>9, LeaveProjects
       DEF RollbackStage, Cleared, Executing, RollbackStep, TypeOK, StateTypes
  <2> QED
    BY <2>1 DEF Kinds
<1>10. CASE WriteReplies \/ PrismReplies
  <2>1. ReplyStep
    BY <1>10, ReplyProjects
       DEF WriteReplies, PrismReplies, Append, AppendThen, Executing, ReplyStep
  <2> QED
    BY <2>1 DEF Kinds
<1>11. CASE DispatchFails
  <2>1. /\ Dispatched /\ s.sub \in Workers /\ BaselineKept /\ (s.sub # "WRITE" => UNCHANGED tests)
    BY <1>11 DEF DispatchFails, Executing, CommandsPlaced, Workers, NoDiff
  <2>2. CASE TurnFails
    <3>1. TurnFailsStep
      BY <2>1, <2>2, TurnProjects DEF TurnFailsStep
    <3> QED
      BY <3>1 DEF Kinds
  <2>3. CASE Append(OnVerdictFailed(Cleared, "rejected"))
    <3>1. FailEffect("rejected")
      BY <2>3, FailProjects DEF Checks
    <3>2. FailStep
      BY <2>1, <3>1 DEF FailStep, FailSource, Checks
    <3> QED
      BY <3>2 DEF Kinds
  <2> QED
    BY <1>11, <2>2, <2>3 DEF DispatchFails, TurnFails
<1>12. CASE TestTasksInvalid
  <2>1. s' = [s EXCEPT !.pending = "none", !.infra = 0, !.format = 0, !.docDispatched = FALSE,
                       !.sub = "DIAGNOSE", !.stubGap = TRUE]
    BY <1>12
       DEF TestTasksInvalid, Append, AppendThen, Cleared, OnStubGapOutcome,
           ToDesign,
                 ResetDoc, Healthy, TypeOK, StateTypes
  <2>2. TasksStep
    BY <1>12, <2>1
       DEF TestTasksInvalid, Append, AppendThen, Executing, TasksStep, Frame,
                       GoesToDesign, Spares, ReviewSame, TypeOK, StateTypes
  <2> QED
    BY <2>2 DEF Kinds
<1>13. CASE NoDiffReplies
  <2>1. NoDiffStep
    BY <1>13, NoDiffProjects DEF NoDiffReplies, Executing, NoDiffStep, NoDiff
  <2> QED
    BY <2>1 DEF Kinds
<1>14. CASE ValidateResult
  <2>1. Runs("validate") /\ s.result # NoResult /\ TreeKept
    BY <1>14
       DEF ValidateResult, Executing, CommandsPlaced, NoDiff, ResultCommands
  <2>2. CASE s.result.verdict = "no_diff" /\ Append(OnNoDiffDetected(Cleared))
    <3>1. DetectStep
      BY <2>1, <2>2, DetectProjects DEF DetectStep
    <3> QED
      BY <3>1 DEF Kinds
  <2>3. CASE Append([Cleared EXCEPT !.result.step = "validated"])
    <3>1. PipelineStep
      BY <2>1, <2>3, PipelineProjects DEF PipelineStep
    <3> QED
      BY <3>1 DEF Kinds
  <2>4. ASSUME NEW check \in {"other", "test_defect"}, Append(OnVerdictFailed(Cleared, check))
        PROVE  Kinds
    <3>1. FailEffect(check) /\ check \in Checks
      BY <2>4, FailProjects DEF Checks
    <3>2. FailStep
      BY <2>1, <2>4, <3>1 DEF FailStep, FailSource
    <3> QED
      BY <3>2 DEF Kinds
  <2> QED
    BY <1>14, <2>2, <2>3, <2>4 DEF ValidateResult
<1>15. CASE CheckpointResult
  <2>1. Runs("checkpoint") /\ s.result # NoResult /\ TreeKept
    BY <1>15
       DEF CheckpointResult, Executing, CommandsPlaced, NoDiff, ResultCommands,
           TypeOK
  <2>2. CASE Append([Cleared EXCEPT !.result.step = "checkpointed"])
    <3>1. PipelineStep
      BY <2>1, <2>2, PipelineProjects DEF PipelineStep
    <3> QED
      BY <3>1 DEF Kinds
  <2>3. ASSUME NEW check \in {"commit", "other"}, Append(OnVerdictFailed(Cleared, check))
        PROVE  Kinds
    <3>1. FailEffect(check) /\ check \in Checks
      BY <2>3, FailProjects DEF Checks
    <3>2. FailStep
      BY <2>1, <2>3, <3>1 DEF FailStep, FailSource
    <3> QED
      BY <3>2 DEF Kinds
  <2> QED
    BY <1>15, <2>2, <2>3 DEF CheckpointResult
<1>16. CASE PublishResult
  <2>1. Runs("publish") /\ drv' = "loop" /\ todo = "none" /\ UNCHANGED <<todo, cycles>>
    BY <1>16 DEF PublishResult, Executing, Driving
  <2>2. s.result # NoResult /\ s.sub \notin NoDiff
    BY <2>1 DEF CommandsPlaced, NoDiff, ResultCommands
  <2>3. CASE s.result.of = "WRITE"
    <3>1. s' = [s EXCEPT !.pending = "none", !.result = NoResult, !.sub = "COLLECT"]
      BY <1>16, <2>3 DEF PublishResult, OnTestWritten, Cleared
    <3>2. WrittenStep
      BY <1>16, <2>1, <2>3, <3>1
         DEF PublishResult, WrittenStep, Frame, Spares, FlagsSame,
                                     ReviewSame, TypeOK, StateTypes
    <3> QED
      BY <3>2 DEF Kinds
  <2>4. CASE s.result.of # "WRITE"
    <3>1. /\ s' = OnPrismVerdict(Cleared, s.result.verdict)
          /\ tests' = IF s.result.verdict = "pass" THEN Judged("prism") ELSE tests
          /\ IF s.result.verdict = "unknown" THEN hist' = [hist EXCEPT !.damage = @ \cup {"lost"}]
                                             ELSE hist' = Charged(hist)
      BY <1>16, <2>4 DEF PublishResult, Damaged
    <3>2. PrismEffect
      BY <2>1, <3>1, PrismProjects
    <3>3. s.sub = "PRISM_REVIEW" /\ s.result.verdict \in PrismVerdicts
      BY <2>2, <2>4
         DEF ResultsPlaced, NoDiff, Workers, TypeOK, StateTypes, Results
    <3>4. PrismStep
      BY <2>1, <3>1, <3>2, <3>3 DEF PrismStep
    <3> QED
      BY <3>4 DEF Kinds
  <2> QED
    BY <2>3, <2>4
<1>17. CASE CollectTests
  <2>1. s' = [s EXCEPT !.pending = "none", !.testCollected = TRUE, !.sub = "RED_CHECK"]
    BY <1>17 DEF CollectTests, Append, AppendThen, OnCollected, Cleared
  <2>2. Gives("collected")
    BY <1>17 DEF CollectTests, Judged, TypeOK
  <2>3. CollectStep
    BY <1>17, <2>1, <2>2
       DEF CollectTests, Append, AppendThen, Executing, CollectStep, Frame,
                             Spares, FlagsSame, ReviewSame, TypeOK, StateTypes
  <2> QED
    BY <2>3 DEF Kinds
<1>18. CASE CollectionFails \/ AssetsRemoved
  <2>1. UncollectedStep
    BY <1>18, CollectionProjects
       DEF CollectionFails, AssetsRemoved, Append, AppendThen, Executing,
           UncollectedStep
  <2> QED
    BY <2>1 DEF Kinds
<1>19. CASE RedCheck
  <2>1. RedStep
    BY <1>19, RedProjects DEF RedCheck, Append, AppendThen, Executing, RedStep
  <2> QED
    BY <2>1 DEF Kinds
<1>20. CASE ContractError \/ RedCheckInvalid
  <2>1. NotRedStep
    BY <1>20, RedProjects
       DEF ContractError, RedCheckInvalid, AppendThen, Executing, NotRedStep
  <2> QED
    BY <2>1 DEF Kinds
<1>21. CASE EmptySelection \/ CheckTrace \/ CommitTests
  <2>1. ASSUME NEW check \in Checks, Append(OnVerdictFailed(Cleared, check)), UNCHANGED tests,
               \/ Runs("run_tests") /\ check \in {"other", "collect_defect"}
               \/ Runs("check_trace") /\ check = "trace"
               \/ Runs("commit_tests") /\ check = "contamination"
        PROVE  Kinds
    <3>1. FailEffect(check)
      BY <2>1, FailProjects
    <3>2. FailStep
      BY <2>1, <3>1 DEF FailStep, FailSource
    <3> QED
      BY <3>2 DEF Kinds
  <2>2. CASE /\ Runs("check_trace") /\ tests' = Judged("trace")
             /\ Append([Healthy(Cleared) EXCEPT !.tracePassed = TRUE])
    <3>1. s' = [s EXCEPT !.pending = "none", !.infra = 0, !.format = 0, !.tracePassed = TRUE]
      BY <2>2 DEF Append, AppendThen, Healthy, Cleared
    <3>2. TracedStep
      BY ZenonT(40), <2>2, <3>1
         DEF Append, AppendThen, TracedStep, ExitGateEffect, Spares, FlagsSame,
                        ReviewSame, TypeOK, StateTypes
    <3> QED
      BY <3>2 DEF Kinds
  <2>3. CASE /\ Runs("commit_tests") /\ tests' = Judged("frozen") /\ tests.dirty = "clean"
             /\ Append(OnTestCommitted(Cleared))
    <3>1. FrozenStep
      BY <2>3
         DEF Append, AppendThen, OnTestCommitted, Cleared, FrozenStep,
             ExitGateEffect,
                  Spares, FlagsSame, ReviewSame, TypeOK, StateTypes
    <3> QED
      BY <3>1 DEF Kinds
  <2> QED
    BY <1>21, <2>1, <2>2, <2>3
       DEF EmptySelection, CheckTrace, CommitTests, Executing, Checks
<1>22. CASE AppendOwed
  <2>1. ASSUME NEW check \in Checks, Append(OnVerdictFailed(Cleared, check)),
               drv = "emit", UNCHANGED tests,
               \/ todo = "asset_deleted" /\ check = "test_defect"
               \/ todo \in {"baseline_defect", "contract_error"} /\ check = "upstream_defect"
               \/ todo = "diagnosis" /\ check \in {"test_defect", "stub_gap", "spec_gap"}
               \/ todo = "rejected" /\ check = "rejected"
        PROVE  Kinds
    <3>1. FailEffect(check)
      BY <2>1, FailProjects
    <3>2. FailStep
      BY <2>1, <3>1 DEF FailStep, FailSource
    <3> QED
      BY <3>2 DEF Kinds
  <2>2. CASE todo = "entered"
    <3>1. /\ s' = [s EXCEPT !.pending = "none", !.stage = "M-IMPL", !.stageExited = FALSE]
          /\ drv = "emit" /\ drv' = "left" /\ todo' = "none" /\ UNCHANGED <<hist, cycles, tests>>
      BY <1>22, <2>2 DEF AppendOwed, Cleared, TypeOK, StateTypes
    <3>2. EnteredStep
      BY <2>2, <3>1 DEF EnteredStep, Spares, TypeOK, StateTypes
    <3> QED
      BY <3>2 DEF Kinds
  <2> QED
    BY <1>22, <2>1, <2>2 DEF AppendOwed, Driving, Checks, TypeOK
<1>23. CASE HumanRetry \/ HumanReturn \/ Reenter
  BY <1>23, RetryProjects, ReturnProjects, EnterProjects
     DEF RetryStep, ReturnStep, EnterStep, Kinds
<1> QED
  BY <1>1, <1>2, <1>3, <1>4, <1>5, <1>6, <1>7, <1>8, <1>9, <1>10, <1>11, <1>12,
     <1>13, <1>14,
     <1>15, <1>16, <1>17, <1>18, <1>19, <1>20, <1>21, <1>22, <1>23 DEF Next, DriverStep
-----------------------------------------------------------------------------
(* One step, each part of the invariant.                                   *)

(***************************************************************************)
(* What the process holds.                                                 *)
(***************************************************************************)
LEMMA DrivingStep ==
    ASSUME TypeOK, Driving, ResultsPlaced, CommandsPlaced, OwedPlaced, [Next]_vars
    PROVE  Driving'
<1>0. Kinds
  BY StepKinds
<1> USE DEF Driving, CommandsPlaced, NoDiff, Workers, ResultCommands,
            ExitCommands, Runs, Dispatched, GoesOn, TreeKept, BaselineKept,
            Gives
<1>1. CASE StillStep
  BY <1>1 DEF StillStep, Start, Stop, vars, Reconciled
<1>2. CASE IssueStep
  <2>1. s.sub \in Substates
    BY DEF TypeOK, StateTypes
  <2> HIDE DEF Decide
  <2> QED
    BY <1>2, <2>1, DecideFacts
       DEF IssueStep, IssueEffect, Spares, FlagsSame, ReviewSame
<1>3. CASE CrashStep
  BY <1>3 DEF CrashStep, Loses
<1>4. CASE CleanStep
  BY <1>4 DEF CleanStep
<1>5. CASE DetachStep
  BY <1>5
     DEF DetachStep, PlainEffect, Cleaned, GatesKept, Spares, FlagsSame,
         ReviewSame
<1>6. CASE OwingStep
  BY <1>6
     DEF OwingStep, PlainEffect, Cleaned, GatesKept, Spares, FlagsSame,
         ReviewSame
<1>7. CASE BaselineStep
  BY <1>7
     DEF BaselineStep, BaselineEffect, Cleaned, Spares, FlagsSame, ReviewSame
<1>8. CASE ExitStep
  BY <1>8 DEF ExitStep, LeaveEffect, Cleaned, Spares, FlagsSame, ReviewSame
<1>9. CASE RollbackStep
  BY <1>9 DEF RollbackStep, LeaveEffect, Cleaned, Spares, FlagsSame, ReviewSame
<1>10. CASE ReplyStep
  BY <1>10 DEF ReplyStep, ReplyEffect, Spares, FlagsSame, ReviewSame
<1>11. CASE TurnFailsStep
  BY <1>11
     DEF TurnFailsStep, TurnEffect, Frame, FlagReset, Charges, Spares,
         FlagsSame, ReviewSame
<1>12. CASE TasksStep
  BY <1>12 DEF TasksStep, Frame, GoesToDesign, Spares, FlagsSame, ReviewSame
<1>13. CASE NoDiffStep
  BY <1>13
     DEF NoDiffStep, NoDiffEffect, Frame, GoesToDesign, AsksHuman, GoesToWrite,
         ReviewsAgain, Charges, Spares, FlagsSame, ReviewSame
<1>14. CASE PipelineStep
  BY <1>14
     DEF PipelineStep, PipelineEffect, Frame, Spares, FlagsSame, ReviewSame
<1>15. CASE DetectStep
  BY <1>15 DEF DetectStep, DetectEffect, Frame, Spares, FlagsSame, ReviewSame
<1>16. CASE WrittenStep
  BY <1>16 DEF WrittenStep, Frame, Spares, FlagsSame, ReviewSame
<1>17. CASE PrismStep
  BY <1>17
     DEF PrismStep, PrismEffect, PrismVerdicts, Frame, GoesToDesign, AsksHuman,
         GoesToWrite, ReviewsAgain, Charges, Spares, FlagsSame, ReviewSame
<1>18. CASE CollectStep
  BY <1>18 DEF CollectStep, Frame, Spares, FlagsSame, ReviewSame
<1>19. CASE UncollectedStep
  BY <1>19 DEF UncollectedStep, CollectionEffect, Charges, Spares
<1>20. CASE RedStep
  BY <1>20 DEF RedStep, RedEffect, Spares
<1>21. CASE NotRedStep
  BY <1>21 DEF NotRedStep, RedEffect, Spares
<1>22. CASE TracedStep
  BY <1>22 DEF TracedStep, ExitGateEffect, Spares, FlagsSame, ReviewSame
<1>23. CASE FrozenStep
  BY <1>23 DEF FrozenStep, ExitGateEffect, Spares, FlagsSame, ReviewSame
<1>24. CASE EnteredStep
  BY <1>24 DEF EnteredStep, Spares
<1>25. CASE FailStep
  <2>1. PICK check \in Checks : FailSource(check) /\ FailEffect(check)
    BY <1>25 DEF FailStep
  <2> QED
    BY <2>1
       DEF FailSource, FailEffect, Frame, GoesToDesign, AsksHuman, GoesToWrite,
           ReviewsAgain, Charges, Spares, FlagsSame, ReviewSame
<1>26. CASE RetryStep
  BY <1>26 DEF RetryStep, RetryEffect, GatesKept, AtGate
<1>27. CASE ReturnStep
  BY <1>27
     DEF ReturnStep, ReturnEffect, GatesKept, FlagsSame, ReviewSame, AtGate
<1>28. CASE EnterStep
  BY <1>28 DEF EnterStep, EnterEffect
<1> HIDE DEF Driving, CommandsPlaced, NoDiff, Workers, ResultCommands,
             ExitCommands, Runs, Dispatched, GoesOn, TreeKept, BaselineKept,
             Gives
<1> QED
  BY <1>0, <1>1, <1>2, <1>3, <1>4, <1>5, <1>6, <1>7, <1>8, <1>9, <1>10, <1>11,
     <1>12, <1>13, <1>14, <1>15, <1>16, <1>17, <1>18, <1>19, <1>20, <1>21,
     <1>22, <1>23, <1>24, <1>25, <1>26, <1>27, <1>28
     DEF Kinds

(***************************************************************************)
(* Where a result lies.                                                    *)
(***************************************************************************)
LEMMA ResultsStep ==
    ASSUME TypeOK, Driving, ResultsPlaced, CommandsPlaced, OwedPlaced, [Next]_vars
    PROVE  ResultsPlaced'
<1>0. Kinds
  BY StepKinds
<1> USE NoResultFacts
   DEF Driving, ResultsPlaced, CommandsPlaced, OwedPlaced, NoDiff, Workers,
       ResultCommands, ExitCommands, Runs, Dispatched, GoesOn, TreeKept,
       BaselineKept, Gives
<1>1. CASE StillStep
  BY <1>1 DEF StillStep, Start, Stop, vars
<1>2. CASE IssueStep
  <2>1. s.sub \in Substates
    BY DEF TypeOK, StateTypes
  <2> HIDE DEF Decide
  <2> QED
    BY <1>2, <2>1, DecideFacts
       DEF IssueStep, IssueEffect, Spares, FlagsSame, ReviewSame
<1>3. CASE CrashStep
  BY <1>3 DEF CrashStep, Loses
<1>4. CASE CleanStep
  BY <1>4 DEF CleanStep
<1>5. CASE DetachStep
  BY <1>5
     DEF DetachStep, PlainEffect, Cleaned, GatesKept, Spares, FlagsSame,
         ReviewSame
<1>6. CASE OwingStep
  BY <1>6
     DEF OwingStep, PlainEffect, Cleaned, GatesKept, Spares, FlagsSame,
         ReviewSame
<1>7. CASE BaselineStep
  BY <1>7
     DEF BaselineStep, BaselineEffect, Cleaned, Spares, FlagsSame, ReviewSame
<1>8. CASE ExitStep
  BY <1>8 DEF ExitStep, LeaveEffect, Cleaned, Spares, FlagsSame, ReviewSame
<1>9. CASE RollbackStep
  BY <1>9 DEF RollbackStep, LeaveEffect, Cleaned, Spares, FlagsSame, ReviewSame
<1>10. CASE ReplyStep
  BY <1>10 DEF ReplyStep, ReplyEffect, Spares, FlagsSame, ReviewSame
<1>11. CASE TurnFailsStep
  BY <1>11
     DEF TurnFailsStep, TurnEffect, Frame, FlagReset, Charges, Spares,
         FlagsSame, ReviewSame
<1>12. CASE TasksStep
  BY <1>12 DEF TasksStep, Frame, GoesToDesign, Spares, FlagsSame, ReviewSame
<1>13. CASE NoDiffStep
  BY ZenonT(40), <1>13
     DEF NoDiffStep, NoDiffEffect, Frame, GoesToDesign, AsksHuman, GoesToWrite,
         ReviewsAgain, Charges, Spares, FlagsSame, ReviewSame
<1>14. CASE PipelineStep
  BY <1>14
     DEF PipelineStep, PipelineEffect, Frame, Spares, FlagsSame, ReviewSame
<1>15. CASE DetectStep
  BY <1>15 DEF DetectStep, DetectEffect, Frame, Spares, FlagsSame, ReviewSame
<1>16. CASE WrittenStep
  BY <1>16 DEF WrittenStep, Frame, Spares, FlagsSame, ReviewSame
<1>17. CASE PrismStep
  BY <1>17
     DEF PrismStep, PrismEffect, PrismVerdicts, Frame, GoesToDesign, AsksHuman,
         GoesToWrite, ReviewsAgain, Charges, Spares, FlagsSame, ReviewSame
<1>18. CASE CollectStep
  BY <1>18 DEF CollectStep, Frame, Spares, FlagsSame, ReviewSame
<1>19. CASE UncollectedStep
  BY <1>19 DEF UncollectedStep, CollectionEffect, Charges, Spares
<1>20. CASE RedStep
  BY <1>20 DEF RedStep, RedEffect, Spares
<1>21. CASE NotRedStep
  BY <1>21 DEF NotRedStep, RedEffect, Spares
<1>22. CASE TracedStep
  BY <1>22 DEF TracedStep, ExitGateEffect, Spares, FlagsSame, ReviewSame
<1>23. CASE FrozenStep
  BY <1>23 DEF FrozenStep, ExitGateEffect, Spares, FlagsSame, ReviewSame
<1>24. CASE EnteredStep
  BY <1>24 DEF EnteredStep, Spares
<1>25. CASE FailStep
  <2>1. PICK check \in Checks : FailSource(check) /\ FailEffect(check)
    BY <1>25 DEF FailStep
  <2> QED
    BY <2>1
       DEF FailSource, FailEffect, Frame, GoesToDesign, AsksHuman, GoesToWrite,
           ReviewsAgain, Charges, Spares, FlagsSame, ReviewSame
<1>26. CASE RetryStep
  BY <1>26 DEF RetryStep, RetryEffect, GatesKept, AtGate
<1>27. CASE ReturnStep
  BY <1>27
     DEF ReturnStep, ReturnEffect, GatesKept, FlagsSame, ReviewSame, AtGate
<1>28. CASE EnterStep
  BY <1>28 DEF EnterStep, EnterEffect
<1> HIDE DEF Driving, ResultsPlaced, CommandsPlaced, OwedPlaced, NoDiff,
             Workers, ResultCommands, ExitCommands, Runs, Dispatched, GoesOn,
             TreeKept, BaselineKept, Gives
<1> QED
  BY <1>0, <1>1, <1>2, <1>3, <1>4, <1>5, <1>6, <1>7, <1>8, <1>9, <1>10, <1>11,
     <1>12, <1>13, <1>14, <1>15, <1>16, <1>17, <1>18, <1>19, <1>20, <1>21,
     <1>22, <1>23, <1>24, <1>25, <1>26, <1>27, <1>28
     DEF Kinds

(***************************************************************************)
(* Where a command runs.                                                   *)
(***************************************************************************)
LEMMA CommandsStep ==
    ASSUME TypeOK, Driving, ResultsPlaced, CommandsPlaced, OwedPlaced, [Next]_vars
    PROVE  CommandsPlaced'
<1>0. Kinds
  BY StepKinds
<1> USE NoResultFacts
   DEF Driving, ResultsPlaced, CommandsPlaced, OwedPlaced, NoDiff, Workers,
       ResultCommands, ExitCommands, Runs, Dispatched, GoesOn, TreeKept,
       BaselineKept, Gives
<1>1. CASE StillStep
  BY <1>1 DEF StillStep, Start, Stop, vars
<1>2. CASE IssueStep
  <2>1. s.sub \in Substates
    BY DEF TypeOK, StateTypes
  <2> HIDE DEF Decide
  <2> QED
    BY <1>2, <2>1, DecideFacts
       DEF IssueStep, IssueEffect, Spares, FlagsSame, ReviewSame
<1>3. CASE CrashStep
  BY <1>3 DEF CrashStep, Loses
<1>4. CASE CleanStep
  BY <1>4 DEF CleanStep
<1>5. CASE DetachStep
  BY <1>5
     DEF DetachStep, PlainEffect, Cleaned, GatesKept, Spares, FlagsSame,
         ReviewSame
<1>6. CASE OwingStep
  BY <1>6
     DEF OwingStep, PlainEffect, Cleaned, GatesKept, Spares, FlagsSame,
         ReviewSame
<1>7. CASE BaselineStep
  BY <1>7
     DEF BaselineStep, BaselineEffect, Cleaned, Spares, FlagsSame, ReviewSame
<1>8. CASE ExitStep
  BY <1>8 DEF ExitStep, LeaveEffect, Cleaned, Spares, FlagsSame, ReviewSame
<1>9. CASE RollbackStep
  BY <1>9 DEF RollbackStep, LeaveEffect, Cleaned, Spares, FlagsSame, ReviewSame
<1>10. CASE ReplyStep
  BY <1>10 DEF ReplyStep, ReplyEffect, Spares, FlagsSame, ReviewSame
<1>11. CASE TurnFailsStep
  BY <1>11
     DEF TurnFailsStep, TurnEffect, Frame, FlagReset, Charges, Spares,
         FlagsSame, ReviewSame
<1>12. CASE TasksStep
  BY <1>12 DEF TasksStep, Frame, GoesToDesign, Spares, FlagsSame, ReviewSame
<1>13. CASE NoDiffStep
  BY <1>13
     DEF NoDiffStep, NoDiffEffect, Frame, GoesToDesign, AsksHuman, GoesToWrite,
         ReviewsAgain, Charges, Spares, FlagsSame, ReviewSame
<1>14. CASE PipelineStep
  BY <1>14
     DEF PipelineStep, PipelineEffect, Frame, Spares, FlagsSame, ReviewSame
<1>15. CASE DetectStep
  BY <1>15 DEF DetectStep, DetectEffect, Frame, Spares, FlagsSame, ReviewSame
<1>16. CASE WrittenStep
  BY <1>16 DEF WrittenStep, Frame, Spares, FlagsSame, ReviewSame
<1>17. CASE PrismStep
  BY <1>17
     DEF PrismStep, PrismEffect, PrismVerdicts, Frame, GoesToDesign, AsksHuman,
         GoesToWrite, ReviewsAgain, Charges, Spares, FlagsSame, ReviewSame
<1>18. CASE CollectStep
  BY <1>18 DEF CollectStep, Frame, Spares, FlagsSame, ReviewSame
<1>19. CASE UncollectedStep
  BY <1>19 DEF UncollectedStep, CollectionEffect, Charges, Spares
<1>20. CASE RedStep
  BY <1>20 DEF RedStep, RedEffect, Spares
<1>21. CASE NotRedStep
  BY <1>21 DEF NotRedStep, RedEffect, Spares
<1>22. CASE TracedStep
  BY <1>22 DEF TracedStep, ExitGateEffect, Spares, FlagsSame, ReviewSame
<1>23. CASE FrozenStep
  BY <1>23 DEF FrozenStep, ExitGateEffect, Spares, FlagsSame, ReviewSame
<1>24. CASE EnteredStep
  BY <1>24 DEF EnteredStep, Spares
<1>25. CASE FailStep
  <2>1. PICK check \in Checks : FailSource(check) /\ FailEffect(check)
    BY <1>25 DEF FailStep
  <2> QED
    BY <2>1
       DEF FailSource, FailEffect, Frame, GoesToDesign, AsksHuman, GoesToWrite,
           ReviewsAgain, Charges, Spares, FlagsSame, ReviewSame
<1>26. CASE RetryStep
  BY <1>26 DEF RetryStep, RetryEffect, GatesKept, AtGate
<1>27. CASE ReturnStep
  BY <1>27
     DEF ReturnStep, ReturnEffect, GatesKept, FlagsSame, ReviewSame, AtGate
<1>28. CASE EnterStep
  BY <1>28 DEF EnterStep, EnterEffect
<1> HIDE DEF Driving, ResultsPlaced, CommandsPlaced, OwedPlaced, NoDiff,
             Workers, ResultCommands, ExitCommands, Runs, Dispatched, GoesOn,
             TreeKept, BaselineKept, Gives
<1> QED
  BY <1>0, <1>1, <1>2, <1>3, <1>4, <1>5, <1>6, <1>7, <1>8, <1>9, <1>10, <1>11,
     <1>12, <1>13, <1>14, <1>15, <1>16, <1>17, <1>18, <1>19, <1>20, <1>21,
     <1>22, <1>23, <1>24, <1>25, <1>26, <1>27, <1>28
     DEF Kinds

(***************************************************************************)
(* Where an event is owed.                                                 *)
(***************************************************************************)
LEMMA OwedStep ==
    ASSUME TypeOK, Driving, ResultsPlaced, CommandsPlaced, OwedPlaced, [Next]_vars
    PROVE  OwedPlaced'
<1>0. Kinds
  BY StepKinds
<1> USE NoResultFacts
   DEF Driving, ResultsPlaced, CommandsPlaced, OwedPlaced, NoDiff, Workers,
       ResultCommands, ExitCommands, Runs, Dispatched, GoesOn, TreeKept,
       BaselineKept, Gives
<1>1. CASE StillStep
  BY <1>1 DEF StillStep, Start, Stop, vars
<1>2. CASE IssueStep
  <2>1. s.sub \in Substates
    BY DEF TypeOK, StateTypes
  <2> HIDE DEF Decide
  <2> QED
    BY <1>2, <2>1, DecideFacts
       DEF IssueStep, IssueEffect, Spares, FlagsSame, ReviewSame
<1>3. CASE CrashStep
  BY <1>3 DEF CrashStep, Loses
<1>4. CASE CleanStep
  BY <1>4 DEF CleanStep
<1>5. CASE DetachStep
  BY <1>5
     DEF DetachStep, PlainEffect, Cleaned, GatesKept, Spares, FlagsSame,
         ReviewSame
<1>6. CASE OwingStep
  BY <1>6
     DEF OwingStep, PlainEffect, Cleaned, GatesKept, Spares, FlagsSame,
         ReviewSame
<1>7. CASE BaselineStep
  BY <1>7
     DEF BaselineStep, BaselineEffect, Cleaned, Spares, FlagsSame, ReviewSame
<1>8. CASE ExitStep
  BY <1>8 DEF ExitStep, LeaveEffect, Cleaned, Spares, FlagsSame, ReviewSame
<1>9. CASE RollbackStep
  BY <1>9 DEF RollbackStep, LeaveEffect, Cleaned, Spares, FlagsSame, ReviewSame
<1>10. CASE ReplyStep
  BY <1>10 DEF ReplyStep, ReplyEffect, Spares, FlagsSame, ReviewSame
<1>11. CASE TurnFailsStep
  BY <1>11
     DEF TurnFailsStep, TurnEffect, Frame, FlagReset, Charges, Spares,
         FlagsSame, ReviewSame
<1>12. CASE TasksStep
  BY <1>12 DEF TasksStep, Frame, GoesToDesign, Spares, FlagsSame, ReviewSame
<1>13. CASE NoDiffStep
  BY <1>13
     DEF NoDiffStep, NoDiffEffect, Frame, GoesToDesign, AsksHuman, GoesToWrite,
         ReviewsAgain, Charges, Spares, FlagsSame, ReviewSame
<1>14. CASE PipelineStep
  BY <1>14
     DEF PipelineStep, PipelineEffect, Frame, Spares, FlagsSame, ReviewSame
<1>15. CASE DetectStep
  BY <1>15 DEF DetectStep, DetectEffect, Frame, Spares, FlagsSame, ReviewSame
<1>16. CASE WrittenStep
  BY <1>16 DEF WrittenStep, Frame, Spares, FlagsSame, ReviewSame
<1>17. CASE PrismStep
  BY <1>17
     DEF PrismStep, PrismEffect, PrismVerdicts, Frame, GoesToDesign, AsksHuman,
         GoesToWrite, ReviewsAgain, Charges, Spares, FlagsSame, ReviewSame
<1>18. CASE CollectStep
  BY <1>18 DEF CollectStep, Frame, Spares, FlagsSame, ReviewSame
<1>19. CASE UncollectedStep
  BY <1>19 DEF UncollectedStep, CollectionEffect, Charges, Spares
<1>20. CASE RedStep
  BY <1>20 DEF RedStep, RedEffect, Spares
<1>21. CASE NotRedStep
  BY <1>21 DEF NotRedStep, RedEffect, Spares
<1>22. CASE TracedStep
  BY <1>22 DEF TracedStep, ExitGateEffect, Spares, FlagsSame, ReviewSame
<1>23. CASE FrozenStep
  BY <1>23 DEF FrozenStep, ExitGateEffect, Spares, FlagsSame, ReviewSame
<1>24. CASE EnteredStep
  BY <1>24 DEF EnteredStep, Spares
<1>25. CASE FailStep
  <2>1. PICK check \in Checks : FailSource(check) /\ FailEffect(check)
    BY <1>25 DEF FailStep
  <2> QED
    BY <2>1
       DEF FailSource, FailEffect, Frame, GoesToDesign, AsksHuman, GoesToWrite,
           ReviewsAgain, Charges, Spares, FlagsSame, ReviewSame
<1>26. CASE RetryStep
  BY <1>26 DEF RetryStep, RetryEffect, GatesKept, AtGate
<1>27. CASE ReturnStep
  BY <1>27
     DEF ReturnStep, ReturnEffect, GatesKept, FlagsSame, ReviewSame, AtGate
<1>28. CASE EnterStep
  BY <1>28 DEF EnterStep, EnterEffect
<1> HIDE DEF Driving, ResultsPlaced, CommandsPlaced, OwedPlaced, NoDiff,
             Workers, ResultCommands, ExitCommands, Runs, Dispatched, GoesOn,
             TreeKept, BaselineKept, Gives
<1> QED
  BY <1>0, <1>1, <1>2, <1>3, <1>4, <1>5, <1>6, <1>7, <1>8, <1>9, <1>10, <1>11,
     <1>12, <1>13, <1>14, <1>15, <1>16, <1>17, <1>18, <1>19, <1>20, <1>21,
     <1>22, <1>23, <1>24, <1>25, <1>26, <1>27, <1>28
     DEF Kinds

(***************************************************************************)
(* A spent budget has escalated.                                           *)
(***************************************************************************)
LEMMA BudgetStep ==
    ASSUME TypeOK, Driving, ResultsPlaced, CommandsPlaced, OwedPlaced, BudgetLeft, [Next]_vars
    PROVE  BudgetLeft'
<1>0. Kinds
  BY StepKinds
<1> USE LimitsFacts, NoResultFacts, ChargeFacts
   DEF Driving, ResultsPlaced, CommandsPlaced, OwedPlaced, NoDiff, Workers,
       ResultCommands, ExitCommands, BudgetLeft, Runs, Dispatched, GoesOn,
       TreeKept, BaselineKept, Gives
<1>1. CASE StillStep
  BY <1>1 DEF StillStep, Start, Stop, vars
<1>2. CASE IssueStep
  <2>1. s.sub \in Substates
    BY DEF TypeOK, StateTypes
  <2> HIDE DEF Decide
  <2> QED
    BY <1>2, <2>1, DecideFacts
       DEF IssueStep, IssueEffect, Spares, FlagsSame, ReviewSame
<1>3. CASE CrashStep
  BY <1>3 DEF CrashStep, Loses
<1>4. CASE CleanStep
  BY <1>4 DEF CleanStep
<1>5. CASE DetachStep
  BY <1>5
     DEF DetachStep, PlainEffect, Cleaned, GatesKept, Spares, FlagsSame,
         ReviewSame
<1>6. CASE OwingStep
  BY <1>6
     DEF OwingStep, PlainEffect, Cleaned, GatesKept, Spares, FlagsSame,
         ReviewSame
<1>7. CASE BaselineStep
  BY <1>7
     DEF BaselineStep, BaselineEffect, Cleaned, Spares, FlagsSame, ReviewSame
<1>8. CASE ExitStep
  BY <1>8 DEF ExitStep, LeaveEffect, Cleaned, Spares, FlagsSame, ReviewSame
<1>9. CASE RollbackStep
  BY <1>9 DEF RollbackStep, LeaveEffect, Cleaned, Spares, FlagsSame, ReviewSame
<1>10. CASE ReplyStep
  BY <1>10 DEF ReplyStep, ReplyEffect, Spares, FlagsSame, ReviewSame
<1>11. CASE TurnFailsStep
  BY <1>11
     DEF TurnFailsStep, TurnEffect, Frame, FlagReset, Spares, FlagsSame,
         ReviewSame
<1>12. CASE TasksStep
  BY <1>12 DEF TasksStep, Frame, GoesToDesign, Spares, FlagsSame, ReviewSame
<1>13. CASE NoDiffStep
  BY <1>13
     DEF NoDiffStep, NoDiffEffect, Frame, GoesToDesign, AsksHuman, GoesToWrite,
         ReviewsAgain, Spares, FlagsSame, ReviewSame
<1>14. CASE PipelineStep
  BY <1>14
     DEF PipelineStep, PipelineEffect, Frame, Spares, FlagsSame, ReviewSame
<1>15. CASE DetectStep
  BY <1>15 DEF DetectStep, DetectEffect, Frame, Spares, FlagsSame, ReviewSame
<1>16. CASE WrittenStep
  BY <1>16 DEF WrittenStep, Frame, Spares, FlagsSame, ReviewSame
<1>17. CASE PrismStep
  BY <1>17
     DEF PrismStep, PrismEffect, PrismVerdicts, Frame, GoesToDesign, AsksHuman,
         GoesToWrite, ReviewsAgain, Spares, FlagsSame, ReviewSame
<1>18. CASE CollectStep
  BY <1>18 DEF CollectStep, Frame, Spares, FlagsSame, ReviewSame
<1>19. CASE UncollectedStep
  BY <1>19 DEF UncollectedStep, CollectionEffect, Spares
<1>20. CASE RedStep
  BY <1>20 DEF RedStep, RedEffect, Spares
<1>21. CASE NotRedStep
  BY <1>21 DEF NotRedStep, RedEffect, Spares
<1>22. CASE TracedStep
  BY <1>22 DEF TracedStep, ExitGateEffect, Spares, FlagsSame, ReviewSame
<1>23. CASE FrozenStep
  BY <1>23 DEF FrozenStep, ExitGateEffect, Spares, FlagsSame, ReviewSame
<1>24. CASE EnteredStep
  BY <1>24 DEF EnteredStep, Spares
<1>25. CASE FailStep
  <2>1. PICK check \in Checks : FailSource(check) /\ FailEffect(check)
    BY <1>25 DEF FailStep
  <2> QED
    BY ZenonT(40), <2>1
       DEF FailSource, FailEffect, Frame, GoesToDesign, AsksHuman, GoesToWrite,
           ReviewsAgain, Spares, FlagsSame, ReviewSame
<1>26. CASE RetryStep
  BY <1>26 DEF RetryStep, RetryEffect, GatesKept, AtGate
<1>27. CASE ReturnStep
  BY <1>27
     DEF ReturnStep, ReturnEffect, GatesKept, FlagsSame, ReviewSame, AtGate
<1>28. CASE EnterStep
  BY <1>28 DEF EnterStep, EnterEffect
<1> HIDE DEF Driving, ResultsPlaced, CommandsPlaced, OwedPlaced, NoDiff,
             Workers, ResultCommands, ExitCommands, BudgetLeft, Runs,
             Dispatched, GoesOn, TreeKept, BaselineKept, Gives
<1> QED
  BY <1>0, <1>1, <1>2, <1>3, <1>4, <1>5, <1>6, <1>7, <1>8, <1>9, <1>10, <1>11,
     <1>12, <1>13, <1>14, <1>15, <1>16, <1>17, <1>18, <1>19, <1>20, <1>21,
     <1>22, <1>23, <1>24, <1>25, <1>26, <1>27, <1>28
     DEF Kinds

(***************************************************************************)
(* Which verdicts hold.                                                    *)
(***************************************************************************)
LEMMA VerdictsStep ==
    ASSUME TypeOK, Driving, ResultsPlaced, CommandsPlaced, OwedPlaced, VerdictsHold, [Next]_vars
    PROVE  VerdictsHold'
<1>0. Kinds
  BY StepKinds
<1> USE NoResultFacts, BookFacts
   DEF Driving, ResultsPlaced, CommandsPlaced, OwedPlaced, NoDiff, Workers,
       ResultCommands, ExitCommands, VerdictsHold, Runs, Dispatched, GoesOn,
       TreeKept, BaselineKept, Gives
<1>1. CASE StillStep
  BY <1>1 DEF StillStep, Start, Stop, vars
<1>2. CASE IssueStep
  <2>1. s.sub \in Substates
    BY DEF TypeOK, StateTypes
  <2> HIDE DEF Decide
  <2> QED
    BY <1>2, <2>1, DecideFacts
       DEF IssueStep, IssueEffect, Spares, FlagsSame, ReviewSame
<1>3. CASE CrashStep
  BY <1>3 DEF CrashStep, Loses
<1>4. CASE CleanStep
  BY <1>4 DEF CleanStep
<1>5. CASE DetachStep
  BY <1>5
     DEF DetachStep, PlainEffect, Cleaned, GatesKept, Spares, FlagsSame,
         ReviewSame
<1>6. CASE OwingStep
  BY <1>6
     DEF OwingStep, PlainEffect, Cleaned, GatesKept, Spares, FlagsSame,
         ReviewSame
<1>7. CASE BaselineStep
  BY <1>7
     DEF BaselineStep, BaselineEffect, Cleaned, Spares, FlagsSame, ReviewSame
<1>8. CASE ExitStep
  BY <1>8 DEF ExitStep, LeaveEffect, Cleaned, Spares, FlagsSame, ReviewSame
<1>9. CASE RollbackStep
  BY <1>9 DEF RollbackStep, LeaveEffect, Cleaned, Spares, FlagsSame, ReviewSame
<1>10. CASE ReplyStep
  BY <1>10 DEF ReplyStep, ReplyEffect, Spares, FlagsSame, ReviewSame
<1>11. CASE TurnFailsStep
  BY <1>11
     DEF TurnFailsStep, TurnEffect, Frame, FlagReset, Charges, Spares,
         FlagsSame, ReviewSame
<1>12. CASE TasksStep
  BY <1>12 DEF TasksStep, Frame, GoesToDesign, Spares, FlagsSame, ReviewSame
<1>13. CASE NoDiffStep
  BY <1>13
     DEF NoDiffStep, NoDiffEffect, Frame, GoesToDesign, AsksHuman, GoesToWrite,
         ReviewsAgain, Charges, Spares, FlagsSame, ReviewSame
<1>14. CASE PipelineStep
  BY <1>14
     DEF PipelineStep, PipelineEffect, Frame, Spares, FlagsSame, ReviewSame
<1>15. CASE DetectStep
  BY <1>15 DEF DetectStep, DetectEffect, Frame, Spares, FlagsSame, ReviewSame
<1>16. CASE WrittenStep
  BY <1>16 DEF WrittenStep, Frame, Spares, FlagsSame, ReviewSame
<1>17. CASE PrismStep
  BY ZenonT(40), <1>17
     DEF PrismStep, PrismEffect, PrismVerdicts, Frame, GoesToDesign, AsksHuman,
         GoesToWrite, ReviewsAgain, Charges, Spares, FlagsSame, ReviewSame
<1>18. CASE CollectStep
  BY <1>18 DEF CollectStep, Frame, Spares, FlagsSame, ReviewSame
<1>19. CASE UncollectedStep
  BY <1>19 DEF UncollectedStep, CollectionEffect, Charges, Spares
<1>20. CASE RedStep
  BY <1>20 DEF RedStep, RedEffect, Spares
<1>21. CASE NotRedStep
  BY <1>21 DEF NotRedStep, RedEffect, Spares
<1>22. CASE TracedStep
  BY <1>22 DEF TracedStep, ExitGateEffect, Spares, FlagsSame, ReviewSame
<1>23. CASE FrozenStep
  BY <1>23 DEF FrozenStep, ExitGateEffect, Spares, FlagsSame, ReviewSame
<1>24. CASE EnteredStep
  BY <1>24 DEF EnteredStep, Spares
<1>25. CASE FailStep
  <2>1. PICK check \in Checks : FailSource(check) /\ FailEffect(check)
    BY <1>25 DEF FailStep
  <2> QED
    BY ZenonT(40), <2>1
       DEF FailSource, FailEffect, Frame, GoesToDesign, AsksHuman, GoesToWrite,
           ReviewsAgain, Charges, Spares, FlagsSame, ReviewSame
<1>26. CASE RetryStep
  BY <1>26 DEF RetryStep, RetryEffect, GatesKept, AtGate
<1>27. CASE ReturnStep
  BY <1>27
     DEF ReturnStep, ReturnEffect, GatesKept, FlagsSame, ReviewSame, AtGate
<1>28. CASE EnterStep
  BY <1>28 DEF EnterStep, EnterEffect
<1> HIDE DEF Driving, ResultsPlaced, CommandsPlaced, OwedPlaced, NoDiff,
             Workers, ResultCommands, ExitCommands, VerdictsHold, Runs,
             Dispatched, GoesOn, TreeKept, BaselineKept, Gives
<1> QED
  BY <1>0, <1>1, <1>2, <1>3, <1>4, <1>5, <1>6, <1>7, <1>8, <1>9, <1>10, <1>11,
     <1>12, <1>13, <1>14, <1>15, <1>16, <1>17, <1>18, <1>19, <1>20, <1>21,
     <1>22, <1>23, <1>24, <1>25, <1>26, <1>27, <1>28
     DEF Kinds

(***************************************************************************)
(* What is paid for.                                                       *)
(***************************************************************************)
LEMMA RoundsStep ==
    ASSUME TypeOK, Driving, ResultsPlaced, CommandsPlaced, OwedPlaced, BudgetLeft, RoundsPaid, [Next]_vars
    PROVE  RoundsPaid'
<1>0. Kinds
  BY StepKinds
<1> USE NoResultFacts, RoundsKept, ChargeFacts, BookFacts
   DEF Driving, ResultsPlaced, CommandsPlaced, OwedPlaced, NoDiff, Workers,
       ResultCommands, ExitCommands, Runs, Dispatched, GoesOn, TreeKept,
       BaselineKept, Gives
<1>1. CASE StillStep
  BY <1>1 DEF StillStep, Start, Stop, vars, RoundsPaid
<1>2. CASE IssueStep
  <2>1. s.sub \in Substates
    BY DEF TypeOK, StateTypes
  <2> HIDE DEF Decide
  <2> QED
    BY <1>2, <2>1, DecideFacts
       DEF IssueStep, IssueEffect, Spares, FlagsSame, ReviewSame, RoundsPaid
<1>3. CASE CrashStep
  BY <1>3 DEF CrashStep, Loses, RoundsPaid
<1>4. CASE CleanStep
  BY <1>4 DEF CleanStep, RoundsPaid
<1>5. CASE DetachStep
  BY <1>5
     DEF DetachStep, PlainEffect, Cleaned, GatesKept, Spares, FlagsSame,
         ReviewSame, RoundsPaid
<1>6. CASE OwingStep
  BY <1>6
     DEF OwingStep, PlainEffect, Cleaned, GatesKept, Spares, FlagsSame,
         ReviewSame, RoundsPaid
<1>7. CASE BaselineStep
  BY <1>7
     DEF BaselineStep, BaselineEffect, Cleaned, Spares, FlagsSame, ReviewSame,
         RoundsPaid
<1>8. CASE ExitStep
  BY <1>8
     DEF ExitStep, LeaveEffect, Cleaned, Spares, FlagsSame, ReviewSame,
         RoundsPaid
<1>9. CASE RollbackStep
  BY <1>9
     DEF RollbackStep, LeaveEffect, Cleaned, Spares, FlagsSame, ReviewSame,
         RoundsPaid
<1>10. CASE ReplyStep
  BY <1>10 DEF ReplyStep, ReplyEffect, Spares, FlagsSame, ReviewSame, RoundsPaid
<1>11. CASE TurnFailsStep
  BY <1>11
     DEF TurnFailsStep, TurnEffect, Frame, FlagReset, Spares, FlagsSame,
         ReviewSame
<1>12. CASE TasksStep
  BY <1>12
     DEF TasksStep, Frame, GoesToDesign, Spares, FlagsSame, ReviewSame,
         RoundsPaid
<1>13. CASE NoDiffStep
  BY <1>13
     DEF NoDiffStep, NoDiffEffect, Frame, GoesToDesign, AsksHuman, GoesToWrite,
         ReviewsAgain, Spares, FlagsSame, ReviewSame
<1>14. CASE PipelineStep
  BY <1>14
     DEF PipelineStep, PipelineEffect, Frame, Spares, FlagsSame, ReviewSame
<1>15. CASE DetectStep
  BY <1>15 DEF DetectStep, DetectEffect, Frame, Spares, FlagsSame, ReviewSame
<1>16. CASE WrittenStep
  BY <1>16 DEF WrittenStep, Frame, Spares, FlagsSame, ReviewSame, RoundsPaid
<1>17. CASE PrismStep
  BY <1>17
     DEF PrismStep, PrismEffect, PrismVerdicts, Frame, GoesToDesign, AsksHuman,
         GoesToWrite, ReviewsAgain, Spares, FlagsSame, ReviewSame, RoundsPaid
<1>18. CASE CollectStep
  BY <1>18 DEF CollectStep, Frame, Spares, FlagsSame, ReviewSame, RoundsPaid
<1>19. CASE UncollectedStep
  BY <1>19 DEF UncollectedStep, CollectionEffect, Spares
<1>20. CASE RedStep
  BY <1>20 DEF RedStep, RedEffect, Spares, RoundsPaid
<1>21. CASE NotRedStep
  BY <1>21 DEF NotRedStep, RedEffect, Spares, RoundsPaid
<1>22. CASE TracedStep
  BY <1>22
     DEF TracedStep, ExitGateEffect, Spares, FlagsSame, ReviewSame, RoundsPaid
<1>23. CASE FrozenStep
  BY <1>23
     DEF FrozenStep, ExitGateEffect, Spares, FlagsSame, ReviewSame, RoundsPaid
<1>24. CASE EnteredStep
  BY <1>24 DEF EnteredStep, Spares, RoundsPaid
<1>25. CASE FailStep
  <2>1. PICK check \in Checks : FailSource(check) /\ FailEffect(check)
    BY <1>25 DEF FailStep
  <2> QED
    BY <2>1
       DEF FailSource, FailEffect, Frame, GoesToDesign, AsksHuman, GoesToWrite,
           ReviewsAgain, Spares, FlagsSame, ReviewSame
<1>26. CASE RetryStep
  BY <1>26 DEF RetryStep, RetryEffect, GatesKept, AtGate, RoundsPaid
<1>27. CASE ReturnStep
  BY <1>27
     DEF ReturnStep, ReturnEffect, GatesKept, FlagsSame, ReviewSame, AtGate,
         RoundsPaid
<1>28. CASE EnterStep
  BY <1>28 DEF EnterStep, EnterEffect, RoundsPaid
<1> HIDE DEF Driving, ResultsPlaced, CommandsPlaced, OwedPlaced, NoDiff,
             Workers, ResultCommands, ExitCommands, Runs, Dispatched, GoesOn,
             TreeKept, BaselineKept, Gives
<1> QED
  BY <1>0, <1>1, <1>2, <1>3, <1>4, <1>5, <1>6, <1>7, <1>8, <1>9, <1>10, <1>11,
     <1>12, <1>13, <1>14, <1>15, <1>16, <1>17, <1>18, <1>19, <1>20, <1>21,
     <1>22, <1>23, <1>24, <1>25, <1>26, <1>27, <1>28
     DEF Kinds

(***************************************************************************)
(* What a flag stands for.                                                 *)
(***************************************************************************)
LEMMA FlagsStep ==
    ASSUME TypeOK, Driving, ResultsPlaced, CommandsPlaced, OwedPlaced, FlagsAnswered, [Next]_vars
    PROVE  FlagsAnswered'
<1>0. Kinds
  BY StepKinds
<1> USE NoResultFacts, BookFacts
   DEF Driving, ResultsPlaced, CommandsPlaced, OwedPlaced, NoDiff, Workers,
       ResultCommands, ExitCommands, FlagsAnswered, Busy, Runs, Dispatched,
       GoesOn, TreeKept, BaselineKept, Gives
<1>1. CASE StillStep
  BY <1>1 DEF StillStep, Start, Stop, vars
<1>2. CASE IssueStep
  <2>1. s.sub \in Substates
    BY DEF TypeOK, StateTypes
  <2> HIDE DEF Decide
  <2> QED
    BY <1>2, <2>1, DecideFacts
       DEF IssueStep, IssueEffect, Spares, FlagsSame, ReviewSame
<1>3. CASE CrashStep
  BY <1>3 DEF CrashStep, Loses
<1>4. CASE CleanStep
  BY <1>4 DEF CleanStep
<1>5. CASE DetachStep
  BY <1>5
     DEF DetachStep, PlainEffect, Cleaned, GatesKept, Spares, FlagsSame,
         ReviewSame
<1>6. CASE OwingStep
  BY <1>6
     DEF OwingStep, PlainEffect, Cleaned, GatesKept, Spares, FlagsSame,
         ReviewSame
<1>7. CASE BaselineStep
  BY <1>7
     DEF BaselineStep, BaselineEffect, Cleaned, Spares, FlagsSame, ReviewSame
<1>8. CASE ExitStep
  BY <1>8 DEF ExitStep, LeaveEffect, Cleaned, Spares, FlagsSame, ReviewSame
<1>9. CASE RollbackStep
  BY <1>9 DEF RollbackStep, LeaveEffect, Cleaned, Spares, FlagsSame, ReviewSame
<1>10. CASE ReplyStep
  BY <1>10 DEF ReplyStep, ReplyEffect, Spares, FlagsSame, ReviewSame
<1>11. CASE TurnFailsStep
  BY <1>11
     DEF TurnFailsStep, TurnEffect, Frame, FlagReset, Charges, Spares,
         FlagsSame, ReviewSame
<1>12. CASE TasksStep
  BY <1>12 DEF TasksStep, Frame, GoesToDesign, Spares, FlagsSame, ReviewSame
<1>13. CASE NoDiffStep
  BY <1>13
     DEF NoDiffStep, NoDiffEffect, Frame, GoesToDesign, AsksHuman, GoesToWrite,
         ReviewsAgain, Charges, Spares, FlagsSame, ReviewSame
<1>14. CASE PipelineStep
  BY <1>14
     DEF PipelineStep, PipelineEffect, Frame, Spares, FlagsSame, ReviewSame
<1>15. CASE DetectStep
  BY <1>15 DEF DetectStep, DetectEffect, Frame, Spares, FlagsSame, ReviewSame
<1>16. CASE WrittenStep
  BY <1>16 DEF WrittenStep, Frame, Spares, FlagsSame, ReviewSame
<1>17. CASE PrismStep
  <2>1. CASE s.result.verdict = "unknown"
    <3>1. /\ "lost" \in hist'.damage /\ s'.sub = s.sub /\ s'.stage = s.stage
          /\ s'.testCollected = s.testCollected /\ s'.redValidated = s.redValidated
          /\ s'.stageExited = s.stageExited
      BY <1>17, <2>1
         DEF PrismStep, PrismEffect, Frame, GoesToDesign, AsksHuman,
             GoesToWrite, ReviewsAgain, Charges, Spares, FlagsSame, ReviewSame
    <3> QED
      BY <3>1
  <2>2. CASE s.result.verdict = "pass"
    BY <1>17, <2>2
       DEF PrismStep, PrismEffect, Frame, GoesToDesign, AsksHuman, GoesToWrite,
           ReviewsAgain, Charges, Spares, FlagsSame, ReviewSame
  <2>3. CASE s.result.verdict \notin {"unknown", "pass"}
    BY ZenonT(40), <1>17, <2>3
       DEF PrismStep, PrismEffect, PrismVerdicts, Frame, GoesToDesign,
           AsksHuman, GoesToWrite, ReviewsAgain, Charges, Spares, FlagsSame,
           ReviewSame
  <2> QED
    BY <2>1, <2>2, <2>3
<1>18. CASE CollectStep
  BY <1>18 DEF CollectStep, Frame, Spares, FlagsSame, ReviewSame
<1>19. CASE UncollectedStep
  BY <1>19 DEF UncollectedStep, CollectionEffect, Charges, Spares
<1>20. CASE RedStep
  BY <1>20 DEF RedStep, RedEffect, Spares
<1>21. CASE NotRedStep
  BY <1>21 DEF NotRedStep, RedEffect, Spares
<1>22. CASE TracedStep
  BY <1>22 DEF TracedStep, ExitGateEffect, Spares, FlagsSame, ReviewSame
<1>23. CASE FrozenStep
  BY <1>23 DEF FrozenStep, ExitGateEffect, Spares, FlagsSame, ReviewSame
<1>24. CASE EnteredStep
  BY <1>24 DEF EnteredStep, Spares
<1>25. CASE FailStep
  <2>1. PICK check \in Checks : FailSource(check) /\ FailEffect(check)
    BY <1>25 DEF FailStep
  <2> QED
    BY ZenonT(40), <2>1
       DEF FailSource, FailEffect, Frame, GoesToDesign, AsksHuman, GoesToWrite,
           ReviewsAgain, Charges, Spares, FlagsSame, ReviewSame
<1>26. CASE RetryStep
  <2>1. s.awaiting # "none" =>
          s.result = NoResult /\ s.sub \notin NoDiff /\ s.pending = "none"
    OBVIOUS
  <2>2. CASE s.awaiting = "none"
    BY SMTT(30), <1>26, <2>2 DEF RetryStep, RetryEffect, GatesKept, AtGate
  <2>3. CASE s.awaiting # "none"
    BY ZenonT(40), <1>26, <2>1, <2>3
       DEF RetryStep, RetryEffect, GatesKept, AtGate
  <2> QED
    BY <2>2, <2>3
<1>27. CASE ReturnStep
  BY <1>27
     DEF ReturnStep, ReturnEffect, GatesKept, FlagsSame, ReviewSame, AtGate
<1>28. CASE EnterStep
  BY <1>28 DEF EnterStep, EnterEffect
<1> HIDE DEF Driving, ResultsPlaced, CommandsPlaced, OwedPlaced, NoDiff,
             Workers, ResultCommands, ExitCommands, FlagsAnswered, Busy, Runs,
             Dispatched, GoesOn, TreeKept, BaselineKept, Gives
<1> QED
  BY <1>0, <1>1, <1>2, <1>3, <1>4, <1>5, <1>6, <1>7, <1>8, <1>9, <1>10, <1>11,
     <1>12, <1>13, <1>14, <1>15, <1>16, <1>17, <1>18, <1>19, <1>20, <1>21,
     <1>22, <1>23, <1>24, <1>25, <1>26, <1>27, <1>28
     DEF Kinds

(***************************************************************************)
(* Only the entry into the implementation leaves the stage for M-IMPL, and *)
(* by then every verdict has been given on what lies in the tree.          *)
(***************************************************************************)
LEMMA JudgedStep ==
    ASSUME TypeOK, Driving, ResultsPlaced, CommandsPlaced, OwedPlaced, VerdictsHold,
           FrozenIsJudged, [Next]_vars
    PROVE  FrozenIsJudged'
<1>1. Driving' /\ Kinds
  BY DrivingStep, StepKinds
<1>2. CASE EnteredStep
  <2>1. /\ s.sub = "EXIT" /\ s.tracePassed /\ s.testCommitted /\ drv = "emit"
        /\ UNCHANGED <<tests, hist>>
    BY <1>2 DEF EnteredStep, OwedPlaced
  <2>2. "cleaned" \notin hist.damage => tests.judged = Judgements /\ tests.dirty = "clean"
    <3>1. tests.judged \subseteq Judgements
      BY DEF TypeOK
    <3>2. tests.dirty = "clean" /\ "baseline" \in tests.judged
      BY <2>1 DEF VerdictsHold
    <3> SUFFICES ASSUME "cleaned" \notin hist.damage PROVE Judgements \subseteq tests.judged
      BY <3>1, <3>2
    <3> QED
      BY <2>1, <3>2 DEF VerdictsHold, Judgements
  <2> QED
    BY <2>1, <2>2 DEF FrozenIsJudged
<1>3. CASE StillStep \/ CrashStep \/ CleanStep
  BY <1>3
     DEF StillStep, Start, Stop, vars, CrashStep, CleanStep, FrozenIsJudged,
         Driving
<1>4. CASE RollbackStep
  BY <1>4 DEF RollbackStep, FrozenIsJudged
<1>5. CASE RetryStep \/ ReturnStep \/ EnterStep
  BY <1>5
     DEF RetryStep, RetryEffect, ReturnStep, ReturnEffect, EnterStep,
         EnterEffect,
              AtGate, FrozenIsJudged
<1>6. ASSUME drv' # "left" PROVE FrozenIsJudged'
  BY <1>6 DEF FrozenIsJudged
<1>7. CASE FailStep
  BY <1>6, <1>7 DEF FailStep, FailEffect, Frame
<1>8. CASE IssueStep \/ DetachStep \/ OwingStep \/ BaselineStep \/ ExitStep \/ ReplyStep
           \/ TasksStep \/ CollectStep \/ UncollectedStep \/ RedStep \/ NotRedStep
           \/ TracedStep \/ FrozenStep
  BY <1>6, <1>8
     DEF IssueStep, DetachStep, OwingStep, BaselineStep, ExitStep, ReplyStep,
     TasksStep, CollectStep, UncollectedStep, RedStep, NotRedStep, TracedStep, FrozenStep, GoesOn
<1>9. CASE TurnFailsStep \/ NoDiffStep \/ PipelineStep \/ DetectStep \/ WrittenStep
           \/ PrismStep
  BY <1>6, <1>9
     DEF TurnFailsStep, TurnEffect, NoDiffStep, NoDiffEffect, PipelineStep,
     PipelineEffect, DetectStep, DetectEffect, WrittenStep, PrismStep, PrismEffect, Frame
<1> QED
  BY <1>1, <1>2, <1>3, <1>4, <1>5, <1>7, <1>8, <1>9 DEF Kinds
-----------------------------------------------------------------------------
(* What every run keeps.                                                   *)

(***************************************************************************)
(* A run that enters the stage keeps the invariant.                        *)
(***************************************************************************)
LEMMA InitHolds == Init => TInv
<1> SUFFICES ASSUME Init PROVE TInv
  OBVIOUS
<1>1. TypeOK
  <2>1. s \in StateTypes
    BY LimitsFacts DEF Init, StateTypes, Substates
  <2>2. hist \in [paid : 0..2, rounds : 0..MaxRounds, damage : SUBSET Damages]
    BY LimitsFacts DEF Init, MaxRounds
  <2>3. /\ tests \in [judged : SUBSET Judgements, dirty : {"clean", "round", "residue"},
                      stamped : BOOLEAN]
        /\ drv = "off" /\ todo = "none" /\ cycles \in 0..MaxCycles
    BY TestStageAssumption DEF Init
  <2> QED
    BY <2>1, <2>2, <2>3 DEF TypeOK
<1>2. Driving /\ ResultsPlaced /\ OwedPlaced
  BY NoResultFacts DEF Init, Driving, ResultsPlaced, OwedPlaced, NoDiff, Workers
<1>3. CommandsPlaced
  BY DEF Init, CommandsPlaced, NoDiff, Workers, ResultCommands, ExitCommands
<1>4. BudgetLeft /\ VerdictsHold
  BY LimitsFacts DEF Init, BudgetLeft, VerdictsHold, NoDiff
<1>5. FrozenIsJudged /\ RoundsPaid /\ FlagsAnswered
  BY LimitsFacts DEF Init, FrozenIsJudged, RoundsPaid, FlagsAnswered
<1> QED
  BY <1>1, <1>2, <1>3, <1>4, <1>5 DEF TInv

(***************************************************************************)
(* The invariant of a run in M-TEST.                                       *)
(***************************************************************************)
THEOREM TestStageInvariance == Spec => []TInv
<1>1. TInv /\ [Next]_vars => TInv'
  <2> SUFFICES ASSUME TInv, [Next]_vars PROVE TInv'
    OBVIOUS
  <2>1. /\ TypeOK /\ Driving /\ ResultsPlaced /\ CommandsPlaced /\ OwedPlaced /\ BudgetLeft
        /\ VerdictsHold /\ FrozenIsJudged /\ RoundsPaid /\ FlagsAnswered
    BY DEF TInv
  <2> QED
    BY <2>1, TypesStep, DrivingStep, ResultsStep, CommandsStep, OwedStep,
       BudgetStep,
       VerdictsStep, JudgedStep, RoundsStep, FlagsStep DEF TInv
<1> QED
  BY <1>1, InitHolds, PTL DEF Spec

(***************************************************************************)
(* The types, and with them that no streak counts beyond its limit.        *)
(***************************************************************************)
THEOREM TestStageTypes == Spec => []TypeOK
<1>1. TInv => TypeOK
  BY DEF TInv
<1> QED
  BY <1>1, TestStageInvariance, PTL

(***************************************************************************)
(* What leaves for the implementation was judged as it lies in the tree.   *)
(***************************************************************************)
THEOREM FreezeIsJudged == Spec => []FrozenIsJudged
<1>1. TInv => FrozenIsJudged
  BY DEF TInv
<1> QED
  BY <1>1, TestStageInvariance, PTL

(***************************************************************************)
(* One budget, charged once per failure, bounds Shield's rounds.           *)
(***************************************************************************)
THEOREM OneBudgetPays == Spec => []BudgetIsExact
<1>1. TInv => BudgetIsExact
  BY DEF TInv, RoundsPaid, BudgetIsExact
<1> QED
  BY <1>1, TestStageInvariance, PTL

(***************************************************************************)
(* run_loop stops an undamaged run only at a human's gate.                 *)
(***************************************************************************)
THEOREM TestHaltsExplained == Spec => []HaltIsExplained
<1>1. TInv => HaltIsExplained
  <2> SUFFICES ASSUME TInv, drv = "off", s.stage = "M-TEST", hist.damage \subseteq {"cleaned"},
                      Decide(s) = "none", s.pending = "none", s.awaiting = "none"
               PROVE  FALSE
    BY DEF HaltIsExplained
  <2>1. TypeOK /\ Driving /\ FlagsAnswered
    BY DEF TInv
  <2>2. ~Busy /\ todo = "none" /\ s.sub \in Substates
    BY <2>1 DEF Driving, Busy, TypeOK, StateTypes
  <2>3. s.sub \notin NoDiff
    BY <2>1, <2>2 DEF FlagsAnswered, Decide, NoDiff
  <2>4. s.result = NoResult
    BY <2>3 DEF Decide, ResultCommand, NoDiff
  <2>5. StageCommand(s) = "none"
    BY <2>3, <2>4 DEF Decide, NoDiff
  <2>6. CASE s.sub \in {"DISPATCH", "WRITE"}
    BY <2>1, <2>2, <2>4, <2>5, <2>6 DEF FlagsAnswered, StageCommand
  <2>7. CASE s.sub = "PRISM_REVIEW"
    BY <2>1, <2>2, <2>4, <2>5, <2>7
       DEF FlagsAnswered, StageCommand, ReviewCommand
  <2>8. CASE s.sub = "EXIT"
    BY <2>1, <2>2, <2>5, <2>8 DEF FlagsAnswered, StageCommand, ExitCommand
  <2>9. CASE s.sub \in {"COLLECT", "RED_CHECK", "DIAGNOSE", "RETURNED"}
    BY <2>1, <2>2, <2>5, <2>9 DEF FlagsAnswered, StageCommand
  <2> QED
    BY <2>2, <2>3, <2>6, <2>7, <2>8, <2>9 DEF Substates
<1> QED
  BY <1>1, TestStageInvariance, PTL
=============================================================================
