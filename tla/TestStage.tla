----------------------------- MODULE TestStage -----------------------------
(***************************************************************************)
(* The stage M-TEST of one run: Shield writes the tests, the Runtime       *)
(* collects them and wants them red, Prism reviews them, the trace gate    *)
(* and the freeze let them out to M-IMPL.  The reducers and decide() of    *)
(* kernel/m_test.py with the shared pipeline, the handlers of              *)
(* executor/test_collect.py and test_execute.py, and the human's gates.    *)
(*                                                                         *)
(* `s' is the projected State.  A handler that reports a failure often     *)
(* appends two events; the second is owed (`todo') and a crash between     *)
(* them loses it.  Of the tests the module keeps which verdicts were given *)
(* on what lies in the tree now, whether files are left uncommitted, and   *)
(* whether the run ever selected any.                                      *)
(*                                                                         *)
(* Left out, for AuthorStage has them: the breaker, the wait before a      *)
(* retried dispatch, a crash between a commit and its event.  Left out     *)
(* altogether: Phase 0, hotfix runs and abandoning the run.                *)
(***************************************************************************)
EXTENDS Naturals, FiniteSets

CONSTANTS
    AttemptLimit,   \* failed attempts of the stage before a human is asked
    InfraLimit,     \* _infra_retry_limit
    FormatLimit,    \* _FORMAT_RETRY_LIMIT
    MaxCycles       \* bound: how often the run comes back into the stage

ASSUME TestStageAssumption ==
    {AttemptLimit, InfraLimit, FormatLimit, MaxCycles} \subseteq Nat \ {0}

VARIABLES
    s,          \* the projection of the run's events
    drv,        \* what the process holding the writer lock is doing
    todo,       \* the second event of a pair, still to append
    tests,      \* what the host repository holds under tests/
    hist,       \* history: what the budget was charged, how the run was damaged
    cycles      \* bound: returns into the stage so far

vars == <<s, drv, todo, tests, hist, cycles>>

NoDiff == {"NO_DIFF_EXPLAIN", "NO_DIFF_REVIEW"}
Substates == {"DISPATCH", "WRITE", "COLLECT", "RED_CHECK", "PRISM_REVIEW", "EXIT",
              "DIAGNOSE", "RETURNED"} \cup NoDiff
Commands == {"capture_baseline", "dispatch", "collect_tests", "run_tests", "check_trace",
             "commit_tests", "write_frontmatter", "validate", "checkpoint", "publish",
             "rollback"}
PrismVerdicts == {"pass", "test_defect", "test_plan_defect", "spec_defect", "unknown"}
Judgements == {"baseline", "collected", "red", "prism", "trace", "frozen"}
Damages == {"torn", "lost", "cleaned"}

NoResult == [of |-> "none", step |-> "none", verdict |-> "none"]
Results == [of : {"WRITE", "PRISM_REVIEW"}, step : {"submitted", "validated", "checkpointed"},
            verdict : PrismVerdicts \cup {"diff", "no_diff"}]

MaxRounds == AttemptLimit + 2

StateTypes ==
    [stage : {"upstream", "M-TEST", "M-IMPL"}, sub : Substates,
     awaiting : {"none", "escalation", "rollback"},
     pending : Commands \cup {"none"},
     docDispatched : BOOLEAN, revDispatched : BOOLEAN, noDiffDispatched : BOOLEAN,
     result : Results \cup {NoResult},
     baselineCaptured : BOOLEAN, testCollected : BOOLEAN, redValidated : BOOLEAN,
     tracePassed : BOOLEAN, testCommitted : BOOLEAN, stageExited : BOOLEAN,
     stubGap : BOOLEAN,
     attempt : 0..AttemptLimit, infra : 0..InfraLimit, format : 0..FormatLimit]

TypeOK ==
    /\ s \in StateTypes
    /\ drv \in {"off", "loop", "exec", "detached", "emit", "left"}
    /\ todo \in {"none", "asset_deleted", "baseline_defect", "contract_error", "diagnosis",
                 "rejected", "entered"}
    /\ tests \in [judged : SUBSET Judgements, dirty : {"clean", "round", "residue"},
                  stamped : BOOLEAN]
    /\ hist \in [paid : 0..2, rounds : 0..MaxRounds, damage : SUBSET Damages]
    /\ cycles \in 0..MaxCycles

\* The run has just entered the stage from an approved design.
Init ==
    /\ s = [stage |-> "M-TEST", sub |-> "DISPATCH", awaiting |-> "none", pending |-> "none",
            docDispatched |-> FALSE, revDispatched |-> FALSE, noDiffDispatched |-> FALSE,
            result |-> NoResult, baselineCaptured |-> FALSE, testCollected |-> FALSE,
            redValidated |-> FALSE, tracePassed |-> FALSE, testCommitted |-> FALSE,
            stageExited |-> FALSE, stubGap |-> FALSE, attempt |-> 0, infra |-> 0,
            format |-> 0]
    /\ drv = "off" /\ todo = "none"
    /\ tests = [judged |-> {}, dirty |-> "clean", stamped |-> FALSE]
    /\ hist = [paid |-> 0, rounds |-> 0, damage |-> {}]
    /\ cycles = 0
-----------------------------------------------------------------------------
(* The reducers.  Each takes the state its event is folded into, where     *)
(* apply() has already cleared the write-ahead record.                     *)

Cleared == [s EXCEPT !.pending = "none"]

ResetDoc(t) == [t EXCEPT !.docDispatched = FALSE]
ResetReview(t) == [t EXCEPT !.revDispatched = FALSE]

\* _consume_attempt: one budget for all substates of the stage.
Consume(t) ==
    [t EXCEPT !.attempt = IF @ < AttemptLimit THEN @ + 1 ELSE @,
              !.awaiting = IF t.attempt + 1 >= AttemptLimit THEN "escalation" ELSE @]

ToWrite(t) == ResetDoc([t EXCEPT !.sub = "WRITE"])

\* Mutant: a fresh cycle keeps the gates the previous one passed.
ResetCycleKeepsGates(t) ==
    [t EXCEPT !.testCollected = FALSE, !.redValidated = FALSE, !.baselineCaptured = FALSE,
              !.stubGap = FALSE]

ResetCycle(t) ==
    [t EXCEPT !.testCollected = FALSE, !.redValidated = FALSE, !.tracePassed = FALSE,
              !.testCommitted = FALSE, !.baselineCaptured = FALSE, !.stubGap = FALSE]

OnStageEntered(t) ==
    ResetCycle(ResetDoc(ResetReview(
        [t EXCEPT !.stage = "M-TEST", !.sub = "DISPATCH", !.attempt = 0,
                  !.stageExited = FALSE, !.result = NoResult])))

\* stage.rolled_back into the stage keeps the flag of the exit.
OnStageRolledBack(t) ==
    [OnStageEntered(t) EXCEPT !.stageExited = t.stageExited]

OnCommandIssued(t, c) ==
    LET u == [t EXCEPT !.pending = c] IN
    CASE c # "dispatch" -> u
      [] c = "dispatch" /\ t.sub = "NO_DIFF_REVIEW" -> [u EXCEPT !.noDiffDispatched = TRUE]
      [] c = "dispatch" /\ t.sub = "PRISM_REVIEW" -> [u EXCEPT !.revDispatched = TRUE]
      [] OTHER -> [u EXCEPT !.docDispatched = TRUE,
                            !.sub = IF @ = "DISPATCH" THEN "WRITE" ELSE @]

\* Mutant: the reviewer's flag survives a failed dispatch.
ResetDispatchFlagDocOnly(t) == ResetDoc(t)

\* _reset_m_test_dispatch_flag: the flag of whoever was dispatched.
ResetDispatchFlag(t) ==
    CASE t.sub = "PRISM_REVIEW" -> ResetReview(t)
      [] t.sub = "NO_DIFF_REVIEW" -> [t EXCEPT !.noDiffDispatched = FALSE]
      [] OTHER -> ResetDoc(t)

Healthy(t) == [t EXCEPT !.infra = 0, !.format = 0]

OnOutcomeDone(t, verdict) ==
    [Healthy(t) EXCEPT !.result = [of |-> t.sub, step |-> "submitted", verdict |-> verdict]]

OnSemanticFailure(t) == Consume(ResetDispatchFlag(Healthy(t)))

(***************************************************************************)
(* Failures of the machine and malformed replies cost no attempt; each     *)
(* kind has a streak of its own.                                           *)
(***************************************************************************)
OnInfraFailure(t) ==
    [ResetDispatchFlag(t) EXCEPT
        !.infra = IF @ < InfraLimit THEN @ + 1 ELSE @,
        !.awaiting = IF t.infra + 1 >= InfraLimit THEN "escalation" ELSE @]

OnFormatFailure(t) ==
    [ResetDispatchFlag(t) EXCEPT
        !.format = IF @ < FormatLimit THEN @ + 1 ELSE @,
        !.awaiting = IF t.format + 1 >= FormatLimit THEN "escalation" ELSE @]

ToDesign(t) == [t EXCEPT !.sub = "DIAGNOSE", !.stubGap = TRUE]

\* An invalid test-task contract: the backend is never called.
OnStubGapOutcome(t) == ToDesign(ResetDoc(Healthy(t)))

\* The last branch of the verdict's reducer: whoever is at work does it again.
Redo(t) == IF t.sub = "PRISM_REVIEW" THEN Consume(ResetReview(t)) ELSE Consume(ToWrite(t))

\* Mutant: an unclosed trace is rewritten for free.
OnVerdictFailedFreeTrace(t, check) ==
    LET u == [t EXCEPT !.result = NoResult, !.format = 0] IN
    CASE check \in {"upstream_defect", "stub_gap"} -> ToDesign(u)
      [] check \in {"collect_defect", "contamination"} -> [u EXCEPT !.awaiting = "escalation"]
      [] check \in {"trace", "commit"} -> ToWrite([u EXCEPT !.tracePassed = FALSE])
      [] check = "test_defect" -> Consume(ToWrite([u EXCEPT !.stubGap = FALSE]))
      [] check = "spec_gap" -> [u EXCEPT !.awaiting = "rollback", !.stubGap = FALSE]
      [] OTHER -> Redo([u EXCEPT !.stubGap = FALSE])

(***************************************************************************)
(* verdict.failed, by its check: an unusable tree goes back to the design, *)
(* a blind collector or a contaminated freeze waits for the operator, the  *)
(* gaps of the specification for an approval; all else is done again and   *)
(* paid for.  A refused commit sends Shield back to work, whoever's result *)
(* was being committed.                                                    *)
(***************************************************************************)
OnVerdictFailed(t, check) ==
    LET u == [t EXCEPT !.result = NoResult, !.format = 0] IN
    CASE check \in {"upstream_defect", "stub_gap"} -> ToDesign(u)
      [] check \in {"collect_defect", "contamination"} -> [u EXCEPT !.awaiting = "escalation"]
      [] check \in {"trace", "commit"} -> Consume(ToWrite([u EXCEPT !.tracePassed = FALSE]))
      [] check = "test_defect" -> Consume(ToWrite([u EXCEPT !.stubGap = FALSE]))
      [] check = "spec_gap" -> [u EXCEPT !.awaiting = "rollback", !.stubGap = FALSE]
      [] OTHER -> Redo([u EXCEPT !.stubGap = FALSE])

OnBaselineCaptured(t) == [t EXCEPT !.baselineCaptured = TRUE]

\* test.written of a published WRITE.
OnTestWritten(t) == [t EXCEPT !.result = NoResult, !.sub = "COLLECT"]

\* Mutant: a failed collection is charged whatever its companion is.
OnCollectionFailedTwice(t, companion) ==
    Consume(ToWrite([t EXCEPT !.testCollected = FALSE]))

\* test.collected(failed): a pair is charged once, by its companion verdict.
OnCollectionFailed(t, companion) ==
    LET u == ToWrite([t EXCEPT !.testCollected = FALSE])
    IN IF companion = "asset_deleted" THEN u ELSE Consume(u)

OnCollected(t) == [t EXCEPT !.testCollected = TRUE, !.sub = "RED_CHECK"]

OnRedValidated(t, valid) ==
    IF valid THEN ResetReview([t EXCEPT !.redValidated = TRUE, !.sub = "PRISM_REVIEW"])
             ELSE [t EXCEPT !.redValidated = FALSE, !.sub = "DIAGNOSE"]

\* prism.verdict; a defect nobody knows routes nowhere.
OnPrismVerdict(t, verdict) ==
    LET u == [t EXCEPT !.result = NoResult] IN
    CASE verdict = "pass" -> [u EXCEPT !.sub = "EXIT"]
      [] verdict = "test_defect" -> Consume(ToWrite(u))
      [] verdict = "test_plan_defect" -> ToDesign(u)
      [] verdict = "spec_defect" -> [u EXCEPT !.awaiting = "rollback"]
      [] OTHER -> u

\* Mutant: the result a missing diff belongs to is dropped at once.
OnNoDiffDetectedDropped(t) ==
    [t EXCEPT !.sub = "NO_DIFF_EXPLAIN", !.docDispatched = FALSE, !.noDiffDispatched = FALSE,
              !.result = NoResult]

OnNoDiffDetected(t) ==
    [t EXCEPT !.sub = "NO_DIFF_EXPLAIN", !.docDispatched = FALSE, !.noDiffDispatched = FALSE]

OnNoDiffExplained(t) == [t EXCEPT !.sub = "NO_DIFF_REVIEW", !.noDiffDispatched = FALSE]

\* The only result without a diff is Shield's, so it resumes in WRITE.
OnNoDiffReviewed(t, pass) ==
    LET u == [t EXCEPT !.sub = "WRITE", !.noDiffDispatched = FALSE] IN
    IF pass THEN [u EXCEPT !.result.step = "validated"]
            ELSE Consume(ToWrite([u EXCEPT !.result = NoResult, !.stubGap = FALSE]))

OnTestCommitted(t) == [t EXCEPT !.testCommitted = TRUE]

OnHumanRetry(t, clear) ==
    LET u == IF clear THEN ResetDoc(ResetReview(t)) ELSE t
    IN Healthy([u EXCEPT !.awaiting = "none", !.attempt = 0])

\* An approved rollback, or a return out of an escalation.
OnHumanReturn(t) == [t EXCEPT !.awaiting = "none", !.sub = "RETURNED"]
-----------------------------------------------------------------------------
(***************************************************************************)
(* decide(): the explanation of a missing diff first, then the result in   *)
(* progress, then the human's gate, then the substate.                     *)
(***************************************************************************)
ResultCommand(t) ==
    CASE t.result.step = "submitted" -> "validate"
      [] t.result.step = "validated" -> "checkpoint"
      [] OTHER -> "publish"

ExitCommand(t) ==
    CASE ~t.tracePassed -> "check_trace"
      [] t.tracePassed /\ ~t.testCommitted -> "commit_tests"
      [] OTHER -> IF t.stageExited THEN "none" ELSE "write_frontmatter"

\* IF-PIPELINE-001: Prism is asked about the whole chain or not at all.
ReviewCommand(t) ==
    IF t.revDispatched \/ ~t.redValidated \/ ~t.testCollected THEN "none" ELSE "dispatch"

StageCommand(t) ==
    CASE t.sub \in {"DISPATCH", "WRITE"} ->
            IF ~t.baselineCaptured THEN "capture_baseline"
            ELSE IF t.sub = "WRITE" /\ t.docDispatched THEN "none" ELSE "dispatch"
      [] t.sub = "COLLECT" -> "collect_tests"
      [] t.sub = "RED_CHECK" -> "run_tests"
      [] t.sub = "PRISM_REVIEW" -> ReviewCommand(t)
      [] t.sub = "EXIT" -> ExitCommand(t)
      [] t.sub = "DIAGNOSE" -> IF t.stubGap THEN "rollback" ELSE "none"
      [] OTHER -> "rollback"

Decide(t) ==
    CASE t.sub = "NO_DIFF_EXPLAIN" -> IF t.docDispatched THEN "none" ELSE "dispatch"
      [] t.sub = "NO_DIFF_REVIEW" -> IF t.noDiffDispatched THEN "none" ELSE "dispatch"
      [] OTHER -> IF t.result # NoResult THEN ResultCommand(t)
                  ELSE IF t.awaiting # "none" THEN "none" ELSE StageCommand(t)
-----------------------------------------------------------------------------
(* The tests in the tree and the bookkeeping of the histories.             *)

Judged(name) == [tests EXCEPT !.judged = @ \cup {name}]

(***************************************************************************)
(* Shield changes tests: files of earlier rounds left in the tree are its  *)
(* own when its manifest names them.                                       *)
(***************************************************************************)
Rewritten ==
    {[judged |-> tests.judged \cap {"baseline"}, dirty |-> d, stamped |-> tests.stamped] :
        d \in {"round"} \cup ({tests.dirty} \cap {"residue"})}

\* A failed turn may leave what it wrote: the worktree is replayed anyway.
Littered == {tests} \cup {[x EXCEPT !.dirty = "residue"] : x \in Rewritten}

\* What is uncommitted when a result is dropped belongs to no round any more.
Dropped(x) ==
    IF s'.result = NoResult /\ x.dirty = "round" THEN [x EXCEPT !.dirty = "residue"] ELSE x

Damaged(name) == hist' = [hist EXCEPT !.damage = @ \cup {name}]

\* The budget's charges by one command, and the rounds it stands for.
Charged(h) ==
    [h EXCEPT !.paid = IF s'.attempt > s.attempt /\ @ < 2 THEN @ + 1 ELSE @]

\* A handler's event: folded in, and the loop goes on, or owes another.
AppendThen(t, owed) ==
    /\ s' = t
    /\ todo' = owed
    /\ drv' = IF owed = "none" THEN "loop" ELSE "emit"
    /\ hist' = Charged(hist)
    /\ UNCHANGED cycles

Append(t) == AppendThen(t, "none")
-----------------------------------------------------------------------------
(* The process that holds the writer lock.                                 *)

\* A guard that was meant for a command already answered in this round.
Reconciled ==
    \/ s.pending = "collect_tests" /\ s.testCollected
    \/ s.pending = "run_tests" /\ s.redValidated

(***************************************************************************)
(* run_loop: the command in flight is executed again first.  The replay    *)
(* guards of collect_tests and run_tests still see the flags of an earlier *)
(* round and skip it; the loop then decides the same command afresh.       *)
(***************************************************************************)
Start ==
    /\ drv = "off" /\ s.stage = "M-TEST"
    /\ drv' = IF s.pending = "none" \/ Reconciled THEN "loop" ELSE "exec"
    /\ UNCHANGED <<s, todo, tests, hist, cycles>>

Stop ==
    /\ drv = "loop" /\ Decide(s) = "none"
    /\ drv' = "off"
    /\ UNCHANGED <<s, todo, tests, hist, cycles>>

Issue ==
    /\ drv = "loop" /\ Decide(s) # "none"
    /\ s' = OnCommandIssued(s, Decide(s))
    /\ drv' = "exec"
    /\ hist' = [hist EXCEPT !.paid = 0]
    /\ UNCHANGED <<todo, tests, cycles>>

\* What a crash loses for good: the second event of a pair, or a dispatch
\* whose write-ahead record is gone.
Loses ==
    CASE todo \notin {"none", "baseline_defect"} -> {"torn"}
      [] drv = "detached" /\ s.sub # "RED_CHECK" -> {"lost"}
      [] OTHER -> {}

\* Bound: a damaged run is not damaged again by a crash.
Crash ==
    /\ drv \in {"loop", "exec", "detached", "emit"}
    /\ Loses = {} \/ hist.damage = {}
    /\ drv' = "off" /\ todo' = "none"
    /\ hist' = [hist EXCEPT !.damage = @ \cup Loses]
    /\ UNCHANGED <<s, tests, cycles>>

Executing(c) ==
    \/ drv = "exec" /\ s.pending = c
    \/ drv = "detached" /\ c = IF s.sub = "RED_CHECK" THEN "run_tests" ELSE "dispatch"

\* review.failed and the delivery's audits, in the middle of a dispatch, clear
\* its write-ahead record.
Detach ==
    /\ drv = "exec" /\ s.pending = "dispatch"
    /\ s' = Cleared
    /\ drv' = "detached"
    /\ UNCHANGED <<todo, tests, hist, cycles>>

CaptureBaseline ==
    /\ Executing("capture_baseline")
    /\ Append(OnBaselineCaptured(Cleared))
    /\ tests' = Judged("baseline")

\* The inherited tree cannot be collected: the failure, then its verdict.
BaselineFails ==
    /\ Executing("capture_baseline")
    /\ AppendThen(Cleared, "baseline_defect")
    /\ UNCHANGED tests

(***************************************************************************)
(* The agent's turn: done, with Shield's diff or without, or failed in one *)
(* of the classes the kernel tells apart, or refused before it began.      *)
(***************************************************************************)
WriteReplies ==
    /\ Executing("dispatch") /\ s.sub = "WRITE"
    /\ \/ /\ s' = OnOutcomeDone(Cleared, "diff")
          /\ tests' \in Rewritten
       \/ /\ s' = OnOutcomeDone(Cleared, "no_diff")
          /\ UNCHANGED tests
    /\ drv' = "loop"
    /\ hist' = [hist EXCEPT !.rounds = IF @ < MaxRounds THEN @ + 1 ELSE @]
    /\ UNCHANGED <<todo, cycles>>

PrismReplies ==
    /\ Executing("dispatch") /\ s.sub = "PRISM_REVIEW"
    /\ \E v \in PrismVerdicts : Append(OnOutcomeDone(Cleared, v))
    /\ UNCHANGED tests

DispatchFails ==
    /\ Executing("dispatch") /\ s.sub \notin NoDiff
    /\ \/ Append(OnSemanticFailure(Cleared))
       \/ Append(OnInfraFailure(Cleared))
       \/ Append(OnFormatFailure(Cleared))
       \/ Append(OnVerdictFailed(Cleared, "rejected"))
    /\ IF s.sub = "WRITE" THEN tests' \in Littered ELSE UNCHANGED tests

TestTasksInvalid ==
    /\ Executing("dispatch") /\ drv = "exec" /\ s.sub = "WRITE"
    /\ Append(OnStubGapOutcome(Cleared))
    /\ UNCHANGED tests

\* A parity mismatch or a malformed declared reply: the event, then the verdict.
RejectDispatch ==
    /\ Executing("dispatch")
    /\ AppendThen(Cleared, "rejected")
    /\ IF s.sub = "WRITE" THEN tests' \in Littered ELSE UNCHANGED tests

\* A failed turn of either agent counts as a rejected explanation.
NoDiffReplies ==
    /\ Executing("dispatch") /\ s.sub \in NoDiff
    /\ \/ s.sub = "NO_DIFF_EXPLAIN" /\ Append(OnNoDiffExplained(Cleared))
       \/ s.sub = "NO_DIFF_REVIEW" /\ Append(OnNoDiffReviewed(Cleared, TRUE))
       \/ Append(OnNoDiffReviewed(Cleared, FALSE))
    /\ UNCHANGED tests

(***************************************************************************)
(* The pipeline of a submitted result.  Shield's is checked for a diff,    *)
(* its scope, collectability and its markers; Prism's for leaving the      *)
(* tests alone.                                                            *)
(***************************************************************************)
ValidateResult ==
    /\ Executing("validate")
    /\ \/ s.result.verdict = "no_diff" /\ Append(OnNoDiffDetected(Cleared))
       \/ /\ s.result.verdict # "no_diff"
          /\ Append([Cleared EXCEPT !.result.step = "validated"])
       \/ s.result.verdict # "no_diff" /\ Append(OnVerdictFailed(Cleared, "other"))
       \/ s.result.verdict = "diff" /\ Append(OnVerdictFailed(Cleared, "test_defect"))
    /\ tests' = Dropped(tests)

(***************************************************************************)
(* The round's files are committed; a moved HEAD or the hook refuses the   *)
(* commit, a file changed since its digest aborts it.                      *)
(***************************************************************************)
CheckpointResult ==
    /\ Executing("checkpoint")
    /\ \/ /\ Append([Cleared EXCEPT !.result.step = "checkpointed"])
          /\ tests' = IF s.result.verdict = "diff" /\ tests.dirty = "round"
                      THEN [tests EXCEPT !.dirty = "clean"] ELSE tests
       \/ /\ \E check \in {"commit", "other"} : Append(OnVerdictFailed(Cleared, check))
          /\ tests' = Dropped(tests)

PublishResult ==
    /\ Executing("publish")
    /\ UNCHANGED <<todo, cycles>>
    /\ drv' = "loop"
    /\ IF s.result.of = "WRITE"
       THEN s' = OnTestWritten(Cleared) /\ UNCHANGED <<tests, hist>>
       ELSE /\ s' = OnPrismVerdict(Cleared, s.result.verdict)
            /\ tests' = IF s.result.verdict = "pass" THEN Judged("prism") ELSE tests
            /\ IF s.result.verdict = "unknown" THEN Damaged("lost")
                                               ELSE hist' = Charged(hist)

(***************************************************************************)
(* The inventory against the snapshot taken before the first WRITE.  A     *)
(* collection that stamps new tests adds them to every later selection.    *)
(***************************************************************************)
CollectTests ==
    /\ Executing("collect_tests")
    /\ Append(OnCollected(Cleared))
    /\ \E new \in BOOLEAN : tests' = [Judged("collected") EXCEPT !.stamped = @ \/ new]

CollectionFails ==
    /\ Executing("collect_tests")
    /\ Append(OnCollectionFailed(Cleared, "none"))
    /\ UNCHANGED tests

\* A test of the snapshot is gone and no accepted commit of the operator's
\* explains it: two events report one defect.
AssetsRemoved ==
    /\ Executing("collect_tests")
    /\ AppendThen(OnCollectionFailed(Cleared, "asset_deleted"), "asset_deleted")
    /\ UNCHANGED tests

(***************************************************************************)
(* The tests selected now or ever before must run, and be red.  An empty   *)
(* selection is refused, unless the collector is what was blind.           *)
(***************************************************************************)
EmptySelection ==
    /\ Executing("run_tests") /\ drv = "exec" /\ ~tests.stamped
    /\ \E check \in {"other", "collect_defect"} : Append(OnVerdictFailed(Cleared, check))
    /\ UNCHANGED tests

\* test.selected is appended before the tests run: the write-ahead record goes.
SelectTests ==
    /\ drv = "exec" /\ s.pending = "run_tests" /\ tests.stamped
    /\ s' = Cleared
    /\ drv' = "detached"
    /\ UNCHANGED <<todo, tests, hist, cycles>>

\* The contract is unusable, or a selected test was renamed away since.
ContractError ==
    /\ Executing("run_tests")
    /\ AppendThen(OnRedValidated(Cleared, FALSE), "contract_error")
    /\ UNCHANGED tests

RedCheck ==
    /\ Executing("run_tests") /\ drv = "detached"
    /\ Append(OnRedValidated(Cleared, TRUE))
    /\ tests' = Judged("red")

RedCheckInvalid ==
    /\ Executing("run_tests") /\ drv = "detached"
    /\ AppendThen(OnRedValidated(Cleared, FALSE), "diagnosis")
    /\ UNCHANGED tests

CheckTrace ==
    /\ Executing("check_trace")
    /\ \/ /\ Append([Healthy(Cleared) EXCEPT !.tracePassed = TRUE])
          /\ tests' = Judged("trace")
       \/ Append(OnVerdictFailed(Cleared, "trace")) /\ UNCHANGED tests

\* The freeze takes nothing in: every file under tests/ must be committed.
CommitTests ==
    /\ Executing("commit_tests")
    /\ IF tests.dirty = "clean"
       THEN Append(OnTestCommitted(Cleared)) /\ tests' = Judged("frozen")
       ELSE Append(OnVerdictFailed(Cleared, "contamination")) /\ UNCHANGED tests

\* stage.exited, then stage.entered of the implementation.
WriteFrontmatter ==
    /\ Executing("write_frontmatter")
    /\ AppendThen([Cleared EXCEPT !.stageExited = TRUE], "entered")
    /\ UNCHANGED tests

RollbackStage ==
    /\ Executing("rollback")
    /\ s' = [Cleared EXCEPT !.stage = "upstream"]
    /\ drv' = "left"
    /\ UNCHANGED <<todo, tests, hist, cycles>>

AppendOwed ==
    /\ drv = "emit"
    /\ CASE todo = "asset_deleted" -> Append(OnVerdictFailed(Cleared, "test_defect"))
         [] todo \in {"baseline_defect", "contract_error"} ->
                Append(OnVerdictFailed(Cleared, "upstream_defect"))
         [] todo = "diagnosis" ->
                \E check \in {"test_defect", "stub_gap", "spec_gap"} :
                    Append(OnVerdictFailed(Cleared, check))
         [] todo = "rejected" -> Append(OnVerdictFailed(Cleared, "rejected"))
         [] OTHER -> /\ s' = [Cleared EXCEPT !.stage = "M-IMPL", !.stageExited = FALSE]
                     /\ drv' = "left" /\ todo' = "none"
                     /\ UNCHANGED <<hist, cycles>>
    /\ UNCHANGED tests
-----------------------------------------------------------------------------
(* The human, while no process drives the run.                             *)

AtGate == drv = "off" /\ s.stage = "M-TEST"

(***************************************************************************)
(* trac retry: of an escalation, or with --clear-evidence of a run that is *)
(* not waiting at all.  It forgets the author's and the reviewer's flags,  *)
(* and not the one of the reviewer of a missing diff.                      *)
(***************************************************************************)
HumanRetry ==
    /\ AtGate
    /\ \E clear \in BOOLEAN :
        /\ s.awaiting = "escalation" \/ (clear /\ s.awaiting = "none")
        /\ s' = OnHumanRetry(Cleared, clear)
    /\ hist' = [hist EXCEPT !.rounds = 0,
                            !.damage = IF s.sub = "NO_DIFF_REVIEW" /\ s.noDiffDispatched
                                       THEN @ \cup {"lost"} ELSE @]
    /\ UNCHANGED <<drv, todo, tests, cycles>>

\* trac approve of a rollback, trac return of an escalation.
HumanReturn ==
    /\ AtGate /\ s.awaiting # "none"
    /\ s' = OnHumanReturn(Cleared)
    /\ UNCHANGED <<drv, todo, tests, hist, cycles>>

\* The operator discards what lies uncommitted under tests/.
OperatorCleans ==
    /\ AtGate /\ tests.dirty = "residue"
    /\ tests' = [tests EXCEPT !.dirty = "clean", !.judged = @ \cap {"baseline"}]
    /\ IF tests.judged \subseteq {"baseline"} THEN UNCHANGED hist ELSE Damaged("cleaned")
    /\ UNCHANGED <<s, drv, todo, cycles>>

(***************************************************************************)
(* The run comes back: through the design's approval, or rolled back out   *)
(* of the implementation, which may have written tests and left them.      *)
(***************************************************************************)
Reenter ==
    /\ drv = "left" /\ cycles < MaxCycles
    /\ \/ /\ s.stage = "upstream"
          /\ s' = OnStageEntered(s)
          /\ tests' = [tests EXCEPT !.judged = {}]
       \/ /\ s.stage = "M-IMPL"
          /\ s' = OnStageRolledBack(s)
          /\ \E d \in {"clean", "residue"} :
                tests' = [tests EXCEPT !.judged = {}, !.dirty = d]
    /\ drv' = "off"
    /\ hist' = [hist EXCEPT !.rounds = 0, !.paid = 0]
    /\ cycles' = cycles + 1
    /\ UNCHANGED todo
-----------------------------------------------------------------------------
DriverStep ==
    \/ Stop \/ Issue
    \/ CaptureBaseline \/ BaselineFails \/ WriteReplies \/ PrismReplies
    \/ DispatchFails \/ TestTasksInvalid \/ RejectDispatch \/ NoDiffReplies
    \/ ValidateResult \/ CheckpointResult \/ PublishResult
    \/ CollectTests \/ CollectionFails \/ AssetsRemoved
    \/ EmptySelection \/ SelectTests \/ ContractError \/ RedCheck \/ RedCheckInvalid
    \/ CheckTrace \/ CommitTests
    \/ WriteFrontmatter \/ RollbackStage \/ AppendOwed

Next ==
    \/ Start \/ Crash \/ Detach \/ DriverStep
    \/ HumanRetry \/ HumanReturn \/ OperatorCleans \/ Reenter

\* A process that lives takes its next step.
Spec == Init /\ [][Next]_vars /\ WF_vars(DriverStep)
-----------------------------------------------------------------------------
(***************************************************************************)
(* What leaves the stage for M-IMPL was judged as it lies in the tree: the *)
(* baseline taken, collected, red, passed by Prism and by the trace gate,  *)
(* frozen clean -- each verdict given after the last change of the tests,  *)
(* in this cycle and no earlier one.  The operator who cleans the tree at  *)
(* the freeze is excepted: retry goes on from the verdicts on what lay     *)
(* there before (test_execute.py:1044, m_test.py:294).                     *)
(***************************************************************************)
FrozenIsJudged ==
    s.stage = "M-IMPL" /\ drv = "left" /\ "cleaned" \notin hist.damage =>
        tests.judged = Judgements /\ tests.dirty = "clean"

(***************************************************************************)
(* The stage has one budget: no command charges it twice, though two of    *)
(* its events report the failure, and Shield writes no more rounds than    *)
(* were charged and the one in progress (m_test.py:261, FRB-K2).  A crash  *)
(* between the two events is excepted: it loses the charge.                *)
(***************************************************************************)
BudgetIsExact ==
    drv = "loop" /\ "torn" \notin hist.damage =>
        hist.paid <= 1 /\ hist.rounds <= s.attempt + 1

(***************************************************************************)
(* A run in the stage that nobody drives can be driven on or says what it  *)
(* waits for, whichever dispatch failed, whatever was rejected and however *)
(* often it crashed between commands.  The four ways into a silent halt    *)
(* are named: a pair of events torn, a dispatch that lost its write-ahead  *)
(* record, a cleared run that keeps the no-diff reviewer's flag, a verdict *)
(* of Prism nobody routes.                                                 *)
(***************************************************************************)
HaltIsExplained ==
    drv = "off" /\ s.stage = "M-TEST" /\ hist.damage \subseteq {"cleaned"} =>
        Decide(s) # "none" \/ s.pending # "none" \/ s.awaiting # "none"

(***************************************************************************)
(* The stage cannot go round for ever by itself: every cycle of write,     *)
(* collect, red, review and trace is paid for, so the process stops at a   *)
(* human's gate or leaves the stage.                                       *)
(***************************************************************************)
DriverSettles == []<>(drv \in {"off", "left"})
=============================================================================
