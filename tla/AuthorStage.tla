---------------------------- MODULE AuthorStage ----------------------------
(***************************************************************************)
(* One run of the requirement stages M-STORY, M-SPEC, M-ACC: the event     *)
(* fold and decide() of kernel/machine.py with its reducers, the run loop  *)
(* that issues and executes the decided command (executor/run_loop.py) and *)
(* the human gates of the CLI, up to the entry of M-REQ-APPROVAL.          *)
(*                                                                         *)
(* `s' is the projected State.  A step of a process appends one event, so  *)
(* a crash may fall between any two of them.  Whoever executes holds the   *)
(* run's writer lock (module WriterLock), released only while the driver   *)
(* sleeps before a retried dispatch; a human command therefore finds the   *)
(* driver off or waiting.  `trac return' is the return modelled.           *)
(*                                                                         *)
(* Documents, evidence and agent replies are left out: whether a check, a  *)
(* commit or an agent succeeds is chosen.  Of git only the commits made    *)
(* for the result in progress are kept, and whether one of them carries    *)
(* the marker of the command in flight.  The direct validate and commit of *)
(* a draft (decide without a result) cannot be reached in these stages:    *)
(* every finished draft carries its result in the outcome.                 *)
(***************************************************************************)
EXTENDS Naturals, FiniteSets

CONSTANTS
    AttemptLimit,   \* failed attempts of one substate before a human is asked
    InfraLimit      \* _infra_retry_limit

ASSUME AuthorStageAssumption ==
    /\ AttemptLimit \in Nat \ {0}
    /\ InfraLimit \in Nat \ {0}

VARIABLES
    s,          \* the projection of the run's events
    drv,        \* what the process holding the writer lock is doing
    mode,       \* "run": run_loop, "gate": run_pipeline of a human command
    todo,       \* the event a seal has still to append
    marked,     \* a commit carries the command in flight
    commits,    \* commits made for the result in progress
    tripped,    \* the breaker's counts stand over their thresholds
    scar        \* history: the first known way the run was damaged

vars == <<s, drv, mode, todo, marked, commits, tripped, scar>>

LastStage == 3      \* M-STORY, M-SPEC, M-ACC; 4 is M-REQ-APPROVAL
Stages == 1..LastStage
Review == {"SAGE_REVIEW", "LEX_REVIEW"}
NoDiff == {"NO_DIFF_EXPLAIN", "NO_DIFF_REVIEW"}
Substates == {"TRIAGE", "DRAFT", "RESPOND", "HUMAN_REVIEW", "EXIT", "RETURNED",
              "NONE", "PREVIEW"} \cup Review \cup NoDiff
Commands == {"dispatch", "validate", "checkpoint", "publish",
             "validate_document", "write_frontmatter", "rollback",
             "record_backlog", "delete_branch", "complete_run"}
AgentVerdicts == {"draft", "pass", "comment", "park"}
\* "revise": a human comment without text, which needs a changed document.
HumanVerdicts == {"go", "no_go", "no_comment", "comment", "revise"}

NoResult == [by |-> "nobody", verdict |-> "none", step |-> "none", origin |-> "none"]
Results == [by : {"agent", "human"}, verdict : AgentVerdicts \cup HumanVerdicts,
            step : {"submitted", "validated", "checkpointed"},
            origin : Substates \cup {"none"}]

StateTypes ==
    [stage : 1..LastStage + 1, sub : Substates,
     status : {"active", "awaiting_human", "completed"},
     awaiting : {"none", "triage", "review", "threads", "escalation"},
     pending : Commands \cup {"none"},
     docDispatched : BOOLEAN, revDispatched : BOOLEAN, noDiffDispatched : BOOLEAN,
     result : Results \cup {NoResult},
     exitValidated : BOOLEAN, stageExited : BOOLEAN,
     attempt : 0..AttemptLimit, infra : 0..InfraLimit,
     scopeOverflow : BOOLEAN, rejected : BOOLEAN, backlog : BOOLEAN, branchDeleted : BOOLEAN,
     target : 0..LastStage]

TypeOK ==
    /\ s \in StateTypes
    /\ drv \in {"off", "loop", "wait", "exec", "emit", "left"}
    /\ mode \in {"run", "gate"}
    /\ todo \in {"none", "exited", "entered"}
    /\ marked \in BOOLEAN
    /\ commits \in 0..1
    /\ tripped \in BOOLEAN
    /\ scar \in {"none", "exit_gate", "torn_exit", "breaker", "stale_wait",
                 "gate_escalated", "resubmitted", "forgotten"}

\* The run after `trac start': M-STORY entered, nothing dispatched.
Init ==
    /\ s = [stage |-> 1, sub |-> "TRIAGE", status |-> "active",
            awaiting |-> "none", pending |-> "none", docDispatched |-> FALSE,
            revDispatched |-> FALSE, noDiffDispatched |-> FALSE,
            result |-> NoResult, exitValidated |-> FALSE,
            stageExited |-> FALSE, attempt |-> 0, infra |-> 0,
            scopeOverflow |-> FALSE, rejected |-> FALSE, backlog |-> FALSE,
            branchDeleted |-> FALSE, target |-> 0]
    /\ drv = "off" /\ mode = "run" /\ todo = "none"
    /\ marked = FALSE /\ commits = 0 /\ tripped = FALSE /\ scar = "none"

Blame(name) == scar' = IF scar = "none" THEN name ELSE scar
-----------------------------------------------------------------------------
(* The reducers.  Each takes the state its event is folded into, where     *)
(* apply() has already cleared the write-ahead record.                     *)

Cleared == [s EXCEPT !.pending = "none"]

ReviewOf(i) == IF i = 1 THEN "SAGE_REVIEW" ELSE "LEX_REVIEW"

ResetDoc(t) == [t EXCEPT !.docDispatched = FALSE]
ResetReview(t) == [t EXCEPT !.revDispatched = FALSE]
ResetActor(t) == IF t.sub \in Review THEN ResetReview(t) ELSE ResetDoc(t)

EscalateWhen(t, full) ==
    IF full THEN [t EXCEPT !.status = "awaiting_human", !.awaiting = "escalation"]
            ELSE t

\* Mutant: the budget is one attempt too large.
ConsumeOneMore(t) ==
    [EscalateWhen(t, t.attempt + 1 > AttemptLimit) EXCEPT !.attempt = @ + 1]

(***************************************************************************)
(* _consume_attempt, _escalate_or_continue: the attempt the payload names  *)
(* is the one after the current one, for the lock keeps others out between *)
(* reading the state and appending the event.                              *)
(***************************************************************************)
Consume(t) ==
    [EscalateWhen(t, t.attempt + 1 >= AttemptLimit) EXCEPT !.attempt = @ + 1]

OnCommandIssued(t, c) ==
    LET u == [t EXCEPT !.pending = c] IN
    IF c # "dispatch" THEN u
    ELSE CASE t.sub = "NO_DIFF_REVIEW" -> [u EXCEPT !.noDiffDispatched = TRUE]
           [] t.sub \in Review -> [u EXCEPT !.revDispatched = TRUE]
           [] OTHER -> [u EXCEPT !.docDispatched = TRUE]

(***************************************************************************)
(* outcome.received of a dispatch that is done: the streaks end, a triage  *)
(* opens the human's gate, any other reply carries the result captured.    *)
(***************************************************************************)
OnOutcomeDone(t, verdict) ==
    LET u == [t EXCEPT !.infra = 0] IN
    IF t.sub = "TRIAGE" THEN [u EXCEPT !.awaiting = "triage"]
    ELSE [u EXCEPT !.result = [by |-> "agent", verdict |-> verdict,
                               step |-> "submitted", origin |-> "none"]]

CountInfra(t) == [t EXCEPT !.infra = IF @ < InfraLimit THEN @ + 1 ELSE @]

\* Mutant: a failed reviewer dispatch leaves the reviewer's flag set.
OnInfraFailureDocOnly(t) ==
    EscalateWhen(ResetDoc(CountInfra(t)), t.infra + 1 >= InfraLimit)

(***************************************************************************)
(* _handle_infra_failure: no attempt is consumed, the same assignment is   *)
(* issued again.  The streak is only compared with the limit, and a return *)
(* does not end it: it is counted up to the limit.                         *)
(***************************************************************************)
OnInfraFailure(t) ==
    EscalateWhen(ResetActor(CountInfra(t)), t.infra + 1 >= InfraLimit)

OnSemanticFailure(t) ==
    Consume([ResetActor(t) EXCEPT !.infra = 0])

OnVerdictPassed(t) ==
    [t EXCEPT !.infra = 0, !.exitValidated = TRUE]

\* Mutant: a refused seal keeps the verdict of the exit gate.
OnCommitRefusedKeepsGate(t) ==
    Consume(IF t.sub \in Review THEN ResetReview(t)
            ELSE [ResetDoc(t) EXCEPT !.sub = "DRAFT"])

(***************************************************************************)
(* verdict.failed(commit): a reviewer is asked again; an author, or a seal *)
(* at EXIT, goes back to DRAFT.                                            *)
(***************************************************************************)
OnCommitRefused(t) ==
    Consume([IF t.sub \in Review THEN ResetReview(t)
             ELSE [ResetDoc(t) EXCEPT !.sub = "DRAFT"] EXCEPT !.exitValidated = FALSE])

(***************************************************************************)
(* verdict.failed: the result is dropped; a human's failure keeps the gate *)
(* and consumes nothing; a failed exit gate asks the human; more than 30   *)
(* requirements send the run back to M-STORY.                              *)
(***************************************************************************)
OnVerdictFailed(t, check) ==
    LET u == [t EXCEPT !.result = NoResult] IN
    CASE t.result.by = "human" -> [t EXCEPT !.result = NoResult]
      [] t.result.by # "human" /\ check = "commit" -> OnCommitRefused(u)
      [] t.result.by # "human" /\ check # "commit" /\ t.sub = "EXIT" ->
            [u EXCEPT !.status = "awaiting_human", !.awaiting = "review"]
      [] OTHER -> IF check = "scope_overflow"
                  THEN [ResetActor(u) EXCEPT !.scopeOverflow = TRUE]
                  ELSE Consume(ResetActor(u))

OnNoDiffDetected(t) ==
    [t EXCEPT !.result.origin = t.sub, !.sub = "NO_DIFF_EXPLAIN",
              !.docDispatched = FALSE, !.noDiffDispatched = FALSE]

OnNoDiffExplained(t) ==
    [t EXCEPT !.sub = "NO_DIFF_REVIEW", !.noDiffDispatched = FALSE]

(***************************************************************************)
(* no_diff.reviewed: a pass resumes the pipeline where it was left, with   *)
(* DRAFT when the result in progress does not name the place.              *)
(***************************************************************************)
OnNoDiffReviewed(t, pass) ==
    LET origin == IF t.result.origin = "none" THEN "DRAFT" ELSE t.result.origin
        u == [t EXCEPT !.sub = origin, !.noDiffDispatched = FALSE] IN
    IF pass
    THEN [u EXCEPT !.result.step = "validated", !.result.origin = "none"]
    ELSE Consume(ResetActor([u EXCEPT !.result = NoResult]))

OnDocCommitted(t) ==
    ResetReview([t EXCEPT !.result = NoResult, !.sub = ReviewOf(t.stage)])

(***************************************************************************)
(* sage.verdict / lex.verdict: a pass opens the human review, a comment    *)
(* starts a RESPOND round with a fresh budget, and Lex may park the run on *)
(* threads only the human can close.                                       *)
(***************************************************************************)
OnReviewerVerdict(t, verdict) ==
    LET u == [t EXCEPT !.result = NoResult] IN
    CASE verdict = "park" ->
            [u EXCEPT !.status = "awaiting_human", !.awaiting = "threads"]
      [] verdict = "pass" -> [u EXCEPT !.sub = "HUMAN_REVIEW", !.awaiting = "review"]
      [] OTHER -> ResetDoc([u EXCEPT !.sub = "RESPOND", !.attempt = 0])

OnHumanTriage(t, decision) ==
    LET u == [t EXCEPT !.result = NoResult, !.awaiting = "none"] IN
    IF decision = "go" THEN ResetDoc([u EXCEPT !.sub = "DRAFT", !.attempt = 0])
                       ELSE [u EXCEPT !.sub = "NONE", !.rejected = TRUE]

\* Mutant: the park of Lex is not told apart from the human review.
OnHumanReviewAtPark(t, verdict) ==
    LET u == [t EXCEPT !.result = NoResult, !.awaiting = "none"] IN
    IF verdict = "no_comment" THEN [u EXCEPT !.sub = "EXIT"]
    ELSE ResetDoc([u EXCEPT !.sub = "RESPOND", !.attempt = 0])

(***************************************************************************)
(* _on_human_review_gate: under Lex's park the review is resumed, anywhere *)
(* else the human lets the document exit or sends it back.                 *)
(***************************************************************************)
OnHumanReview(t, verdict) ==
    LET u == [t EXCEPT !.result = NoResult, !.awaiting = "none"] IN
    CASE t.awaiting = "threads" ->
            ResetReview([u EXCEPT !.status = "active", !.sub = "LEX_REVIEW",
                                  !.attempt = 0])
      [] t.awaiting # "threads" /\ verdict = "no_comment" -> [u EXCEPT !.sub = "EXIT"]
      [] OTHER -> ResetDoc([u EXCEPT !.sub = "RESPOND", !.attempt = 0])

OnHumanRetry(t, clear) ==
    LET u == IF clear THEN ResetDoc(ResetReview(t)) ELSE t IN
    [u EXCEPT !.awaiting = "none", !.status = "active",
              !.attempt = 0, !.infra = 0]

OnHumanReturn(t, i) ==
    [t EXCEPT !.awaiting = "none", !.status = "active", !.sub = "RETURNED",
              !.target = i]

OnStageEntered(t, i) ==
    [ResetDoc(ResetReview(t)) EXCEPT
        !.stage = i, !.sub = IF i <= LastStage THEN "DRAFT" ELSE "PREVIEW",
        !.attempt = 0, !.stageExited = FALSE, !.exitValidated = FALSE,
        !.result = NoResult]

(***************************************************************************)
(* stage.rolled_back: the flags of the exit are kept, unlike at an entry.  *)
(***************************************************************************)
OnStageRolledBack(t, i) ==
    [ResetDoc(ResetReview(t)) EXCEPT
        !.stage = i, !.sub = "DRAFT", !.attempt = 0, !.scopeOverflow = FALSE,
        !.target = 0, !.result = NoResult]

OnRunCompleted(t) == [t EXCEPT !.status = "completed", !.awaiting = "none"]
-----------------------------------------------------------------------------
(***************************************************************************)
(* decide(): the next command, "none" to halt.  A result in progress is    *)
(* driven whatever the status and the gate say.                            *)
(***************************************************************************)
ResultCommand(t) ==
    CASE t.result.step = "submitted" -> "validate"
      [] t.result.step = "validated" -> "checkpoint"
      [] OTHER -> "publish"

RejectCommand(t) ==
    IF ~t.backlog THEN "record_backlog"
    ELSE IF ~t.branchDeleted THEN "delete_branch" ELSE "complete_run"

StageCommand(t) ==
    CASE t.sub \in {"TRIAGE", "DRAFT", "RESPOND"} ->
            IF t.docDispatched THEN "none" ELSE "dispatch"
      [] t.sub \in Review -> IF t.revDispatched THEN "none" ELSE "dispatch"
      [] t.sub = "EXIT" ->
            IF t.stageExited THEN "none"
            ELSE IF t.exitValidated THEN "write_frontmatter" ELSE "validate_document"
      [] t.sub = "RETURNED" -> "rollback"
      [] OTHER -> "none"

Decide(t) ==
    CASE t.sub = "NO_DIFF_EXPLAIN" -> IF t.docDispatched THEN "none" ELSE "dispatch"
      [] t.sub = "NO_DIFF_REVIEW" -> IF t.noDiffDispatched THEN "none" ELSE "dispatch"
      [] t.sub \notin NoDiff /\ t.result # NoResult -> ResultCommand(t)
      [] t.sub \notin NoDiff /\ t.result = NoResult /\
         (t.status # "active" \/ t.awaiting # "none") -> "none"
      [] OTHER -> IF t.stage = 1 /\ t.rejected THEN RejectCommand(t)
                  ELSE IF t.scopeOverflow THEN "rollback"
                  ELSE StageCommand(t)
-----------------------------------------------------------------------------
(* The process that holds the writer lock.                                 *)

(***************************************************************************)
(* run_loop: a command issued and never resolved is executed again before  *)
(* anything is decided; a run that is over is refused.                     *)
(***************************************************************************)
Start ==
    /\ drv = "off"
    /\ s.status # "completed"
    /\ mode' = "run"
    /\ drv' = IF s.pending = "none" THEN "loop" ELSE "exec"
    /\ UNCHANGED <<s, todo, marked, commits, tripped, scar>>

\* _check_breaker comes before decide() and counts since the last human.retry.
MustTrip == mode = "run" /\ s.status = "active" /\ tripped

Halts == Decide(s) = "none" \/ (mode = "gate" /\ s.result = NoResult)

Stop ==
    /\ drv = "loop"
    /\ ~MustTrip /\ Halts
    /\ drv' = "off"
    /\ UNCHANGED <<s, mode, todo, marked, commits, tripped, scar>>

(***************************************************************************)
(* The run breaker (executor/breaker.py) stops an active run for a human   *)
(* when its counts of rollbacks, failures or dispatches are too high, here *)
(* at any time.  It looks at the status only: the gate, the result and the *)
(* exit verdict it finds stay behind the escalation.                       *)
(***************************************************************************)
BreakerTrips ==
    /\ drv = "loop" /\ mode = "run"
    /\ s.status = "active"
    /\ s' = EscalateWhen(Cleared, TRUE)
    /\ IF s.awaiting # "none" \/ s.result # NoResult \/ s.exitValidated
       THEN Blame("breaker") ELSE UNCHANGED scar
    /\ drv' = "off" /\ tripped' = TRUE
    /\ UNCHANGED <<mode, todo, marked, commits>>

AppendIssued(c) ==
    /\ s' = OnCommandIssued(s, c)
    /\ marked' = FALSE
    /\ drv' = "exec"
    /\ UNCHANGED <<mode, todo, commits, tripped>>

Issue ==
    /\ drv = "loop"
    /\ ~MustTrip /\ ~Halts
    /\ Decide(s) = "dispatch" => s.infra = 0 \/ mode = "gate"
    /\ AppendIssued(Decide(s))
    /\ UNCHANGED scar

(***************************************************************************)
(* issue(): a dispatch after infrastructure failures waits first, with the *)
(* writer lock released (_sleep_wait) ...                                  *)
(***************************************************************************)
Backoff ==
    /\ drv = "loop" /\ mode = "run" /\ ~MustTrip
    /\ Decide(s) = "dispatch" /\ s.infra > 0
    /\ drv' = "wait"
    /\ UNCHANGED <<s, mode, todo, marked, commits, tripped, scar>>

(***************************************************************************)
(* ... and then issues what was decided before, whatever was written.      *)
(***************************************************************************)
Wake ==
    /\ drv = "wait"
    /\ AppendIssued("dispatch")
    /\ IF Decide(s) # "dispatch" THEN Blame("stale_wait") ELSE UNCHANGED scar

Crash ==
    /\ drv \notin {"off", "left"}
    /\ drv' = "off" /\ todo' = "none"
    /\ IF todo = "entered" THEN Blame("torn_exit") ELSE UNCHANGED scar
    /\ UNCHANGED <<s, mode, marked, commits, tripped>>

Executing(c) == drv = "exec" /\ s.pending = c

\* The handler's one event: folded in, and the loop goes on.
Append(t) == s' = t /\ drv' = "loop" /\ UNCHANGED <<mode, todo, tripped>>

AgentReplies ==
    /\ Executing("dispatch") /\ s.sub \notin NoDiff
    /\ \/ \E v \in AgentVerdicts :
            /\ v = "draft" <=> s.sub \notin Review
            /\ v = "park" => s.sub = "LEX_REVIEW"
            /\ Append(OnOutcomeDone(Cleared, v))
            /\ commits' = 0
       \/ Append(OnInfraFailure(Cleared)) /\ UNCHANGED commits
       \/ Append(OnSemanticFailure(Cleared)) /\ UNCHANGED commits
    /\ UNCHANGED <<marked, scar>>

(***************************************************************************)
(* _handle_no_diff_outcome: the author explains, the reviewer judges; a    *)
(* failed dispatch counts as a rejected explanation.                       *)
(***************************************************************************)
NoDiffReplies ==
    /\ Executing("dispatch") /\ s.sub \in NoDiff
    /\ \/ /\ s.sub = "NO_DIFF_EXPLAIN"
          /\ Append(OnNoDiffExplained(Cleared))
          /\ UNCHANGED scar
       \/ /\ s.sub = "NO_DIFF_REVIEW"
          /\ Append(OnNoDiffReviewed(Cleared, TRUE))
          /\ UNCHANGED scar
       \/ /\ Append(OnNoDiffReviewed(Cleared, FALSE))
          /\ IF s'.awaiting = "escalation" THEN Blame("gate_escalated")
                                           ELSE UNCHANGED scar
    /\ UNCHANGED <<marked, commits>>

(***************************************************************************)
(* validate_result: the diff policy, then the template; a human's bare     *)
(* revise without a change starts the explanation.                         *)
(***************************************************************************)
ValidateResult ==
    /\ Executing("validate")
    /\ \/ Append([Cleared EXCEPT !.result.step = "validated"])
       \/ s.result.verdict = "revise" /\ Append(OnNoDiffDetected(Cleared))
       \/ Append(OnVerdictFailed(Cleared, "document"))
       \/ s.stage = 2 /\ Append(OnVerdictFailed(Cleared, "scope_overflow"))
    /\ UNCHANGED <<marked, commits, scar>>

(***************************************************************************)
(* checkpoint_result commits under a marker of its command ...             *)
(***************************************************************************)
CommitResult ==
    /\ Executing("checkpoint")
    /\ ~marked /\ commits = 0
    /\ marked' = TRUE /\ commits' = 1
    /\ UNCHANGED <<s, drv, mode, todo, tripped, scar>>

\* Mutant: recovery does not look for the commit it may have made.
CheckpointResultBlind ==
    /\ Executing("checkpoint")
    /\ \/ drv = "exec" /\ commits = 0 /\ Append([Cleared EXCEPT !.result.step = "checkpointed"])
       \/ Append(OnVerdictFailed(Cleared, "commit"))
    /\ UNCHANGED <<marked, commits, scar>>

(***************************************************************************)
(* ... and reports it: at once, or found by its marker after a crash.      *)
(* Without the marker nothing was to commit, or the hook, a drifted digest *)
(* or a HEAD that moved refuses it.                                        *)
(***************************************************************************)
CheckpointResult ==
    /\ Executing("checkpoint")
    /\ \/ /\ marked \/ commits = 0
          /\ Append([Cleared EXCEPT !.result.step = "checkpointed"])
       \/ /\ ~marked
          /\ \E check \in {"commit", "document"} : Append(OnVerdictFailed(Cleared, check))
    /\ UNCHANGED <<marked, commits, scar>>

Published(t, result) ==
    CASE result.verdict = "draft" -> OnDocCommitted(t)
      [] result.by = "agent" /\ result.verdict # "draft" ->
            OnReviewerVerdict(t, result.verdict)
      [] result.verdict \in {"go", "no_go"} -> OnHumanTriage(t, result.verdict)
      [] OTHER -> OnHumanReview(t, result.verdict)

PublishResult ==
    /\ Executing("publish")
    /\ Append(Published(Cleared, s.result))
    /\ commits' = 0
    /\ UNCHANGED <<marked, scar>>

ValidateDocument ==
    /\ Executing("validate_document")
    /\ \/ Append(OnVerdictPassed(Cleared)) /\ UNCHANGED scar
       \/ Append(OnVerdictFailed(Cleared, "document")) /\ Blame("exit_gate")
    /\ UNCHANGED <<marked, commits>>

(***************************************************************************)
(* write_frontmatter: the seal is committed or refused by the hook; then   *)
(* the final committed event, stage.exited and the next stage.entered are  *)
(* three appends.                                                          *)
(***************************************************************************)
WriteFrontmatter ==
    /\ Executing("write_frontmatter")
    /\ \/ Append(OnVerdictFailed(Cleared, "commit"))
       \/ /\ s' = [Cleared EXCEPT !.result = NoResult]
          /\ drv' = "emit" /\ todo' = "exited"
          /\ UNCHANGED <<mode, tripped>>
    /\ UNCHANGED <<marked, commits, scar>>

AppendExited ==
    /\ drv = "emit" /\ todo = "exited"
    /\ s' = [Cleared EXCEPT !.stageExited = TRUE]
    /\ todo' = "entered"
    /\ UNCHANGED <<drv, mode, marked, commits, tripped, scar>>

\* A run that enters M-REQ-APPROVAL leaves this module.
AppendEntered ==
    /\ drv = "emit" /\ todo = "entered"
    /\ s' = OnStageEntered(Cleared, s.stage + 1)
    /\ drv' = IF s.stage = LastStage THEN "left" ELSE "loop"
    /\ todo' = "none"
    /\ UNCHANGED <<mode, marked, commits, tripped, scar>>

(***************************************************************************)
(* rollback_stage to the return's target, or to M-STORY on scope_overflow. *)
(***************************************************************************)
RollbackStage ==
    /\ Executing("rollback")
    /\ Append(OnStageRolledBack(Cleared, IF s.scopeOverflow THEN 1 ELSE s.target))
    /\ UNCHANGED <<marked, commits, scar>>

RejectRun ==
    /\ \/ /\ Executing("record_backlog")
          /\ Append([Cleared EXCEPT !.backlog = TRUE])
       \/ /\ Executing("delete_branch")
          /\ Append([Cleared EXCEPT !.branchDeleted = TRUE])
       \/ Executing("complete_run") /\ Append(OnRunCompleted(Cleared))
    /\ UNCHANGED <<marked, commits, scar>>
-----------------------------------------------------------------------------
(* The human, through the CLI or a gate worker, under the writer lock.     *)

Unlocked == drv \in {"off", "wait"}

(***************************************************************************)
(* submit_human_result, then run_pipeline in the same process.  Only       *)
(* `awaiting' is looked at: a result already in progress is replaced, a    *)
(* commit made for it and the place a missing diff was found included.     *)
(***************************************************************************)
Submit(verdict) ==
    /\ drv = "off"
    /\ s' = [Cleared EXCEPT !.result = [by |-> "human", verdict |-> verdict,
                                       step |-> "submitted", origin |-> "none"]]
    /\ drv' = "loop" /\ mode' = "gate" /\ commits' = 0
    /\ IF commits > 0 \/ s.sub \in NoDiff THEN Blame("resubmitted") ELSE UNCHANGED scar
    /\ UNCHANGED <<todo, marked, tripped>>

HumanTriage(decision) ==
    /\ s.awaiting = "triage"
    /\ Submit(decision)

HumanReview(verdict) ==
    /\ s.awaiting \in {"review", "threads"}
    /\ Submit(verdict)

AppendHuman(t) ==
    /\ Unlocked
    /\ s' = t
    /\ UNCHANGED <<drv, mode, todo, marked>>

(***************************************************************************)
(* trac retry: answers an escalation; with --clear-evidence, or while the  *)
(* breaker's attention is unresolved, also allowed on an active run, whose *)
(* command in flight it forgets.  It opens a new window of the breaker.    *)
(***************************************************************************)
HumanRetry(clear) ==
    /\ \/ s.awaiting = "escalation"
       \/ (clear \/ tripped) /\ s.status = "active" /\ s.awaiting = "none"
    /\ AppendHuman(OnHumanRetry(Cleared, clear))
    /\ tripped' = FALSE
    /\ IF commits > 0 THEN Blame("forgotten") ELSE UNCHANGED scar
    /\ UNCHANGED commits

HumanReturn(i) ==
    /\ s.awaiting = "escalation"
    /\ i <= s.stage
    /\ AppendHuman(OnHumanReturn(Cleared, i))
    /\ UNCHANGED <<commits, tripped, scar>>

Abandon ==
    /\ s.status # "completed"
    /\ AppendHuman(OnRunCompleted(Cleared))
    /\ UNCHANGED <<commits, tripped, scar>>
-----------------------------------------------------------------------------
Driver ==
    \/ Start \/ Stop \/ BreakerTrips \/ Issue \/ Backoff \/ Wake \/ Crash
    \/ AgentReplies \/ NoDiffReplies \/ ValidateResult \/ CommitResult
    \/ CheckpointResult \/ PublishResult \/ ValidateDocument
    \/ WriteFrontmatter \/ AppendExited \/ AppendEntered
    \/ RollbackStage \/ RejectRun

Human ==
    \/ \E d \in {"go", "no_go"} : HumanTriage(d)
    \/ \E v \in {"no_comment", "comment", "revise"} : HumanReview(v)
    \/ \E clear \in BOOLEAN : HumanRetry(clear)
    \/ \E i \in Stages : HumanReturn(i)
    \/ Abandon

Next == Driver \/ Human

Spec == Init /\ [][Next]_vars
-----------------------------------------------------------------------------
(***************************************************************************)
(* No invisible stop: an undamaged run for which nothing can be decided,   *)
(* with no command in flight, is over or waits for a human at a gate the   *)
(* commands of the CLI can answer.                                         *)
(***************************************************************************)
HaltIsExplained ==
    scar = "none" /\ drv = "off"
        => \/ Decide(s) # "none" \/ s.pending # "none"
           \/ s.status = "completed" \/ s.awaiting # "none"

(***************************************************************************)
(* A commit made for a result is accounted for: as long as a commit of the *)
(* result in progress stands, the result is still in progress, so that it  *)
(* is published and not done a second time, crashes included.              *)
(***************************************************************************)
CommitsAccounted ==
    scar = "none" /\ s.status # "completed" /\ commits > 0 => s.result # NoResult

(***************************************************************************)
(* The verdict of the exit gate belongs to the document at the exit: it is *)
(* never carried back into drafting, where the next exit would find it.    *)
(***************************************************************************)
ExitVerdictIsFresh ==
    scar = "none" /\ s.status # "completed" /\ s.exitValidated => s.sub = "EXIT"

(***************************************************************************)
(* The docstring of _sleep_wait: an operator who wrote during the wait     *)
(* makes the caller abandon it.  So no command is in flight on a run the   *)
(* operator has ended.                                                     *)
(***************************************************************************)
StaleWaitAbandoned == s.status = "completed" => s.pending = "none"

(***************************************************************************)
(* The stages implement their promise (StageJourney): forward only past    *)
(* the reviewer and then the human, unless the run was damaged.            *)
(***************************************************************************)
GateSub == IF s.sub \in NoDiff THEN s.result.origin ELSE s.sub

Journey == INSTANCE StageJourney WITH
    at <- s.stage,
    gate <- CASE GateSub = "EXIT" -> "approved"
              [] GateSub = "HUMAN_REVIEW" -> "reviewed"
              [] OTHER -> "open"

ImplementsJourney ==
    Journey!Init /\ [][scar' = "none" => Journey!Next]_<<s.stage, GateSub>>
=============================================================================
