# Tracks: a TLA+ verification project

Tracks (`src/tracks/`) drives a software change through a fixed chain of stages. A
deterministic kernel folds an append-only event log into a `State` and decides one
command at a time; an executor carries the command out (dispatching LLM agents,
committing documents, running gates) and appends what happened; humans answer at gates.
`trac serve` adds a service: accepted commands are rows of `service.db`, a supervisor
thread turns them into worker processes, and a schedule row says which run is active.

This directory models that program in TLA+, checks the models with TLC on small
instances and proves theorems about them with TLAPS. Section 1 is the inventory of the
system, 2 the plan, 3 the modules and how they correspond to the code, 4 the runs, 5 the
proofs, 6 what was found, 7 what is left out. `PROJECT.json` holds the same facts in
machine-readable form: for every definition the source lines it stands for (`map`), for
every hazard its line and the properties aimed at it.

To use it: `tlc -workers 4 -config X.cfg MCX.tla`, `tlapm XProofs.tla`.

## 1. Inventory

### 1.1 Service side (`tracks/supervisor`, `tracks/cli/serve_cmd.py`, `tracks/server`)

| component | state | operations | how it interacts | what is hard | correct when |
|---|---|---|---|---|---|
| command plane (`db.py`, `lease.py`, `worker.py`, `worker_main.py`, `gate_exec.py`, `recover.py`, `serve_cmd.py`) | `commands`, `leases`, `pause_events` tables; `_DriveState` (in_flight, gate_in_flight) and `_workers` in memory; worker processes | accept, claim (CAS), spawn, reap, complete (CAS on the generation), recover at startup | HTTP thread writes rows, the supervisor thread polls them, workers are subprocesses that open the same database and the run's event store | worker death, serve crash, a second `trac serve`, orphaned workers that outlive their server, a tick aborted in the middle | every accepted command gets exactly one outcome; generations name one claim; one decision lands on one gate |
| schedule (`scheduler.py`) | one row: `active_run`, `queue`; `schedule.changed` log | `on_run_created` (take the slot, queue, or preempt), `on_run_terminal` (promote, resume the preempted run) | called by the HTTP thread (create_run) and by the supervisor thread (drive acceptance finds the active run terminal) | read, decide, write with nothing around it, from two threads; a crash between the pause and the row | no created run is lost; the swap's pause is undone when the slot comes back |
| command service (`service.py`, `service_intake.py`) | idempotency keys, command rows | about twenty command kinds: validation, preflight, receipt; `apply_retry`/`apply_return` write the run plane directly | HTTP requests, schedule, run plane | preflight before the write; replayed idempotency keys | an accepted command is executed against what it was accepted for |
| intake (`intake.py`) | intake rows: submitted, evaluating, evaluated, decided | submit, evaluate, decide, redispatch | evaluation worker threads of the serve process | late evaluation against a decision, budget | one decision; a failed evaluation is retried a bounded number of times |
| external waits (`waiting.py`) | wait rows with backoff | enter, resolve, probe | nobody calls resolve or probe in production | - | - |
| HTTP server, projections (`server/*`) | none | queries | read only | - | - |

### 1.2 Run side (`tracks/kernel`, `tracks/executor`, `tracks/cli`, `tracks/store`)

| component | state | operations | how it interacts | what is hard | correct when |
|---|---|---|---|---|---|
| run-plane writer lock (`cli/common.py`) | one PID file | acquire (O_EXCL), reclaim of a dead holder, release, suspend/resume | every mutating command and every driver takes it | the holder is read, judged dead and unlinked in separate system calls; processes killed anywhere | one writer; a dead writer does not block the run |
| event store (`store/store.py`) | sqlite: events, projection | append (validates, writes event and projection in one transaction) | single writer under the lock | two writers | atomic append |
| kernel (`kernel/machine*.py`) | `State`: stage, substate, status, awaiting, dispatch flags, result in progress, budgets | one reducer per event type, `decide()` | pure; the executor folds and asks | long sequences of legal events that end where `decide()` says nothing | a run never stops without someone being asked; no gate is skipped |
| run loop (`executor/run_loop.py`, `breaker.py`) | write-ahead record (`pending_command`), backoff, breaker window | issue, execute, recover after a crash, stop at a gate | holds the lock, except while it sleeps before a retried dispatch | crash between any two events; somebody writes during the sleep | commands are executed once or recovered; stale decisions are dropped |
| result pipeline (`executor/result_*.py`, `doc_face.py`) | `active_result`: submitted, validated, checkpointed | validate, commit with a command marker, publish; exit gate and seal | git, kernel | crash between the commit and its event | no result committed twice or lost |
| M-TEST, M-IMPL (`kernel/m_test.py`, `m_impl*.py`, `executor/m_impl_*.py`, `test_*.py`) | ledger of increments, RED/GREEN evidence, attempt budgets | plan, dispatch, prove red, prove green, fix, route back | kernel, host commands, git | evidence that belongs to an older tree; routing loops | no increment is accepted without its evidence |
| release, hotfix (`kernel/release.py`, `hotfix.py`, `effects/publish.py`, `executor/verify_gates.py`) | release chain, publication receipts | verify, preview, approve, publish with read-back, roll back | remote registries and git hosts | partial publication, retries of what was already published | a version is published once, after its approval |
| document gaps (`kernel/machine_doc_gaps.py`, `executor/doc_gap_*.py`, `doc_comment.py`) | one record per pause: adjudication, nested revision, successor | classify what an author wrote into the design, pause, ingest Prism's marker, revise and review, resume | looks into the documents before every `decide()`; agents and humans edit them | decisions and dispatches that are several appends; threads known by their ordinal; a human who moves the run meanwhile | a paused author is replaced once, after its own discussion; no pause is silent |
| human commands (`cli/run_cmd.py`, `gate_cmd.py`, `release_cmd.py`) | none of their own | triage, review, retry, return, abandon, approve, recover | writer lock, kernel, result pipeline | a decision taken while the driver sleeps or after a crash | a decision is recorded for what the human saw |
| discussion threads (`discuss/*`) | comment threads inside the documents | reply, resolve, gate | humans and reviewers edit one file | two editors | no reply lost; the gate opens only when all is resolved |
| worktrees, repair, checks, reports, agents, scaffolding | files and subprocesses | - | - | I/O and parsing | - |

### 1.3 How the parts meet

A human or a client posts a command; the service accepts it as a row (`CommandPlane`),
possibly changing the schedule (`Schedule`); the supervisor claims the row under a lease
generation and spawns a worker; the worker takes the run's lock (`WriterLock`) and drives
the kernel (`AuthorStage`) until it halts or records the human's decision on the gate; it
then completes its row if the generation still fits. The CLI does the same without the
service. So every piece of run state is protected by the lock alone, every piece of
service state by single sqlite statements alone.

## 2. Plan

The order puts first what every later module relies on, then what carries the most logic.

| step | module | status |
|---|---|---|
| 1 | `WriterLock`: the lock, system call by system call | done, types and exclusion proved |
| 2 | `CommandLifecycle` (abstract: one command, one outcome) and `CommandPlane`, which implements it | done for drive and review commands; types, generations, the refinement, watching and single application proved |
| 3 | `Schedule`: the active slot under two threads | done, types and accounting proved |
| 4 | `StageJourney` (abstract: no stage is left forward without reviewer and human) and `AuthorStage`, which implements it | done for M-STORY, M-SPEC, M-ACC; checked and proved |
| 5 | `AuthorStageProofs`: types, then `CommitsAccounted` and `ExitVerdictIsFresh` with the strengthening they need, then the step simulation of `StageJourney` | done |
| 6 | `Publish`: preview, decision, publication and closing tail of a release candidate | done, checked; types, release and authority proved |
| 7 | `TaskCycle`: the M-IMPL walk from baseline to the second island gate | done, checked; its invariants and `CommandsProgress` proved |
| 8 | `TestStage`: M-TEST (collection, RED check, trace, review, commit of the tests) | done, checked; its invariants proved |
| 9 | `VerifyWalk`: the chain of gates from the frozen candidate to M-RELEASE, with its repair rounds | done, checked; its invariants and `NoStaleReplay` proved |
| 10 | proofs of the types of `TaskCycle`, `VerifyWalk` and `DocGap` and of their safety invariants | done |
| 11 | the requirement approval and M-DESIGN (preview, approval, revision, design rounds), with the revision of the documents as a value, so that "approved what was reviewed" can be stated | next |
| 12 | the failure ledger of the second island gate | later |
| 13 | `Intake`: submitted/evaluating/evaluated/decided with its redispatch budget | later |
| 14 | `DocGap`: the pause for a document gap, its adjudication, nested revision and resume | done, checked; its invariants and `ResumeIsSound` proved |
| 15 | `ServiceReturn`: `_apply_return_stage`/`_apply_retry` of the service beside a driver: lock, kernel and command plane composed | later |

Composition: `CommandPlane` and `AuthorStage` describe two ends of the same worker.
`CommandPlane` abstracts a run to {active, awaiting, terminal} and a gate number;
`AuthorStage`, `TestStage`, `TaskCycle`, `VerifyWalk` and `Publish` are five stretches of one run, each
entered where the stages before it are done; they have exactly one process at work on it, which
`WriterLock` proves under its condition. `Publish` begins where `VerifyWalk` ends, and its `Rewalk`
stands for a whole walk. `DocGap` cuts across `TestStage` and `TaskCycle`: its phases are the author
phases of either, reduced to one flag, one result and one budget. Step 15 composes them where that condition is not met by the code.

Abstract specifications worth stating: `CommandLifecycle`, `StageJourney` (both done), a
publication lifecycle for `Publish`.

Theorems worth proving: the types of every module; for `WriterLock` the exclusion; for
`CommandPlane` generations, refinement, watching and single application; for `AuthorStage` the
four invariants and the simulation; for `Publish` that a push is authorised and a release
published; for `Schedule` that no run is lost; for `TestStage` the judged tests, the budget and
the halts; for `TaskCycle` the leases, the islands, the halts and the progress of commands; for
`VerifyWalk` that a candidate is sound, for `DocGap` that a resume is. All of these are done
(section 5): what is left of the runs' properties is liveness.

The project keeps to a dozen runs. Violation runs of disagreements that section 6
describes give way to runs of new modules; the property stays stated in its module.

## 3. Modules and their correspondence to the code

### 3.1 `WriterLock` (`cli/common.py`)

Per process `pc`, the holder it read (`seen`), and its `wait` argument; one `file`, which
remembers who created it and whether the pid has been written. One action per system
call: `TryOpen` is `os.open(O_CREAT|O_EXCL)`, `WritePid` is `os.write` through the
descriptor (so it does not touch a file that replaced the one it created), `ReadHolder`
and `Reclaim` are the two halves of `_try_open`'s failure path, `WaitError` the retry
decision with the deadline that may pass at any time, `Release`, `Suspend` and `Resume`
the rest of the class. `Exit` and `Kill` end a process; a pid is never reused.

### 3.2 `CommandLifecycle` and `CommandPlane`

`CommandLifecycle` is the promise: a command is open from its acceptance until one
outcome, which stays. `CommandPlane` is the machinery, with a step per transaction, per
`Popen` and per run-plane access.

* Rows: `status`, `claimGen`, `runOf`; `RegisterCommand` inserts, `CompleteCommand` is
  the CAS of `db.complete_command` on status and generation.
* The supervisor tick of `serve_cmd.py` is `pc`/`phase`: reap finished workers (`Reap`,
  `PollDone`), take accepted drives (`TakeRow` in phase "drive"), accept a fresh drive
  for the active run (`NextRunnable`, `AcceptFreshDrive`), take gates (phase "gate",
  `GatesDone`); each spawn is `AcquireLease`, `Claim`, `Popen`. `TickFails` and
  `ReapFails` are the exceptions that `_tick`'s caller swallows.
* Workers: `WorkerStart` reads the row's generation, `DriveCheck`, `DriveWindow`,
  `DriveState` are the drive loop bounded by `_MAX_DRIVE_STEPS`, `GateExecute` is
  `_execute_review` under the lock, `Commit` the completion, `KillWorker` any death.
* `StartServe` runs recovery (claimed rows are requeued) before the port is bound, so a
  second server may start on a live home; `StopServe` leaves the workers alive.
* `record_review` stands for the gate kinds, whose executors share that path. Which run
  is active is the environment's choice (`SwitchActive`); cooldowns only delay.

### 3.3 `Schedule` (`supervisor/scheduler.py`, `service.py`)

The row (`active`, `queue`), the latest pause event of each run and whose it is, and the
program counters of the HTTP thread and the supervisor thread with the row each is about
to write. `PreflightCreateRun`, `RegisterRun`, `OnRunCreated`, `PauseActive`, `HttpWrite`,
`LogPreemption` are the six transactions of an accepted create_run;
`ReconcileTerminalDrive`, `OnRunTerminal`, `ResumePreempted`, `SupWrite` those of the end
of a run. `disturbed` is a history variable: it is set by a crash, by both threads working
on the row at once, or by a queued run created again. Properties of undisturbed schedules
say what the sequential algorithm achieves; `AcceptedIsScheduled`, stated in the module and
refuted by TLC, shows the first disturbance.

### 3.4 `StageJourney` and `AuthorStage`

`StageJourney` is the promise of flow.md for the requirement stages: forward only through
the reviewer and then the human; anything may be reopened; a return goes to the same or an
earlier stage, where both have to be earned again.

`AuthorStage` is one run from `trac start` to the entry of the requirement approval.
`s` is the projected `State` (the fields the three stages read), and each reducer of the
kernel is an operator on it: `OnOutcomeDone`, `OnInfraFailure`, `OnVerdictFailed`,
`OnReviewerVerdict`, `OnHumanReview`, ... `Decide` is `decide()`. The other variables are
the executor: `drv` (off, at the loop's head, sleeping, executing, between the three
appends of an exit, gone on to the approval), `mode` (a driver, or `run_pipeline` in a human command, which halts
when no result is in progress), `todo`, `marked` and `commits` (git, reduced to commits of
the result in progress and whether one bears the marker of the pending command), `tripped`
(the breaker's counts). One step appends one event, and `Crash` may fall between any two.

What is simplified, and why it is sound for the properties:

* whether an agent answers, a check passes, a commit is refused, is chosen; texts and
  digests are left out. So no property says *which* revision a human approved (plan, 11);
* a return is `trac return` (allowed at an escalation, to the same or an earlier stage);
  the service's return writes without the lock and is planned as a module of its own;
* a reviewer's dispatch that fails after `review.failed` was appended is not modelled:
  that event clears the write-ahead record in the middle of a dispatch;
* decide()'s direct validation and commit of a draft need a draft without a result, which
  the dispatch of these stages never leaves;
* format failures, which consume an attempt, cannot come from Scribe, Sage or Lex: only
  the handlers of later stages raise them;
* the breaker may trip at any time: its counts (rollbacks, failures, dispatches since the
  last `human.retry`) are left out, and once over their thresholds they stay so until a
  retry (`tripped`, `MustTrip`).

`scar` is a history variable that names the first known damage (section 6, K1 to K7): the
exit gate refused, a crash inside an exit, the breaker over a gate, result or exit
verdict, a stale dispatch, an escalation over the human gate, a result submitted over
another, a command forgotten between its commit and its event. The safety properties hold
of runs without a scar; so they say that these are *all* the ways, within the bounds, in
which the properties are lost.

### 3.5 `Publish` (`kernel/release.py`, `executor/publish_face.py`, `publish_runtime.py`, `milestone_chain.py`, `effects/publish.py`)

One release of a run, from the entry of M-RELEASE with a frozen candidate to
`run.completed`. `s` is again the projection, with a reducer per event
(`OnReleasePreviewed`, `OnReleaseDecided`, `OnPublishPlanned`, ...); `log` is what the
handlers read back from the events themselves (the last preview and decision, staled
evidence, the operations planned, the last status of each). The two are derived from the
same events by different code, and several properties are about their agreement.
`remote` is the object each ref of the plan names. An operation is: write-ahead record
(`PlanOp`), read (`ReadMatches`, `ReadMayPush`, `ReadFails`), push (`PushLands`,
`PushLost`, each of which may report anything), read-back (`Confirm`, `Unconfirmed`). The
tail (`TailStep`) is resumed by what is already in the log.

Simplified: the verify and security walk that produces a candidate (`VerifyWalk`) is one step
of the environment here (`Rewalk`); preflight facts (contract, HEAD, working tree, origin, sync
product) hold or not at each attempt; the agent gate and hotfix branches are left out.

### 3.6 `TaskCycle` (`kernel/m_impl_*.py`, `executor/m_impl_*.py`, `verdict_face.py`, `verify_park.py`)

One residency after the other of M-IMPL: baseline, planning and its review, the first
island gate, the selection of a task under its lease, red, green, refactor with their gates
and commits, the reviews, the diagnosis with its routes (replan, ruling, Shield's fix,
rollback), and the repair round or waiver of a parked walk.

A handler reads the log once and then appends a sequence of events. `Execute` takes the
set of sequences its handler may append for this log and projection (`Handler`),
`Continue` appends the next event and keeps the sequences that agree with it in `todo`,
`Finish` ends a handler whose sequence is complete, `Crash` drops the rest. So what a gate
or an agent answers is the choice among sequences, and a crash falls between any two
events. A handler that finds its work done and appends nothing is the empty set, which
`Stall` turns into the loop's abort after its no-progress turns.

Simplified: texts, digests and file scopes are left out; a task is what it is retained,
completed, leased and waived as; the streaks of malformed answers and infrastructure
failures may reach their limit at any failure; without a task in hand no agent delivers
one and no reviewer blames one (`OfTask`); task names stay from graph to graph, a merged
task being one whose payload changed; the order of batches is left out; the failure
ledger of the second gate is left out, so a passing gate ends the walk.

`hist` names known damage as `scar` does: `torn` (killed between an outcome and its
verdict), `round` and `returned` (section 6), `held` (a ruling to hold), `unfixed` (a fix
by Shield refused or lost).

### 3.7 `TestStage` (`kernel/m_test.py`, `executor/test_collect.py`, `test_execute.py`, result pipeline)

M-TEST from its entry to the entry of M-IMPL: the baseline (`CaptureBaseline`), Shield's
WRITE and its result pipeline with the explanation of a missing diff, the collection, the
selection and the RED check, Prism's review, the trace gate, the freeze, the exit, and the
routes back: to WRITE, to the design, to the operator. `s` is the projection with a reducer
per event (`OnVerdictFailed` is the table of `_on_m_test_verdict_failed`), `Decide` is
`decide()`, `drv` the process, `todo` the second event of a handler that appends a pair.
What the host's commands find is any answer.

`tests` is what the reducers cannot see: `judged`, the verdicts given on the tests *as they
lie in the tree now* (any rewriting empties it but for the baseline), `dirty`, whether files
are uncommitted and belong to the round in progress or to none any more, and `stamped`,
whether the run ever selected a test. `FrozenIsJudged` compares the two worlds: the flags
that let a run out are projected from events, and the tests they speak of are files that
failed turns, rejected results and returns leave behind. `hist` counts what the stage's one
budget was charged (`paid` per command, `rounds` of Shield's since the budget was last
reset) and names the known damage: `torn` (killed between the events of a pair), `lost` (a
wait nobody remembers), `cleaned` (the operator cleaned the tree under given verdicts).

Simplified: Phase 0, hotfix increments and abandoning are left out; the breaker, the wait
before a retried dispatch and a crash between a commit and its event are `AuthorStage`'s; the
return to the stage is through the design's approval or out of M-IMPL.

### 3.8 `VerifyWalk` (`executor/verify_*.py`, `closure_evidence.py`, `run_loop.py`, `kernel/attention.py`)

M-VERIFY and M-SECURITY. The links (freeze, FULL by reuse or rerun, closure experiments,
local gates, CI, final review, security assessment) are chained by their handlers, each
issuing the next command; `decide()` drives none of them. `drv` is therefore a stack of
depth two: `at` the place in the chain, `ret` what the entry of `run_loop` does after it,
`next` the command handed on, `sha` the HEAD read when the link began. What brings a
stopped walk forward is the entry of `run_loop` alone: `Drive`, then `ParkStaleLink` (the
guard against a dead driver's link), `Recover` (the replay of what is pending) or
`ResumeReleaseChain` (one re-drive, at the gates when the candidate has no gate evidence,
else at the freeze).

`s` is the projection; `log` holds the candidates frozen (`frozen`), which one each
replaced (`pred`), the repair rounds by the candidate they were opened for, the last FULL
and whether evidence was staled since; `ev` is the evidence bound to the current candidate
with the commit each gate was really computed on (`at`); `attn` is what became of the latest
attention of each area, for an unresolved one blocks every drive unless its area retries by
itself. A failure of a gate, of CI or of the scan, or a HEAD that moved, goes through
`RepairRoute`: an attention, a repair round, or after the last round a known issue.

The repository is the other actor: it has no lock, so `Commit`, `Dirty` and `Clean`
interleave with the links. A commit carries the trailer of a round, or none; the freeze
takes a new HEAD as the candidate only if the trailer names the open round. `moved` notes
that HEAD moved while a link ran or was left pending.

Simplified: the attention of a changed version contract; build and smoke phases, which are
gates of another name; a version that declares no closure experiment, whose link is a pass;
the human's return; the escalation after three failed reviews (`MaxBad` stays below it); a
second driver while the first waits for CI without the lock (what it changes, a retry, is
`RetryInWait`).

### 3.9 `DocGap` (`kernel/machine_doc_gaps.py`, `executor/doc_gap_face.py`, `doc_gap_runtime.py`, `doc_comment.py`)

SM-02. When the turn of an author of M-TEST or M-IMPL has written into a design document it
may not write, `_handle_doc_gap_outcome` classifies the difference: a changed body is rolled
back (`AuthorOverReaches`), a new discussion is a pause (`AuthorDiscusses`) and not an outcome.
The flag of the dispatch stays set, so `decide()` says nothing, and `_sm02_pre_decide`, which
runs before it in every iteration, is all that moves the run: `Turn` is its order of four
checks followed by `decide()`'s three cases.

`gaps` is `State.doc_gaps`; of a record the state, the revision with its two budgets, the
place of its thread, and whether the dispatches it announced are in the log (`nested`, `next`).
`docs` is the document: the threads in their order, for `T-00n` is only a position
(`discuss/parser.py:185`), and the marker Prism left for each record. `drv` is the driver: it iterates,
or acts, or still owes appends; `owed` is what a crash loses. `drv.base` are the bytes the
document had when the turn began. `damage` notes a pause torn by a crash and one a human
passed over.

| code | action |
|---|---|
| `_pause_for_legal_discussion`, `_emit_doc_gap_pause` | `AuthorDiscusses`, then `AppendOwed` (quarantined) |
| `_ingest_record_adjudication` | `Ingest` |
| `_advance_doc_gap_design_revision`, `_recover_doc_gap_dispatch` | `Advance`, then `AppendOwed` (issue) |
| `_do_doc_gap_dispatch`, `_checkpoint_doc_gap_revision`, `_fail_doc_gap_revision` | `Revise`, `NestedFails`, `Review` |
| `_resume_doc_gap_record` | `Resume`, then `AppendOwed` twice |
| `_resume_interrupted_dispatch` | `Reissue`, then `AppendOwed` |
| `_recover` | `Drive` |
| `trac retry --clear-evidence`, `trac return` | `Retry`, `Return` |

Simplified: the states RESTORED and DISCARDED are one, because nothing in the code restores or
discards anything upon them; a record has one thread in one document; the stage is a row of
phases and what happens inside them is two modules' business (3.6, 3.7); an infrastructure failure,
which charges nothing, and the steps between a human's return and the rollback are left out.

## 4. Runs

| run | instance | properties | what it shows |
|---|---|---|---|
| `writer_lock` | 3 processes | `LockTypeOK`, `SingleWriterWhileAllLive`, `StaleLockReclaimed` | O_EXCL keeps the writers apart while nobody has ended, through refusals, suspensions and resumptions; a dead holder's file is got out of the way by whoever tries next |
| `plane_drives` | 2 drives, 1 gate command, 2 servers one after the other, generations to 3, gates to 2, 1 dropped tick | `TypeOK`, `ClaimGenerationsDistinct`, `NothingIsUnwatched`, `AppliedOnceWithoutRestart`, `ImplementsLifecycle` | with deaths at every step a claim has a generation of its own and the rows keep the lifecycle; no claimed row and no in-flight mark is left unwatched unless a tick was dropped; a decision is applied once unless the server restarted |
| `plane_live` | 1 drive, 1 gate command, 2 successive servers, fair | `EveryCommandDecided` | every accepted command is decided while a server stays up |
| `schedule` | a feature run, 2 hotfixes, queue 1, 1 crash, fair | `TypeOK`, `SerialIsSound`, `TerminalLeavesSlot` | the sequential algorithm is right; a run that is over leaves the slot |
| `author_stage` | 3 stages, limits 2 | `TypeOK`, `HaltIsExplained`, `CommitsAccounted`, `ExitVerdictIsFresh`, `ImplementsJourney` | until a known damage, a run never stops without a gate, loses no commit, reuses no exit verdict, and implements the journey |
| `publish` | plan sync, merge, tag; 2 candidates, 2 previews, 1 change by others, fair | `TypeOK`, `ReleasedMeansPublished`, `PushesAreAuthorised`, `DriveRests` | through crashes, lost and timed-out pushes, returns and a second candidate nothing is pushed unapproved or out of order, what counts as published was on the remote, the two judgments of a batch agree, and a drive comes to rest |
| `task_cycle` | 2 tasks (one of the developer's, one the runtime verifies), 1 graph, attempts 2, 1 repair round, 1 crash, trip or return, fair | `HaltIsExplained`, `CommandsProgress`, `RuntimeNeverSpins` | until a known damage the walk never rests with nobody asked, no replay guard stalls a command still owed, and the runtime alone does not go in circles |
| `task_replan` | the same tasks, 2 graphs, 1 crash, no repair round | `TypeOK`, `IslandMeansTerminal`, `WorkIsOpenAndLeased` | over a replan that retains any completions the counter is true, the second gate means every task is closed, and no closed task or replaced lease is taken up again |
| `test_stage` | attempts 2, infrastructure and format failures 2, 1 return into the stage, fair | `TypeOK`, `FrozenIsJudged`, `BudgetIsExact`, `HaltIsExplained`, `DriverSettles` | what leaves for M-IMPL was judged as it lies in the tree, no failure is charged twice and no round of Shield's is free, a halt has its reason until a known damage, and the stage cannot go round for ever by itself |
| `verify_walk` | 3 commits, 2 repair rounds, 2 gates, 2 bad answers, 1 crash, fair | `TypeOK`, `CandidateIsSound` (`SecurityIsEarned`, `JudgedOnItsCommit`, `FixChainUnbroken`), `NoStaleReplay`, `WalkFinishes` | what leaves M-VERIFY passed every gate, its own CI and the review, on its own commit unless HEAD moved under a link; every fix names the round of the candidate it replaces; a dead driver's link is not replayed; the walk arrives, unless left where nothing drives it |
| `doc_gap` | 1 phase, 2 pauses, attempts 2, nested rounds 2, 2 crashes, 1 retry, spoilt marker or foreign thread, fair | `TypeOK`, `HaltIsExplained`, `ResumeIsSound`, `PauseEnds` | a paused author is replaced by one dispatch, after its own discussion and Prism's pass, at the phase it was paused in; a run stops for somebody, and a pause ends, whatever a crash interrupts |
| `verify_bypass` (violation) | 1 commit, 1 bad answer, no crash | `FailedEvidenceStopsTheWalk` | a failed FULL stops only the process that ran it: the next drive goes on to the local gates |

Every property of a passing run has a mutant in `PROJECT.json`: a small plausible bug in
the modelled code that TLC finds to violate exactly that property.

**Bounds.** Three lock processes are a dead holder and two rivals, the smallest race; a
fourth rival repeats the role of the second. One run suffices for the command plane because
its steps relate commands of one run only (leases, in_flight and gates are per run); two
drives are needed for one to start while the other works. One server at a time may be up in
`plane_drives`, as often as it is started; two at once are covered by the theorems of section 5,
whose constants are arbitrary (but for `OneServerWatchesAll`, which is about one). `MaxGen` is the number of claims: 3 or 4 let each command be claimed, requeued and
claimed again. `MaxGate` 2 is "this gate and the next". `MaxSteps` 1 gives a drive a second
round. `MaxFaults` 1 separates "never dropped" from "dropped". The schedule needs an active
run, one that preempts it and one more that preempts or queues; a queue of one is where
promotion and preemption meet. In `AuthorStage` a limit of 2 (3 in the code) keeps "try
again" apart from "ask a human"; 3 and 2 was run as well (10 million states, no error).
There is no bound on rounds, returns, crashes or breaker trips there: the state has no
counter for them. `Publish`: the first candidate and a successor, a preview of each or two of
one, and one change by others, which may fall before, between and after the operations; three
operations put one before and one after a stopped one. `TaskCycle` has many answers per step,
so its two runs divide the work: `task_cycle` (626,472 states) has attempts to fail twice, a
round, and one crash, trip or return; `task_replan` (1,664,551 states) has the second graph and
the waiver. Human retries and approvals are not bounded in either. `TestStage`: limits of 2 keep
"again" apart from "ask a human" for each of the three kinds of failure, which have separate
counts; one return brings flags and files of an earlier cycle; crashes are not bounded, except
that a run already damaged is not damaged again by one. `VerifyWalk` (1,395,039 states): three
commits are a candidate, its fix, and a fix of the fix or a commit without a trailer; two rounds
of the code's three keep "another round" apart from "known issue"; two gates allow one with
evidence and one without; two bad answers a failed repair or a failure after a refusal; one crash
leaves one link behind, which is all a pending record can hold. `DocGap` (477,910 states): two pauses meet in the list the
loop scans for its first entry, in one document and in one phase; two crashes are one in the
appends of a handler and one in the recovery from it; nested limits of two keep "again" apart
from "given up". Two phases with one pause and one crash, and one phase with one pause and three meddles,
were checked as well, without error. `CHECK_DEADLOCK FALSE` is stated where the system may really stop: commands are
all decided and no server is up, all processes have ended, nothing is left to create, a run
is over, or waits for a human who need not answer, or has left the modelled stages.

**Symmetry** over servers and drive commands is used in `plane_drives`, whose properties are all
safety; the runs with a liveness property use none.

**Fairness.** `WriterLock`: a process that is inside `acquire` and is not killed runs on
(`WF` of `LockStep`); nothing makes a process start, release, or die. `CommandPlane`: the
supervisor thread of a server that is up keeps ticking, since its loop swallows exceptions,
and a worker process runs to its exit; a kill, a stop, a dropped tick may pre-empt them, and
`EveryCommandDecided` excuses a server that goes down or drops a tick. `Schedule`: both
threads of the serve process run. Humans, clients, and the start of a server are never
fair. `AuthorStage` states no fairness: an agent or a human may never answer.
`Publish`, `TaskCycle` and `TestStage`: the drive that holds the lock goes on (`WF` of `DriverStep`), for
it is one sequential process; a crash ends it at any step, and nothing makes a human start
the next. That an agent's dispatch ends is not used: `RuntimeNeverSpins` allows a walk that
asks agents for ever; `DriverSettles` does use it, for it is the budget of the agents' failures
that ends M-TEST's cycles: an agent that never answers is stopped by its time limit, which the
model has as a failure. `VerifyWalk` is the one place where an operator is fair, for the walk
promises to resume at the next `trac run`: the driver goes on, the operator keeps driving
(`WF` of `Drive`) and cleans the tree, and answers an attention that keeps coming back
(`SF` of `Retry`, since a drive that is on its way disables the answer). Commits are not fair. `DocGap` promises that a
pause ends when it is answered, so drives keep coming, the driver goes on, and Prism and the
owner of a discussion answer (`WF` of `Answer`); nobody is made to retry, to return or to
open a thread, and crashes are bounded.

## 5. Proofs

Eight modules of proofs, each for all values of the constants under the one named assumption
of its component's module: the identifiers of different kinds differ, the limits of the code
are positive naturals, the bounds of the model are naturals. The instances of the runs satisfy
them, and TLC evaluates them there. A theorem with a further condition says so below.

The argument is the same everywhere. The property is seldom inductive; a strengthening is
stated as a conjunction of named parts, TLC checks each part as an invariant of the run's
instance, and then `Init` and every step keep it: one case per action, and below it one step
per part the action disturbs. In the two stage modules, where a state has some fifteen fields
and a step touches three, an effect lemma first says of each handler which fields of the
projection it changes and how; in `TestStageProofs` those are gathered into one disjunction of
step kinds (`StepKinds`), and the parts of the invariant are proved over the kinds.

| module | theorems | inductive invariant |
|---|---|---|
| `LockAndScheduleProofs` | `LockTypes`, `LockExclusion`; `ScheduleTypes`, `ScheduleSound` | `OwnerInv`; `KInv` and `SInv` |
| `CommandPlaneProofs` | `PlaneTypes`, `GenerationsDistinct`, `PlaneImplementsLifecycle` (a refinement), `OneServerWatchesAll`, `ServedOnceAppliesOnce` | `IInv`, and above it `WInv` and `AInv` |
| `PublishProofs` | `PublishTypes`, `ReleaseIsPublished`, `PushesAuthorised` (an action property) | `PInv` |
| `AuthorStageProofs` | `AuthorStageTypes`, `HaltsExplained`, `CommitsHaveResults`, `ExitVerdictStays`, `JourneyImplemented` (a refinement) | `AInv` |
| `TestStageProofs` | `TestStageTypes`, `FreezeIsJudged`, `OneBudgetPays`, `TestHaltsExplained` | `TInv` |
| `TaskCycleProofs` | `CycleInvariant`, `CycleTypes`, `TaskInHandIsOpen`, `GateIsTerminal`, `CycleHaltsExplained`, `CommandsProgressAlways` (an action property) | `IInv` |
| `VerifyWalkProofs` | `WalkInvariant`, `TypesHold`, `SoundCandidates`, `StaleLinksStay` (an action property) | `IInv` |
| `DocGapProofs` | `GapInvariant`, `GapTypes`, `GapHaltsExplained`, `GapResumeSound` (an action property) | `IInv` |

The lock and the schedule, the two small components, share a module of proofs; it extends
both, so the lock's specification has names of its own (`LockInit`, `LockNext`, `LockSpec`,
`LockTypeOK`, `lockVars`).

* **`WriterLock`.** `SingleWriterWhileAllLive` is not inductive: nothing in it
  says that the holder is the owner of the file. `OwnerInv` does: while no process has
  ended, whoever is between creating the file and releasing it owns the file at the path.
  Then `O_EXCL` refuses a second owner, a reclaim finds a live pid and unlinks nothing, and
  two holders would both be the one owner.
* **`CommandPlane`, rows.** `IInv` adds to the types:
  `RowsWellFormed` (a registered row has a run, and a claimed one a generation not above its
  run's lease), `TicksWellFormed` (what a tick is about to claim is registered, and the
  generation it holds is not above the lease), `WorkersWellFormed` (a worker exists for a
  registered row), `GenerationOwned` (a generation a server has acquired and not yet used is
  on no claimed row and with no other server) and the distinctness itself. The lease update
  increments in one statement, so a new generation is above all others: that is the step
  where two overlapping servers could have met. The refinement then needs only that rows
  move along accepted, claimed, decided, or from claimed back to accepted: both ends of the
  last are "open".
* **`CommandPlane`, watching.** `OneServerWatchesAll` assumes `MaxUp = 1` and that the servers
  are finitely many. The code does not enforce the first: a second `trac serve` on a used port
  runs recovery before its bind fails, and with two live servers TLC refutes
  `NothingIsUnwatched`. So the condition says when the promise holds, and
  it is the normal one. `WInv` adds to `IInv` that the loops of a tick hold rows of their own kind,
  that a supervisor tracks and reaps rows that exist, and that a row about to get its worker
  carries the generation its supervisor holds; the rest is that only the dropped ticks counted
  in `faults` break a watch. `ServedOnceAppliesOnce` has no condition: `AInv` says that a gate
  command of a home served once has one worker at most, and was not executed before that worker
  has it.
* **`Schedule`.** `KInv` holds in every state: what the threads hold is a row, every pause has an
  event, a free slot has no queue. `SInv` holds in undisturbed ones: every open run is in the row or is
  the one being added (in the row as it is *and* in the rows the threads are about to write), no run is
  in it twice, and a run paused by a swap waits right behind a run that took the slot by
  preemption. The last is what makes the resumption at that run's end sound, and it is why
  `SerialIsSound` needs the queue's order and not its set. The code's filter of the queue is
  the operator `Without`, which picks the kept positions by counting them, where one would
  write `SelectSeq`: what `SelectSeq` returns can only be shown by induction over sequences.
  `MCSchedule` assumes that the two are equal on every queue of an instance, and TLC evaluates it.
* **`Publish`.** `PInv` ties together the three places a batch is recorded in: where the driver
  is, the pending command, and the projection's substate (`PlacesMatch`, `PendingMatches`,
  `ReturnsMatch`); the authority of the batch the driver is in (`Authorised`); and the two
  judgments of an operation, the last status in the log and the projected set that only grows
  (`JudgmentsAgree`), with the fact that the remote shows nothing of ours that was not
  recorded as having been there (`HeldIsComplete`). A new preview resets the log and a new candidate
  both, and that is where they could diverge.
* **`AuthorStage`.** `AInv` is `BInv` in every state and `UInv` in undamaged ones
  (`scar = "none"`; the ways of section 6 to damage a run are recorded in `scar`, and the
  properties except them). `BInv`: a spent budget leaves nothing to attempt, a command about a
  result finds one, a return has a target; with it the attempts never pass their limit even in
  a damaged run. `UInv`: which gate is open in which substate, whose result is in progress,
  that results move through submitted, validated and checkpointed in order with one commit, and that a
  dispatched flag stands for somebody at work or an answer. The simulation of `StageJourney`
  follows: the substate the kernel is in decides the place in the journey, and only the
  publication of a passing review, and the human's, move it forward.
* **`TestStage`.** `TInv` says where a result, a command and an event still owed may be found
  (`ResultsPlaced`, `CommandsPlaced`, `OwedPlaced`), that a spent budget has escalated
  (`BudgetLeft`), which verdicts the kernel has where and that the tree was so judged as it
  lies (`VerdictsHold`), that what Shield has written is paid for wherever it may be asked
  again (`RoundsPaid`), and what a flag stands for (`FlagsAnswered`). `FrozenIsJudged` needs
  `VerdictsHold` because it speaks of the exit alone, several substates after the first judgment; `BudgetIsExact` needs
  `RoundsPaid` because a round and its charge are two steps, with a crash possible in between.
* **`TaskCycle`.** `IInv` is `Settled`, `TodoFits` and `FlagsAnswered`. `Settled` says what holds
  between any two events: a pending command fits the substate (`PendingFits`), which
  substates have a task in hand and which have none (`TaskPlaced`), the latest start in the log is
  its own and every earlier one ended in a completion (`LeaseKnown`, `StartsAnswered`), the counter is the number of retained
  and completed tasks (`Counted`), what a replay guard reads is true of the projection (`Replays`,
  `PlansFresh`), and the second gate is entered with every task accounted for (`GateReached`).
  `TodoFits` says that the sequences a handler still may append are the ends of a line that
  starts from here, and `FlagsAnswered` that, with no handler at work, no flag is set that the
  decision waits on. The induction is over events and not over handlers: every sequence a
  handler returns is a `Line`; its first event keeps `Settled` and leaves the rest a line
  (`Pair`, `Due`), its last leaves the flags `Free`. An answer goes along a route of the
  reducers (`Routed`: what it changes is said once, by kind of route), any other event is settled
  by a step of its own. `IslandMeansTerminal` needs the cardinalities: one completion adds
  exactly one task to the set that `Counted` counts, and a replan that retains completions
  carries that set over. `CommandsProgress` holds because a handler returns no sequence only
  where a replay guard answers, and `Replays` and `StartsAnswered` say that such a guard does
  not answer for a command the decision asks for.
* **`VerifyWalk`.** The evidence of a candidate is bound to it in several records, written by
  different links. `IInv` says where a link may be for the stage and the pending command
  (`LinksPlaced`), that a link past the freeze works on the candidate (`OnTheCandidate`), in
  which order evidence comes to be (`EvidenceInOrder`), when a pending link may be replayed
  (`ReplayAllowed`), that candidates, their predecessors and the rounds opened for them grow
  together (`CandidatesInOrder`, `ChainLinked`, `RoundsInOrder`) and that a commit about to be
  frozen in a candidate's place carries the trailer of its last round (`AboutToMint`). The three parts of
  `CandidateIsSound` are conjuncts of it. `NoStaleReplay` follows from `ReplayAllowed`, for the
  replay is the one step that takes a link out of the pending record.
* **`DocGap`.** `IInv` says that each record's state fits its budgets, its announced dispatches
  and its thread (`GapsSound`), what a driver owes for its place (`OwedFits`), what a pending
  command is about (`PendingFits`), that a torn pause is in `damage` (`TornIsKnown`), that there is
  one open pause at a time, at the phase the run stands at (`OnePause`), when the author and when a nested dispatch is in flight
  (`AuthorAtWork`, `NestedInFlight`), and that a dispatched author without a result waits for an
  unfinished record (`WaitsForRecord`). `Turn` takes the first unfinished record, so the proof
  needs that a set of naturals with a member has a least one (`LeastNumber`, from the library's
  well-foundedness of the naturals).

Two definitions were changed to be reasoned about. `CASE` with overlapping guards is in TLA+ a
choice among the true ones, which only an evaluator resolves in their order; `DocGap`'s `Turn` and
`TaskCycle`'s `Decide`, `AgentCommand` and `SelectTask`, where the code's order of returns
decides, are therefore written as chains of `IF`, as the code is.

Only model-checked:

* liveness, which is beyond the prover together with `ENABLED`: `EveryCommandDecided`,
  `StaleLockReclaimed`, `TerminalLeavesSlot`, `DriveRests`,
  `RuntimeNeverSpins`, `DriverSettles`, `WalkFinishes`, `PauseEnds`;
* that `Without` is `SelectSeq`, for the induction it needs.

Every other invariant, action property and refinement that a passing run checks is a theorem.

## 6. What was found

One disagreement between the code and its own documents has a run (`PROJECT.json`,
"findings"):

* a FULL that failed, or a blocked closure experiment, stops only the process that ran it
  (`run_loop.py:383`, run `verify_bypass`): the next drive finds the candidate without gate
  evidence and starts at the local gates, as after a crash, and the walk reaches M-SECURITY;
  `verify_gates.py:386` says that a fail-closed produce stops before the gates.

Ten more are stated as a property in their module and refuted by TLC on the instance of
the module's runs, without a run of their own:

* `StoppedBatchKeepsCommand`: the attention of a replay, or an aborted loop, clears the write-ahead
  record of a publication stopped half-way (`publish_face.py:124`), and no later drive resumes it;
  `publish_face.py:132` says that `trac run --resume` retries it;
* `SingleWriter`: the lock file is unlinked by path (`common.py:143`), so with a dead holder
  the slower of two processes unlinks the faster one's new lock;
* `SingleDriver`: a gate worker that ends takes its run out of in_flight while the run's drive
  worker is still at work (`serve_cmd.py:447`), and a second drive starts; `lease.py:3` says one
  run has one executor at a time;
* `StaleWorkerFenced`: the generation is read at worker start (`worker_main.py:57`), so a
  worker of an older lease commits under the newer claim;
* `AppliedOnce`: a decision requeued after it was recorded is recorded on the next gate as
  well (`gate_exec.py:201`);
* `AcceptedIsScheduled`: two threads overwrite each other's schedule row
  (`scheduler.py:106`), and a created run is in no queue;
* `StaleWaitAbandoned`: the result of the wait before a retried dispatch is ignored
  (`run_loop.py:971`), and an agent is dispatched on a run abandoned meanwhile;
* `DecisionIsExecuted`: a new preview and decision after a blocked publication keep its
  status, and the decision is never executed (`release.py:291`);
* `ReturnWalksOn`: a return from a release stage into M-IMPL, which the tests of the return
  targets allow, keeps the committed graph, and PLANNING waits for nobody;
* `RoundWalksOn`: a repair round over a parked diagnosis keeps `doc_dispatched`
  (`machine_lifecycle.py:277`), and RED has nothing to issue (the kernel's own `apply` and
  `decide`, fed the same events, return nothing as well).

Further behaviour of the kernel met while modelling `AuthorStage`; the model contains all
of it, and the properties name it as damage (`scar`) where they would fail:

* K1 `exit_gate`: a refused exit gate sets status awaiting_human with the review gate at
  EXIT (`machine_verdicts.py:133`); the human's review clears the gate and not the status,
  so nothing can be decided any more. flow.md:279 draws EXIT back to DRAFT.
* K2 `torn_exit`: a crash between `stage.exited` and `stage.entered`
  (`doc_face.py:214`) leaves `stage_exited` set, for which `decide()` returns nothing.
* K3 `stale_wait`: `StaleWaitAbandoned` above.
* K4 `breaker`: the breaker looks at the status only (`run_loop.py:209`). Tripping over a
  triage or review gate it replaces the gate by an escalation, and the retry that answers it
  leaves HUMAN_REVIEW without a gate. Tripping over a result in progress, the result is
  published after a return as if it belonged there. Tripping with a valid exit verdict, a
  return to the same stage keeps `exit_validated` and the redone document skips the gate.
* K5 `gate_escalated`: rejecting a human's explanation of a missing diff consumes the
  author's attempts at HUMAN_REVIEW; the last escalates there and the retry strands the gate.
* K6 `resubmitted`: a human result may be submitted over one that a crash left half done:
  over a commit, or over a missing-diff exchange whose origin is then DRAFT by default, so
  that an unvalidated verdict is published there.
* K7 `forgotten`: `trac retry --clear-evidence` after a crash between a commit and its
  event forgets the command whose marker the commit bears.
* K8: `human.return` keeps the infrastructure streak and the breaker's window
  (`machine_human_gates.py:138`): the next infrastructure failure escalates at once, and a
  tripped breaker trips again.
* K9: a human's bare "revise" without a change makes `run_pipeline`, whose docstring says
  "No agent dispatch", dispatch the author and the reviewer inside the gate command.

Behaviour of the service that is in the models and has no run of its own: a drive is
spawned for a run paused since it was accepted (`serve_cmd.py:478`); a crash between the
swap's pause and the schedule row leaves half a swap; a queued run accepted again may
become active while it is still queued; a second serve recovers the first one's claims
before its bind fails; an empty lock file is never reclaimed; an orphaned worker survives
its server. Not in the models: abandon, pause and resume rows are accepted and never
decided; `terminate_stale`, `effectuate_pause`, `release_lease` and the resolution of waits
have no caller; an approval binds the revision when it is accepted and its worker does not
compare it again; `_run_awaiting` answers "yes" when it cannot read the run plane.

Met while modelling `Publish`, and part of its behaviour:

* a preview whose evidence was staled leaves another attention on every turn of the loop
  (`_park_preview`): the exception of `DriveRests`;
* `stage.rolled_back` keeps `stage_exited`: a return from an M-PUBLISH that has exited to
  M-VERIFY finds a walk that has exited already, so `decide()` issues the security assessment
  and not the walk;
* `delay` is a dead end, since one decision per preview is allowed and no event leaves
  DELAYED; `release --action return` parks at RETURNED without a target;
* `_approval_error` ignores `evidence.staled` without a candidate while the authorisation of
  the publication counts it;
* a return from M-MILESTONE and a new release reuse the trace and the seal of the first.

Met while modelling `TaskCycle`:

* a green recorded for a task whose fix by Shield was then refused or lost makes commit_green
  a replay that appends nothing (`hist.unfixed`); a ruling to hold leaves the task started, so
  that its selection is taken for a replay (`hist.held`);
* a crash between a reviewer's outcome and its verdict leaves a review that nothing repeats
  (`hist.torn`);
* waiving a task that is completed or retained counts it twice, so the second island gate can
  be reached with an open task (the exception of `IslandMeansTerminal`);
* retained completions are compared with the previous graph only, so a payload that changes
  and changes back over two replans is retained;
* a revision at PRISM_RED keeps the red commit; a green may be bound to the red of an older
  residency; loops of lint failures and replans consume no attempt, by design.

Met while modelling `TestStage`:

* the replay guard of run_tests against a selection that moved (`test_execute.py:131`) is not
  reached after a crash: the selection it would compare with has cleared the write-ahead record;
* every later selection names all tests the run ever selected (`test_collect.py:834`), so an own
  test renamed in a rewrite stays selected, cannot be run, and sends the run back to the design,
  and the discharge of an empty selection after a re-approval cannot be met;
* the freeze asks only for a clean tree: when the operator cleans it, the verdicts given on what
  lay there are reused (`hist.damage`, `cleaned`); files a refused turn of Shield's left behind
  go into M-DESIGN with a rollback, for only a rollback out of M-IMPL quarantines them;
* `retry --clear-evidence` keeps `no_diff_reviewer_dispatched`, and a run cleared there waits
  for nobody (`lost`); so does one whose reviewer names a defect outside the table, and one
  killed between an audit in mid-dispatch and the outcome;
* a crash between the two events of an invalid RED check, of a rejected reply or of the exit
  leaves a stage that decides nothing, and one between the two of a deleted test spares the
  attempt (`torn`);
* an assignment card over its budget is to burn no attempt (`dispatch.py:220`), but in M-TEST its
  verdict takes the branch that consumes one; a refused commit of Prism's result dispatches Shield.

Met while modelling `VerifyWalk`:

* a reviewer's "revise" has no case for M-VERIFY: the substate becomes RESPOND, for which
  neither `decide()` nor the re-drive has an answer, although the message of
  `verdict_face.py` says that `trac run` dispatches the review again;
* the review's pass, `stage.exited`, `stage.entered(M-SECURITY)`, and later the exit of
  M-SECURITY and the entry of M-RELEASE are appends of one handler: a crash between them leaves
  a stage that nothing drives (`Stranded`, the exception of `WalkFinishes`), and for the same
  reason the M-VERIFY branch of `decide()` is not reached otherwise;
* `_ci_observation_reusable` is never true on a replay, because `ci.run_observed` clears the
  write-ahead record that would be replayed: a resumed run asks CI again, against the docstring
  of `_do_observe_ci_runs`;
* an attention of the review has no area, so a new candidate does not supersede it and it blocks
  until a retry names it;
* gates and scans run on the live tree and are recorded for the candidate; M-SECURITY does not
  look at HEAD at all. `moved` is the condition of `JudgedOnItsCommit` for that reason;
* a failed FULL and a blocked closure experiment leave no attention, and a HEAD that drifts when
  the rounds are used up leaves none either: the run is idle with nobody asked.

Met while modelling `DocGap` (the first four are traces TLC gives when the exception that
names them is taken out of a property):

* a record remembers its threads by ordinal, so one opened before them makes the record look at
  another discussion: it resumes while its own is open, although the docstring of
  `_resume_doc_gap_if_ready` says "Open threads stay paused" (`InPlace` in `ResumeIsSound`), or
  waits although its own is resolved (`InPlace` in `PauseEnds`);
* a retry with cleared evidence passes over a pause; the record resumes later, at the phase the
  run has left (`bypassed` in `ResumeIsSound`), and a nested dispatch that was pending then
  is not issued again, for its id is in the log (`bypassed` in `HaltIsExplained`);
* a crash between `doc_comment.detected` and `outcome.quarantined` leaves a record without a
  quarantine id, which no marker can name: the run stops for good with nobody asked (`torn`);
* a nested dispatch of a record that was not reached before it: the loop stops at the first
  DESIGN_GAP record, so a given-up design blocks the revision of every later one (`GaveUp`);
* a crash after the author wrote its discussion and before the pause loses the pause: the replayed
  dispatch takes the discussion for part of the document as it found it (`Drive`);
* the rollback of an over-reach writes back the bytes from before the turn, and with them undoes
  what humans and Prism wrote meanwhile, markers and resolutions included (`AuthorOverReaches`);
* RESTORED and DISCARDED are labels: held files are neither put back nor removed by anything;
* the docstrings of `_do_doc_gap_dispatch` and `_checkpoint_doc_gap_revision` say that a failed
  revision emits no event and parks at `archer_dispatched`; the code emits
  `doc_gap.design_failed`, and the reducer allows three attempts;
* a crash between the commit of a revision and `doc_gap.design_revised` costs an attempt: the run
  again finds nothing to commit.

## 7. Not modelled

`PROJECT.json` lists every component with its status. Left for later modules (section 2):
the approval, M-DESIGN, the failure ledger, the hotfix journey,
intake, the service's writes to the run plane. Left out for good: agents and
host commands (their classified results are choices), HTTP parsing and read-only projections,
text parsing of documents and discussions beyond its verdict, checks and reports (pure
analyses), scaffolding, logging, cooldowns (they only delay), and sqlite itself, whose single
statements and transactions are taken as atomic.

Most of the 80,000 lines are of the second kind: parsers and checkers of documents and source
trees, prompts, host adapters, projections for the HTTP interface, reports. They keep no
state between two events and take no part in an interleaving; a model of them would either
repeat the text or say nothing. The models therefore map a small share of all lines, and the
larger part of the lines that decide what a run does next.
