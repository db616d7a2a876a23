----------------------------- MODULE TaskCycle -----------------------------
(***************************************************************************)
(* The implementation stage M-IMPL from its baseline to the second island  *)
(* gate: the task graph, the selection of a task under its write lease,    *)
(* the red-green-refactor cycle of the task with its gates and reviews,    *)
(* the diagnosis, and the repair round or waiver of a parked walk          *)
(* (kernel/m_impl_decide.py, m_impl_routing.py, m_impl_state.py,           *)
(* executor/m_impl_*.py, verdict_face.py, verify_park.py).                 *)
(*                                                                         *)
(* `s' is the projected State, `log' what the handlers read back from the  *)
(* events, `todo' what the running handler may still append.  A handler    *)
(* appends one event a step and a crash drops the rest.  A human command   *)
(* finds the driver off (module WriterLock).                               *)
(*                                                                         *)
(* What a gate, a review or an agent finds is any answer it can give.  The *)
(* streaks of malformed and of infrastructure failures are left out: any   *)
(* failure may be the one that reaches their limit.  Task names stay from  *)
(* graph to graph, a task merged away being one whose payload changed, and *)
(* the order of batches and dependencies is left out.  The failure ledger  *)
(* of the second gate is left out: a passing gate ends the walk.           *)
(***************************************************************************)
EXTENDS Integers, Sequences, FiniteSets

CONSTANTS
    Tasks,          \* the tasks of the graph
    Kind,           \* how a task's red phase runs
    AttemptLimit,   \* attempts before an escalation (3)
    RoundLimit,     \* repair rounds of a run (3)
    MaxGraphs,      \* bound: task graphs committed
    MaxMeddles      \* bound: crashes, trips of the breaker and human commands

None == "none"

ASSUME TaskCycleAssumption ==
    /\ IsFiniteSet(Tasks) /\ Tasks # {} /\ None \notin Tasks
    /\ Kind \in [Tasks -> {"rgr", "anchor", "verification"}]
    /\ AttemptLimit \in Nat \ {0}
    /\ RoundLimit \in Nat /\ MaxGraphs \in Nat /\ MaxMeddles \in Nat

VARIABLES
    s,          \* the projection of the run's events
    log,        \* what the handlers read from the events
    drv,        \* the process holding the writer lock is "off" or "run"
    todo,       \* the sequences of events the handler may still append
    hist,       \* history: what befell the walk
    graphs,     \* task graphs committed so far
    meddles     \* crashes, trips and human commands so far

vars == <<s, log, drv, todo, hist, graphs, meddles>>
bounds == <<graphs, meddles>>

Reviews == {"PRISM_PLAN", "PRISM_RED", "PRISM_FINAL", "DIAGNOSE"}
Substates == Reviews \cup
    {"BASELINE", "NEEDS_ATTENTION", "PLANNING", "ISLAND_GATE_1", "TASK_DISPATCH",
     "RED", "RED_GATE", "RED_CHECKPOINT", "GREEN", "GREEN_GATE", "GREEN_COMMIT",
     "REFACTOR", "REFACTOR_GATE", "TASK_REVIEW", "TASK_DONE", "SHIELD_FIX", "RULING",
     "ISLAND_GATE_2", "EXIT", "RETURNED", "LEFT"}
Commands ==
    {"freeze_baseline", "dispatch_agent", "commit_taskgraph", "check_island_1",
     "check_island_2", "select_task", "anchor_red", "verify_task", "run_task_gates",
     "checkpoint_red", "commit_green", "run_refactor_gate", "complete_task",
     "rollback_stage"}

TypeOK ==
    /\ s \in [sub : Substates, awaiting : {None, "escalation", "rollback"},
              target : BOOLEAN, pending : Commands \cup {None},
              doc : BOOLEAN, produced : BOOLEAN, review : BOOLEAN, graph : BOOLEAN, refs : BOOLEAN,
              stub : BOOLEAN, task : Tasks \cup {None}, green : BOOLEAN, r : BOOLEAN,
              attempt : 0..AttemptLimit, count : 0..Cardinality(Tasks),
              retained : SUBSET Tasks, waived : SUBSET Tasks, lock : BOOLEAN]
    /\ log \in [ever : SUBSET Tasks, done : SUBSET Tasks, started : SUBSET Tasks,
                waived : SUBSET Tasks, lease : Tasks \cup {None}, stale : BOOLEAN,
                family : SUBSET Tasks, greened : BOOLEAN, pinned : BOOLEAN,
                devon : BOOLEAN,
                latest : Tasks \cup {None}, defect : BOOLEAN, rounds : 0..RoundLimit,
                seen : BOOLEAN, noted : BOOLEAN, registered : BOOLEAN]
    /\ drv \in {"off", "run"}
    /\ \A events \in todo : \A i \in 1..Len(events) :
          events[i].task \in Tasks \cup {None} /\ events[i].kept \subseteq Tasks
    /\ hist \in [torn : BOOLEAN, round : BOOLEAN, held : BOOLEAN, returned : BOOLEAN,
                 unfixed : BOOLEAN]
    /\ graphs \in 0..MaxGraphs /\ meddles \in 0..MaxMeddles

\* stage.entered of a first residency.
Entered ==
    [sub |-> "BASELINE", awaiting |-> None, target |-> FALSE, pending |-> None,
     doc |-> FALSE, produced |-> FALSE, review |-> FALSE, graph |-> FALSE, refs |-> FALSE,
     stub |-> FALSE, task |-> None, green |-> FALSE, r |-> FALSE, attempt |-> 0,
     count |-> 0, retained |-> {}, waived |-> {}, lock |-> FALSE]

Init ==
    /\ s = Entered
    /\ log = [ever |-> {}, done |-> {}, started |-> {}, waived |-> {}, lease |-> None,
              stale |-> FALSE, family |-> {}, greened |-> FALSE, pinned |-> FALSE,
              devon |-> FALSE, latest |-> None, defect |-> FALSE, rounds |-> 0,
              seen |-> FALSE, noted |-> FALSE, registered |-> FALSE]
    /\ drv = "off" /\ todo = {}
    /\ hist = [torn |-> FALSE, round |-> FALSE, held |-> FALSE, returned |-> FALSE,
               unfixed |-> FALSE]
    /\ graphs = 0 /\ meddles = 0

\* The status is awaiting_human exactly while something is awaited.
Active == s.awaiting = None
Verification(t) == t.task # None /\ Kind[t.task] = "verification"
-----------------------------------------------------------------------------
(* The reducers.                                                           *)

ResetDoc(t) == [t EXCEPT !.doc = FALSE, !.produced = FALSE]
ResetReview(t) == [t EXCEPT !.review = FALSE]
Go(t, sub) == [t EXCEPT !.sub = sub]
Escalate(t) == [t EXCEPT !.awaiting = "escalation"]
AwaitRollback(t, preset) == [t EXCEPT !.awaiting = "rollback", !.target = preset]

\* The count only matters up to its limit.
ConsumeAttempt(t) ==
    IF t.attempt + 1 >= AttemptLimit
    THEN Escalate([t EXCEPT !.attempt = AttemptLimit])
    ELSE [t EXCEPT !.attempt = @ + 1]

ClearResidency(t) == [t EXCEPT !.task = None, !.green = FALSE, !.r = FALSE]

\* The flag the current substate waits on.
ResetFlag(t) == IF t.sub \in Reviews THEN ResetReview(t) ELSE ResetDoc(t)

\* Archer replans: no attempt is consumed.
RouteScopeReplan(t) ==
    ClearResidency([ResetDoc(t) EXCEPT !.sub = "PLANNING", !.graph = FALSE])

RouteRuling(t) == Go(ResetReview(ResetDoc(t)), "RULING")

\* Back to a phase, its deliverable owed again, at the price of an attempt.
Redo(t, sub) == ConsumeAttempt(ResetDoc(Go(t, sub)))
Ungreen(t) == [t EXCEPT !.green = FALSE]

(***************************************************************************)
(* command.issued sets the flag of the substate that dispatches.           *)
(***************************************************************************)
OnCommandIssued(t, c) ==
    LET u == [t EXCEPT !.pending = c] IN
    IF c # "dispatch_agent" THEN u
    ELSE IF t.sub \in Reviews THEN [u EXCEPT !.review = TRUE] ELSE [u EXCEPT !.doc = TRUE]

OnOutcomeDone(t) ==
    CASE t.sub = "PLANNING" -> [t EXCEPT !.produced = TRUE]
      [] t.sub = "RULING" -> ResetReview([t EXCEPT !.sub = "DIAGNOSE", !.stub = FALSE])
      [] t.sub = "RED" -> Go(t, "RED_GATE")
      [] t.sub = "GREEN" -> Go(t, "GREEN_GATE")
      [] t.sub = "REFACTOR" -> Go(t, "REFACTOR_GATE")
      [] t.sub = "SHIELD_FIX" ->
            IF Verification(t) THEN ResetDoc(Go(t, "RED")) ELSE Go(t, "GREEN_GATE")
      [] OTHER -> t

(***************************************************************************)
(* _handle_failed_outcome: a malformed reply or an infrastructure failure  *)
(* is dispatched again, or its streak routes it to a ruling or escalates;  *)
(* another failure consumes an attempt, Devon's being diagnosed.           *)
(***************************************************************************)
OnOutcomeFailed(t, how) ==
    CASE how = "again" -> ResetFlag(t)
      [] how = "ruling" -> RouteRuling(t)
      [] how = "escalate" -> Escalate(ResetFlag(t))
      [] OTHER ->
            IF t.sub \in {"RED", "GREEN"}
            THEN ConsumeAttempt(ResetReview(ResetDoc(
                     [t EXCEPT !.sub = "DIAGNOSE", !.stub = FALSE])))
            ELSE ConsumeAttempt(ResetFlag(t))

\* A malformed evidence sends a gate back to the phase before it.
OnVerdictMalformed(t, how) ==
    LET back == CASE t.sub \in {"RED_GATE", "RED_CHECKPOINT"} -> Go(t, "RED")
                  [] t.sub \in {"GREEN_GATE", "GREEN_COMMIT"} -> Go(t, "GREEN")
                  [] t.sub = "REFACTOR_GATE" -> Go(t, "REFACTOR")
                  [] OTHER -> t
    IN OnOutcomeFailed(back, how)

(***************************************************************************)
(* verdict.passed of check(ruling): the action of the ruling is the route. *)
(***************************************************************************)
RouteRulingVerdict(t, action) ==
    LET u == ResetDoc(t) IN
    CASE action = "redeliver_green" -> [u EXCEPT !.sub = "GREEN", !.green = FALSE, !.attempt = 0]
      [] action = "deliver_red" -> [u EXCEPT !.sub = "RED", !.green = FALSE, !.attempt = 0]
      [] action = "hold" -> [u EXCEPT !.sub = "TASK_DISPATCH", !.task = None]
      [] OTHER -> Go(u, "RULING")

OnVerdictPassed(t, check) ==
    CASE check = "island_1" -> ResetReview(Go(t, "PRISM_PLAN"))
      [] check = "red_valid" -> Go(t, "RED_CHECKPOINT")
      [] check = "green" -> Go(t, "GREEN_COMMIT")
      [] check = "task_review" -> ResetReview(Go(t, "PRISM_FINAL"))
      [] check = "island_2" -> Go(t, "EXIT")
      [] OTHER -> RouteRulingVerdict(t, check)

\* Mutant: the reviewer's flag survives a verdict that stays in DIAGNOSE.
RouteDiagnoseStale(t, check) ==
    CASE check = "impl_defect" ->
            IF t.r THEN Redo(Ungreen(t), "GREEN") ELSE Redo(t, "RED")
      [] check = "red_defect" -> Redo(Ungreen(t), "RED")
      [] check = "plan_defect" -> RouteScopeReplan(t)
      [] check = "test_defect" -> Redo(t, "SHIELD_FIX")
      [] check = "stub_gap" -> [t EXCEPT !.stub = TRUE]
      [] check = "spec_gap" -> AwaitRollback(t, TRUE)
      [] check = "diagnosis_exhausted" -> RouteRuling(t)
      [] OTHER -> ConsumeAttempt(ResetDoc(t))

(***************************************************************************)
(* _route_m_impl_diagnose.  The class is kept as whether it is a stub gap. *)
(* Moves out of DIAGNOSE leave the reviewer's flag.                        *)
(***************************************************************************)
RouteDiagnose(t, check) ==
    LET u == [t EXCEPT !.stub = check = "stub_gap"] IN
    CASE check = "impl_defect" ->
            IF t.r THEN Redo(Ungreen(u), "GREEN") ELSE Redo(u, "RED")
      [] check = "red_defect" -> Redo(Ungreen(u), "RED")
      [] check = "plan_defect" -> RouteScopeReplan(u)
      [] check = "test_defect" -> Redo(u, "SHIELD_FIX")
      [] check = "stub_gap" -> u
      [] check = "spec_gap" -> AwaitRollback(u, TRUE)
      [] check = "diagnosis_exhausted" -> RouteRuling(u)
      [] OTHER -> ConsumeAttempt(ResetDoc(ResetReview(u)))    \* unknown, or no contract

\* Attributions a gate makes are confirmed by the diagnosis.
Attributed == {"verification_failed", "impl_defect", "test_defect", "spec_gap"}

\* Mutant: a failure without a route of its own costs no attempt.
RouteGateFailureFree(t, check) ==
    CASE check = "island" -> [Redo(t, "PLANNING") EXCEPT !.graph = FALSE]
      [] check \in {"scope", "plan_defect"} -> RouteScopeReplan(t)
      [] check = "red_invalid" -> Redo(t, "RED")
      [] OTHER -> ResetFlag(t)

(***************************************************************************)
(* _route_m_impl_gate_failure.  red_legal: every anchor is missing or was  *)
(* green on arrival, so the plan is wrong.                                 *)
(***************************************************************************)
RouteGateFailure(t, check) ==
    CASE check \in Attributed \cup {"stub_gap", "public_interface"} ->
            ResetReview([t EXCEPT !.sub = "DIAGNOSE",
                                  !.stub = check \in {"stub_gap", "public_interface"}])
      [] check \in {"plan_defect", "scope", "red_legal"} -> RouteScopeReplan(t)
      [] check = "contract_conflict" -> RouteRuling(t)
      [] check = "criteria_pack_mismatch" -> ConsumeAttempt(ResetReview(t))
      [] check = "island" -> [Redo(t, "PLANNING") EXCEPT !.graph = FALSE]
      [] check = "red_invalid" -> Redo(t, "RED")
      [] check = "lint" -> ResetDoc(Go(t, IF t.sub = "RED_GATE" THEN "RED" ELSE "GREEN"))
      [] check = "regression" -> ConsumeAttempt(ResetReview(Go(t, "DIAGNOSE")))
      [] check = "budget" -> Redo(Ungreen(t), "GREEN")
      [] check = "lineage" -> AwaitRollback(ResetReview(t), t.target)
      [] check = "contract_error" -> Escalate(ResetReview(t))
      [] OTHER -> ConsumeAttempt(ResetFlag(t))    \* commit, manifest, worktree ...

OnVerdictFailed(t, check) ==
    IF t.sub = "DIAGNOSE" THEN RouteDiagnose(t, check) ELSE RouteGateFailure(t, check)

\* A revised plan is a fresh graph; one that needs the design goes there.
RoutePlanRevise(t, v) ==
    CASE v = "design_gap" -> [t EXCEPT !.sub = "DIAGNOSE", !.stub = TRUE]
      [] v = "spec_gap" -> AwaitRollback(t, TRUE)
      [] OTHER -> [Redo(t, "PLANNING") EXCEPT !.graph = FALSE]

RouteFinalRevise(t, v) ==
    CASE v = "red_defect" -> Redo(Ungreen(t), "RED")
      [] v = "plan_defect" -> RouteScopeReplan(t)
      [] v = "test_defect" -> Redo(t, "SHIELD_FIX")
      [] OTHER -> Redo(Ungreen(t), "GREEN")

(***************************************************************************)
(* prism.verdict.  A revised red keeps the R it refuses as the identity.   *)
(***************************************************************************)
OnPrismVerdict(t, v) ==
    LET u == ResetReview(t) IN
    CASE t.sub = "PRISM_PLAN" ->
            IF v = "pass" THEN Go(u, "TASK_DISPATCH") ELSE RoutePlanRevise(u, v)
      [] t.sub = "PRISM_RED" ->
            IF v = "pass" THEN ResetDoc(Go(u, "GREEN"))
            ELSE IF v = "plan_defect" THEN RouteScopeReplan(u) ELSE Redo(u, "RED")
      [] t.sub = "PRISM_FINAL" ->
            IF v = "pass" THEN Go(u, "TASK_DONE") ELSE RouteFinalRevise(u, v)
      [] OTHER -> u

\* Mutant: the completions of the replaced graph stay counted.
OnTaskgraphCommittedAdds(t, retained) ==
    [t EXCEPT !.graph = TRUE, !.refs = TRUE, !.retained = retained,
              !.count = @ + Cardinality(retained), !.task = None,
              !.sub = IF retained = Tasks THEN "ISLAND_GATE_2" ELSE "ISLAND_GATE_1"]

(***************************************************************************)
(* taskgraph.committed: the completions retained are counted, and the task *)
(* in flight belonged to the replaced graph.                               *)
(***************************************************************************)
OnTaskgraphCommitted(t, retained) ==
    [t EXCEPT !.graph = TRUE, !.refs = TRUE, !.retained = retained, !.count = Cardinality(retained),
              !.task = None,
              !.sub = IF retained = Tasks THEN "ISLAND_GATE_2" ELSE "ISLAND_GATE_1"]

OnTaskStarted(t, i) ==
    ResetDoc([t EXCEPT !.task = i, !.sub = "RED", !.attempt = 0, !.green = FALSE,
                       !.r = FALSE, !.stub = FALSE])

OnRedCheckpointed(t, sanction) ==
    IF sanction = "shield_fix" THEN [t EXCEPT !.r = TRUE]
    ELSE ResetReview([t EXCEPT !.r = TRUE, !.sub = "PRISM_RED"])

\* Mutant: the last task still open does not hold the gate.
OnTaskCompletedEarly(t, i) ==
    LET u == ResetDoc(ClearResidency([t EXCEPT !.count = @ + 1])) IN
    Go(u, IF u.count >= Cardinality(Tasks) - 1 THEN "ISLAND_GATE_2" ELSE "TASK_DISPATCH")

\* task.completed; a retained task is counted already.
OnTaskCompleted(t, i) ==
    LET u == ResetDoc(ClearResidency(
                 IF i \in t.retained THEN t ELSE [t EXCEPT !.count = @ + 1])) IN
    Go(u, IF u.count >= Cardinality(Tasks) THEN "ISLAND_GATE_2" ELSE "TASK_DISPATCH")

\* repair.round_started: only a round of Devon's re-enters the red phase.
OnRepairRoundStarted(t, owner) ==
    [t EXCEPT !.awaiting = IF @ = "escalation" THEN None ELSE @,
              !.sub = IF @ = "DIAGNOSE" /\ owner = "devon" THEN "RED" ELSE @]

(***************************************************************************)
(* known_issue.registered: the task of the parked walk is waived.          *)
(***************************************************************************)
OnKnownIssueRegistered(t, i) ==
    IF t.awaiting # "escalation" THEN t
    ELSE LET u == ClearResidency([t EXCEPT !.waived = @ \cup ({i} \ {None}),
                                           !.stub = FALSE, !.awaiting = None])
         IN Go(u, IF t.refs /\ t.count + Cardinality(u.waived) >= Cardinality(Tasks)
                  THEN "ISLAND_GATE_2" ELSE "TASK_DISPATCH")

\* stage.rolled_back keeps what stage.entered of the stage would reset.
OnReturnedInto(t) ==
    ResetReview(ResetDoc([t EXCEPT !.sub = "BASELINE", !.attempt = 0, !.target = FALSE]))

Event(e, how) == [e |-> e, how |-> how, task |-> s.task, kept |-> {}]

\* apply(): every event of a handler clears the write-ahead record.
Reduce(t, ev) ==
    LET u == [t EXCEPT !.pending = None] IN
    CASE ev.e = "outcome" ->
            IF ev.how = "done" THEN OnOutcomeDone(u) ELSE OnOutcomeFailed(u, ev.how)
      [] ev.e = "malformed" -> OnVerdictMalformed(u, ev.how)
      [] ev.e = "passed" -> OnVerdictPassed(u, ev.how)
      [] ev.e = "failed" -> OnVerdictFailed(u, ev.how)
      [] ev.e = "prism" -> OnPrismVerdict(u, ev.how)
      [] ev.e = "baseline" -> Go(u, IF ev.how = "current" THEN "PLANNING" ELSE "NEEDS_ATTENTION")
      [] ev.e = "graph" -> OnTaskgraphCommitted(u, ev.kept \cap log.ever)
      [] ev.e = "granted" -> [u EXCEPT !.lock = TRUE]
      [] ev.e = "released" -> [u EXCEPT !.lock = FALSE]
      [] ev.e = "started" -> OnTaskStarted(u, ev.task)
      [] ev.e = "red" -> OnRedCheckpointed(u, ev.how)
      [] ev.e = "test" -> [u EXCEPT !.r = TRUE]
      [] ev.e = "green" -> ResetDoc([u EXCEPT !.green = TRUE, !.sub = "REFACTOR"])
      [] ev.e = "green_no_change" -> [u EXCEPT !.green = TRUE, !.sub = "TASK_REVIEW"]
      [] ev.e = "refactor" -> ResetDoc(Go(u, "TASK_REVIEW"))
      [] ev.e = "completed" -> OnTaskCompleted(u, ev.task)
      [] ev.e = "rolled_back" -> Go(u, "LEFT")
      [] OTHER -> u       \* audit

\* What the log reads of the event: whatever commits is a new candidate.
Record(l, ev) ==
    LET Candidate(m) == [m EXCEPT !.seen = FALSE, !.noted = FALSE, !.registered = FALSE] IN
    CASE ev.e = "outcome" ->
            [l EXCEPT !.pinned = FALSE,
                      !.devon = IF s.sub \in {"RED", "GREEN", "REFACTOR"}
                                THEN s.sub = "GREEN" /\ ev.how = "done" ELSE @]
      [] ev.e = "failed" /\ ev.how = "impl_defect" -> [l EXCEPT !.defect = TRUE]
      [] ev.e = "graph" -> Candidate([l EXCEPT !.done = {}, !.started = {}, !.waived = {},
                                               !.stale = l.lease # None])
      [] ev.e = "granted" -> [l EXCEPT !.lease = ev.task, !.stale = FALSE]
      [] ev.e = "released" -> [l EXCEPT !.lease = None, !.stale = FALSE]
      [] ev.e = "started" -> [l EXCEPT !.started = @ \cup {ev.task}, !.latest = ev.task,
                                       !.greened = FALSE, !.noted = FALSE, !.registered = FALSE]
      [] ev.e = "red" -> [l EXCEPT !.family = @ \cup ({ev.task} \cap Tasks), !.greened = FALSE,
                                   !.pinned = TRUE]
      [] ev.e = "green" -> Candidate([l EXCEPT !.greened = TRUE])
      [] ev.e \in {"test", "refactor"} -> Candidate(l)
      [] ev.e = "completed" -> [l EXCEPT !.ever = @ \cup {ev.task}, !.done = @ \cup {ev.task}]
      [] OTHER -> l
-----------------------------------------------------------------------------
(* The decision and the handlers.                                          *)

AgentCommand(t) ==
    IF t.doc THEN None
    ELSE IF t.sub \in {"RED", "GREEN"} /\ Verification(t) THEN "verify_task"
    ELSE IF t.sub = "RED" /\ t.task # None /\ Kind[t.task] = "anchor" THEN "anchor_red"
    ELSE "dispatch_agent"

(***************************************************************************)
(* decide() of an active run in M-IMPL.                                    *)
(***************************************************************************)
Decide(t) ==
    IF t.awaiting # None THEN None ELSE
    CASE t.sub = "BASELINE" -> "freeze_baseline"
      [] t.sub = "PLANNING" ->
            IF ~t.doc THEN "dispatch_agent"
            ELSE IF t.produced /\ ~t.graph THEN "commit_taskgraph" ELSE None
      [] t.sub = "ISLAND_GATE_1" -> "check_island_1"
      [] t.sub = "ISLAND_GATE_2" -> "check_island_2"
      [] t.sub = "RULING" -> IF t.doc THEN None ELSE "dispatch_agent"
      [] t.sub \in Reviews ->
            IF t.sub = "DIAGNOSE" /\ t.stub THEN "rollback_stage"
            ELSE IF t.review THEN None ELSE "dispatch_agent"
      [] t.sub \in {"RED", "GREEN", "REFACTOR", "SHIELD_FIX"} -> AgentCommand(t)
      [] t.sub \in {"RED_GATE", "GREEN_GATE", "TASK_REVIEW"} -> "run_task_gates"
      [] t.sub = "RED_CHECKPOINT" -> "checkpoint_red"
      [] t.sub = "GREEN_COMMIT" -> "commit_green"
      [] t.sub = "REFACTOR_GATE" -> "run_refactor_gate"
      [] t.sub = "TASK_DISPATCH" -> "select_task"
      [] t.sub = "TASK_DONE" -> "complete_task"
      [] t.sub = "RETURNED" -> "rollback_stage"
      [] OTHER -> None

One(e, hows) == {<<Event(e, how)>> : how \in hows}
Passes(check) == One("passed", {check})
Fails(checks) == One("failed", checks)
Malformed == One("malformed", {"again", "ruling", "escalate"})

\* Without a task in hand no agent delivers one, and no reviewer blames one.
OfTask(answers) == IF s.task = None THEN {} ELSE answers

\* What a dispatch says after the outcome of a reply that is done.
Verdicts ==
    CASE s.sub = "RULING" ->
            {<<>>} \cup One("passed", {"redirect"} \cup
                                     OfTask({"redeliver_green", "deliver_red", "hold"}))
      [] s.sub = "DIAGNOSE" ->
            Fails({"plan_defect", "stub_gap", "spec_gap", "unknown", "diagnosis_exhausted"} \cup
                  OfTask({"impl_defect", "red_defect", "test_defect"}))
      [] s.sub = "PRISM_PLAN" -> One("prism", {"pass", "design_gap", "spec_gap", "revise"})
      [] s.sub = "PRISM_RED" -> One("prism", {"pass", "plan_defect", "revise"})
      [] s.sub = "PRISM_FINAL" ->
            One("prism", {"pass", "red_defect", "plan_defect", "test_defect", "revise"})
      [] OTHER -> {<<>>}

\* Shield's fix is refused or committed, then pinned as the task's newest R.
ShieldCommit ==
    Fails({"scope", "manifest", "test_defect"}) \cup
    {<<Event("test", "")>> \o
        IF s.task \in log.family THEN <<Event("red", "shield_fix")>> ELSE <<>>}

(***************************************************************************)
(* _do_dispatch_agent: refused before it starts, a failed outcome, an      *)
(* audit event and its verdict, or the outcome and then its verdict.       *)
(***************************************************************************)
DispatchAgent ==
    LET after == IF s.sub = "SHIELD_FIX" THEN ShieldCommit ELSE Verdicts
        pack == IF s.sub \in Reviews THEN Fails({"criteria_pack_mismatch"}) ELSE {}
    IN Fails({"worktree"} \cup IF s.sub \in {"RED", "GREEN"} THEN {"plan_defect"} ELSE {})
       \cup One("outcome", {"again", "ruling", "escalate", "failed"})
       \cup {<<Event("audit", "")>> \o v : v \in Malformed \cup Fails({"reply_format_error"})}
       \cup {<<Event("outcome", "done")>> \o v :
                v \in IF s.sub \in {"RED", "GREEN"} THEN OfTask(after) ELSE after \cup pack}

\* A completion derived from the events: retained, completed or waived.
EffectivelyCompleted == s.retained \cup log.done \cup log.waived

Of(ev, i) == <<[ev EXCEPT !.task = i]>>

\* Mutant: a lease of the replaced graph restarts its task.
RecoverTaskLeaseStale ==
    IF log.lease \in EffectivelyCompleted THEN {Of(Event("released", ""), log.lease)}
    ELSE {Of(Event("started", ""), log.lease)}

\* _recover_task_lease: a lease still held is released or its start replayed.
RecoverTaskLease ==
    IF log.stale \/ log.lease \in EffectivelyCompleted
    THEN {Of(Event("released", ""), log.lease)}
    ELSE {Of(Event("started", ""), log.lease)}

StartTask(i) == Of(Event("granted", ""), i) \o Of(Event("started", ""), i)

SelectTask ==
    IF s.task # None THEN {}
    ELSE IF ~s.refs THEN Fails({"island"})
    ELSE IF ~(log.started \subseteq EffectivelyCompleted) THEN {}
    ELSE IF s.lock THEN IF log.lease = None THEN {} ELSE RecoverTaskLease
    ELSE IF Tasks \subseteq EffectivelyCompleted THEN Fails({"island"})
    ELSE {StartTask(i) : i \in Tasks \ EffectivelyCompleted}

\* The gates of a green want Devon's last outcome to be one.
GreenGate ==
    IF ~log.devon THEN Fails({"impl_defect"})
    ELSE Passes("green") \cup
         Fails({"regression", "impl_defect", "contract_conflict", "contract_error", "lint",
                "commit"})

RunTaskGates ==
    CASE s.sub = "RED_GATE" -> Passes("red_valid") \cup Fails({"red_invalid", "red_legal", "lint"})
      [] s.sub = "GREEN_GATE" -> GreenGate
      [] OTHER -> Passes("task_review") \cup
                  Fails({"lineage", "scope", "budget", "contract_error"})

\* A checkpoint recorded since the last outcome is not repeated.
CheckpointRed ==
    IF log.pinned THEN {} ELSE One("red", {"devon"}) \cup Fails({"red_invalid"}) \cup Malformed

\* Mutant: the guard of a replay forgets that a revision reopens the green.
CommitGreenOnce ==
    IF log.greened THEN {} ELSE One("green", {""}) \cup Fails({"impl_defect"})

(***************************************************************************)
(* _do_commit_green: a green recorded for the slot of R and still standing *)
(* is a replay; without an R or a checkpoint of the task nothing commits.  *)
(***************************************************************************)
CommitGreen ==
    IF s.green /\ log.greened THEN {}
    ELSE One("green_no_change", {""}) \cup Fails({"impl_defect"}) \cup Malformed
         \cup IF s.r /\ s.task \in log.family THEN One("green", {""}) ELSE {}

RunRefactorGate ==
    One("refactor", {""}) \cup Malformed \cup Fails({"scope", "regression", "contract_error"})

AnchorRed == One("red", {"anchor"}) \cup Fails({"red_invalid", "plan_defect", "contract_error"})

Complete == {<<Event("completed", ""), Event("released", "")>>}

\* A task completed already is only released, once of all time.
CompleteTask == IF s.task \in log.done \cup s.retained THEN {} ELSE Complete

\* The new graph keeps the payload of some tasks as the last one had it.
CommitTaskgraph ==
    Fails({"taskgraph"}) \cup {<<[Event("graph", "") EXCEPT !.kept = k]>> : k \in SUBSET Tasks}

\* The sequences of events the handler of a command may append.
Handler(c) ==
    CASE c = "freeze_baseline" -> One("baseline", {"current", "stale"})
      [] c = "dispatch_agent" -> DispatchAgent
      [] c = "commit_taskgraph" -> CommitTaskgraph
      [] c = "check_island_1" -> Passes("island_1") \cup Fails({"island"})
      [] c = "check_island_2" -> Passes("island_2") \cup Fails({"island", "contract_error"})
      [] c = "select_task" -> SelectTask
      [] c = "anchor_red" -> AnchorRed
      [] c = "verify_task" -> Complete \cup Fails({"verification_failed", "contract_error"})
      [] c = "run_task_gates" -> RunTaskGates
      [] c = "checkpoint_red" -> CheckpointRed
      [] c = "commit_green" -> CommitGreen
      [] c = "run_refactor_gate" -> RunRefactorGate
      [] c = "complete_task" -> CompleteTask
      [] c = "rollback_stage" -> One("rolled_back", {""})
-----------------------------------------------------------------------------
(* The driver.                                                             *)

Resting == drv = "off"
Meddle == meddles < MaxMeddles /\ meddles' = meddles + 1
AtTop == drv = "run" /\ todo = {} /\ s.pending = None
Calm(h) == [h EXCEPT !.torn = FALSE, !.round = FALSE]

\* A drive starts with the recovery of the command in flight.
Start ==
    /\ Resting /\ s.sub \notin {"EXIT", "LEFT"}
    /\ drv' = "run"
    /\ UNCHANGED <<s, log, todo, hist, bounds>>

Issue ==
    /\ AtTop
    /\ Decide(s) # None
    /\ s' = OnCommandIssued(s, Decide(s))
    /\ hist' = Calm(hist)
    /\ UNCHANGED <<log, drv, todo, bounds>>

AppendEvent(ev) ==
    /\ s' = Reduce(s, ev)
    /\ log' = Record(log, ev)
    /\ drv' = IF ev.e = "rolled_back" THEN "off" ELSE drv
    /\ IF ev.e = "graph" THEN graphs < MaxGraphs /\ graphs' = graphs + 1
                         ELSE UNCHANGED graphs
    /\ hist' =
        CASE ev.e = "passed" /\ ev.how = "hold" -> [hist EXCEPT !.held = TRUE]
          [] ev.e = "graph" ->
                [hist EXCEPT !.held = FALSE, !.returned = FALSE, !.unfixed = FALSE]
          [] ev.e = "outcome" /\ ev.how = "done" /\ s.sub = "SHIELD_FIX" ->
                [hist EXCEPT !.unfixed = log.greened]
          [] ev.e \in {"red", "green"} -> [hist EXCEPT !.unfixed = FALSE]
          [] ev.e = "started" -> [hist EXCEPT !.held = FALSE, !.unfixed = FALSE]
          [] OTHER -> hist
    /\ UNCHANGED meddles

\* What is left of the sequences that start with the event.
After(sequences, ev) ==
    LET rest == {Tail(x) : x \in {y \in sequences : y # <<>> /\ Head(y) = ev}}
    IN IF rest = {<<>>} THEN {} ELSE rest

AppendOne(sequences) ==
    \E events \in sequences \ {<<>>} :
        AppendEvent(Head(events)) /\ todo' = After(sequences, Head(events))

\* The handler of the command in flight appends the first of its events ...
Execute == drv = "run" /\ todo = {} /\ s.pending # None /\ AppendOne(Handler(s.pending))

\* ... then the others, if any.
Continue == todo # {} /\ AppendOne(todo)

Finish ==
    /\ <<>> \in todo
    /\ todo' = {}
    /\ UNCHANGED <<s, log, drv, hist, bounds>>

\* A command whose handler appends nothing is issued until the loop aborts.
Stall ==
    /\ drv = "run" /\ todo = {} /\ s.pending # None
    /\ Handler(s.pending) = {}
    /\ s' = [s EXCEPT !.pending = None]
    /\ drv' = "off"
    /\ UNCHANGED <<log, todo, hist, bounds>>

\* A process killed at any point; the events it was to append are lost.
Crash ==
    /\ Meddle
    /\ drv = "run"
    /\ drv' = "off" /\ todo' = {}
    /\ hist' = [hist EXCEPT !.torn = @ \/ (s.pending = None /\ todo # {})]
    /\ UNCHANGED <<s, log, graphs>>

\* The run's breaker trips at the head of the loop.
Breaker ==
    /\ Meddle
    /\ AtTop /\ Active
    /\ s' = Escalate(s)
    /\ UNCHANGED <<log, drv, todo, hist, graphs>>

Parked == AtTop /\ s.sub = "DIAGNOSE" /\ s.awaiting = "escalation"
Exhausted == log.rounds >= RoundLimit \/ (log.seen /\ s.attempt >= AttemptLimit)

(***************************************************************************)
(* The park chain of a diagnosis that escalated opens a repair round ...   *)
(***************************************************************************)
RepairRound(owner) ==
    /\ Parked /\ ~Exhausted
    /\ log.defect /\ ~log.registered
    /\ s' = OnRepairRoundStarted(s, owner)
    /\ log' = [log EXCEPT !.rounds = @ + 1, !.seen = TRUE]
    /\ hist' = [hist EXCEPT !.round = TRUE]
    /\ UNCHANGED <<drv, todo, bounds>>

\* ... or, the rounds exhausted, notes the defect and then registers it.
NoteKnownIssue ==
    /\ Parked /\ Exhausted
    /\ log.defect /\ ~log.registered /\ ~log.noted
    /\ log' = [log EXCEPT !.noted = log.latest # None]
    /\ drv' = "off"
    /\ UNCHANGED <<s, todo, hist, bounds>>

RegisterKnownIssue ==
    /\ Parked /\ Exhausted
    /\ log.noted /\ ~log.registered
    /\ s' = OnKnownIssueRegistered(s, log.latest)
    /\ log' = [log EXCEPT !.registered = TRUE, !.waived = @ \cup {log.latest}]
    /\ UNCHANGED <<drv, todo, hist, bounds>>

\* A drive that decides nothing ends; its park chain may have stopped early.
Park ==
    /\ AtTop
    /\ Decide(s) = None
    /\ drv' = "off"
    /\ UNCHANGED <<s, log, todo, hist, bounds>>
-----------------------------------------------------------------------------
(* The human and the other stages.                                         *)

\* trac retry: FR-11 reopens what was recorded before it.
Retried(l) == [l EXCEPT !.pinned = FALSE, !.greened = FALSE]

HumanRetry ==
    /\ Resting
    /\ s.awaiting = "escalation" \/ (s.awaiting = "rollback" /\ ~s.target)
    /\ s' = [s EXCEPT !.awaiting = None, !.attempt = 0, !.pending = None,
                      !.sub = IF @ = "NEEDS_ATTENTION" THEN "BASELINE" ELSE @]
    /\ log' = Retried(log)
    /\ UNCHANGED <<drv, todo, hist, bounds>>

HumanRetryClear ==
    /\ Meddle
    /\ Resting /\ s.awaiting # "rollback"
    /\ s' = ResetReview(ResetDoc(
                [s EXCEPT !.awaiting = None, !.attempt = 0, !.pending = None,
                          !.sub = IF @ = "NEEDS_ATTENTION" THEN "BASELINE" ELSE @]))
    /\ log' = Retried(log)
    /\ UNCHANGED <<drv, todo, hist, graphs>>

\* approve of a rollback, with the target preset or chosen.
HumanApprove ==
    /\ Resting /\ s.awaiting = "rollback"
    /\ s' = [s EXCEPT !.awaiting = None, !.sub = "RETURNED", !.pending = None]
    /\ UNCHANGED <<log, drv, todo, hist, bounds>>

HumanReturn ==
    /\ Meddle
    /\ Resting
    /\ s.awaiting = "escalation" \/ s.sub = "NEEDS_ATTENTION"
    /\ s' = [s EXCEPT !.awaiting = None, !.sub = "RETURNED", !.pending = None]
    /\ UNCHANGED <<log, drv, todo, hist, graphs>>

\* The stages upstream are walked again, or recovered past: M-IMPL is entered.
Reenter ==
    /\ Resting /\ s.sub = "LEFT"
    /\ s' = Entered
    /\ log' = [log EXCEPT !.started = {}]
    /\ hist' = [h \in DOMAIN hist |-> FALSE]
    /\ UNCHANGED <<drv, todo, bounds>>

\* A human return from a release stage names M-IMPL.
ReturnInto ==
    /\ Meddle
    /\ Resting /\ s.sub = "EXIT"
    /\ s' = OnReturnedInto(s)
    /\ hist' = [hist EXCEPT !.returned = TRUE]
    /\ UNCHANGED <<log, drv, todo, graphs>>

DriverStep ==
    \/ Start \/ Issue \/ Execute \/ Continue \/ Finish \/ Stall
    \/ \E owner \in {"devon", "archer"} : RepairRound(owner)
    \/ NoteKnownIssue \/ RegisterKnownIssue \/ Park
Human == HumanRetry \/ HumanRetryClear \/ HumanApprove \/ HumanReturn
Next == DriverStep \/ Crash \/ Breaker \/ Human \/ Reenter \/ ReturnInto

Spec == Init /\ [][Next]_vars

\* A drive that runs goes on, and an event it is to append is appended.
FairSpec == Spec /\ WF_vars(DriverStep)
-----------------------------------------------------------------------------
Idle == Resting /\ s.pending = None /\ Active

(***************************************************************************)
(* A walk left at rest with nobody asked still has a command to issue: no  *)
(* route of an outcome, a verdict, a completion or a return leaves a flag  *)
(* set that decide() waits on.  The exceptions: a process killed between   *)
(* an outcome and its verdict, a repair round and a return into the stage, *)
(* which RoundWalksOn and ReturnWalksOn state.  The code is decide()'s    *)
(* None and every _reset_doc and _reset_review of m_impl_routing.          *)
(***************************************************************************)
HaltIsExplained ==
    Idle /\ Decide(s) = None =>
        \/ s.sub \in {"NEEDS_ATTENTION", "EXIT", "LEFT"}
        \/ hist.torn
        \/ hist.returned /\ s.sub = "PLANNING"
        \/ hist.round /\ s.sub = "RED"

(***************************************************************************)
(* No handler takes its command for a replay and appends nothing while the *)
(* decision asks for it again, which the loop ends as a stall: the guards  *)
(* of _do_checkpoint_red, _do_commit_green, _do_select_task and            *)
(* _do_complete_task agree with the projection.  Two cases are known: the  *)
(* selection after a ruling to hold, whose task stays started, and the     *)
(* green of a task whose fix by Shield was refused or lost.                *)
(***************************************************************************)
CommandsProgress ==
    [][Stall => \/ s.sub = "TASK_DISPATCH" /\ hist.held
                \/ s.sub = "GREEN_COMMIT" /\ hist.unfixed]_vars

(***************************************************************************)
(* The task in hand holds the write lease, granted under the graph in      *)
(* force, and is neither retained, completed nor waived in that graph      *)
(* (_start_task, _recover_task_lease, _do_complete_task), through crashes  *)
(* between the grant and the start, replans and waivers.                   *)
(***************************************************************************)
WorkIsOpenAndLeased ==
    s.task # None =>
        /\ s.lock /\ log.lease = s.task /\ ~log.stale
        /\ s.task \notin s.retained \cup log.done \cup log.waived

(***************************************************************************)
(* tasks_completed, a counter the reducers carry over a replan, is the     *)
(* number of completions the executor derives from the events of the       *)
(* generation (_on_taskgraph_committed, _effective_completed_task_ids).    *)
(***************************************************************************)
CountIsTrue == s.graph => s.count = Cardinality(s.retained \cup log.done)

(***************************************************************************)
(* The counter is true, and ISLAND_GATE_2 is reached only when every task  *)
(* is completed, retained or waived (_on_task_completed,                   *)
(* _on_known_issue_registered), unless a task was both waived and          *)
(* completed, which the two counters count twice.                          *)
(***************************************************************************)
IslandMeansTerminal ==
    /\ CountIsTrue
    /\ s.sub = "ISLAND_GATE_2" /\ s.waived \cap (s.retained \cup log.done) = {} =>
           Tasks \subseteq s.retained \cup log.done \cup s.waived

AwaitsAgent == s.pending = "dispatch_agent"

(***************************************************************************)
(* The Runtime alone never goes round in circles: a drive comes to rest or *)
(* dispatches an agent again and again, since every route that repeats a   *)
(* gate or a commit consumes an attempt (_route_m_impl_gate_failure).      *)
(***************************************************************************)
RuntimeNeverSpins == []<>(Resting \/ AwaitsAgent)

(***************************************************************************)
(* machine_lifecycle._on_repair_round_started says that an opened repair   *)
(* round re-arms the parked walk.  It leaves the flag of the document that *)
(* was dispatched before the diagnosis, and RED has nothing to issue.      *)
(***************************************************************************)
RoundWalksOn == hist.round /\ ~hist.torn /\ Idle => Decide(s) # None

(***************************************************************************)
(* A release stage returns into the implementation cycle (the test of the  *)
(* return targets).  The return keeps the committed graph of the residency *)
(* that ended, and PLANNING waits for nobody after its next dispatch.      *)
(***************************************************************************)
ReturnWalksOn ==
    hist.returned /\ ~hist.torn /\ Idle /\ s.sub # "NEEDS_ATTENTION" => Decide(s) # None
=============================================================================
