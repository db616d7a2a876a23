-------------------------- MODULE TaskCycleProofs --------------------------
(***************************************************************************)
(* What is proved of the implementation stage, for any tasks, kinds and    *)
(* limits: the walk through plan, tasks and reviews keeps its types, works *)
(* only on an open task under its lease, reaches its last gate with every  *)
(* task accounted for, halts only where it is known to, and no handler     *)
(* takes for a replay what the decision asks for.                          *)
(*                                                                         *)
(* IInv is inductive.  Its parts say what the projection, the events read  *)
(* back and what the handler still owes have to do with one another.  The  *)
(* argument: a handler appends a `Line' of events; the first of a line     *)
(* keeps what is Settled and makes room for the next; the last leaves no   *)
(* flag that the decision waits for (Free).  Answers go along a route of   *)
(* the reducers (Routed), other events settle one by one.                  *)
(***************************************************************************)
EXTENDS TaskCycle, FiniteSetTheorems, SequenceTheorems, TLAPS

\* The substates that dispatch, and those with a task in hand or without one.
Writing == {"RULING", "RED", "GREEN", "REFACTOR", "SHIELD_FIX"}
Asking == {"PLANNING"} \cup Writing \cup Reviews
InHand == {"RED_GATE", "RED_CHECKPOINT", "PRISM_RED", "GREEN", "GREEN_GATE", "GREEN_COMMIT",
           "REFACTOR", "REFACTOR_GATE", "TASK_REVIEW", "PRISM_FINAL", "TASK_DONE",
           "SHIELD_FIX"}
Between == {"BASELINE", "NEEDS_ATTENTION", "PLANNING", "ISLAND_GATE_1", "PRISM_PLAN",
            "TASK_DISPATCH", "ISLAND_GATE_2", "EXIT"}
Greens == {"GREEN", "GREEN_GATE", "GREEN_COMMIT"}

States == [sub : Substates, awaiting : {None, "escalation", "rollback"},
           target : BOOLEAN, pending : Commands \cup {None},
           doc : BOOLEAN, produced : BOOLEAN, review : BOOLEAN, graph : BOOLEAN,
           refs : BOOLEAN, stub : BOOLEAN, task : Tasks \cup {None}, green : BOOLEAN,
           r : BOOLEAN, attempt : 0..AttemptLimit, count : 0..Cardinality(Tasks),
           retained : SUBSET Tasks, waived : SUBSET Tasks, lock : BOOLEAN]
Logs == [ever : SUBSET Tasks, done : SUBSET Tasks, started : SUBSET Tasks,
         waived : SUBSET Tasks, lease : Tasks \cup {None}, stale : BOOLEAN,
         family : SUBSET Tasks, greened : BOOLEAN, pinned : BOOLEAN, devon : BOOLEAN,
         latest : Tasks \cup {None}, defect : BOOLEAN, rounds : 0..RoundLimit,
         seen : BOOLEAN, noted : BOOLEAN, registered : BOOLEAN]
Histories == [torn : BOOLEAN, round : BOOLEAN, held : BOOLEAN, returned : BOOLEAN,
              unfixed : BOOLEAN]

Typed ==
    /\ s \in States /\ log \in Logs /\ hist \in Histories
    /\ drv \in {"off", "run"} /\ graphs \in 0..MaxGraphs /\ meddles \in 0..MaxMeddles

(***************************************************************************)
(* What a flag stands for: the substate that set it is not waited for.     *)
(***************************************************************************)
Free(t) ==
    \/ t.awaiting = "rollback" /\ t.target
    \/ /\ t.sub = "PLANNING" /\ t.doc => t.produced /\ ~t.graph
       /\ t.sub \in Writing => ~t.doc
       /\ t.sub \in Reviews /\ t.review => t.sub = "DIAGNOSE" /\ t.stub

(***************************************************************************)
(* What may be failed, by substate; without a task nobody is blamed.       *)
(***************************************************************************)
Failing(t, check) ==
    \/ check \in {"worktree", "reply_format_error"} /\ t.sub \in Asking
    \/ check = "criteria_pack_mismatch" /\ t.sub \in Reviews
    \/ check = "plan_defect" /\ t.sub \in {"RED", "GREEN"}
    \/ /\ check \in {"plan_defect", "stub_gap", "spec_gap", "unknown", "diagnosis_exhausted"}
       /\ t.sub = "DIAGNOSE"
    \/ /\ check \in {"impl_defect", "red_defect", "test_defect"}
       /\ t.sub = "DIAGNOSE" /\ t.task # None
    \/ check \in {"scope", "manifest", "test_defect"} /\ t.sub \in {"RED", "GREEN_GATE"}
    \/ check = "taskgraph" /\ t.sub = "PLANNING"
    \/ check = "island" /\ t.sub \in {"ISLAND_GATE_1", "ISLAND_GATE_2", "TASK_DISPATCH"}
    \/ check = "contract_error" /\ t.sub = "ISLAND_GATE_2"
    \/ /\ check \in {"red_invalid", "verification_failed", "contract_error"}
       /\ t.sub \in {"RED", "GREEN"} /\ ~t.doc
    \/ check \in {"red_invalid", "red_legal", "lint"} /\ t.sub = "RED_GATE"
    \/ /\ check \in {"regression", "impl_defect", "contract_conflict", "contract_error",
                     "lint", "commit"}
       /\ t.sub = "GREEN_GATE"
    \/ check \in {"lineage", "scope", "budget", "contract_error"} /\ t.sub = "TASK_REVIEW"
    \/ check = "red_invalid" /\ t.sub = "RED_CHECKPOINT"
    \/ check = "impl_defect" /\ t.sub = "GREEN_COMMIT"
    \/ check \in {"scope", "regression", "contract_error"} /\ t.sub = "REFACTOR_GATE"

Passing(t, check) ==
    \/ check = "island_1" /\ t.sub = "ISLAND_GATE_1"
    \/ check = "red_valid" /\ t.sub = "RED_GATE"
    \/ check = "green" /\ t.sub = "GREEN_GATE"
    \/ check = "task_review" /\ t.sub = "TASK_REVIEW"
    \/ check = "island_2" /\ t.sub = "ISLAND_GATE_2"
    \/ check = "redirect" /\ t.sub = "DIAGNOSE"
    \/ check \in {"redeliver_green", "deliver_red", "hold"} /\ t.sub = "DIAGNOSE" /\ t.task # None

Judging(t, v) ==
    \/ v \in {"pass", "design_gap", "spec_gap", "revise"} /\ t.sub = "PRISM_PLAN"
    \/ v \in {"pass", "plan_defect", "revise"} /\ t.sub = "PRISM_RED"
    \/ /\ v \in {"pass", "red_defect", "plan_defect", "test_defect", "revise"}
       /\ t.sub = "PRISM_FINAL"

Retryable == {"again", "ruling", "escalate"}
Pinning(ev) ==
    /\ ev.e = "red" /\ ev.how = "shield_fix" /\ ev.task = s.task /\ s.task # None
    /\ s.sub = "GREEN_GATE" \/ (s.sub = "RED" /\ ~s.doc)
Startable(i) ==
    /\ s.sub = "TASK_DISPATCH" /\ s.task = None /\ s.refs
    /\ i \in Tasks \ EffectivelyCompleted /\ log.started \subseteq EffectivelyCompleted
Fixed(ev) == ev.e = "test" /\ (s.sub = "GREEN_GATE" \/ (s.sub = "RED" /\ ~s.doc))

\* The event a handler still owes.
Owed(ev) ==
    \/ ev.e = "malformed" /\ ev.how \in Retryable /\ s.sub \in Asking
    \/ ev.e = "failed" /\ Failing(s, ev.how)
    \/ ev.e = "passed" /\ Passing(s, ev.how) /\ s.sub = "DIAGNOSE"
    \/ ev.e = "prism" /\ Judging(s, ev.how)
    \/ Fixed(ev)
    \/ Pinning(ev)
    \/ ev.e = "started" /\ Startable(ev.task) /\ s.lock /\ log.lease = ev.task /\ ~log.stale
    \/ ev.e = "released" /\ s.task = None /\ s.sub \in {"TASK_DISPATCH", "ISLAND_GATE_2"}

Owing(ev) == ev.task \in Tasks \cup {None} /\ ev.kept = {}

\* Nothing is waited for but what ReturnWalksOn is about.
Quiet == Free(s) \/ (hist.returned /\ s.sub = "PLANNING")

Fits(x) ==
    \/ x = <<>> /\ Quiet
    \/ x = <<x[1]>> /\ Owing(x[1]) /\ Owed(x[1])
    \/ /\ x = <<x[1], x[2]>> /\ Owing(x[1]) /\ Owing(x[2])
       /\ Fixed(x[1]) /\ Pinning(x[2])

TodoFits ==
    /\ todo # {} => drv = "run" /\ s.pending = None
    /\ \A x \in todo : Fits(x)

PendingFits ==
    s.pending # None =>
        /\ s.awaiting = None
        /\ s.pending = "freeze_baseline" => s.sub = "BASELINE"
        /\ s.pending = "dispatch_agent" => s.sub \in Asking
        /\ s.pending = "commit_taskgraph" => s.sub = "PLANNING"
        /\ s.pending = "check_island_1" => s.sub = "ISLAND_GATE_1"
        /\ s.pending = "check_island_2" => s.sub = "ISLAND_GATE_2"
        /\ s.pending = "select_task" => s.sub = "TASK_DISPATCH"
        /\ s.pending = "anchor_red" => s.sub = "RED" /\ s.task # None /\ ~s.doc
        /\ s.pending = "verify_task" => s.sub \in {"RED", "GREEN"} /\ s.task # None /\ ~s.doc
        /\ s.pending = "run_task_gates" => s.sub \in {"RED_GATE", "GREEN_GATE", "TASK_REVIEW"}
        /\ s.pending = "checkpoint_red" => s.sub = "RED_CHECKPOINT"
        /\ s.pending = "commit_green" => s.sub = "GREEN_COMMIT"
        /\ s.pending = "run_refactor_gate" => s.sub = "REFACTOR_GATE"
        /\ s.pending = "complete_task" => s.sub = "TASK_DONE"
        /\ s.pending = "rollback_stage" => s.sub \in {"DIAGNOSE", "RETURNED"}

Placed(t) ==
    /\ t.sub \in InHand => t.task # None
    /\ t.sub \in Between => t.task = None

TaskPlaced == Placed(s)

LeaseKnown ==
    /\ s.lock => log.lease # None
    /\ s.task # None => s.refs /\ log.latest = s.task
    /\ log.noted => log.latest # None

StartsAnswered ==
    /\ log.started \subseteq EffectivelyCompleted \cup {log.latest}
    /\ s.sub \in {"ISLAND_GATE_1", "PRISM_PLAN"} => log.started = {}
    /\ s.sub = "TASK_DISPATCH" => log.started \subseteq EffectivelyCompleted \/ hist.held

Counted ==
    /\ s.graph => s.refs
    /\ s.refs => s.count = Cardinality(s.retained \cup log.done)
    /\ ~s.refs => s.count = 0 /\ s.retained = {}

Replays ==
    /\ s.sub \in {"RED_GATE", "RED_CHECKPOINT"} => ~log.pinned
    /\ s.sub = "PRISM_RED" => ~log.greened
    /\ s.sub \in Greens /\ s.green /\ log.greened => hist.unfixed

PlansFresh ==
    /\ s.sub \in {"BASELINE", "NEEDS_ATTENTION"} => ~s.doc
    /\ s.sub \in {"BASELINE", "NEEDS_ATTENTION", "PLANNING"} /\ s.graph => hist.returned

FlagsAnswered ==
    \/ Free(s) \/ s.pending = "dispatch_agent" \/ todo # {} \/ hist.torn
    \/ hist.returned /\ s.sub = "PLANNING"
    \/ hist.round /\ s.sub = "RED"

GateReached ==
    s.sub = "ISLAND_GATE_2" /\ s.waived \cap (s.retained \cup log.done) = {} =>
        Tasks \subseteq s.retained \cup log.done \cup s.waived

\* Everything but the events owed and the flags.
Settled ==
    /\ Typed /\ PendingFits /\ TaskPlaced /\ LeaseKnown /\ StartsAnswered /\ Counted
    /\ Replays /\ PlansFresh /\ WorkIsOpenAndLeased /\ GateReached

IInv == Settled /\ TodoFits /\ FlagsAnswered

-----------------------------------------------------------------------------
(* What the reducers do, field by field.                                   *)

\* What no route changes.
Kept(t, u) ==
    /\ u.pending = t.pending /\ u.refs = t.refs /\ u.count = t.count
    /\ u.retained = t.retained /\ u.waived = t.waived /\ u.lock = t.lock

(* A move to another substate.                                             *)
LEMMA GoEffect ==
    ASSUME NEW t \in States, NEW x \in Substates
    PROVE  /\ Go(t, x) \in States /\ Kept(t, Go(t, x))
           /\ Go(t, x).sub = x
           /\ Go(t, x).awaiting = t.awaiting /\ Go(t, x).target = t.target
           /\ Go(t, x).doc = t.doc /\ Go(t, x).produced = t.produced
           /\ Go(t, x).review = t.review /\ Go(t, x).graph = t.graph
           /\ Go(t, x).stub = t.stub /\ Go(t, x).task = t.task /\ Go(t, x).green = t.green
BY DEF Go, States, Kept

(* The document flag lowered.                                              *)
LEMMA ResetDocEffect ==
    ASSUME NEW t \in States
    PROVE  /\ ResetDoc(t) \in States /\ Kept(t, ResetDoc(t))
           /\ ResetDoc(t).doc = FALSE /\ ResetDoc(t).produced = FALSE
           /\ ResetDoc(t).sub = t.sub
           /\ ResetDoc(t).awaiting = t.awaiting /\ ResetDoc(t).target = t.target
           /\ ResetDoc(t).review = t.review /\ ResetDoc(t).graph = t.graph
           /\ ResetDoc(t).stub = t.stub /\ ResetDoc(t).task = t.task
           /\ ResetDoc(t).green = t.green
BY DEF ResetDoc, States, Kept

(* The reviewer's flag lowered.                                            *)
LEMMA ResetReviewEffect ==
    ASSUME NEW t \in States
    PROVE  /\ ResetReview(t) \in States /\ Kept(t, ResetReview(t))
           /\ ResetReview(t).review = FALSE
           /\ ResetReview(t).sub = t.sub
           /\ ResetReview(t).awaiting = t.awaiting /\ ResetReview(t).target = t.target
           /\ ResetReview(t).doc = t.doc /\ ResetReview(t).produced = t.produced
           /\ ResetReview(t).graph = t.graph
           /\ ResetReview(t).stub = t.stub /\ ResetReview(t).task = t.task
           /\ ResetReview(t).green = t.green
BY DEF ResetReview, States, Kept

(* A human asked.                                                          *)
LEMMA EscalateEffect ==
    ASSUME NEW t \in States
    PROVE  /\ Escalate(t) \in States /\ Kept(t, Escalate(t))
           /\ Escalate(t).awaiting = "escalation"
           /\ Escalate(t).sub = t.sub /\ Escalate(t).target = t.target
           /\ Escalate(t).doc = t.doc /\ Escalate(t).produced = t.produced
           /\ Escalate(t).review = t.review /\ Escalate(t).graph = t.graph
           /\ Escalate(t).stub = t.stub /\ Escalate(t).task = t.task
           /\ Escalate(t).green = t.green
BY DEF Escalate, States, Kept

(* A human asked whether to return upstream.                               *)
LEMMA AwaitRollbackEffect ==
    ASSUME NEW t \in States, NEW b \in BOOLEAN
    PROVE  /\ AwaitRollback(t, b) \in States /\ Kept(t, AwaitRollback(t, b))
           /\ AwaitRollback(t, b).awaiting = "rollback"
           /\ AwaitRollback(t, b).target = b
           /\ AwaitRollback(t, b).sub = t.sub
           /\ AwaitRollback(t, b).doc = t.doc /\ AwaitRollback(t, b).produced = t.produced
           /\ AwaitRollback(t, b).review = t.review /\ AwaitRollback(t, b).graph = t.graph
           /\ AwaitRollback(t, b).stub = t.stub /\ AwaitRollback(t, b).task = t.task
           /\ AwaitRollback(t, b).green = t.green
BY ZenonT(40) DEF AwaitRollback, States, Kept

(* An attempt consumed: the last one asks a human.                         *)
LEMMA ConsumeEffect ==
    ASSUME NEW t \in States
    PROVE  /\ ConsumeAttempt(t) \in States /\ Kept(t, ConsumeAttempt(t))
           /\ ConsumeAttempt(t).awaiting \in {t.awaiting, "escalation"}
           /\ ConsumeAttempt(t).sub = t.sub /\ ConsumeAttempt(t).target = t.target
           /\ ConsumeAttempt(t).doc = t.doc /\ ConsumeAttempt(t).produced = t.produced
           /\ ConsumeAttempt(t).review = t.review /\ ConsumeAttempt(t).graph = t.graph
           /\ ConsumeAttempt(t).stub = t.stub /\ ConsumeAttempt(t).task = t.task
           /\ ConsumeAttempt(t).green = t.green
<1> DEFINE n == IF t.attempt + 1 >= AttemptLimit THEN AttemptLimit ELSE t.attempt + 1
           ask == IF t.attempt + 1 >= AttemptLimit THEN "escalation" ELSE t.awaiting
<1>1. n \in 0..AttemptLimit
  BY TaskCycleAssumption DEF States
<1>2. ask \in {None, "escalation", "rollback"} /\ ask \in {t.awaiting, "escalation"}
  BY DEF States
<1>3. ConsumeAttempt(t) = [t EXCEPT !.attempt = n, !.awaiting = ask]
  <2>1. CASE t.attempt + 1 >= AttemptLimit
    BY <2>1 DEF ConsumeAttempt, Escalate
  <2>2. CASE ~(t.attempt + 1 >= AttemptLimit)
    BY <2>2 DEF ConsumeAttempt, States
  <2> QED
    BY <2>1, <2>2
<1> HIDE DEF n, ask
<1>4. ConsumeAttempt(t) \in States
  BY <1>1, <1>2, <1>3 DEF States
<1> QED
  BY <1>2, <1>3, <1>4 DEF States, Kept

(* No task in hand.                                                        *)
LEMMA ClearEffect ==
    ASSUME NEW t \in States
    PROVE  /\ ClearResidency(t) \in States /\ Kept(t, ClearResidency(t))
           /\ ClearResidency(t).task = None /\ ClearResidency(t).green = FALSE
           /\ ClearResidency(t).awaiting = t.awaiting
           /\ ClearResidency(t).sub = t.sub /\ ClearResidency(t).target = t.target
           /\ ClearResidency(t).doc = t.doc /\ ClearResidency(t).produced = t.produced
           /\ ClearResidency(t).review = t.review /\ ClearResidency(t).graph = t.graph
           /\ ClearResidency(t).stub = t.stub
BY DEF ClearResidency, States, Kept

(* The green reopened.                                                     *)
LEMMA UngreenEffect ==
    ASSUME NEW t \in States
    PROVE  /\ Ungreen(t) \in States /\ Kept(t, Ungreen(t))
           /\ Ungreen(t).green = FALSE /\ Ungreen(t).awaiting = t.awaiting
           /\ Ungreen(t).sub = t.sub /\ Ungreen(t).target = t.target
           /\ Ungreen(t).doc = t.doc /\ Ungreen(t).produced = t.produced
           /\ Ungreen(t).review = t.review /\ Ungreen(t).graph = t.graph
           /\ Ungreen(t).stub = t.stub /\ Ungreen(t).task = t.task
BY DEF Ungreen, States, Kept

(* The write-ahead record cleared.                                         *)
Cleared(t) == [t EXCEPT !.pending = None]

(* Only the record changes.                                                *)
LEMMA ClearedEffect ==
    ASSUME NEW t \in States
    PROVE  /\ Cleared(t) \in States /\ Cleared(t).pending = None
           /\ Cleared(t).refs = t.refs /\ Cleared(t).count = t.count
           /\ Cleared(t).retained = t.retained /\ Cleared(t).waived = t.waived
           /\ Cleared(t).lock = t.lock
           /\ Cleared(t).sub = t.sub
           /\ Cleared(t).awaiting = t.awaiting /\ Cleared(t).target = t.target
           /\ Cleared(t).doc = t.doc /\ Cleared(t).produced = t.produced
           /\ Cleared(t).review = t.review /\ Cleared(t).graph = t.graph
           /\ Cleared(t).stub = t.stub /\ Cleared(t).task = t.task /\ Cleared(t).green = t.green
BY ZenonT(40) DEF Cleared, States

\* The fields most routes leave alone.
Steady(t, u) ==
    /\ Kept(t, u) /\ u.target = t.target /\ u.task = t.task
    /\ u.awaiting \in {t.awaiting, "escalation"}

(* Back to a phase: its document is owed again.                            *)
LEMMA RedoEffect ==
    ASSUME NEW t \in States, NEW x \in Substates
    PROVE  /\ Redo(t, x) \in States /\ Steady(t, Redo(t, x))
           /\ Redo(t, x).sub = x /\ Redo(t, x).doc = FALSE /\ Redo(t, x).produced = FALSE
           /\ Redo(t, x).review = t.review /\ Redo(t, x).graph = t.graph
           /\ Redo(t, x).stub = t.stub /\ Redo(t, x).green = t.green
<1> DEFINE a == Go(t, x)
           b == ResetDoc(a)
           c == ConsumeAttempt(b)
<1>1. /\ a \in States /\ Kept(t, a) /\ a.sub = x
      /\ a.awaiting = t.awaiting /\ a.target = t.target
      /\ a.review = t.review /\ a.graph = t.graph
      /\ a.stub = t.stub /\ a.task = t.task /\ a.green = t.green
  BY GoEffect
<1> HIDE DEF a
<1>2. /\ b \in States /\ Kept(a, b) /\ b.sub = a.sub /\ b.doc = FALSE /\ b.produced = FALSE
      /\ b.awaiting = a.awaiting /\ b.target = a.target
      /\ b.review = a.review /\ b.graph = a.graph
      /\ b.stub = a.stub /\ b.task = a.task /\ b.green = a.green
  BY <1>1, ResetDocEffect
<1> HIDE DEF b
<1>3. /\ c \in States /\ Kept(b, c) /\ c.sub = b.sub /\ c.doc = b.doc
      /\ c.produced = b.produced
      /\ c.awaiting \in {b.awaiting, "escalation"} /\ c.target = b.target
      /\ c.review = b.review /\ c.graph = b.graph
      /\ c.stub = b.stub /\ c.task = b.task /\ c.green = b.green
  BY <1>2, ConsumeEffect
<1>4. Redo(t, x) = c
  BY DEF Redo, a, b
<1> HIDE DEF c
<1>5. Kept(t, c)
  BY <1>1, <1>2, <1>3 DEF Kept
<1> QED
  BY <1>1, <1>2, <1>3, <1>4, <1>5 DEF Steady

(* Whose flag the substate waits on is lowered.                            *)
LEMMA ResetFlagEffect ==
    ASSUME NEW t \in States
    PROVE  /\ ResetFlag(t) \in States /\ Kept(t, ResetFlag(t))
           /\ ResetFlag(t).sub = t.sub /\ ResetFlag(t).target = t.target
           /\ ResetFlag(t).task = t.task /\ ResetFlag(t).awaiting = t.awaiting
           /\ ResetFlag(t).graph = t.graph /\ ResetFlag(t).stub = t.stub
           /\ ResetFlag(t).green = t.green
           /\ t.sub \in Reviews => ResetFlag(t).review = FALSE /\ ResetFlag(t).doc = t.doc
           /\ t.sub \notin Reviews =>
                 ResetFlag(t).doc = FALSE /\ ResetFlag(t).review = t.review
BY ResetDocEffect, ResetReviewEffect DEF ResetFlag

(* Archer plans again, and no task is in hand.                             *)
LEMMA ReplanEffect ==
    ASSUME NEW t \in States
    PROVE  /\ RouteScopeReplan(t) \in States /\ Kept(t, RouteScopeReplan(t))
           /\ RouteScopeReplan(t).sub = "PLANNING" /\ RouteScopeReplan(t).graph = FALSE
           /\ RouteScopeReplan(t).doc = FALSE /\ RouteScopeReplan(t).task = None
           /\ RouteScopeReplan(t).green = FALSE
           /\ RouteScopeReplan(t).awaiting = t.awaiting
           /\ RouteScopeReplan(t).target = t.target
<1> DEFINE a == ResetDoc(t)
           b == [a EXCEPT !.sub = "PLANNING", !.graph = FALSE]
<1>1. a \in States /\ Kept(t, a) /\ a.doc = FALSE /\ a.awaiting = t.awaiting
      /\ a.target = t.target
  BY ResetDocEffect
<1> HIDE DEF a
<1>2. b \in States
  BY <1>1 DEF States, Substates
<1>3. /\ Kept(a, b) /\ b.sub = "PLANNING" /\ b.graph = FALSE /\ b.doc = a.doc
      /\ b.awaiting = a.awaiting /\ b.target = a.target
  BY <1>1 DEF States, Kept
<1>4. RouteScopeReplan(t) = ClearResidency(b)
  BY DEF RouteScopeReplan, a
<1> DEFINE c == ClearResidency(b)
<1> HIDE DEF b
<1>5. /\ c \in States /\ Kept(b, c) /\ c.task = None /\ c.green = FALSE
      /\ c.awaiting = b.awaiting /\ c.sub = b.sub /\ c.target = b.target
      /\ c.doc = b.doc /\ c.graph = b.graph
  BY <1>2, ClearEffect
<1>6. RouteScopeReplan(t) = c
  BY <1>4
<1> HIDE DEF c
<1>7. Kept(t, c)
  BY <1>1, <1>3, <1>5 DEF Kept
<1> QED
  BY <1>1, <1>3, <1>5, <1>6, <1>7

(* Both flags lowered.                                                     *)
LEMMA ResetBothEffect ==
    ASSUME NEW t \in States
    PROVE  LET u == ResetReview(ResetDoc(t)) IN
           /\ u \in States /\ Kept(t, u) /\ u.doc = FALSE /\ u.review = FALSE
           /\ u.sub = t.sub /\ u.awaiting = t.awaiting /\ u.target = t.target
           /\ u.graph = t.graph /\ u.stub = t.stub /\ u.task = t.task /\ u.green = t.green
<1> DEFINE a == ResetDoc(t)
           b == ResetReview(a)
<1>1. /\ a \in States /\ Kept(t, a) /\ a.doc = FALSE /\ a.sub = t.sub
      /\ a.awaiting = t.awaiting /\ a.target = t.target
      /\ a.graph = t.graph /\ a.stub = t.stub /\ a.task = t.task /\ a.green = t.green
  BY ResetDocEffect
<1> HIDE DEF a
<1>2. /\ b \in States /\ Kept(a, b) /\ b.doc = a.doc /\ b.review = FALSE /\ b.sub = a.sub
      /\ b.awaiting = a.awaiting /\ b.target = a.target
      /\ b.graph = a.graph /\ b.stub = a.stub /\ b.task = a.task /\ b.green = a.green
  BY <1>1, ResetReviewEffect
<1>3. ResetReview(ResetDoc(t)) = b
  BY DEF a
<1> HIDE DEF b
<1>4. Kept(t, b)
  BY <1>1, <1>2 DEF Kept
<1> QED
  BY <1>1, <1>2, <1>3, <1>4

(* Archer rules.                                                           *)
LEMMA RulingEffect ==
    ASSUME NEW t \in States
    PROVE  /\ RouteRuling(t) \in States /\ Steady(t, RouteRuling(t))
           /\ RouteRuling(t).sub = "RULING" /\ RouteRuling(t).doc = FALSE
           /\ RouteRuling(t).graph = t.graph /\ RouteRuling(t).green = t.green
<1> DEFINE a == ResetReview(ResetDoc(t))
<1>1. /\ a \in States /\ Kept(t, a) /\ a.doc = FALSE
      /\ a.awaiting = t.awaiting /\ a.target = t.target
      /\ a.graph = t.graph /\ a.task = t.task /\ a.green = t.green
  BY ResetBothEffect
<1>2. "RULING" \in Substates
  BY DEF Substates
<1>3. RouteRuling(t) = Go(a, "RULING")
  BY DEF RouteRuling
<1> HIDE DEF a
<1> QED
  BY <1>1, <1>2, <1>3, GoEffect DEF Steady, Kept

(* Prism diagnoses, with the class of a stub gap or not.                   *)
Diagnosed(t, b) == [t EXCEPT !.sub = "DIAGNOSE", !.stub = b]

(* A phase sent to its diagnosis, field by field.                          *)
LEMMA DiagnoseEffect ==
    ASSUME NEW t \in States, NEW b \in BOOLEAN
    PROVE  LET u == Diagnosed(t, b) IN
           /\ u \in States /\ Steady(t, u) /\ u.sub = "DIAGNOSE" /\ u.stub = b
           /\ u.doc = t.doc /\ u.produced = t.produced /\ u.review = t.review
           /\ u.graph = t.graph /\ u.green = t.green /\ u.awaiting = t.awaiting
<1> DEFINE u == Diagnosed(t, b)
<1>1. "DIAGNOSE" \in Substates
  BY DEF Substates, Reviews
<1>2. u \in States
  BY <1>1 DEF States, Diagnosed
<1> QED
  BY <1>2 DEF States, Steady, Kept, Diagnosed

(* The class of a diagnosis.                                               *)
Classed(t, b) == [t EXCEPT !.stub = b]

(* The class of a diagnosis, field by field.                               *)
LEMMA StubEffect ==
    ASSUME NEW t \in States, NEW b \in BOOLEAN
    PROVE  LET u == Classed(t, b) IN
           /\ u \in States /\ Kept(t, u) /\ u.sub = t.sub /\ u.stub = b
           /\ u.awaiting = t.awaiting /\ u.target = t.target
           /\ u.doc = t.doc /\ u.produced = t.produced /\ u.review = t.review
           /\ u.graph = t.graph /\ u.green = t.green /\ u.task = t.task /\ u.r = t.r
BY DEF States, Kept, Classed

(* A graph that is planned anew.                                           *)
Ungraph(t) == [t EXCEPT !.graph = FALSE]

(* A plan to be made again, field by field.                                *)
LEMMA UngraphEffect ==
    ASSUME NEW t \in States
    PROVE  LET u == Ungraph(t) IN
           /\ u \in States /\ Steady(t, u) /\ u.sub = t.sub /\ u.stub = t.stub
           /\ u.awaiting = t.awaiting
           /\ u.doc = t.doc /\ u.produced = t.produced /\ u.review = t.review
           /\ u.graph = FALSE /\ u.green = t.green
BY DEF States, Steady, Kept, Ungraph

-----------------------------------------------------------------------------
(* Where the routes lead.                                                  *)

(***************************************************************************)
(* What a route from one projection to another preserves: the ledger of    *)
(* the graph, whose task it is, and which substates are entered from where *)
(***************************************************************************)
Routed(t, u, held) ==
    /\ u \in States /\ Kept(t, u) /\ Placed(u)
    /\ u.task \in {t.task, None}
    /\ u.graph => t.graph /\ (u.sub = "PLANNING" => t.sub = "PLANNING")
    /\ u.sub \notin {"BASELINE", "NEEDS_ATTENTION"}
    /\ u.sub \in {"RED_GATE", "RED_CHECKPOINT"} => t.sub \in {"RED_GATE", "RED_CHECKPOINT"}
    /\ u.sub = "PRISM_RED" => t.sub = "PRISM_RED"
    /\ u.sub \in Greens /\ u.green => t.green /\ t.sub \in Greens \cup {"PRISM_RED"}
    /\ u.sub \in {"ISLAND_GATE_1", "PRISM_PLAN"} => t.sub \in {"ISLAND_GATE_1", "PRISM_PLAN"}
    /\ u.sub = "TASK_DISPATCH" => t.sub = "PRISM_PLAN" \/ held
    /\ u.sub = "ISLAND_GATE_2" => t.sub = "ISLAND_GATE_2"

(* A diagnosis leads back to a phase, to a plan or upstream.               *)
LEMMA DiagnoseRoutes ==
    ASSUME NEW t \in States, NEW check, t.sub = "DIAGNOSE", Failing(t, check)
    PROVE  Routed(t, RouteDiagnose(t, check), FALSE) /\ Free(RouteDiagnose(t, check))
<1> DEFINE u == [t EXCEPT !.stub = check = "stub_gap"]
           w == RouteDiagnose(t, check)
<1> USE DEF InHand, Between, Greens, Writing, Reviews
<1>1. /\ u \in States /\ Kept(t, u) /\ u.sub = "DIAGNOSE" /\ u.stub = (check = "stub_gap")
      /\ u.awaiting = t.awaiting /\ u.target = t.target
      /\ u.doc = t.doc /\ u.produced = t.produced /\ u.review = t.review
      /\ u.graph = t.graph /\ u.green = t.green /\ u.task = t.task
  <2> DEFINE b == check = "stub_gap"
  <2>1. b \in BOOLEAN
    OBVIOUS
  <2>2. u = Classed(t, b)
    BY DEF Classed
  <2>3. b = (check = "stub_gap")
    OBVIOUS
  <2> HIDE DEF b, u
  <2> QED
    BY <2>1, <2>2, <2>3, StubEffect
<1> HIDE DEF u
<1>2. CASE check = "impl_defect" /\ t.task # None
  <2>1. CASE t.r
    <3> DEFINE a == Ungreen(u)
    <3>1. /\ a \in States /\ Kept(u, a) /\ a.green = FALSE /\ a.target = u.target
          /\ a.graph = u.graph /\ a.task = u.task /\ a.awaiting = u.awaiting
      BY <1>1, UngreenEffect
    <3>2. w = Redo(a, "GREEN")
      BY <1>2, <2>1 DEF RouteDiagnose, u
    <3> HIDE DEF a, w
    <3>3. /\ w \in States /\ Steady(a, w) /\ w.sub = "GREEN" /\ w.doc = FALSE
          /\ w.graph = a.graph /\ w.green = a.green
      <4>1. "GREEN" \in Substates
        BY DEF Substates
      <4> QED
        BY <3>1, <3>2, <4>1, RedoEffect
    <3> QED
      BY <1>1, <1>2, <3>1, <3>3 DEF Routed, Free, Placed, Steady, Kept, w
  <2>2. CASE ~t.r
    <3>1. w = Redo(u, "RED")
      BY <1>2, <2>2 DEF RouteDiagnose, u
    <3> HIDE DEF w
    <3>2. /\ w \in States /\ Steady(u, w) /\ w.sub = "RED" /\ w.doc = FALSE
          /\ w.graph = u.graph
      <4>1. "RED" \in Substates
        BY DEF Substates
      <4> QED
        BY <1>1, <3>1, <4>1, RedoEffect
    <3> QED
      BY <1>1, <3>2 DEF Routed, Free, Placed, Steady, Kept, w
  <2> QED
    BY <2>1, <2>2
<1>3. CASE check = "red_defect"
  <2> DEFINE a == Ungreen(u)
  <2>1. /\ a \in States /\ Kept(u, a) /\ a.green = FALSE /\ a.target = u.target
        /\ a.graph = u.graph /\ a.task = u.task /\ a.awaiting = u.awaiting
    BY <1>1, UngreenEffect
  <2>2. w = Redo(a, "RED")
    BY <1>3 DEF RouteDiagnose, u
  <2> HIDE DEF a, w
  <2>3. /\ w \in States /\ Steady(a, w) /\ w.sub = "RED" /\ w.doc = FALSE
        /\ w.graph = a.graph
    <3>1. "RED" \in Substates
      BY DEF Substates
    <3> QED
      BY <2>1, <2>2, <3>1, RedoEffect
  <2> QED
    BY <1>1, <2>1, <2>3 DEF Routed, Free, Placed, Steady, Kept, w
<1>4. CASE check = "plan_defect"
  <2>1. w = RouteScopeReplan(u)
    BY <1>4 DEF RouteDiagnose, u
  <2> HIDE DEF w
  <2>2. /\ w \in States /\ Kept(u, w) /\ w.sub = "PLANNING" /\ w.graph = FALSE
        /\ w.doc = FALSE /\ w.task = None
    BY <1>1, <2>1, ReplanEffect
  <2> QED
    BY <1>1, <2>2 DEF Routed, Free, Placed, Kept, w
<1>5. CASE check = "test_defect" /\ t.task # None
  <2>1. w = Redo(u, "SHIELD_FIX")
    BY <1>5 DEF RouteDiagnose, u
  <2> HIDE DEF w
  <2>2. /\ w \in States /\ Steady(u, w) /\ w.sub = "SHIELD_FIX" /\ w.doc = FALSE
        /\ w.graph = u.graph
    <3>1. "SHIELD_FIX" \in Substates
      BY DEF Substates
    <3> QED
      BY <1>1, <2>1, <3>1, RedoEffect
  <2> QED
    BY <1>1, <1>5, <2>2 DEF Routed, Free, Placed, Steady, Kept, w
<1>6. CASE check = "stub_gap"
  <2>1. w = u
    BY <1>6 DEF RouteDiagnose, u
  <2> HIDE DEF w
  <2> QED
    BY <1>1, <1>6, <2>1 DEF Routed, Free, Placed, w
<1>7. CASE check = "spec_gap"
  <2>1. w = AwaitRollback(u, TRUE)
    BY <1>7 DEF RouteDiagnose, u
  <2> HIDE DEF w
  <2>2. /\ w \in States /\ Kept(u, w) /\ w.awaiting = "rollback" /\ w.target = TRUE
        /\ w.sub = u.sub /\ w.graph = u.graph /\ w.task = u.task
    BY <1>1, <2>1, AwaitRollbackEffect
  <2> QED
    BY <1>1, <2>2 DEF Routed, Free, Placed, Kept, w
<1>8. CASE check = "diagnosis_exhausted"
  <2>1. w = RouteRuling(u)
    BY <1>8 DEF RouteDiagnose, u
  <2> HIDE DEF w
  <2>2. /\ w \in States /\ Steady(u, w) /\ w.sub = "RULING" /\ w.doc = FALSE
        /\ w.graph = u.graph
    BY <1>1, <2>1, RulingEffect
  <2> QED
    BY <1>1, <2>2 DEF Routed, Free, Placed, Steady, Kept, w
<1>9. CASE check \in {"unknown", "worktree", "reply_format_error", "criteria_pack_mismatch"}
  <2> DEFINE a == ResetReview(u)
             b == ResetDoc(a)
  <2>1. /\ a \in States /\ Kept(u, a) /\ a.review = FALSE /\ a.sub = u.sub
        /\ a.target = u.target /\ a.graph = u.graph /\ a.task = u.task
    BY <1>1, ResetReviewEffect
  <2>2. w = ConsumeAttempt(b)
    BY <1>9 DEF RouteDiagnose, u
  <2> HIDE DEF a, w
  <2>3. /\ b \in States /\ Kept(a, b) /\ b.review = a.review /\ b.sub = a.sub
        /\ b.target = a.target /\ b.graph = a.graph /\ b.task = a.task
    BY <2>1, ResetDocEffect
  <2> HIDE DEF b
  <2>4. /\ w \in States /\ Kept(b, w) /\ w.review = b.review /\ w.sub = b.sub
        /\ w.target = b.target /\ w.graph = b.graph /\ w.task = b.task
    BY <2>2, <2>3, ConsumeEffect
  <2> QED
    BY <1>1, <2>1, <2>3, <2>4 DEF Routed, Free, Placed, Kept, w
<1>10. \/ check \in {"impl_defect", "red_defect", "test_defect"} /\ t.task # None
       \/ check \in {"plan_defect", "stub_gap", "spec_gap", "unknown", "diagnosis_exhausted",
                     "worktree", "reply_format_error", "criteria_pack_mismatch"}
  BY DEF Failing
<1> QED
  BY <1>2, <1>3, <1>4, <1>5, <1>6, <1>7, <1>8, <1>9, <1>10

(* A failed gate leads back to a phase, to the diagnosis or to a plan.     *)
LEMMA FailureRoutes ==
    ASSUME NEW t \in States, NEW check, t.sub # "DIAGNOSE", Failing(t, check), Placed(t)
    PROVE  Routed(t, RouteGateFailure(t, check), FALSE) /\ Free(RouteGateFailure(t, check))
<1> DEFINE w == RouteGateFailure(t, check)
<1> USE DEF InHand, Between, Greens, Writing, Reviews, Asking
<1>1. CASE check \in {"verification_failed", "impl_defect", "test_defect"}
  <2> DEFINE a == Diagnosed(t, FALSE)
  <2>0. (check \in {"stub_gap", "public_interface"}) = FALSE
    BY <1>1
  <2>1. w = ResetReview(a)
    BY <1>1, <2>0 DEF RouteGateFailure, Attributed, Diagnosed
  <2> HIDE DEF w
  <2>2. /\ a \in States /\ Steady(t, a) /\ a.sub = "DIAGNOSE" /\ a.doc = t.doc
        /\ a.review = t.review /\ a.graph = t.graph /\ a.green = t.green /\ a.stub = FALSE
    BY DiagnoseEffect
  <2> HIDE DEF a
  <2>3. /\ w \in States /\ Kept(a, w) /\ w.sub = a.sub /\ w.doc = a.doc /\ w.review = FALSE
        /\ w.graph = a.graph /\ w.task = a.task /\ w.green = a.green
    BY <2>2, <2>1, ResetReviewEffect
  <2> QED
    BY <1>1, <2>2, <2>3 DEF Routed, Free, Placed, Steady, Kept, w
<1>2. CASE check \in {"plan_defect", "scope", "red_legal"}
  <2>1. w = RouteScopeReplan(t)
    BY <1>2 DEF RouteGateFailure, Attributed
  <2> HIDE DEF w
  <2>2. /\ w \in States /\ Kept(t, w) /\ w.sub = "PLANNING" /\ w.doc = FALSE
        /\ w.graph = FALSE /\ w.task = None /\ w.green = FALSE
    BY <2>1, ReplanEffect
  <2> QED
    BY <1>2, <2>2 DEF Routed, Free, Placed, Steady, Kept, w
<1>3. CASE check = "contract_conflict"
  <2>1. w = RouteRuling(t)
    BY <1>3 DEF RouteGateFailure, Attributed
  <2> HIDE DEF w
  <2>2. /\ w \in States /\ Steady(t, w) /\ w.sub = "RULING" /\ w.doc = FALSE
        /\ w.graph = t.graph /\ w.green = t.green
    BY <2>1, RulingEffect
  <2> QED
    BY <1>3, <2>2 DEF Routed, Free, Placed, Steady, Kept, w
<1>4. CASE check = "criteria_pack_mismatch" /\ t.sub \in Reviews
  <2> DEFINE a == ResetReview(t)
  <2>1. w = ConsumeAttempt(a)
    BY <1>4 DEF RouteGateFailure, Attributed
  <2> HIDE DEF w
  <2>2. /\ a \in States /\ Kept(t, a) /\ a.sub = t.sub /\ a.doc = t.doc /\ a.review = FALSE
        /\ a.graph = t.graph /\ a.task = t.task /\ a.green = t.green
    BY ResetReviewEffect
  <2> HIDE DEF a
  <2>3. /\ w \in States /\ Kept(a, w) /\ w.sub = a.sub /\ w.doc = a.doc
        /\ w.review = a.review /\ w.graph = a.graph /\ w.task = a.task /\ w.green = a.green
    BY <2>2, <2>1, ConsumeEffect
  <2> QED
    BY <1>4, <2>2, <2>3 DEF Routed, Free, Placed, Steady, Kept, w
<1>5. CASE check = "island" /\ t.sub \in {"ISLAND_GATE_1", "ISLAND_GATE_2", "TASK_DISPATCH"}
  <2> DEFINE a == Redo(t, "PLANNING")
  <2>1. w = Ungraph(a)
    BY <1>5 DEF RouteGateFailure, Attributed, Ungraph
  <2> HIDE DEF w
  <2>2. /\ a \in States /\ Steady(t, a) /\ a.sub = "PLANNING" /\ a.doc = FALSE
        /\ a.review = t.review /\ a.graph = t.graph /\ a.green = t.green
    <3>1. "PLANNING" \in Substates
      BY DEF Substates
    <3> QED
      BY <3>1, RedoEffect
  <2> HIDE DEF a
  <2>3. /\ w \in States /\ Steady(a, w) /\ w.sub = a.sub /\ w.doc = a.doc
        /\ w.review = a.review /\ w.graph = FALSE /\ w.green = a.green
    BY <2>2, <2>1, UngraphEffect
  <2> QED
    BY <1>5, <2>2, <2>3 DEF Routed, Free, Placed, Steady, Kept, w
<1>6. CASE check = "red_invalid"
  <2>1. w = Redo(t, "RED")
    BY <1>6 DEF RouteGateFailure, Attributed
  <2> HIDE DEF w
  <2>2. /\ w \in States /\ Steady(t, w) /\ w.sub = "RED" /\ w.doc = FALSE
        /\ w.review = t.review /\ w.graph = t.graph /\ w.green = t.green
    <3>1. "RED" \in Substates
      BY DEF Substates
    <3> QED
      BY <2>1, <3>1, RedoEffect
  <2> QED
    BY <1>6, <2>2 DEF Routed, Free, Placed, Steady, Kept, w
<1>7. CASE check = "lint" /\ t.sub = "RED_GATE"
  <2> DEFINE a == Go(t, "RED")
  <2>1. w = ResetDoc(a)
    BY <1>7 DEF RouteGateFailure, Attributed
  <2> HIDE DEF w
  <2>2. /\ a \in States /\ Kept(t, a) /\ a.sub = "RED" /\ a.doc = t.doc
        /\ a.review = t.review /\ a.graph = t.graph /\ a.task = t.task /\ a.green = t.green
    <3>1. "RED" \in Substates
      BY DEF Substates
    <3> QED
      BY <3>1, GoEffect
  <2> HIDE DEF a
  <2>3. /\ w \in States /\ Kept(a, w) /\ w.sub = a.sub /\ w.doc = FALSE
        /\ w.review = a.review /\ w.graph = a.graph /\ w.task = a.task /\ w.green = a.green
    BY <2>2, <2>1, ResetDocEffect
  <2> QED
    BY <1>7, <2>2, <2>3 DEF Routed, Free, Placed, Steady, Kept, w
<1>8. CASE check = "lint" /\ t.sub = "GREEN_GATE"
  <2> DEFINE a == Go(t, "GREEN")
  <2>1. w = ResetDoc(a)
    BY <1>8 DEF RouteGateFailure, Attributed
  <2> HIDE DEF w
  <2>2. /\ a \in States /\ Kept(t, a) /\ a.sub = "GREEN" /\ a.doc = t.doc
        /\ a.review = t.review /\ a.graph = t.graph /\ a.task = t.task /\ a.green = t.green
    <3>1. "GREEN" \in Substates
      BY DEF Substates
    <3> QED
      BY <3>1, GoEffect
  <2> HIDE DEF a
  <2>3. /\ w \in States /\ Kept(a, w) /\ w.sub = a.sub /\ w.doc = FALSE
        /\ w.review = a.review /\ w.graph = a.graph /\ w.task = a.task /\ w.green = a.green
    BY <2>2, <2>1, ResetDocEffect
  <2> QED
    BY <1>8, <2>2, <2>3 DEF Routed, Free, Placed, Steady, Kept, w
<1>9. CASE check = "regression"
  <2> DEFINE a == Go(t, "DIAGNOSE")
             b == ResetReview(a)
  <2>1. w = ConsumeAttempt(b)
    BY <1>9 DEF RouteGateFailure, Attributed
  <2> HIDE DEF w
  <2>2. /\ a \in States /\ Kept(t, a) /\ a.sub = "DIAGNOSE" /\ a.doc = t.doc
        /\ a.review = t.review /\ a.graph = t.graph /\ a.task = t.task /\ a.green = t.green
    <3>1. "DIAGNOSE" \in Substates
      BY DEF Substates
    <3> QED
      BY <3>1, GoEffect
  <2> HIDE DEF a
  <2>3. /\ b \in States /\ Kept(a, b) /\ b.sub = a.sub /\ b.doc = a.doc /\ b.review = FALSE
        /\ b.graph = a.graph /\ b.task = a.task /\ b.green = a.green
    BY <2>2, ResetReviewEffect
  <2> HIDE DEF b
  <2>4. /\ w \in States /\ Kept(b, w) /\ w.sub = b.sub /\ w.doc = b.doc
        /\ w.review = b.review /\ w.graph = b.graph /\ w.task = b.task /\ w.green = b.green
    BY <2>3, <2>1, ConsumeEffect
  <2> QED
    BY <1>9, <2>2, <2>3, <2>4 DEF Routed, Free, Placed, Steady, Kept, w
<1>10. CASE check = "budget" /\ t.sub = "TASK_REVIEW"
  <2> DEFINE a == Ungreen(t)
  <2>1. w = Redo(a, "GREEN")
    BY <1>10 DEF RouteGateFailure, Attributed
  <2> HIDE DEF w
  <2>2. /\ a \in States /\ Kept(t, a) /\ a.sub = t.sub /\ a.doc = t.doc
        /\ a.review = t.review /\ a.graph = t.graph /\ a.task = t.task /\ a.green = FALSE
    BY UngreenEffect
  <2> HIDE DEF a
  <2>3. /\ w \in States /\ Steady(a, w) /\ w.sub = "GREEN" /\ w.doc = FALSE
        /\ w.review = a.review /\ w.graph = a.graph /\ w.green = a.green
    <3>1. "GREEN" \in Substates
      BY DEF Substates
    <3> QED
      BY <2>2, <2>1, <3>1, RedoEffect
  <2> QED
    BY <1>10, <2>2, <2>3 DEF Routed, Free, Placed, Steady, Kept, w
<1>11. CASE check = "lineage" /\ t.sub = "TASK_REVIEW"
  <2> DEFINE a == ResetReview(t)
  <2>1. w = AwaitRollback(a, t.target)
    BY <1>11 DEF RouteGateFailure, Attributed
  <2> HIDE DEF w
  <2>2. /\ a \in States /\ Kept(t, a) /\ a.sub = t.sub /\ a.doc = t.doc /\ a.review = FALSE
        /\ a.graph = t.graph /\ a.task = t.task /\ a.green = t.green
    BY ResetReviewEffect
  <2> HIDE DEF a
  <2>3. /\ w \in States /\ Kept(a, w) /\ w.sub = a.sub /\ w.doc = a.doc
        /\ w.review = a.review /\ w.graph = a.graph /\ w.task = a.task /\ w.green = a.green
        /\ w.awaiting = "rollback" /\ w.target = t.target
    BY <2>2, <2>1, AwaitRollbackEffect DEF States
  <2> QED
    BY <1>11, <2>2, <2>3 DEF Routed, Free, Placed, Steady, Kept, w
<1>12. CASE /\ check = "contract_error"
          /\ \/ t.sub \in {"ISLAND_GATE_2", "GREEN_GATE", "TASK_REVIEW", "REFACTOR_GATE"}
             \/ t.sub \in {"RED", "GREEN"} /\ ~t.doc
  <2> DEFINE a == ResetReview(t)
  <2>1. w = Escalate(a)
    BY <1>12 DEF RouteGateFailure, Attributed
  <2> HIDE DEF w
  <2>2. /\ a \in States /\ Kept(t, a) /\ a.sub = t.sub /\ a.doc = t.doc /\ a.review = FALSE
        /\ a.graph = t.graph /\ a.task = t.task /\ a.green = t.green
    BY ResetReviewEffect
  <2> HIDE DEF a
  <2>3. /\ w \in States /\ Kept(a, w) /\ w.sub = a.sub /\ w.doc = a.doc
        /\ w.review = a.review /\ w.graph = a.graph /\ w.task = a.task /\ w.green = a.green
    BY <2>2, <2>1, EscalateEffect
  <2> QED
    BY <1>12, <2>2, <2>3 DEF Routed, Free, Placed, Steady, Kept, w
<1>13. CASE /\ check \in {"worktree", "reply_format_error", "manifest", "taskgraph", "commit"}
          /\ t.sub \in Asking \cup {"GREEN_GATE"}
  <2> DEFINE a == ResetFlag(t)
  <2>1. w = ConsumeAttempt(a)
    BY <1>13 DEF RouteGateFailure, Attributed
  <2> HIDE DEF w
  <2>2. /\ a \in States /\ Kept(t, a) /\ a.sub = t.sub /\ a.graph = t.graph
        /\ a.task = t.task /\ a.green = t.green /\ (t.sub \in Reviews => a.review = FALSE)
        /\ (t.sub \notin Reviews => a.doc = FALSE)
    BY ResetFlagEffect
  <2> HIDE DEF a
  <2>3. /\ w \in States /\ Kept(a, w) /\ w.sub = a.sub /\ w.doc = a.doc
        /\ w.review = a.review /\ w.graph = a.graph /\ w.task = a.task /\ w.green = a.green
    BY <2>2, <2>1, ConsumeEffect
  <2> QED
    BY <1>13, <2>2, <2>3 DEF Routed, Free, Placed, Steady, Kept, w
<1>14. \/ check \in {"verification_failed", "impl_defect", "test_defect", "plan_defect",
                     "scope", "red_legal", "contract_conflict", "red_invalid", "regression"}
       \/ check = "criteria_pack_mismatch" /\ t.sub \in Reviews
       \/ check = "island" /\ t.sub \in {"ISLAND_GATE_1", "ISLAND_GATE_2", "TASK_DISPATCH"}
       \/ check = "lint" /\ t.sub \in {"RED_GATE", "GREEN_GATE"}
       \/ check \in {"budget", "lineage"} /\ t.sub = "TASK_REVIEW"
       \/ /\ check = "contract_error"
          /\ \/ t.sub \in {"ISLAND_GATE_2", "GREEN_GATE", "TASK_REVIEW", "REFACTOR_GATE"}
             \/ t.sub \in {"RED", "GREEN"} /\ ~t.doc
       \/ /\ check \in {"worktree", "reply_format_error", "manifest", "taskgraph", "commit"}
          /\ t.sub \in Asking \cup {"GREEN_GATE"}
  BY DEF Failing
<1> QED
  BY <1>1, <1>2, <1>3, <1>4, <1>5, <1>6, <1>7, <1>8, <1>9, <1>10, <1>11, <1>12,
     <1>13, <1>14
\* A phase ordered by a ruling, and a task the ruling puts back.
Redelivered(t, x) == [t EXCEPT !.sub = x, !.green = FALSE, !.attempt = 0]
Held(t) == [t EXCEPT !.sub = "TASK_DISPATCH", !.task = None]

(* A deliverable ordered again.                                            *)
LEMMA RedeliverEffect ==
    ASSUME NEW t \in States, NEW x \in Substates
    PROVE  LET u == Redelivered(t, x) IN
           /\ u \in States /\ Kept(t, u) /\ u.sub = x /\ u.doc = t.doc /\ u.review = t.review
           /\ u.graph = t.graph /\ u.task = t.task /\ u.green = FALSE
<1>1. 0 \in 0..AttemptLimit
  BY TaskCycleAssumption
<1> QED
  BY <1>1 DEF States, Kept, Redelivered

(* The task put back.                                                      *)
LEMMA HoldEffect ==
    ASSUME NEW t \in States
    PROVE  LET u == Held(t) IN
           /\ u \in States /\ Kept(t, u) /\ u.sub = "TASK_DISPATCH" /\ u.doc = t.doc
           /\ u.review = t.review /\ u.graph = t.graph /\ u.task = None /\ u.green = t.green
<1>1. "TASK_DISPATCH" \in Substates
  BY DEF Substates
<1> QED
  BY <1>1 DEF States, Kept, Held

(* A failed outcome is dispatched again, ruled, escalated or diagnosed.    *)
LEMMA OutcomeRoutes ==
    ASSUME NEW t \in States, NEW how \in Retryable \cup {"failed"}, t.sub \in Asking, Placed(t)
    PROVE  Routed(t, OnOutcomeFailed(t, how), FALSE) /\ Free(OnOutcomeFailed(t, how))
<1> DEFINE w == OnOutcomeFailed(t, how)
<1> USE DEF InHand, Between, Greens, Writing, Reviews, Asking
<1>1. CASE how = "again"
  <2>1. w = ResetFlag(t)
    BY <1>1 DEF OnOutcomeFailed
  <2> HIDE DEF w
  <2>2. /\ w \in States /\ Kept(t, w) /\ w.sub = t.sub /\ w.graph = t.graph
        /\ w.task = t.task /\ w.green = t.green /\ (t.sub \in Reviews => w.review = FALSE)
        /\ (t.sub \notin Reviews => w.doc = FALSE)
    BY <2>1, ResetFlagEffect
  <2> QED
    BY <1>1, <2>2 DEF Routed, Free, Placed, Steady, Kept, w
<1>2. CASE how = "ruling"
  <2>1. w = RouteRuling(t)
    BY <1>2 DEF OnOutcomeFailed
  <2> HIDE DEF w
  <2>2. /\ w \in States /\ Steady(t, w) /\ w.sub = "RULING" /\ w.doc = FALSE
        /\ w.graph = t.graph /\ w.green = t.green
    BY <2>1, RulingEffect
  <2> QED
    BY <1>2, <2>2 DEF Routed, Free, Placed, Steady, Kept, w
<1>3. CASE how = "escalate"
  <2> DEFINE a == ResetFlag(t)
  <2>1. w = Escalate(a)
    BY <1>3 DEF OnOutcomeFailed
  <2> HIDE DEF w
  <2>2. /\ a \in States /\ Kept(t, a) /\ a.sub = t.sub /\ a.graph = t.graph
        /\ a.task = t.task /\ a.green = t.green /\ (t.sub \in Reviews => a.review = FALSE)
        /\ (t.sub \notin Reviews => a.doc = FALSE)
    BY ResetFlagEffect
  <2> HIDE DEF a
  <2>3. /\ w \in States /\ Kept(a, w) /\ w.sub = a.sub /\ w.doc = a.doc
        /\ w.review = a.review /\ w.graph = a.graph /\ w.task = a.task /\ w.green = a.green
    BY <2>2, <2>1, EscalateEffect
  <2> QED
    BY <1>3, <2>2, <2>3 DEF Routed, Free, Placed, Steady, Kept, w
<1>4. CASE how = "failed" /\ t.sub \in {"RED", "GREEN"}
  <2> DEFINE a == Diagnosed(t, FALSE)
             b == ResetDoc(a)
             c == ResetReview(b)
  <2>1. w = ConsumeAttempt(c)
    BY <1>4 DEF OnOutcomeFailed, Diagnosed
  <2> HIDE DEF w
  <2>2. /\ a \in States /\ Steady(t, a) /\ a.sub = "DIAGNOSE" /\ a.doc = t.doc
        /\ a.review = t.review /\ a.graph = t.graph /\ a.green = t.green /\ a.stub = FALSE
    BY DiagnoseEffect
  <2> HIDE DEF a
  <2>3. /\ b \in States /\ Kept(a, b) /\ b.sub = a.sub /\ b.doc = FALSE
        /\ b.review = a.review /\ b.graph = a.graph /\ b.task = a.task /\ b.green = a.green
    BY <2>2, ResetDocEffect
  <2> HIDE DEF b
  <2>4. /\ c \in States /\ Kept(b, c) /\ c.sub = b.sub /\ c.doc = b.doc /\ c.review = FALSE
        /\ c.graph = b.graph /\ c.task = b.task /\ c.green = b.green
    BY <2>3, ResetReviewEffect
  <2> HIDE DEF c
  <2>5. /\ w \in States /\ Kept(c, w) /\ w.sub = c.sub /\ w.doc = c.doc
        /\ w.review = c.review /\ w.graph = c.graph /\ w.task = c.task /\ w.green = c.green
    BY <2>4, <2>1, ConsumeEffect
  <2> QED
    BY <1>4, <2>2, <2>3, <2>4, <2>5 DEF Routed, Free, Placed, Steady, Kept, w
<1>5. CASE how = "failed" /\ t.sub \notin {"RED", "GREEN"}
  <2> DEFINE a == ResetFlag(t)
  <2>1. w = ConsumeAttempt(a)
    BY <1>5 DEF OnOutcomeFailed
  <2> HIDE DEF w
  <2>2. /\ a \in States /\ Kept(t, a) /\ a.sub = t.sub /\ a.graph = t.graph
        /\ a.task = t.task /\ a.green = t.green /\ (t.sub \in Reviews => a.review = FALSE)
        /\ (t.sub \notin Reviews => a.doc = FALSE)
    BY ResetFlagEffect
  <2> HIDE DEF a
  <2>3. /\ w \in States /\ Kept(a, w) /\ w.sub = a.sub /\ w.doc = a.doc
        /\ w.review = a.review /\ w.graph = a.graph /\ w.task = a.task /\ w.green = a.green
    BY <2>2, <2>1, ConsumeEffect
  <2> QED
    BY <1>5, <2>2, <2>3 DEF Routed, Free, Placed, Steady, Kept, w
<1>6. how \in {"again", "ruling", "escalate", "failed"}
  BY DEF Retryable
<1> QED
  BY <1>1, <1>2, <1>3, <1>4, <1>5, <1>6

(* A passed gate leads on, and a ruling where it says.                     *)
LEMMA PassRoutes ==
    ASSUME NEW t \in States, NEW check, Passing(t, check), Placed(t)
    PROVE  Routed(t, OnVerdictPassed(t, check), check = "hold") /\ Free(OnVerdictPassed(t, check))
<1> DEFINE w == OnVerdictPassed(t, check)
<1> USE DEF InHand, Between, Greens, Writing, Reviews, Asking
<1>1. CASE check = "island_1" /\ t.sub = "ISLAND_GATE_1"
  <2> DEFINE a == Go(t, "PRISM_PLAN")
  <2>1. w = ResetReview(a)
    BY <1>1 DEF OnVerdictPassed, RouteRulingVerdict
  <2> HIDE DEF w
  <2>2. /\ a \in States /\ Kept(t, a) /\ a.sub = "PRISM_PLAN" /\ a.doc = t.doc
        /\ a.review = t.review /\ a.graph = t.graph /\ a.task = t.task /\ a.green = t.green
    <3>1. "PRISM_PLAN" \in Substates
      BY DEF Substates
    <3> QED
      BY <3>1, GoEffect
  <2> HIDE DEF a
  <2>3. /\ w \in States /\ Kept(a, w) /\ w.sub = a.sub /\ w.doc = a.doc /\ w.review = FALSE
        /\ w.graph = a.graph /\ w.task = a.task /\ w.green = a.green
    BY <2>2, <2>1, ResetReviewEffect
  <2> QED
    BY <1>1, <2>2, <2>3 DEF Routed, Free, Placed, Steady, Kept, w
<1>2. CASE check = "red_valid" /\ t.sub = "RED_GATE"
  <2>1. w = Go(t, "RED_CHECKPOINT")
    BY <1>2 DEF OnVerdictPassed, RouteRulingVerdict
  <2> HIDE DEF w
  <2>2. /\ w \in States /\ Kept(t, w) /\ w.sub = "RED_CHECKPOINT" /\ w.doc = t.doc
        /\ w.review = t.review /\ w.graph = t.graph /\ w.task = t.task /\ w.green = t.green
    <3>1. "RED_CHECKPOINT" \in Substates
      BY DEF Substates
    <3> QED
      BY <2>1, <3>1, GoEffect
  <2> QED
    BY <1>2, <2>2 DEF Routed, Free, Placed, Steady, Kept, w
<1>3. CASE check = "green" /\ t.sub = "GREEN_GATE"
  <2>1. w = Go(t, "GREEN_COMMIT")
    BY <1>3 DEF OnVerdictPassed, RouteRulingVerdict
  <2> HIDE DEF w
  <2>2. /\ w \in States /\ Kept(t, w) /\ w.sub = "GREEN_COMMIT" /\ w.doc = t.doc
        /\ w.review = t.review /\ w.graph = t.graph /\ w.task = t.task /\ w.green = t.green
    <3>1. "GREEN_COMMIT" \in Substates
      BY DEF Substates
    <3> QED
      BY <2>1, <3>1, GoEffect
  <2> QED
    BY <1>3, <2>2 DEF Routed, Free, Placed, Steady, Kept, w
<1>4. CASE check = "task_review" /\ t.sub = "TASK_REVIEW"
  <2> DEFINE a == Go(t, "PRISM_FINAL")
  <2>1. w = ResetReview(a)
    BY <1>4 DEF OnVerdictPassed, RouteRulingVerdict
  <2> HIDE DEF w
  <2>2. /\ a \in States /\ Kept(t, a) /\ a.sub = "PRISM_FINAL" /\ a.doc = t.doc
        /\ a.review = t.review /\ a.graph = t.graph /\ a.task = t.task /\ a.green = t.green
    <3>1. "PRISM_FINAL" \in Substates
      BY DEF Substates
    <3> QED
      BY <3>1, GoEffect
  <2> HIDE DEF a
  <2>3. /\ w \in States /\ Kept(a, w) /\ w.sub = a.sub /\ w.doc = a.doc /\ w.review = FALSE
        /\ w.graph = a.graph /\ w.task = a.task /\ w.green = a.green
    BY <2>2, <2>1, ResetReviewEffect
  <2> QED
    BY <1>4, <2>2, <2>3 DEF Routed, Free, Placed, Steady, Kept, w
<1>5. CASE check = "island_2" /\ t.sub = "ISLAND_GATE_2"
  <2>1. w = Go(t, "EXIT")
    BY <1>5 DEF OnVerdictPassed, RouteRulingVerdict
  <2> HIDE DEF w
  <2>2. /\ w \in States /\ Kept(t, w) /\ w.sub = "EXIT" /\ w.doc = t.doc
        /\ w.review = t.review /\ w.graph = t.graph /\ w.task = t.task /\ w.green = t.green
    <3>1. "EXIT" \in Substates
      BY DEF Substates
    <3> QED
      BY <2>1, <3>1, GoEffect
  <2> QED
    BY <1>5, <2>2 DEF Routed, Free, Placed, Steady, Kept, w
<1>6. CASE check = "redirect" /\ t.sub = "DIAGNOSE"
  <2> DEFINE a == ResetDoc(t)
  <2>1. w = Go(a, "RULING")
    BY <1>6 DEF OnVerdictPassed, RouteRulingVerdict
  <2> HIDE DEF w
  <2>2. /\ a \in States /\ Kept(t, a) /\ a.sub = t.sub /\ a.doc = FALSE
        /\ a.review = t.review /\ a.graph = t.graph /\ a.task = t.task /\ a.green = t.green
    BY ResetDocEffect
  <2> HIDE DEF a
  <2>3. /\ w \in States /\ Kept(a, w) /\ w.sub = "RULING" /\ w.doc = a.doc
        /\ w.review = a.review /\ w.graph = a.graph /\ w.task = a.task /\ w.green = a.green
    <3>1. "RULING" \in Substates
      BY DEF Substates
    <3> QED
      BY <2>2, <2>1, <3>1, GoEffect
  <2> QED
    BY <1>6, <2>2, <2>3 DEF Routed, Free, Placed, Steady, Kept, w
<1>7. CASE check = "redeliver_green" /\ t.sub = "DIAGNOSE" /\ t.task # None
  <2> DEFINE a == ResetDoc(t)
  <2>1. w = Redelivered(a, "GREEN")
    BY <1>7 DEF OnVerdictPassed, RouteRulingVerdict, Redelivered
  <2> HIDE DEF w
  <2>2. /\ a \in States /\ Kept(t, a) /\ a.sub = t.sub /\ a.doc = FALSE
        /\ a.review = t.review /\ a.graph = t.graph /\ a.task = t.task /\ a.green = t.green
    BY ResetDocEffect
  <2> HIDE DEF a
  <2>3. /\ w \in States /\ Kept(a, w) /\ w.sub = "GREEN" /\ w.doc = a.doc
        /\ w.review = a.review /\ w.graph = a.graph /\ w.task = a.task /\ w.green = FALSE
    <3>1. "GREEN" \in Substates
      BY DEF Substates
    <3> QED
      BY <2>2, <2>1, <3>1, RedeliverEffect
  <2> QED
    BY <1>7, <2>2, <2>3 DEF Routed, Free, Placed, Steady, Kept, w
<1>8. CASE check = "deliver_red" /\ t.sub = "DIAGNOSE" /\ t.task # None
  <2> DEFINE a == ResetDoc(t)
  <2>1. w = Redelivered(a, "RED")
    BY <1>8 DEF OnVerdictPassed, RouteRulingVerdict, Redelivered
  <2> HIDE DEF w
  <2>2. /\ a \in States /\ Kept(t, a) /\ a.sub = t.sub /\ a.doc = FALSE
        /\ a.review = t.review /\ a.graph = t.graph /\ a.task = t.task /\ a.green = t.green
    BY ResetDocEffect
  <2> HIDE DEF a
  <2>3. /\ w \in States /\ Kept(a, w) /\ w.sub = "RED" /\ w.doc = a.doc
        /\ w.review = a.review /\ w.graph = a.graph /\ w.task = a.task /\ w.green = FALSE
    <3>1. "RED" \in Substates
      BY DEF Substates
    <3> QED
      BY <2>2, <2>1, <3>1, RedeliverEffect
  <2> QED
    BY <1>8, <2>2, <2>3 DEF Routed, Free, Placed, Steady, Kept, w
<1>9. CASE check = "hold" /\ t.sub = "DIAGNOSE"
  <2> DEFINE a == ResetDoc(t)
  <2>1. w = Held(a)
    BY <1>9 DEF OnVerdictPassed, RouteRulingVerdict, Held
  <2> HIDE DEF w
  <2>2. /\ a \in States /\ Kept(t, a) /\ a.sub = t.sub /\ a.doc = FALSE
        /\ a.review = t.review /\ a.graph = t.graph /\ a.task = t.task /\ a.green = t.green
    BY ResetDocEffect
  <2> HIDE DEF a
  <2>3. /\ w \in States /\ Kept(a, w) /\ w.sub = "TASK_DISPATCH" /\ w.doc = a.doc
        /\ w.review = a.review /\ w.graph = a.graph /\ w.task = None /\ w.green = a.green
    BY <2>2, <2>1, HoldEffect
  <2> QED
    BY <1>9, <2>2, <2>3 DEF Routed, Free, Placed, Steady, Kept, w
<1>10. \/ check = "island_1" /\ t.sub = "ISLAND_GATE_1"
       \/ check = "red_valid" /\ t.sub = "RED_GATE"
       \/ check = "green" /\ t.sub = "GREEN_GATE"
       \/ check = "task_review" /\ t.sub = "TASK_REVIEW"
       \/ check = "island_2" /\ t.sub = "ISLAND_GATE_2"
       \/ check = "redirect" /\ t.sub = "DIAGNOSE"
       \/ /\ check \in {"redeliver_green", "deliver_red", "hold"}
          /\ t.sub = "DIAGNOSE" /\ t.task # None
  BY DEF Passing
<1> QED
  BY <1>1, <1>2, <1>3, <1>4, <1>5, <1>6, <1>7, <1>8, <1>9, <1>10

(* A review leads on, or back to what it refuses.                          *)
LEMMA PrismRoutes ==
    ASSUME NEW t \in States, NEW v, Judging(t, v), Placed(t)
    PROVE  Routed(t, OnPrismVerdict(t, v), FALSE) /\ Free(OnPrismVerdict(t, v))
<1> DEFINE w == OnPrismVerdict(t, v)
<1> USE DEF InHand, Between, Greens, Writing, Reviews, Asking
<1>1. CASE v = "pass" /\ t.sub = "PRISM_PLAN"
  <2> DEFINE a == ResetReview(t)
  <2>1. w = Go(a, "TASK_DISPATCH")
    BY <1>1 DEF OnPrismVerdict, RoutePlanRevise, RouteFinalRevise
  <2> HIDE DEF w
  <2>2. /\ a \in States /\ Kept(t, a) /\ a.sub = t.sub /\ a.doc = t.doc /\ a.review = FALSE
        /\ a.graph = t.graph /\ a.task = t.task /\ a.green = t.green
    BY ResetReviewEffect
  <2> HIDE DEF a
  <2>3. /\ w \in States /\ Kept(a, w) /\ w.sub = "TASK_DISPATCH" /\ w.doc = a.doc
        /\ w.review = a.review /\ w.graph = a.graph /\ w.task = a.task /\ w.green = a.green
    <3>1. "TASK_DISPATCH" \in Substates
      BY DEF Substates
    <3> QED
      BY <2>2, <2>1, <3>1, GoEffect
  <2> QED
    BY <1>1, <2>2, <2>3 DEF Routed, Free, Placed, Steady, Kept, w
<1>2. CASE v = "design_gap" /\ t.sub = "PRISM_PLAN"
  <2> DEFINE a == ResetReview(t)
  <2>1. w = Diagnosed(a, TRUE)
    BY <1>2 DEF OnPrismVerdict, RoutePlanRevise, RouteFinalRevise, Diagnosed
  <2> HIDE DEF w
  <2>2. /\ a \in States /\ Kept(t, a) /\ a.sub = t.sub /\ a.doc = t.doc /\ a.review = FALSE
        /\ a.graph = t.graph /\ a.task = t.task /\ a.green = t.green
    BY ResetReviewEffect
  <2> HIDE DEF a
  <2>3. /\ w \in States /\ Steady(a, w) /\ w.sub = "DIAGNOSE" /\ w.doc = a.doc
        /\ w.review = a.review /\ w.graph = a.graph /\ w.green = a.green /\ w.stub = TRUE
    BY <2>2, <2>1, DiagnoseEffect
  <2> QED
    BY <1>2, <2>2, <2>3 DEF Routed, Free, Placed, Steady, Kept, w
<1>3. CASE v = "spec_gap" /\ t.sub = "PRISM_PLAN"
  <2> DEFINE a == ResetReview(t)
  <2>1. w = AwaitRollback(a, TRUE)
    BY <1>3 DEF OnPrismVerdict, RoutePlanRevise, RouteFinalRevise
  <2> HIDE DEF w
  <2>2. /\ a \in States /\ Kept(t, a) /\ a.sub = t.sub /\ a.doc = t.doc /\ a.review = FALSE
        /\ a.graph = t.graph /\ a.task = t.task /\ a.green = t.green
    BY ResetReviewEffect
  <2> HIDE DEF a
  <2>3. /\ w \in States /\ Kept(a, w) /\ w.sub = a.sub /\ w.doc = a.doc
        /\ w.review = a.review /\ w.graph = a.graph /\ w.task = a.task /\ w.green = a.green
        /\ w.awaiting = "rollback" /\ w.target = TRUE
    BY <2>2, <2>1, AwaitRollbackEffect
  <2> QED
    BY <1>3, <2>2, <2>3 DEF Routed, Free, Placed, Steady, Kept, w
<1>4. CASE v = "revise" /\ t.sub = "PRISM_PLAN"
  <2> DEFINE a == ResetReview(t)
             b == Redo(a, "PLANNING")
  <2>1. w = Ungraph(b)
    BY <1>4 DEF OnPrismVerdict, RoutePlanRevise, RouteFinalRevise, Ungraph
  <2> HIDE DEF w
  <2>2. /\ a \in States /\ Kept(t, a) /\ a.sub = t.sub /\ a.doc = t.doc /\ a.review = FALSE
        /\ a.graph = t.graph /\ a.task = t.task /\ a.green = t.green
    BY ResetReviewEffect
  <2> HIDE DEF a
  <2>3. /\ b \in States /\ Steady(a, b) /\ b.sub = "PLANNING" /\ b.doc = FALSE
        /\ b.review = a.review /\ b.graph = a.graph /\ b.green = a.green
    <3>1. "PLANNING" \in Substates
      BY DEF Substates
    <3> QED
      BY <2>2, <3>1, RedoEffect
  <2> HIDE DEF b
  <2>4. /\ w \in States /\ Steady(b, w) /\ w.sub = b.sub /\ w.doc = b.doc
        /\ w.review = b.review /\ w.graph = FALSE /\ w.green = b.green
    BY <2>3, <2>1, UngraphEffect
  <2> QED
    BY <1>4, <2>2, <2>3, <2>4 DEF Routed, Free, Placed, Steady, Kept, w
<1>5. CASE v = "pass" /\ t.sub = "PRISM_RED"
  <2> DEFINE a == ResetReview(t)
             b == Go(a, "GREEN")
  <2>1. w = ResetDoc(b)
    BY <1>5 DEF OnPrismVerdict, RoutePlanRevise, RouteFinalRevise
  <2> HIDE DEF w
  <2>2. /\ a \in States /\ Kept(t, a) /\ a.sub = t.sub /\ a.doc = t.doc /\ a.review = FALSE
        /\ a.graph = t.graph /\ a.task = t.task /\ a.green = t.green
    BY ResetReviewEffect
  <2> HIDE DEF a
  <2>3. /\ b \in States /\ Kept(a, b) /\ b.sub = "GREEN" /\ b.doc = a.doc
        /\ b.review = a.review /\ b.graph = a.graph /\ b.task = a.task /\ b.green = a.green
    <3>1. "GREEN" \in Substates
      BY DEF Substates
    <3> QED
      BY <2>2, <3>1, GoEffect
  <2> HIDE DEF b
  <2>4. /\ w \in States /\ Kept(b, w) /\ w.sub = b.sub /\ w.doc = FALSE
        /\ w.review = b.review /\ w.graph = b.graph /\ w.task = b.task /\ w.green = b.green
    BY <2>3, <2>1, ResetDocEffect
  <2> QED
    BY <1>5, <2>2, <2>3, <2>4 DEF Routed, Free, Placed, Steady, Kept, w
<1>6. CASE v = "plan_defect" /\ t.sub \in {"PRISM_RED", "PRISM_FINAL"}
  <2> DEFINE a == ResetReview(t)
  <2>1. w = RouteScopeReplan(a)
    BY <1>6 DEF OnPrismVerdict, RoutePlanRevise, RouteFinalRevise
  <2> HIDE DEF w
  <2>2. /\ a \in States /\ Kept(t, a) /\ a.sub = t.sub /\ a.doc = t.doc /\ a.review = FALSE
        /\ a.graph = t.graph /\ a.task = t.task /\ a.green = t.green
    BY ResetReviewEffect
  <2> HIDE DEF a
  <2>3. /\ w \in States /\ Kept(a, w) /\ w.sub = "PLANNING" /\ w.doc = FALSE
        /\ w.graph = FALSE /\ w.task = None /\ w.green = FALSE
    BY <2>2, <2>1, ReplanEffect
  <2> QED
    BY <1>6, <2>2, <2>3 DEF Routed, Free, Placed, Steady, Kept, w
<1>7. CASE v = "revise" /\ t.sub = "PRISM_RED"
  <2> DEFINE a == ResetReview(t)
  <2>1. w = Redo(a, "RED")
    BY <1>7 DEF OnPrismVerdict, RoutePlanRevise, RouteFinalRevise
  <2> HIDE DEF w
  <2>2. /\ a \in States /\ Kept(t, a) /\ a.sub = t.sub /\ a.doc = t.doc /\ a.review = FALSE
        /\ a.graph = t.graph /\ a.task = t.task /\ a.green = t.green
    BY ResetReviewEffect
  <2> HIDE DEF a
  <2>3. /\ w \in States /\ Steady(a, w) /\ w.sub = "RED" /\ w.doc = FALSE
        /\ w.review = a.review /\ w.graph = a.graph /\ w.green = a.green
    <3>1. "RED" \in Substates
      BY DEF Substates
    <3> QED
      BY <2>2, <2>1, <3>1, RedoEffect
  <2> QED
    BY <1>7, <2>2, <2>3 DEF Routed, Free, Placed, Steady, Kept, w
<1>8. CASE v = "pass" /\ t.sub = "PRISM_FINAL"
  <2> DEFINE a == ResetReview(t)
  <2>1. w = Go(a, "TASK_DONE")
    BY <1>8 DEF OnPrismVerdict, RoutePlanRevise, RouteFinalRevise
  <2> HIDE DEF w
  <2>2. /\ a \in States /\ Kept(t, a) /\ a.sub = t.sub /\ a.doc = t.doc /\ a.review = FALSE
        /\ a.graph = t.graph /\ a.task = t.task /\ a.green = t.green
    BY ResetReviewEffect
  <2> HIDE DEF a
  <2>3. /\ w \in States /\ Kept(a, w) /\ w.sub = "TASK_DONE" /\ w.doc = a.doc
        /\ w.review = a.review /\ w.graph = a.graph /\ w.task = a.task /\ w.green = a.green
    <3>1. "TASK_DONE" \in Substates
      BY DEF Substates
    <3> QED
      BY <2>2, <2>1, <3>1, GoEffect
  <2> QED
    BY <1>8, <2>2, <2>3 DEF Routed, Free, Placed, Steady, Kept, w
<1>9. CASE v = "red_defect" /\ t.sub = "PRISM_FINAL"
  <2> DEFINE a == ResetReview(t)
             b == Ungreen(a)
  <2>1. w = Redo(b, "RED")
    BY <1>9 DEF OnPrismVerdict, RoutePlanRevise, RouteFinalRevise
  <2> HIDE DEF w
  <2>2. /\ a \in States /\ Kept(t, a) /\ a.sub = t.sub /\ a.doc = t.doc /\ a.review = FALSE
        /\ a.graph = t.graph /\ a.task = t.task /\ a.green = t.green
    BY ResetReviewEffect
  <2> HIDE DEF a
  <2>3. /\ b \in States /\ Kept(a, b) /\ b.sub = a.sub /\ b.doc = a.doc
        /\ b.review = a.review /\ b.graph = a.graph /\ b.task = a.task /\ b.green = FALSE
    BY <2>2, UngreenEffect
  <2> HIDE DEF b
  <2>4. /\ w \in States /\ Steady(b, w) /\ w.sub = "RED" /\ w.doc = FALSE
        /\ w.review = b.review /\ w.graph = b.graph /\ w.green = b.green
    <3>1. "RED" \in Substates
      BY DEF Substates
    <3> QED
      BY <2>3, <2>1, <3>1, RedoEffect
  <2> QED
    BY <1>9, <2>2, <2>3, <2>4 DEF Routed, Free, Placed, Steady, Kept, w
<1>10. CASE v = "test_defect" /\ t.sub = "PRISM_FINAL"
  <2> DEFINE a == ResetReview(t)
  <2>1. w = Redo(a, "SHIELD_FIX")
    BY <1>10 DEF OnPrismVerdict, RoutePlanRevise, RouteFinalRevise
  <2> HIDE DEF w
  <2>2. /\ a \in States /\ Kept(t, a) /\ a.sub = t.sub /\ a.doc = t.doc /\ a.review = FALSE
        /\ a.graph = t.graph /\ a.task = t.task /\ a.green = t.green
    BY ResetReviewEffect
  <2> HIDE DEF a
  <2>3. /\ w \in States /\ Steady(a, w) /\ w.sub = "SHIELD_FIX" /\ w.doc = FALSE
        /\ w.review = a.review /\ w.graph = a.graph /\ w.green = a.green
    <3>1. "SHIELD_FIX" \in Substates
      BY DEF Substates
    <3> QED
      BY <2>2, <2>1, <3>1, RedoEffect
  <2> QED
    BY <1>10, <2>2, <2>3 DEF Routed, Free, Placed, Steady, Kept, w
<1>11. CASE v = "revise" /\ t.sub = "PRISM_FINAL"
  <2> DEFINE a == ResetReview(t)
             b == Ungreen(a)
  <2>1. w = Redo(b, "GREEN")
    BY <1>11 DEF OnPrismVerdict, RoutePlanRevise, RouteFinalRevise
  <2> HIDE DEF w
  <2>2. /\ a \in States /\ Kept(t, a) /\ a.sub = t.sub /\ a.doc = t.doc /\ a.review = FALSE
        /\ a.graph = t.graph /\ a.task = t.task /\ a.green = t.green
    BY ResetReviewEffect
  <2> HIDE DEF a
  <2>3. /\ b \in States /\ Kept(a, b) /\ b.sub = a.sub /\ b.doc = a.doc
        /\ b.review = a.review /\ b.graph = a.graph /\ b.task = a.task /\ b.green = FALSE
    BY <2>2, UngreenEffect
  <2> HIDE DEF b
  <2>4. /\ w \in States /\ Steady(b, w) /\ w.sub = "GREEN" /\ w.doc = FALSE
        /\ w.review = b.review /\ w.graph = b.graph /\ w.green = b.green
    <3>1. "GREEN" \in Substates
      BY DEF Substates
    <3> QED
      BY <2>3, <2>1, <3>1, RedoEffect
  <2> QED
    BY <1>11, <2>2, <2>3, <2>4 DEF Routed, Free, Placed, Steady, Kept, w
<1>12. \/ v \in {"pass", "design_gap", "spec_gap", "revise"} /\ t.sub = "PRISM_PLAN"
       \/ v \in {"pass", "plan_defect", "revise"} /\ t.sub = "PRISM_RED"
       \/ /\ v \in {"pass", "red_defect", "plan_defect", "test_defect", "revise"}
          /\ t.sub = "PRISM_FINAL"
  BY DEF Judging
<1> QED
  BY <1>1, <1>2, <1>3, <1>4, <1>5, <1>6, <1>7, <1>8, <1>9, <1>10, <1>11, <1>12
(* Evidence that cannot be read sends a gate back to the phase before it.  *)
LEMMA MalformedRoutes ==
    ASSUME NEW t \in States, NEW how \in Retryable, Placed(t),
           t.sub \in Asking \cup {"RED_CHECKPOINT", "GREEN_COMMIT", "REFACTOR_GATE"}
    PROVE  Routed(t, OnVerdictMalformed(t, how), FALSE) /\ Free(OnVerdictMalformed(t, how))
<1> USE DEF InHand, Between, Greens, Writing, Reviews, Asking
<1>1. ASSUME NEW x \in {"RED", "GREEN", "REFACTOR"},
             t.sub = "RED_CHECKPOINT" => x = "RED", t.sub = "GREEN_COMMIT" => x = "GREEN",
             t.sub = "REFACTOR_GATE" => x = "REFACTOR",
             t.sub \in {"RED_CHECKPOINT", "GREEN_COMMIT", "REFACTOR_GATE"},
             OnVerdictMalformed(t, how) = OnOutcomeFailed(Go(t, x), how)
      PROVE  Routed(t, OnVerdictMalformed(t, how), FALSE) /\ Free(OnVerdictMalformed(t, how))
  <2> DEFINE back == Go(t, x)
             w == OnOutcomeFailed(back, how)
  <2>1. x \in Substates
    BY DEF Substates
  <2>2. /\ back \in States /\ Kept(t, back) /\ back.sub = x /\ back.task = t.task
        /\ back.graph = t.graph /\ back.green = t.green
    BY <2>1, GoEffect
  <2> HIDE DEF back
  <2>3. back.sub \in Asking /\ Placed(back)
    BY <1>1, <2>2 DEF Placed
  <2>4. Routed(back, w, FALSE) /\ Free(w)
    BY <2>2, <2>3, OutcomeRoutes
  <2>5. OnVerdictMalformed(t, how) = w
    BY <1>1 DEF back
  <2> HIDE DEF w
  <2>6. Routed(t, w, FALSE)
    BY <1>1, <2>2, <2>4 DEF Routed, Kept
  <2> QED
    BY <2>4, <2>5, <2>6
<1>2. CASE t.sub = "RED_CHECKPOINT"
  <2>1. OnVerdictMalformed(t, how) = OnOutcomeFailed(Go(t, "RED"), how)
    BY <1>2 DEF OnVerdictMalformed
  <2> QED
    BY <1>1, <1>2, <2>1
<1>3. CASE t.sub = "GREEN_COMMIT"
  <2>1. OnVerdictMalformed(t, how) = OnOutcomeFailed(Go(t, "GREEN"), how)
    BY <1>3 DEF OnVerdictMalformed
  <2> QED
    BY <1>1, <1>3, <2>1
<1>4. CASE t.sub = "REFACTOR_GATE"
  <2>1. OnVerdictMalformed(t, how) = OnOutcomeFailed(Go(t, "REFACTOR"), how)
    BY <1>4 DEF OnVerdictMalformed
  <2> QED
    BY <1>1, <1>4, <2>1
<1>5. CASE t.sub \in Asking
  <2>1. OnVerdictMalformed(t, how) = OnOutcomeFailed(t, how)
    BY <1>5 DEF OnVerdictMalformed
  <2> QED
    BY <1>5, <2>1, OutcomeRoutes
<1> QED
  BY <1>2, <1>3, <1>4, <1>5

(***************************************************************************)
(* The outcome of an agent that did its work, by the substate it left.     *)
(***************************************************************************)
Landed(t, u) ==
    /\ u \in States /\ Kept(t, u) /\ u.task = t.task /\ u.green = t.green
    /\ u.graph = t.graph
    /\ t.sub = "PLANNING" => u.sub = "PLANNING" /\ u.produced
    /\ t.sub = "RULING" => u.sub = "DIAGNOSE" /\ ~u.review
    /\ t.sub \in Reviews => u.sub = t.sub /\ u.stub = t.stub
    /\ t.sub = "RED" => u.sub = "RED_GATE"
    /\ t.sub = "GREEN" => u.sub = "GREEN_GATE"
    /\ t.sub = "REFACTOR" => u.sub = "REFACTOR_GATE"
    /\ t.sub = "SHIELD_FIX" => u.sub = "GREEN_GATE" \/ (u.sub = "RED" /\ ~u.doc)

(* An outcome leads to the gate of its phase.                              *)
LEMMA OutcomeLands ==
    ASSUME NEW t \in States, t.sub \in Asking
    PROVE  Landed(t, OnOutcomeDone(t))
<1> DEFINE w == OnOutcomeDone(t)
<1> USE DEF Writing, Reviews, Asking
<1>1. CASE t.sub = "PLANNING"
  <2>1. w = [t EXCEPT !.produced = TRUE]
    BY <1>1 DEF OnOutcomeDone
  <2> QED
    BY <1>1, <2>1 DEF Landed, States, Kept
<1>2. CASE t.sub = "RULING"
  <2> DEFINE a == Diagnosed(t, FALSE)
  <2>1. w = ResetReview(a)
    BY <1>2 DEF OnOutcomeDone, Diagnosed
  <2> HIDE DEF w
  <2>2. /\ a \in States /\ Steady(t, a) /\ a.sub = "DIAGNOSE" /\ a.graph = t.graph
        /\ a.green = t.green
    BY DiagnoseEffect
  <2> HIDE DEF a
  <2>3. /\ w \in States /\ Kept(a, w) /\ w.sub = a.sub /\ w.review = FALSE
        /\ w.graph = a.graph /\ w.task = a.task /\ w.green = a.green
    BY <2>1, <2>2, ResetReviewEffect
  <2> QED
    BY <1>2, <2>2, <2>3 DEF Landed, Steady, Kept, w
<1>3. ASSUME NEW x \in {"RED_GATE", "GREEN_GATE", "REFACTOR_GATE"}, NEW v, v = Go(t, x),
             t.sub \in {"RED", "GREEN", "REFACTOR", "SHIELD_FIX"},
             t.sub = "RED" => x = "RED_GATE", t.sub = "GREEN" => x = "GREEN_GATE",
             t.sub = "REFACTOR" => x = "REFACTOR_GATE",
             t.sub = "SHIELD_FIX" => x = "GREEN_GATE"
      PROVE  Landed(t, v)
  <2>1. x \in Substates
    BY DEF Substates
  <2>2. /\ v \in States /\ Kept(t, v) /\ v.sub = x /\ v.task = t.task
        /\ v.graph = t.graph /\ v.green = t.green
    BY <1>3, <2>1, GoEffect
  <2> QED
    BY <1>3, <2>2 DEF Landed
<1>4. CASE t.sub = "RED"
  <2>1. w = Go(t, "RED_GATE")
    BY <1>4 DEF OnOutcomeDone
  <2> QED
    BY <1>3, <1>4, <2>1
<1>5. CASE t.sub = "GREEN"
  <2>1. w = Go(t, "GREEN_GATE")
    BY <1>5 DEF OnOutcomeDone
  <2> QED
    BY <1>3, <1>5, <2>1
<1>6. CASE t.sub = "REFACTOR"
  <2>1. w = Go(t, "REFACTOR_GATE")
    BY <1>6 DEF OnOutcomeDone
  <2> QED
    BY <1>3, <1>6, <2>1
<1>7. CASE t.sub = "SHIELD_FIX" /\ ~Verification(t)
  <2>1. w = Go(t, "GREEN_GATE")
    BY <1>7 DEF OnOutcomeDone
  <2> QED
    BY <1>3, <1>7, <2>1
<1>8. CASE t.sub = "SHIELD_FIX" /\ Verification(t)
  <2> DEFINE a == Go(t, "RED")
  <2>1. w = ResetDoc(a)
    BY <1>8 DEF OnOutcomeDone
  <2> HIDE DEF w
  <2>2. /\ a \in States /\ Kept(t, a) /\ a.sub = "RED" /\ a.graph = t.graph
        /\ a.green = t.green /\ a.task = t.task
    <3>1. "RED" \in Substates
      BY DEF Substates
    <3> QED
      BY <3>1, GoEffect
  <2> HIDE DEF a
  <2>3. /\ w \in States /\ Kept(a, w) /\ w.sub = a.sub /\ w.doc = FALSE
        /\ w.graph = a.graph /\ w.task = a.task /\ w.green = a.green
    BY <2>1, <2>2, ResetDocEffect
  <2> QED
    BY <1>8, <2>2, <2>3 DEF Landed, Kept, w
<1>9. CASE t.sub \in Reviews
  <2>1. w = t
    BY <1>9 DEF OnOutcomeDone
  <2> QED
    BY <1>9, <2>1 DEF Landed, Kept
<1> QED
  BY <1>1, <1>2, <1>4, <1>5, <1>6, <1>7, <1>8, <1>9

-----------------------------------------------------------------------------
(* What one event leaves true.                                             *)

\* What the log of a route keeps.
LogKept ==
    /\ log' \in Logs /\ log'.done = log.done /\ log'.started = log.started
    /\ log'.waived = log.waived /\ log'.lease = log.lease /\ log'.stale = log.stale
    /\ log'.latest = log.latest /\ log'.greened = log.greened
    /\ log'.noted => log.noted
    /\ log'.pinned => log.pinned

HistKept ==
    /\ hist' \in Histories
    /\ hist'.returned = hist.returned /\ hist'.unfixed = hist.unfixed
    /\ hist.held => hist'.held

BoundsKept == drv' \in {"off", "run"} /\ graphs' \in 0..MaxGraphs /\ meddles' \in 0..MaxMeddles

(* A route keeps what is settled.                                          *)
LEMMA RouteSettles ==
    ASSUME Settled, Routed(Cleared(s), s', hist'.held), LogKept, HistKept, BoundsKept
    PROVE  Settled'
<1>1. s \in States
  BY DEF Settled, Typed
<1>2. /\ s' \in States /\ s'.pending = None /\ s'.refs = s.refs /\ s'.count = s.count
      /\ s'.retained = s.retained /\ s'.waived = s.waived /\ s'.lock = s.lock
      /\ Placed(s') /\ s'.task \in {s.task, None}
      /\ s'.graph => s.graph /\ (s'.sub = "PLANNING" => s.sub = "PLANNING")
      /\ s'.sub \notin {"BASELINE", "NEEDS_ATTENTION"}
      /\ s'.sub \in {"RED_GATE", "RED_CHECKPOINT"} => s.sub \in {"RED_GATE", "RED_CHECKPOINT"}
      /\ s'.sub = "PRISM_RED" => s.sub = "PRISM_RED"
      /\ s'.sub \in Greens /\ s'.green => s.green /\ s.sub \in Greens \cup {"PRISM_RED"}
      /\ s'.sub \in {"ISLAND_GATE_1", "PRISM_PLAN"} => s.sub \in {"ISLAND_GATE_1", "PRISM_PLAN"}
      /\ s'.sub = "TASK_DISPATCH" => s.sub = "PRISM_PLAN" \/ hist'.held
      /\ s'.sub = "ISLAND_GATE_2" => s.sub = "ISLAND_GATE_2"
  BY <1>1, ClearedEffect DEF Routed, Kept
<1>3. Typed'
  BY <1>2 DEF LogKept, HistKept, BoundsKept, Typed
<1>4. PendingFits'
  BY <1>2 DEF PendingFits
<1>5. TaskPlaced'
  BY <1>2 DEF TaskPlaced
<1>6. LeaseKnown'
  BY <1>2 DEF Settled, LeaseKnown, LogKept
<1>7. StartsAnswered'
  <2>1. EffectivelyCompleted' = EffectivelyCompleted
    BY <1>2 DEF EffectivelyCompleted, LogKept
  <2> QED
    BY <1>2, <2>1 DEF Settled, StartsAnswered, LogKept, HistKept
<1>8. Counted'
  BY <1>2 DEF Settled, Counted, LogKept
<1>9. Replays'
  BY <1>2 DEF Settled, Replays, LogKept, HistKept, Greens
<1>10. PlansFresh'
  BY <1>2 DEF Settled, PlansFresh, LogKept, HistKept
<1>11. WorkIsOpenAndLeased'
  BY <1>2 DEF Settled, WorkIsOpenAndLeased, LogKept
<1>12. GateReached'
  BY <1>2 DEF Settled, GateReached, LogKept
<1> QED
  BY <1>3, <1>4, <1>5, <1>6, <1>7, <1>8, <1>9, <1>10, <1>11, <1>12 DEF Settled

\* What may be appended: an answer that routes the walk ...
Answered(ev) ==
    \/ ev.e = "outcome" /\ ev.how \in Retryable \cup {"failed"} /\ s.sub \in Asking
    \/ /\ ev.e = "malformed" /\ ev.how \in Retryable
       /\ s.sub \in Asking \cup {"RED_CHECKPOINT", "GREEN_COMMIT", "REFACTOR_GATE"}
    \/ ev.e = "failed" /\ Failing(s, ev.how)
    \/ ev.e = "passed" /\ Passing(s, ev.how)
    \/ ev.e = "prism" /\ Judging(s, ev.how)

(* The bounds and the driver, whatever is appended.                        *)
LEMMA AppendBounds ==
    ASSUME Typed, NEW ev, AppendEvent(ev)
    PROVE  BoundsKept
<1>1. drv' \in {"off", "run"}
  BY DEF AppendEvent, Typed
<1>2. graphs' \in 0..MaxGraphs
  BY TaskCycleAssumption DEF AppendEvent, Typed
<1>3. meddles' \in 0..MaxMeddles
  BY DEF AppendEvent, Typed
<1> QED
  BY <1>1, <1>2, <1>3 DEF BoundsKept

(* An answer keeps what is settled and leaves no flag that is waited for.  *)
LEMMA AnswerSettles ==
    ASSUME Settled, NEW ev, Answered(ev), AppendEvent(ev)
    PROVE  Settled' /\ Free(s') /\ s'.pending = None
<1> DEFINE u == Cleared(s)
<1>1. /\ s \in States /\ log \in Logs /\ hist \in Histories /\ Placed(s) /\ BoundsKept
  BY AppendBounds DEF Settled, Typed, TaskPlaced
<1>2. /\ u \in States /\ u.sub = s.sub /\ u.doc = s.doc /\ u.task = s.task
  BY <1>1, ClearedEffect
<1>3. Reduce(s, ev) =
        IF ev.e = "outcome" THEN IF ev.how = "done" THEN OnOutcomeDone(u)
                                 ELSE OnOutcomeFailed(u, ev.how)
        ELSE IF ev.e = "malformed" THEN OnVerdictMalformed(u, ev.how)
        ELSE IF ev.e = "passed" THEN OnVerdictPassed(u, ev.how)
        ELSE IF ev.e = "failed" THEN OnVerdictFailed(u, ev.how)
        ELSE OnPrismVerdict(u, ev.how)
  BY DEF Answered, Reduce, Cleared
<1> HIDE DEF u
<1>4. Placed(u)
  BY <1>1, <1>2 DEF Placed
<1>5. s' = Reduce(s, ev) /\ log' = Record(log, ev)
  BY DEF AppendEvent
<1>6. /\ Free(s')
      /\ \/ Routed(u, s', FALSE)
         \/ ev.e = "passed" /\ Routed(u, s', ev.how = "hold")
  <2>1. CASE ev.e = "outcome" /\ ev.how \in Retryable \cup {"failed"} /\ s.sub \in Asking
    <3>1. s' = OnOutcomeFailed(u, ev.how)
      BY <1>3, <1>5, <2>1 DEF Retryable
    <3> QED
      BY <1>2, <1>4, <2>1, <3>1, OutcomeRoutes
  <2>2. CASE /\ ev.e = "malformed" /\ ev.how \in Retryable
             /\ s.sub \in Asking \cup {"RED_CHECKPOINT", "GREEN_COMMIT", "REFACTOR_GATE"}
    <3>1. s' = OnVerdictMalformed(u, ev.how)
      BY <1>3, <1>5, <2>2
    <3> QED
      BY <1>2, <1>4, <2>2, <3>1, MalformedRoutes
  <2>3. CASE ev.e = "failed" /\ Failing(s, ev.how)
    <3>1. s' = OnVerdictFailed(u, ev.how)
      BY <1>3, <1>5, <2>3
    <3>2. Failing(u, ev.how)
      BY <1>2, <2>3 DEF Failing
    <3>3. CASE u.sub = "DIAGNOSE"
      <4>1. s' = RouteDiagnose(u, ev.how)
        BY <3>1, <3>3 DEF OnVerdictFailed
      <4> QED
        BY <1>2, <3>2, <3>3, <4>1, DiagnoseRoutes
    <3>4. CASE u.sub # "DIAGNOSE"
      <4>1. s' = RouteGateFailure(u, ev.how)
        BY <3>1, <3>4 DEF OnVerdictFailed
      <4> QED
        BY <1>2, <1>4, <3>2, <3>4, <4>1, FailureRoutes
    <3> QED
      BY <3>3, <3>4
  <2>4. CASE ev.e = "passed" /\ Passing(s, ev.how)
    <3>1. s' = OnVerdictPassed(u, ev.how)
      BY <1>3, <1>5, <2>4
    <3>2. Passing(u, ev.how)
      BY <1>2, <2>4 DEF Passing
    <3>3. /\ Routed(u, OnVerdictPassed(u, ev.how), ev.how = "hold")
          /\ Free(OnVerdictPassed(u, ev.how))
      BY <1>2, <1>4, <3>2, PassRoutes DEF Routed
    <3> QED
      BY <2>4, <3>1, <3>3 DEF Routed
  <2>5. CASE ev.e = "prism" /\ Judging(s, ev.how)
    <3>1. s' = OnPrismVerdict(u, ev.how)
      BY <1>3, <1>5, <2>5
    <3>2. Judging(u, ev.how)
      BY <1>2, <2>5 DEF Judging
    <3> QED
      BY <1>2, <1>4, <3>1, <3>2, PrismRoutes
  <2> QED
    BY <2>1, <2>2, <2>3, <2>4, <2>5 DEF Answered
<1>7. LogKept
  <2>1. CASE ev.e = "outcome"
    <3> DEFINE d == IF s.sub \in {"RED", "GREEN", "REFACTOR"}
                    THEN s.sub = "GREEN" /\ ev.how = "done" ELSE log.devon
    <3>1. log' = [log EXCEPT !.pinned = FALSE, !.devon = d]
      BY <1>5, <2>1 DEF Record
    <3>2. d \in BOOLEAN
      BY <1>1 DEF Logs
    <3> HIDE DEF d
    <3> QED
      BY <1>1, <3>1, <3>2 DEF LogKept, Logs
  <2>2. CASE ev.e = "failed" /\ ev.how = "impl_defect"
    <3>1. log' = [log EXCEPT !.defect = TRUE]
      BY <1>5, <2>2 DEF Record
    <3> QED
      BY <1>1, <3>1 DEF LogKept, Logs
  <2>3. CASE ev.e # "outcome" /\ ~(ev.e = "failed" /\ ev.how = "impl_defect")
    <3>1. log' = log
      BY <1>5, <2>3 DEF Record, Answered
    <3> QED
      BY <1>1, <3>1 DEF LogKept
  <2> QED
    BY <2>1, <2>2, <2>3
<1>8. hist' = IF ev.e = "passed" /\ ev.how = "hold" THEN [hist EXCEPT !.held = TRUE] ELSE hist
  BY DEF AppendEvent, Answered, Retryable
<1>9. HistKept
  BY <1>1, <1>8 DEF HistKept, Histories
<1>10. Routed(u, s', hist'.held)
  <2>1. CASE Routed(u, s', FALSE)
    BY <2>1 DEF Routed
  <2>2. CASE ev.e = "passed" /\ Routed(u, s', ev.how = "hold")
    <3>1. ev.how = "hold" => hist'.held
      BY <1>1, <1>8, <2>2 DEF Histories
    <3> QED
      BY <2>2, <3>1 DEF Routed
  <2> QED
    BY <1>6, <2>1, <2>2
<1>11. s'.pending = None
  BY <1>1, <1>10, ClearedEffect DEF Routed, Kept, u
<1> QED
  BY <1>1, <1>6, <1>7, <1>9, <1>10, <1>11, RouteSettles DEF u

(* A baseline leads to the plan or to a human.                             *)
LEMMA BaselineSettles ==
    ASSUME Settled, NEW ev, AppendEvent(ev), ev.e = "baseline", s.sub = "BASELINE"
    PROVE  Settled' /\ Free(s') /\ s'.pending = None
<1> DEFINE u == Cleared(s)
<1>1. s \in States /\ log \in Logs /\ hist \in Histories /\ BoundsKept
  BY AppendBounds DEF Settled, Typed
<1>2. /\ u \in States /\ u.pending = None /\ u.sub = s.sub /\ u.awaiting = s.awaiting
      /\ u.target = s.target /\ u.doc = s.doc /\ u.produced = s.produced
      /\ u.review = s.review /\ u.graph = s.graph /\ u.refs = s.refs /\ u.stub = s.stub
      /\ u.task = s.task /\ u.green = s.green /\ u.count = s.count
      /\ u.retained = s.retained /\ u.waived = s.waived /\ u.lock = s.lock
  BY <1>1, ClearedEffect
<1>3. s' = [u EXCEPT !.sub = IF ev.how = "current" THEN "PLANNING" ELSE "NEEDS_ATTENTION"]
  BY DEF AppendEvent, Reduce, Cleared, Go
<1>4. log' = log
  BY DEF AppendEvent, Record
<1>5. hist' = hist
  BY DEF AppendEvent, Histories
<1> HIDE DEF u
<1>6. /\ s' \in States /\ s'.pending = None
      /\ s'.sub = IF ev.how = "current" THEN "PLANNING" ELSE "NEEDS_ATTENTION"
      /\ s'.awaiting = s.awaiting /\ s'.target = s.target /\ s'.doc = s.doc
      /\ s'.produced = s.produced /\ s'.review = s.review /\ s'.graph = s.graph
      /\ s'.refs = s.refs /\ s'.stub = s.stub /\ s'.task = s.task /\ s'.green = s.green
      /\ s'.count = s.count /\ s'.retained = s.retained /\ s'.waived = s.waived
      /\ s'.lock = s.lock
  <2>1. u \in States
    BY <1>2
  <2>0. (IF ev.how = "current" THEN "PLANNING" ELSE "NEEDS_ATTENTION") \in Substates
    BY DEF Substates, Reviews
  <2>2. s' \in States
    BY <2>1, <1>3, <2>0 DEF States
  <2>3. /\ s'.pending = u.pending
        /\ s'.sub = IF ev.how = "current" THEN "PLANNING" ELSE "NEEDS_ATTENTION"
        /\ s'.awaiting = u.awaiting /\ s'.target = u.target /\ s'.doc = u.doc
        /\ s'.produced = u.produced /\ s'.review = u.review /\ s'.graph = u.graph
        /\ s'.refs = u.refs /\ s'.stub = u.stub /\ s'.task = u.task
        /\ s'.green = u.green /\ s'.count = u.count /\ s'.retained = u.retained
        /\ s'.waived = u.waived /\ s'.lock = u.lock
    BY <2>1, <1>3 DEF States
  <2> QED
    BY <2>2, <2>3, <1>2
<1>7. /\ log' \in Logs /\ log'.ever = log.ever /\ log'.done = log.done
      /\ log'.started = log.started /\ log'.waived = log.waived
      /\ log'.lease = log.lease /\ log'.stale = log.stale /\ log'.family = log.family
      /\ log'.greened = log.greened /\ log'.pinned = log.pinned
      /\ log'.latest = log.latest /\ log'.noted = log.noted
  BY <1>1, <1>4 DEF Logs
<1>8. /\ hist' \in Histories /\ hist'.held = hist.held /\ hist'.returned = hist.returned
      /\ hist'.unfixed = hist.unfixed
  BY <1>1, <1>5 DEF Histories
<1>9. Typed'
  BY <1>1, <1>6, <1>7, <1>8 DEF Typed, BoundsKept
<1>10. PendingFits'
  BY <1>6 DEF PendingFits
<1>11. TaskPlaced'
  BY <1>6 DEF TaskPlaced, Settled, Placed, InHand, Between
<1>12. LeaseKnown'
  BY <1>1, <1>6, <1>7, <1>8 DEF LeaseKnown, Settled
<1>13. StartsAnswered'
  BY <1>1, <1>6, <1>7, <1>8 DEF StartsAnswered, Settled, EffectivelyCompleted
<1>14. Counted'
  BY <1>1, <1>6, <1>7, <1>8 DEF Counted, Settled
<1>15. Replays'
  BY <1>1, <1>6, <1>7, <1>8 DEF Replays, Settled, Greens
<1>16. PlansFresh'
  BY <1>1, <1>6, <1>7, <1>8 DEF PlansFresh, Settled
<1>17. WorkIsOpenAndLeased'
  BY <1>1, <1>6, <1>7, <1>8 DEF WorkIsOpenAndLeased, Settled
<1>18. GateReached'
  BY <1>1, <1>6, <1>7, <1>8 DEF GateReached, Settled
<1>19. Free(s') /\ s'.pending = None
  BY <1>6 DEF Free, Writing, Reviews, Settled, PlansFresh
<1> QED
  BY <1>9, <1>10, <1>11, <1>12, <1>13, <1>14, <1>15, <1>16, <1>17, <1>18, <1>19
     DEF Settled

(* A lease granted.                                                        *)
LEMMA GrantSettles ==
    ASSUME Settled, NEW ev, AppendEvent(ev), ev.e = "granted", Startable(ev.task)
    PROVE  Settled' /\ Free(s') /\ s'.pending = None
           /\ Startable(ev.task)' /\ s'.lock /\ log'.lease = ev.task /\ ~log'.stale
<1> DEFINE u == Cleared(s)
<1>1. s \in States /\ log \in Logs /\ hist \in Histories /\ BoundsKept
  BY AppendBounds DEF Settled, Typed
<1>2. /\ u \in States /\ u.pending = None /\ u.sub = s.sub /\ u.awaiting = s.awaiting
      /\ u.target = s.target /\ u.doc = s.doc /\ u.produced = s.produced
      /\ u.review = s.review /\ u.graph = s.graph /\ u.refs = s.refs /\ u.stub = s.stub
      /\ u.task = s.task /\ u.green = s.green /\ u.count = s.count
      /\ u.retained = s.retained /\ u.waived = s.waived /\ u.lock = s.lock
  BY <1>1, ClearedEffect
<1>3. s' = [u EXCEPT !.lock = TRUE]
  BY DEF AppendEvent, Reduce, Cleared
<1>4. log' = [log EXCEPT !.lease = ev.task, !.stale = FALSE]
  BY DEF AppendEvent, Record
<1>5. hist' = hist
  BY DEF AppendEvent, Histories
<1> HIDE DEF u
<1>6. /\ s' \in States /\ s'.pending = None /\ s'.sub = s.sub
      /\ s'.awaiting = s.awaiting /\ s'.target = s.target /\ s'.doc = s.doc
      /\ s'.produced = s.produced /\ s'.review = s.review /\ s'.graph = s.graph
      /\ s'.refs = s.refs /\ s'.stub = s.stub /\ s'.task = s.task /\ s'.green = s.green
      /\ s'.count = s.count /\ s'.retained = s.retained /\ s'.waived = s.waived
      /\ s'.lock = TRUE
  <2>1. u \in States
    BY <1>2
  <2>2. s' \in States
    BY <2>1, <1>3 DEF States
  <2>3. /\ s'.pending = u.pending /\ s'.sub = u.sub /\ s'.awaiting = u.awaiting
        /\ s'.target = u.target /\ s'.doc = u.doc /\ s'.produced = u.produced
        /\ s'.review = u.review /\ s'.graph = u.graph /\ s'.refs = u.refs
        /\ s'.stub = u.stub /\ s'.task = u.task /\ s'.green = u.green
        /\ s'.count = u.count /\ s'.retained = u.retained /\ s'.waived = u.waived
        /\ s'.lock = TRUE
    BY <2>1, <1>3 DEF States
  <2> QED
    BY <2>2, <2>3, <1>2
<1>7. /\ log' \in Logs /\ log'.ever = log.ever /\ log'.done = log.done
      /\ log'.started = log.started /\ log'.waived = log.waived /\ log'.lease = ev.task
      /\ log'.stale = FALSE /\ log'.family = log.family /\ log'.greened = log.greened
      /\ log'.pinned = log.pinned /\ log'.latest = log.latest /\ log'.noted = log.noted
  BY <1>1, <1>4 DEF Logs, Startable
<1>8. /\ hist' \in Histories /\ hist'.held = hist.held /\ hist'.returned = hist.returned
      /\ hist'.unfixed = hist.unfixed
  BY <1>1, <1>5 DEF Histories
<1>9. Typed'
  BY <1>1, <1>6, <1>7, <1>8 DEF Typed, BoundsKept
<1>10. PendingFits'
  BY <1>6 DEF PendingFits
<1>11. TaskPlaced'
  BY <1>6 DEF TaskPlaced, Settled, Placed, InHand, Between
<1>12. LeaseKnown'
  BY <1>1, <1>6, <1>7, <1>8, TaskCycleAssumption
     DEF LeaseKnown, Settled, Startable
<1>13. StartsAnswered'
  BY <1>1, <1>6, <1>7, <1>8 DEF StartsAnswered, Settled, EffectivelyCompleted
<1>14. Counted'
  BY <1>1, <1>6, <1>7, <1>8 DEF Counted, Settled
<1>15. Replays'
  BY <1>1, <1>6, <1>7, <1>8 DEF Replays, Settled, Greens
<1>16. PlansFresh'
  BY <1>1, <1>6, <1>7, <1>8 DEF PlansFresh, Settled
<1>17. WorkIsOpenAndLeased'
  BY <1>1, <1>6, <1>7, <1>8 DEF WorkIsOpenAndLeased, Settled, Startable
<1>18. GateReached'
  BY <1>1, <1>6, <1>7, <1>8 DEF GateReached, Settled
<1>19. Free(s') /\ s'.pending = None
  BY <1>6 DEF Startable, Free, Writing, Reviews, Settled, PlansFresh
<1>20. Startable(ev.task)' /\ s'.lock /\ log'.lease = ev.task /\ ~log'.stale
  BY <1>6, <1>7 DEF Startable, EffectivelyCompleted
<1> QED
  BY <1>9, <1>10, <1>11, <1>12, <1>13, <1>14, <1>15, <1>16, <1>17, <1>18, <1>19,
     <1>20
     DEF Settled

(* A lease released.                                                       *)
LEMMA ReleaseSettles ==
    ASSUME Settled, NEW ev, AppendEvent(ev), ev.e = "released",
           s.task = None, s.sub \in {"TASK_DISPATCH", "ISLAND_GATE_2"}
    PROVE  Settled' /\ Free(s') /\ s'.pending = None
<1> DEFINE u == Cleared(s)
<1>1. s \in States /\ log \in Logs /\ hist \in Histories /\ BoundsKept
  BY AppendBounds DEF Settled, Typed
<1>2. /\ u \in States /\ u.pending = None /\ u.sub = s.sub /\ u.awaiting = s.awaiting
      /\ u.target = s.target /\ u.doc = s.doc /\ u.produced = s.produced
      /\ u.review = s.review /\ u.graph = s.graph /\ u.refs = s.refs /\ u.stub = s.stub
      /\ u.task = s.task /\ u.green = s.green /\ u.count = s.count
      /\ u.retained = s.retained /\ u.waived = s.waived /\ u.lock = s.lock
  BY <1>1, ClearedEffect
<1>3. s' = [u EXCEPT !.lock = FALSE]
  BY DEF AppendEvent, Reduce, Cleared
<1>4. log' = [log EXCEPT !.lease = None, !.stale = FALSE]
  BY DEF AppendEvent, Record
<1>5. hist' = hist
  BY DEF AppendEvent, Histories
<1> HIDE DEF u
<1>6. /\ s' \in States /\ s'.pending = None /\ s'.sub = s.sub
      /\ s'.awaiting = s.awaiting /\ s'.target = s.target /\ s'.doc = s.doc
      /\ s'.produced = s.produced /\ s'.review = s.review /\ s'.graph = s.graph
      /\ s'.refs = s.refs /\ s'.stub = s.stub /\ s'.task = s.task /\ s'.green = s.green
      /\ s'.count = s.count /\ s'.retained = s.retained /\ s'.waived = s.waived
      /\ s'.lock = FALSE
  <2>1. u \in States
    BY <1>2
  <2>2. s' \in States
    BY <2>1, <1>3, ZenonT(40) DEF States
  <2>3. /\ s'.pending = u.pending /\ s'.sub = u.sub /\ s'.awaiting = u.awaiting
        /\ s'.target = u.target /\ s'.doc = u.doc /\ s'.produced = u.produced
        /\ s'.review = u.review /\ s'.graph = u.graph /\ s'.refs = u.refs
        /\ s'.stub = u.stub /\ s'.task = u.task /\ s'.green = u.green
        /\ s'.count = u.count /\ s'.retained = u.retained /\ s'.waived = u.waived
        /\ s'.lock = FALSE
    BY <2>1, <1>3 DEF States
  <2> QED
    BY <2>2, <2>3, <1>2
<1>7. /\ log' \in Logs /\ log'.ever = log.ever /\ log'.done = log.done
      /\ log'.started = log.started /\ log'.waived = log.waived /\ log'.lease = None
      /\ log'.stale = FALSE /\ log'.family = log.family /\ log'.greened = log.greened
      /\ log'.pinned = log.pinned /\ log'.latest = log.latest /\ log'.noted = log.noted
  BY <1>1, <1>4 DEF Logs
<1>8. /\ hist' \in Histories /\ hist'.held = hist.held /\ hist'.returned = hist.returned
      /\ hist'.unfixed = hist.unfixed
  BY <1>1, <1>5 DEF Histories
<1>9. Typed'
  BY <1>1, <1>6, <1>7, <1>8 DEF Typed, BoundsKept
<1>10. PendingFits'
  BY <1>6 DEF PendingFits
<1>11. TaskPlaced'
  BY <1>6 DEF TaskPlaced, Settled, Placed, InHand, Between
<1>12. LeaseKnown'
  BY <1>1, <1>6, <1>7, <1>8 DEF LeaseKnown, Settled
<1>13. StartsAnswered'
  BY <1>1, <1>6, <1>7, <1>8 DEF StartsAnswered, Settled, EffectivelyCompleted
<1>14. Counted'
  BY <1>1, <1>6, <1>7, <1>8 DEF Counted, Settled
<1>15. Replays'
  BY <1>1, <1>6, <1>7, <1>8 DEF Replays, Settled, Greens
<1>16. PlansFresh'
  BY <1>1, <1>6, <1>7, <1>8 DEF PlansFresh, Settled
<1>17. WorkIsOpenAndLeased'
  BY <1>1, <1>6, <1>7, <1>8 DEF WorkIsOpenAndLeased, Settled
<1>18. GateReached'
  BY <1>1, <1>6, <1>7, <1>8 DEF GateReached, Settled
<1>19. Free(s') /\ s'.pending = None
  BY <1>6 DEF Free, Writing, Reviews, Settled, PlansFresh
<1> QED
  BY <1>9, <1>10, <1>11, <1>12, <1>13, <1>14, <1>15, <1>16, <1>17, <1>18, <1>19
     DEF Settled

(* A task started under its lease.                                         *)
LEMMA StartSettles ==
    ASSUME Settled, NEW ev, AppendEvent(ev), ev.e = "started", Startable(ev.task),
           s.lock, log.lease = ev.task, ~log.stale
    PROVE  Settled' /\ Free(s') /\ s'.pending = None
<1> DEFINE u == Cleared(s)
<1>1. s \in States /\ log \in Logs /\ hist \in Histories /\ BoundsKept
  BY AppendBounds DEF Settled, Typed
<1>2. /\ u \in States /\ u.pending = None /\ u.sub = s.sub /\ u.awaiting = s.awaiting
      /\ u.target = s.target /\ u.doc = s.doc /\ u.produced = s.produced
      /\ u.review = s.review /\ u.graph = s.graph /\ u.refs = s.refs /\ u.stub = s.stub
      /\ u.task = s.task /\ u.green = s.green /\ u.count = s.count
      /\ u.retained = s.retained /\ u.waived = s.waived /\ u.lock = s.lock
  BY <1>1, ClearedEffect
<1>3. s' = [u EXCEPT !.task = ev.task, !.sub = "RED", !.attempt = 0, !.green = FALSE,
                    !.r = FALSE, !.stub = FALSE, !.doc = FALSE, !.produced = FALSE]
  BY DEF AppendEvent, Reduce, Cleared, OnTaskStarted, ResetDoc
<1>4. log' = [log EXCEPT !.started = @ \cup {ev.task}, !.latest = ev.task, !.greened = FALSE,
                        !.noted = FALSE, !.registered = FALSE]
  BY DEF AppendEvent, Record
<1>5. hist' = [hist EXCEPT !.held = FALSE, !.unfixed = FALSE]
  BY DEF AppendEvent, Histories
<1> HIDE DEF u
<1>0. /\ ev.task \in Tasks \ EffectivelyCompleted /\ s.refs
      /\ log.started \subseteq EffectivelyCompleted /\ ev.task # None
  BY TaskCycleAssumption DEF Startable
<1>00. 0 \in 0..AttemptLimit
  BY TaskCycleAssumption
<1>6. /\ s' \in States /\ s'.pending = None /\ s'.sub = "RED"
      /\ s'.awaiting = s.awaiting /\ s'.target = s.target /\ s'.doc = FALSE
      /\ s'.produced = FALSE /\ s'.review = s.review /\ s'.graph = s.graph
      /\ s'.refs = s.refs /\ s'.stub = FALSE /\ s'.task = ev.task /\ s'.green = FALSE
      /\ s'.count = s.count /\ s'.retained = s.retained /\ s'.waived = s.waived
      /\ s'.lock = s.lock
  <2>1. u \in States
    BY <1>2
  <2>0. "RED" \in Substates
    BY DEF Substates, Reviews
  <2>2. s' \in States
    BY <2>1, <1>3, <2>0, <1>0, <1>00, ZenonT(40) DEF States
  <2>3. /\ s'.pending = u.pending /\ s'.sub = "RED" /\ s'.awaiting = u.awaiting
        /\ s'.target = u.target /\ s'.doc = FALSE /\ s'.produced = FALSE
        /\ s'.review = u.review /\ s'.graph = u.graph /\ s'.refs = u.refs
        /\ s'.stub = FALSE /\ s'.task = ev.task /\ s'.green = FALSE
        /\ s'.count = u.count /\ s'.retained = u.retained /\ s'.waived = u.waived
        /\ s'.lock = u.lock
    BY <2>1, <1>3, <1>0, <1>00 DEF States
  <2> QED
    BY <2>2, <2>3, <1>2
<1>7. /\ log' \in Logs /\ log'.ever = log.ever /\ log'.done = log.done
      /\ log'.started = log.started \cup {ev.task} /\ log'.waived = log.waived
      /\ log'.lease = log.lease /\ log'.stale = log.stale /\ log'.family = log.family
      /\ log'.greened = FALSE /\ log'.pinned = log.pinned /\ log'.latest = ev.task
      /\ log'.noted = FALSE
  BY <1>1, <1>4, <1>0 DEF Logs
<1>8. /\ hist' \in Histories /\ hist'.held = FALSE /\ hist'.returned = hist.returned
      /\ hist'.unfixed = FALSE
  BY <1>1, <1>5 DEF Histories
<1>9. Typed'
  BY <1>1, <1>6, <1>7, <1>8 DEF Typed, BoundsKept
<1>10. PendingFits'
  BY <1>6 DEF PendingFits
<1>11. TaskPlaced'
  BY <1>6 DEF TaskPlaced, Settled, Placed, InHand, Between
<1>12. LeaseKnown'
  BY <1>1, <1>6, <1>7, <1>8, <1>0 DEF LeaseKnown, Settled
<1>13. StartsAnswered'
  BY <1>1, <1>6, <1>7, <1>8, <1>0
     DEF StartsAnswered, Settled, EffectivelyCompleted
<1>14. Counted'
  BY <1>1, <1>6, <1>7, <1>8 DEF Counted, Settled
<1>15. Replays'
  BY <1>1, <1>6, <1>7, <1>8 DEF Replays, Settled, Greens
<1>16. PlansFresh'
  BY <1>1, <1>6, <1>7, <1>8 DEF PlansFresh, Settled
<1>17. WorkIsOpenAndLeased'
  BY <1>1, <1>6, <1>7, <1>8, <1>0
     DEF WorkIsOpenAndLeased, Settled, EffectivelyCompleted
<1>18. GateReached'
  BY <1>1, <1>6, <1>7, <1>8 DEF GateReached, Settled
<1>19. Free(s') /\ s'.pending = None
  BY <1>6 DEF Free, Writing, Reviews, Settled, PlansFresh
<1> QED
  BY <1>9, <1>10, <1>11, <1>12, <1>13, <1>14, <1>15, <1>16, <1>17, <1>18, <1>19
     DEF Settled

(* A fix by Shield pinned.                                                 *)
LEMMA PinSettles ==
    ASSUME Settled, NEW ev, AppendEvent(ev), ev.e = "red", ev.how = "shield_fix", Pinning(ev)
    PROVE  Settled' /\ Free(s') /\ s'.pending = None
<1> DEFINE u == Cleared(s)
<1>1. s \in States /\ log \in Logs /\ hist \in Histories /\ BoundsKept
  BY AppendBounds DEF Settled, Typed
<1>2. /\ u \in States /\ u.pending = None /\ u.sub = s.sub /\ u.awaiting = s.awaiting
      /\ u.target = s.target /\ u.doc = s.doc /\ u.produced = s.produced
      /\ u.review = s.review /\ u.graph = s.graph /\ u.refs = s.refs /\ u.stub = s.stub
      /\ u.task = s.task /\ u.green = s.green /\ u.count = s.count
      /\ u.retained = s.retained /\ u.waived = s.waived /\ u.lock = s.lock
  BY <1>1, ClearedEffect
<1>3. s' = [u EXCEPT !.r = TRUE]
  BY DEF AppendEvent, Reduce, Cleared, OnRedCheckpointed
<1>4. log' = [log EXCEPT !.family = @ \cup ({ev.task} \cap Tasks), !.greened = FALSE,
                        !.pinned = TRUE]
  BY DEF AppendEvent, Record
<1>5. hist' = [hist EXCEPT !.unfixed = FALSE]
  BY DEF AppendEvent, Histories
<1> HIDE DEF u
<1>6. /\ s' \in States /\ s'.pending = None /\ s'.sub = s.sub
      /\ s'.awaiting = s.awaiting /\ s'.target = s.target /\ s'.doc = s.doc
      /\ s'.produced = s.produced /\ s'.review = s.review /\ s'.graph = s.graph
      /\ s'.refs = s.refs /\ s'.stub = s.stub /\ s'.task = s.task /\ s'.green = s.green
      /\ s'.count = s.count /\ s'.retained = s.retained /\ s'.waived = s.waived
      /\ s'.lock = s.lock
  <2>1. u \in States
    BY <1>2
  <2>2. s' \in States
    BY <2>1, <1>3 DEF States
  <2>3. /\ s'.pending = u.pending /\ s'.sub = u.sub /\ s'.awaiting = u.awaiting
        /\ s'.target = u.target /\ s'.doc = u.doc /\ s'.produced = u.produced
        /\ s'.review = u.review /\ s'.graph = u.graph /\ s'.refs = u.refs
        /\ s'.stub = u.stub /\ s'.task = u.task /\ s'.green = u.green
        /\ s'.count = u.count /\ s'.retained = u.retained /\ s'.waived = u.waived
        /\ s'.lock = u.lock
    BY <2>1, <1>3 DEF States
  <2> QED
    BY <2>2, <2>3, <1>2
<1>7. /\ log' \in Logs /\ log'.ever = log.ever /\ log'.done = log.done
      /\ log'.started = log.started /\ log'.waived = log.waived
      /\ log'.lease = log.lease /\ log'.stale = log.stale
      /\ log'.family = log.family \cup ({ev.task} \cap Tasks) /\ log'.greened = FALSE
      /\ log'.pinned = TRUE /\ log'.latest = log.latest /\ log'.noted = log.noted
  BY <1>1, <1>4 DEF Logs
<1>8. /\ hist' \in Histories /\ hist'.held = hist.held /\ hist'.returned = hist.returned
      /\ hist'.unfixed = FALSE
  BY <1>1, <1>5 DEF Histories
<1>9. Typed'
  BY <1>1, <1>6, <1>7, <1>8 DEF Typed, BoundsKept
<1>10. PendingFits'
  BY <1>6 DEF PendingFits
<1>11. TaskPlaced'
  BY <1>6 DEF TaskPlaced, Settled, Placed, InHand, Between
<1>12. LeaseKnown'
  BY <1>1, <1>6, <1>7, <1>8 DEF LeaseKnown, Settled
<1>13. StartsAnswered'
  BY <1>1, <1>6, <1>7, <1>8
     DEF StartsAnswered, Settled, EffectivelyCompleted, Pinning
<1>14. Counted'
  BY <1>1, <1>6, <1>7, <1>8 DEF Counted, Settled
<1>15. Replays'
  BY <1>1, <1>6, <1>7, <1>8 DEF Replays, Settled, Greens, Pinning
<1>16. PlansFresh'
  BY <1>1, <1>6, <1>7, <1>8 DEF PlansFresh, Settled, Pinning
<1>17. WorkIsOpenAndLeased'
  BY <1>1, <1>6, <1>7, <1>8 DEF WorkIsOpenAndLeased, Settled
<1>18. GateReached'
  BY <1>1, <1>6, <1>7, <1>8 DEF GateReached, Settled, Pinning
<1>19. Free(s') /\ s'.pending = None
  BY <1>6 DEF Pinning, Free, Writing, Reviews, Settled, PlansFresh
<1> QED
  BY <1>9, <1>10, <1>11, <1>12, <1>13, <1>14, <1>15, <1>16, <1>17, <1>18, <1>19
     DEF Settled

(* A red checkpointed.                                                     *)
LEMMA CheckpointSettles ==
    ASSUME Settled, NEW ev, AppendEvent(ev), ev.e = "red", ev.how # "shield_fix",
           s.sub = "RED_CHECKPOINT" \/ (s.sub = "RED" /\ s.task # None)
    PROVE  Settled' /\ Free(s') /\ s'.pending = None
<1> DEFINE u == Cleared(s)
<1>1. s \in States /\ log \in Logs /\ hist \in Histories /\ BoundsKept
  BY AppendBounds DEF Settled, Typed
<1>2. /\ u \in States /\ u.pending = None /\ u.sub = s.sub /\ u.awaiting = s.awaiting
      /\ u.target = s.target /\ u.doc = s.doc /\ u.produced = s.produced
      /\ u.review = s.review /\ u.graph = s.graph /\ u.refs = s.refs /\ u.stub = s.stub
      /\ u.task = s.task /\ u.green = s.green /\ u.count = s.count
      /\ u.retained = s.retained /\ u.waived = s.waived /\ u.lock = s.lock
  BY <1>1, ClearedEffect
<1>3. s' = [u EXCEPT !.r = TRUE, !.sub = "PRISM_RED", !.review = FALSE]
  BY DEF AppendEvent, Reduce, Cleared, OnRedCheckpointed, ResetReview
<1>4. log' = [log EXCEPT !.family = @ \cup ({ev.task} \cap Tasks), !.greened = FALSE,
                        !.pinned = TRUE]
  BY DEF AppendEvent, Record
<1>5. hist' = [hist EXCEPT !.unfixed = FALSE]
  BY DEF AppendEvent, Histories
<1> HIDE DEF u
<1>6. /\ s' \in States /\ s'.pending = None /\ s'.sub = "PRISM_RED"
      /\ s'.awaiting = s.awaiting /\ s'.target = s.target /\ s'.doc = s.doc
      /\ s'.produced = s.produced /\ s'.review = FALSE /\ s'.graph = s.graph
      /\ s'.refs = s.refs /\ s'.stub = s.stub /\ s'.task = s.task /\ s'.green = s.green
      /\ s'.count = s.count /\ s'.retained = s.retained /\ s'.waived = s.waived
      /\ s'.lock = s.lock
  <2>1. u \in States
    BY <1>2
  <2>0. "PRISM_RED" \in Substates
    BY DEF Substates, Reviews
  <2>2. s' \in States
    BY <2>1, <1>3, <2>0 DEF States
  <2>3. /\ s'.pending = u.pending /\ s'.sub = "PRISM_RED" /\ s'.awaiting = u.awaiting
        /\ s'.target = u.target /\ s'.doc = u.doc /\ s'.produced = u.produced
        /\ s'.review = FALSE /\ s'.graph = u.graph /\ s'.refs = u.refs
        /\ s'.stub = u.stub /\ s'.task = u.task /\ s'.green = u.green
        /\ s'.count = u.count /\ s'.retained = u.retained /\ s'.waived = u.waived
        /\ s'.lock = u.lock
    BY <2>1, <1>3 DEF States
  <2> QED
    BY <2>2, <2>3, <1>2
<1>7. /\ log' \in Logs /\ log'.ever = log.ever /\ log'.done = log.done
      /\ log'.started = log.started /\ log'.waived = log.waived
      /\ log'.lease = log.lease /\ log'.stale = log.stale
      /\ log'.family = log.family \cup ({ev.task} \cap Tasks) /\ log'.greened = FALSE
      /\ log'.pinned = TRUE /\ log'.latest = log.latest /\ log'.noted = log.noted
  BY <1>1, <1>4 DEF Logs
<1>8. /\ hist' \in Histories /\ hist'.held = hist.held /\ hist'.returned = hist.returned
      /\ hist'.unfixed = FALSE
  BY <1>1, <1>5 DEF Histories
<1>9. Typed'
  BY <1>1, <1>6, <1>7, <1>8 DEF Typed, BoundsKept
<1>10. PendingFits'
  BY <1>6 DEF PendingFits
<1>11. TaskPlaced'
  BY <1>6 DEF TaskPlaced, Settled, Placed, InHand, Between
<1>12. LeaseKnown'
  BY <1>1, <1>6, <1>7, <1>8 DEF LeaseKnown, Settled
<1>13. StartsAnswered'
  BY <1>1, <1>6, <1>7, <1>8 DEF StartsAnswered, Settled, EffectivelyCompleted
<1>14. Counted'
  BY <1>1, <1>6, <1>7, <1>8 DEF Counted, Settled
<1>15. Replays'
  BY <1>1, <1>6, <1>7, <1>8 DEF Replays, Settled, Greens
<1>16. PlansFresh'
  BY <1>1, <1>6, <1>7, <1>8 DEF PlansFresh, Settled
<1>17. WorkIsOpenAndLeased'
  BY <1>1, <1>6, <1>7, <1>8 DEF WorkIsOpenAndLeased, Settled
<1>18. GateReached'
  BY <1>1, <1>6, <1>7, <1>8 DEF GateReached, Settled
<1>19. Free(s') /\ s'.pending = None
  BY <1>6 DEF Free, Writing, Reviews, Settled, PlansFresh
<1> QED
  BY <1>9, <1>10, <1>11, <1>12, <1>13, <1>14, <1>15, <1>16, <1>17, <1>18, <1>19
     DEF Settled

(* A fix by Shield committed.                                              *)
LEMMA TestSettles ==
    ASSUME Settled, NEW ev, AppendEvent(ev), ev.e = "test", Fixed(ev)
    PROVE  Settled' /\ Free(s') /\ s'.pending = None
           /\ s'.sub = s.sub /\ s'.doc = s.doc /\ s'.task = s.task
<1> DEFINE u == Cleared(s)
<1>1. s \in States /\ log \in Logs /\ hist \in Histories /\ BoundsKept
  BY AppendBounds DEF Settled, Typed
<1>2. /\ u \in States /\ u.pending = None /\ u.sub = s.sub /\ u.awaiting = s.awaiting
      /\ u.target = s.target /\ u.doc = s.doc /\ u.produced = s.produced
      /\ u.review = s.review /\ u.graph = s.graph /\ u.refs = s.refs /\ u.stub = s.stub
      /\ u.task = s.task /\ u.green = s.green /\ u.count = s.count
      /\ u.retained = s.retained /\ u.waived = s.waived /\ u.lock = s.lock
  BY <1>1, ClearedEffect
<1>3. s' = [u EXCEPT !.r = TRUE]
  BY DEF AppendEvent, Reduce, Cleared
<1>4. log' = [log EXCEPT !.seen = FALSE, !.noted = FALSE, !.registered = FALSE]
  BY DEF AppendEvent, Record
<1>5. hist' = hist
  BY DEF AppendEvent, Histories
<1> HIDE DEF u
<1>6. /\ s' \in States /\ s'.pending = None /\ s'.sub = s.sub
      /\ s'.awaiting = s.awaiting /\ s'.target = s.target /\ s'.doc = s.doc
      /\ s'.produced = s.produced /\ s'.review = s.review /\ s'.graph = s.graph
      /\ s'.refs = s.refs /\ s'.stub = s.stub /\ s'.task = s.task /\ s'.green = s.green
      /\ s'.count = s.count /\ s'.retained = s.retained /\ s'.waived = s.waived
      /\ s'.lock = s.lock
  <2>1. u \in States
    BY <1>2
  <2>2. s' \in States
    BY <2>1, <1>3 DEF States
  <2>3. /\ s'.pending = u.pending /\ s'.sub = u.sub /\ s'.awaiting = u.awaiting
        /\ s'.target = u.target /\ s'.doc = u.doc /\ s'.produced = u.produced
        /\ s'.review = u.review /\ s'.graph = u.graph /\ s'.refs = u.refs
        /\ s'.stub = u.stub /\ s'.task = u.task /\ s'.green = u.green
        /\ s'.count = u.count /\ s'.retained = u.retained /\ s'.waived = u.waived
        /\ s'.lock = u.lock
    BY <2>1, <1>3 DEF States
  <2> QED
    BY <2>2, <2>3, <1>2
<1>7. /\ log' \in Logs /\ log'.ever = log.ever /\ log'.done = log.done
      /\ log'.started = log.started /\ log'.waived = log.waived
      /\ log'.lease = log.lease /\ log'.stale = log.stale /\ log'.family = log.family
      /\ log'.greened = log.greened /\ log'.pinned = log.pinned
      /\ log'.latest = log.latest /\ log'.noted = FALSE
  BY <1>1, <1>4 DEF Logs
<1>8. /\ hist' \in Histories /\ hist'.held = hist.held /\ hist'.returned = hist.returned
      /\ hist'.unfixed = hist.unfixed
  BY <1>1, <1>5 DEF Histories
<1>9. Typed'
  BY <1>1, <1>6, <1>7, <1>8 DEF Typed, BoundsKept
<1>10. PendingFits'
  BY <1>6 DEF PendingFits
<1>11. TaskPlaced'
  BY <1>6 DEF TaskPlaced, Settled, Placed, InHand, Between
<1>12. LeaseKnown'
  BY <1>1, <1>6, <1>7, <1>8 DEF LeaseKnown, Settled
<1>13. StartsAnswered'
  BY <1>1, <1>6, <1>7, <1>8
     DEF StartsAnswered, Settled, EffectivelyCompleted, Fixed
<1>14. Counted'
  BY <1>1, <1>6, <1>7, <1>8 DEF Counted, Settled
<1>15. Replays'
  BY <1>1, <1>6, <1>7, <1>8 DEF Replays, Settled, Greens, Fixed
<1>16. PlansFresh'
  BY <1>1, <1>6, <1>7, <1>8 DEF PlansFresh, Settled, Fixed
<1>17. WorkIsOpenAndLeased'
  BY <1>1, <1>6, <1>7, <1>8 DEF WorkIsOpenAndLeased, Settled
<1>18. GateReached'
  BY <1>1, <1>6, <1>7, <1>8 DEF GateReached, Settled, Fixed
<1>19. Free(s') /\ s'.pending = None
  BY <1>6 DEF Fixed, Free, Writing, Reviews, Settled, PlansFresh
<1>20. s'.sub = s.sub /\ s'.doc = s.doc /\ s'.task = s.task
  BY <1>6
<1> QED
  BY <1>9, <1>10, <1>11, <1>12, <1>13, <1>14, <1>15, <1>16, <1>17, <1>18, <1>19,
     <1>20
     DEF Settled

(* A green committed.                                                      *)
LEMMA GreenSettles ==
    ASSUME Settled, NEW ev, AppendEvent(ev), ev.e = "green", s.sub = "GREEN_COMMIT"
    PROVE  Settled' /\ Free(s') /\ s'.pending = None
<1> DEFINE u == Cleared(s)
<1>1. s \in States /\ log \in Logs /\ hist \in Histories /\ BoundsKept
  BY AppendBounds DEF Settled, Typed
<1>2. /\ u \in States /\ u.pending = None /\ u.sub = s.sub /\ u.awaiting = s.awaiting
      /\ u.target = s.target /\ u.doc = s.doc /\ u.produced = s.produced
      /\ u.review = s.review /\ u.graph = s.graph /\ u.refs = s.refs /\ u.stub = s.stub
      /\ u.task = s.task /\ u.green = s.green /\ u.count = s.count
      /\ u.retained = s.retained /\ u.waived = s.waived /\ u.lock = s.lock
  BY <1>1, ClearedEffect
<1>3. s' = [u EXCEPT !.green = TRUE, !.sub = "REFACTOR", !.doc = FALSE, !.produced = FALSE]
  BY DEF AppendEvent, Reduce, Cleared, ResetDoc
<1>4. log' = [log EXCEPT !.greened = TRUE,
                        !.seen = FALSE, !.noted = FALSE, !.registered = FALSE]
  BY DEF AppendEvent, Record
<1>5. hist' = [hist EXCEPT !.unfixed = FALSE]
  BY DEF AppendEvent, Histories
<1> HIDE DEF u
<1>6. /\ s' \in States /\ s'.pending = None /\ s'.sub = "REFACTOR"
      /\ s'.awaiting = s.awaiting /\ s'.target = s.target /\ s'.doc = FALSE
      /\ s'.produced = FALSE /\ s'.review = s.review /\ s'.graph = s.graph
      /\ s'.refs = s.refs /\ s'.stub = s.stub /\ s'.task = s.task /\ s'.green = TRUE
      /\ s'.count = s.count /\ s'.retained = s.retained /\ s'.waived = s.waived
      /\ s'.lock = s.lock
  <2>1. u \in States
    BY <1>2
  <2>0. "REFACTOR" \in Substates
    BY DEF Substates, Reviews
  <2>2. s' \in States
    BY <2>1, <1>3, <2>0 DEF States
  <2>3. /\ s'.pending = u.pending /\ s'.sub = "REFACTOR" /\ s'.awaiting = u.awaiting
        /\ s'.target = u.target /\ s'.doc = FALSE /\ s'.produced = FALSE
        /\ s'.review = u.review /\ s'.graph = u.graph /\ s'.refs = u.refs
        /\ s'.stub = u.stub /\ s'.task = u.task /\ s'.green = TRUE /\ s'.count = u.count
        /\ s'.retained = u.retained /\ s'.waived = u.waived /\ s'.lock = u.lock
    BY <2>1, <1>3 DEF States
  <2> QED
    BY <2>2, <2>3, <1>2
<1>7. /\ log' \in Logs /\ log'.ever = log.ever /\ log'.done = log.done
      /\ log'.started = log.started /\ log'.waived = log.waived
      /\ log'.lease = log.lease /\ log'.stale = log.stale /\ log'.family = log.family
      /\ log'.greened = TRUE /\ log'.pinned = log.pinned /\ log'.latest = log.latest
      /\ log'.noted = FALSE
  BY <1>1, <1>4 DEF Logs
<1>8. /\ hist' \in Histories /\ hist'.held = hist.held /\ hist'.returned = hist.returned
      /\ hist'.unfixed = FALSE
  BY <1>1, <1>5 DEF Histories
<1>9. Typed'
  BY <1>1, <1>6, <1>7, <1>8 DEF Typed, BoundsKept
<1>10. PendingFits'
  BY <1>6 DEF PendingFits
<1>11. TaskPlaced'
  BY <1>6 DEF TaskPlaced, Settled, Placed, InHand, Between
<1>12. LeaseKnown'
  BY <1>1, <1>6, <1>7, <1>8 DEF LeaseKnown, Settled
<1>13. StartsAnswered'
  BY <1>1, <1>6, <1>7, <1>8 DEF StartsAnswered, Settled, EffectivelyCompleted
<1>14. Counted'
  BY <1>1, <1>6, <1>7, <1>8 DEF Counted, Settled
<1>15. Replays'
  BY <1>1, <1>6, <1>7, <1>8 DEF Replays, Settled, Greens
<1>16. PlansFresh'
  BY <1>1, <1>6, <1>7, <1>8 DEF PlansFresh, Settled
<1>17. WorkIsOpenAndLeased'
  BY <1>1, <1>6, <1>7, <1>8 DEF WorkIsOpenAndLeased, Settled
<1>18. GateReached'
  BY <1>1, <1>6, <1>7, <1>8 DEF GateReached, Settled
<1>19. Free(s') /\ s'.pending = None
  BY <1>6 DEF Free, Writing, Reviews, Settled, PlansFresh
<1> QED
  BY <1>9, <1>10, <1>11, <1>12, <1>13, <1>14, <1>15, <1>16, <1>17, <1>18, <1>19
     DEF Settled

(* A green without a change.                                               *)
LEMMA NoChangeSettles ==
    ASSUME Settled, NEW ev, AppendEvent(ev), ev.e = "green_no_change", s.sub = "GREEN_COMMIT"
    PROVE  Settled' /\ Free(s') /\ s'.pending = None
<1> DEFINE u == Cleared(s)
<1>1. s \in States /\ log \in Logs /\ hist \in Histories /\ BoundsKept
  BY AppendBounds DEF Settled, Typed
<1>2. /\ u \in States /\ u.pending = None /\ u.sub = s.sub /\ u.awaiting = s.awaiting
      /\ u.target = s.target /\ u.doc = s.doc /\ u.produced = s.produced
      /\ u.review = s.review /\ u.graph = s.graph /\ u.refs = s.refs /\ u.stub = s.stub
      /\ u.task = s.task /\ u.green = s.green /\ u.count = s.count
      /\ u.retained = s.retained /\ u.waived = s.waived /\ u.lock = s.lock
  BY <1>1, ClearedEffect
<1>3. s' = [u EXCEPT !.green = TRUE, !.sub = "TASK_REVIEW"]
  BY DEF AppendEvent, Reduce, Cleared
<1>4. log' = log
  BY DEF AppendEvent, Record
<1>5. hist' = hist
  BY DEF AppendEvent, Histories
<1> HIDE DEF u
<1>6. /\ s' \in States /\ s'.pending = None /\ s'.sub = "TASK_REVIEW"
      /\ s'.awaiting = s.awaiting /\ s'.target = s.target /\ s'.doc = s.doc
      /\ s'.produced = s.produced /\ s'.review = s.review /\ s'.graph = s.graph
      /\ s'.refs = s.refs /\ s'.stub = s.stub /\ s'.task = s.task /\ s'.green = TRUE
      /\ s'.count = s.count /\ s'.retained = s.retained /\ s'.waived = s.waived
      /\ s'.lock = s.lock
  <2>1. u \in States
    BY <1>2
  <2>0. "TASK_REVIEW" \in Substates
    BY DEF Substates, Reviews
  <2>2. s' \in States
    BY <2>1, <1>3, <2>0 DEF States
  <2>3. /\ s'.pending = u.pending /\ s'.sub = "TASK_REVIEW" /\ s'.awaiting = u.awaiting
        /\ s'.target = u.target /\ s'.doc = u.doc /\ s'.produced = u.produced
        /\ s'.review = u.review /\ s'.graph = u.graph /\ s'.refs = u.refs
        /\ s'.stub = u.stub /\ s'.task = u.task /\ s'.green = TRUE /\ s'.count = u.count
        /\ s'.retained = u.retained /\ s'.waived = u.waived /\ s'.lock = u.lock
    BY <2>1, <1>3 DEF States
  <2> QED
    BY <2>2, <2>3, <1>2
<1>7. /\ log' \in Logs /\ log'.ever = log.ever /\ log'.done = log.done
      /\ log'.started = log.started /\ log'.waived = log.waived
      /\ log'.lease = log.lease /\ log'.stale = log.stale /\ log'.family = log.family
      /\ log'.greened = log.greened /\ log'.pinned = log.pinned
      /\ log'.latest = log.latest /\ log'.noted = log.noted
  BY <1>1, <1>4 DEF Logs
<1>8. /\ hist' \in Histories /\ hist'.held = hist.held /\ hist'.returned = hist.returned
      /\ hist'.unfixed = hist.unfixed
  BY <1>1, <1>5 DEF Histories
<1>9. Typed'
  BY <1>1, <1>6, <1>7, <1>8 DEF Typed, BoundsKept
<1>10. PendingFits'
  BY <1>6 DEF PendingFits
<1>11. TaskPlaced'
  BY <1>6 DEF TaskPlaced, Settled, Placed, InHand, Between
<1>12. LeaseKnown'
  BY <1>1, <1>6, <1>7, <1>8 DEF LeaseKnown, Settled
<1>13. StartsAnswered'
  BY <1>1, <1>6, <1>7, <1>8 DEF StartsAnswered, Settled, EffectivelyCompleted
<1>14. Counted'
  BY <1>1, <1>6, <1>7, <1>8 DEF Counted, Settled
<1>15. Replays'
  BY <1>1, <1>6, <1>7, <1>8 DEF Replays, Settled, Greens
<1>16. PlansFresh'
  BY <1>1, <1>6, <1>7, <1>8 DEF PlansFresh, Settled
<1>17. WorkIsOpenAndLeased'
  BY <1>1, <1>6, <1>7, <1>8 DEF WorkIsOpenAndLeased, Settled
<1>18. GateReached'
  BY <1>1, <1>6, <1>7, <1>8 DEF GateReached, Settled
<1>19. Free(s') /\ s'.pending = None
  BY <1>6 DEF Free, Writing, Reviews, Settled, PlansFresh
<1> QED
  BY <1>9, <1>10, <1>11, <1>12, <1>13, <1>14, <1>15, <1>16, <1>17, <1>18, <1>19
     DEF Settled

(* A refactoring committed.                                                *)
LEMMA RefactorSettles ==
    ASSUME Settled, NEW ev, AppendEvent(ev), ev.e = "refactor", s.sub = "REFACTOR_GATE"
    PROVE  Settled' /\ Free(s') /\ s'.pending = None
<1> DEFINE u == Cleared(s)
<1>1. s \in States /\ log \in Logs /\ hist \in Histories /\ BoundsKept
  BY AppendBounds DEF Settled, Typed
<1>2. /\ u \in States /\ u.pending = None /\ u.sub = s.sub /\ u.awaiting = s.awaiting
      /\ u.target = s.target /\ u.doc = s.doc /\ u.produced = s.produced
      /\ u.review = s.review /\ u.graph = s.graph /\ u.refs = s.refs /\ u.stub = s.stub
      /\ u.task = s.task /\ u.green = s.green /\ u.count = s.count
      /\ u.retained = s.retained /\ u.waived = s.waived /\ u.lock = s.lock
  BY <1>1, ClearedEffect
<1>3. s' = [u EXCEPT !.sub = "TASK_REVIEW", !.doc = FALSE, !.produced = FALSE]
  BY DEF AppendEvent, Reduce, Cleared, ResetDoc, Go
<1>4. log' = [log EXCEPT !.seen = FALSE, !.noted = FALSE, !.registered = FALSE]
  BY DEF AppendEvent, Record
<1>5. hist' = hist
  BY DEF AppendEvent, Histories
<1> HIDE DEF u
<1>6. /\ s' \in States /\ s'.pending = None /\ s'.sub = "TASK_REVIEW"
      /\ s'.awaiting = s.awaiting /\ s'.target = s.target /\ s'.doc = FALSE
      /\ s'.produced = FALSE /\ s'.review = s.review /\ s'.graph = s.graph
      /\ s'.refs = s.refs /\ s'.stub = s.stub /\ s'.task = s.task /\ s'.green = s.green
      /\ s'.count = s.count /\ s'.retained = s.retained /\ s'.waived = s.waived
      /\ s'.lock = s.lock
  <2>1. u \in States
    BY <1>2
  <2>0. "TASK_REVIEW" \in Substates
    BY DEF Substates, Reviews
  <2>2. s' \in States
    BY <2>1, <1>3, <2>0 DEF States
  <2>3. /\ s'.pending = u.pending /\ s'.sub = "TASK_REVIEW" /\ s'.awaiting = u.awaiting
        /\ s'.target = u.target /\ s'.doc = FALSE /\ s'.produced = FALSE
        /\ s'.review = u.review /\ s'.graph = u.graph /\ s'.refs = u.refs
        /\ s'.stub = u.stub /\ s'.task = u.task /\ s'.green = u.green
        /\ s'.count = u.count /\ s'.retained = u.retained /\ s'.waived = u.waived
        /\ s'.lock = u.lock
    BY <2>1, <1>3 DEF States
  <2> QED
    BY <2>2, <2>3, <1>2
<1>7. /\ log' \in Logs /\ log'.ever = log.ever /\ log'.done = log.done
      /\ log'.started = log.started /\ log'.waived = log.waived
      /\ log'.lease = log.lease /\ log'.stale = log.stale /\ log'.family = log.family
      /\ log'.greened = log.greened /\ log'.pinned = log.pinned
      /\ log'.latest = log.latest /\ log'.noted = FALSE
  BY <1>1, <1>4 DEF Logs
<1>8. /\ hist' \in Histories /\ hist'.held = hist.held /\ hist'.returned = hist.returned
      /\ hist'.unfixed = hist.unfixed
  BY <1>1, <1>5 DEF Histories
<1>9. Typed'
  BY <1>1, <1>6, <1>7, <1>8 DEF Typed, BoundsKept
<1>10. PendingFits'
  BY <1>6 DEF PendingFits
<1>11. TaskPlaced'
  BY <1>6 DEF TaskPlaced, Settled, Placed, InHand, Between
<1>12. LeaseKnown'
  BY <1>1, <1>6, <1>7, <1>8 DEF LeaseKnown, Settled
<1>13. StartsAnswered'
  BY <1>1, <1>6, <1>7, <1>8 DEF StartsAnswered, Settled, EffectivelyCompleted
<1>14. Counted'
  BY <1>1, <1>6, <1>7, <1>8 DEF Counted, Settled
<1>15. Replays'
  BY <1>1, <1>6, <1>7, <1>8 DEF Replays, Settled, Greens
<1>16. PlansFresh'
  BY <1>1, <1>6, <1>7, <1>8 DEF PlansFresh, Settled
<1>17. WorkIsOpenAndLeased'
  BY <1>1, <1>6, <1>7, <1>8 DEF WorkIsOpenAndLeased, Settled
<1>18. GateReached'
  BY <1>1, <1>6, <1>7, <1>8 DEF GateReached, Settled
<1>19. Free(s') /\ s'.pending = None
  BY <1>6 DEF Free, Writing, Reviews, Settled, PlansFresh
<1> QED
  BY <1>9, <1>10, <1>11, <1>12, <1>13, <1>14, <1>15, <1>16, <1>17, <1>18, <1>19
     DEF Settled

(* The stage left for one upstream.                                        *)
LEMMA RollbackSettles ==
    ASSUME Settled, NEW ev, AppendEvent(ev), ev.e = "rolled_back"
    PROVE  Settled' /\ Free(s') /\ s'.pending = None
<1> DEFINE u == Cleared(s)
<1>1. s \in States /\ log \in Logs /\ hist \in Histories /\ BoundsKept
  BY AppendBounds DEF Settled, Typed
<1>2. /\ u \in States /\ u.pending = None /\ u.sub = s.sub /\ u.awaiting = s.awaiting
      /\ u.target = s.target /\ u.doc = s.doc /\ u.produced = s.produced
      /\ u.review = s.review /\ u.graph = s.graph /\ u.refs = s.refs /\ u.stub = s.stub
      /\ u.task = s.task /\ u.green = s.green /\ u.count = s.count
      /\ u.retained = s.retained /\ u.waived = s.waived /\ u.lock = s.lock
  BY <1>1, ClearedEffect
<1>3. s' = [u EXCEPT !.sub = "LEFT"]
  BY DEF AppendEvent, Reduce, Cleared, Go
<1>4. log' = log
  BY DEF AppendEvent, Record
<1>5. hist' = hist
  BY DEF AppendEvent, Histories
<1> HIDE DEF u
<1>6. /\ s' \in States /\ s'.pending = None /\ s'.sub = "LEFT"
      /\ s'.awaiting = s.awaiting /\ s'.target = s.target /\ s'.doc = s.doc
      /\ s'.produced = s.produced /\ s'.review = s.review /\ s'.graph = s.graph
      /\ s'.refs = s.refs /\ s'.stub = s.stub /\ s'.task = s.task /\ s'.green = s.green
      /\ s'.count = s.count /\ s'.retained = s.retained /\ s'.waived = s.waived
      /\ s'.lock = s.lock
  <2>1. u \in States
    BY <1>2
  <2>0. "LEFT" \in Substates
    BY DEF Substates, Reviews
  <2>2. s' \in States
    BY <2>1, <1>3, <2>0 DEF States
  <2>3. /\ s'.pending = u.pending /\ s'.sub = "LEFT" /\ s'.awaiting = u.awaiting
        /\ s'.target = u.target /\ s'.doc = u.doc /\ s'.produced = u.produced
        /\ s'.review = u.review /\ s'.graph = u.graph /\ s'.refs = u.refs
        /\ s'.stub = u.stub /\ s'.task = u.task /\ s'.green = u.green
        /\ s'.count = u.count /\ s'.retained = u.retained /\ s'.waived = u.waived
        /\ s'.lock = u.lock
    BY <2>1, <1>3 DEF States
  <2> QED
    BY <2>2, <2>3, <1>2
<1>7. /\ log' \in Logs /\ log'.ever = log.ever /\ log'.done = log.done
      /\ log'.started = log.started /\ log'.waived = log.waived
      /\ log'.lease = log.lease /\ log'.stale = log.stale /\ log'.family = log.family
      /\ log'.greened = log.greened /\ log'.pinned = log.pinned
      /\ log'.latest = log.latest /\ log'.noted = log.noted
  BY <1>1, <1>4 DEF Logs
<1>8. /\ hist' \in Histories /\ hist'.held = hist.held /\ hist'.returned = hist.returned
      /\ hist'.unfixed = hist.unfixed
  BY <1>1, <1>5 DEF Histories
<1>9. Typed'
  BY <1>1, <1>6, <1>7, <1>8 DEF Typed, BoundsKept
<1>10. PendingFits'
  BY <1>6 DEF PendingFits
<1>11. TaskPlaced'
  BY <1>6 DEF TaskPlaced, Settled, Placed, InHand, Between
<1>12. LeaseKnown'
  BY <1>1, <1>6, <1>7, <1>8 DEF LeaseKnown, Settled
<1>13. StartsAnswered'
  BY <1>1, <1>6, <1>7, <1>8 DEF StartsAnswered, Settled, EffectivelyCompleted
<1>14. Counted'
  BY <1>1, <1>6, <1>7, <1>8 DEF Counted, Settled
<1>15. Replays'
  BY <1>1, <1>6, <1>7, <1>8 DEF Replays, Settled, Greens
<1>16. PlansFresh'
  BY <1>1, <1>6, <1>7, <1>8 DEF PlansFresh, Settled
<1>17. WorkIsOpenAndLeased'
  BY <1>1, <1>6, <1>7, <1>8 DEF WorkIsOpenAndLeased, Settled
<1>18. GateReached'
  BY <1>1, <1>6, <1>7, <1>8 DEF GateReached, Settled
<1>19. Free(s') /\ s'.pending = None
  BY <1>6 DEF Free, Writing, Reviews, Settled, PlansFresh
<1> QED
  BY <1>9, <1>10, <1>11, <1>12, <1>13, <1>14, <1>15, <1>16, <1>17, <1>18, <1>19
     DEF Settled
(* A graph committed: its completions are the retained ones.               *)
LEMMA GraphSettles ==
    ASSUME Settled, NEW ev, AppendEvent(ev), ev.e = "graph", s.sub = "PLANNING",
           ev.kept \subseteq Tasks
    PROVE  Settled' /\ Free(s') /\ s'.pending = None
<1> DEFINE u == Cleared(s)
           r == ev.kept \cap log.ever
           n == Cardinality(r)
           x == IF r = Tasks THEN "ISLAND_GATE_2" ELSE "ISLAND_GATE_1"
<1>1. s \in States /\ log \in Logs /\ hist \in Histories /\ BoundsKept
  BY AppendBounds DEF Settled, Typed
<1>2. /\ u \in States /\ u.pending = None /\ u.sub = s.sub /\ u.awaiting = s.awaiting
      /\ u.target = s.target /\ u.doc = s.doc /\ u.produced = s.produced
      /\ u.review = s.review /\ u.graph = s.graph /\ u.refs = s.refs /\ u.stub = s.stub
      /\ u.task = s.task /\ u.green = s.green /\ u.count = s.count
      /\ u.retained = s.retained /\ u.waived = s.waived /\ u.lock = s.lock
  BY <1>1, ClearedEffect
<1>3. s' = [u EXCEPT !.graph = TRUE, !.refs = TRUE, !.retained = r, !.count = n,
                    !.task = None, !.sub = x]
  BY DEF AppendEvent, Reduce, Cleared, OnTaskgraphCommitted
<1>4. log' = [log EXCEPT !.done = {}, !.started = {}, !.waived = {}, !.stale = (log.lease # None),
                        !.seen = FALSE, !.noted = FALSE, !.registered = FALSE]
  BY DEF AppendEvent, Record
<1>5. hist' = [hist EXCEPT !.held = FALSE, !.returned = FALSE, !.unfixed = FALSE]
  BY DEF AppendEvent, Histories
<1> HIDE DEF u
<1>0. /\ r \subseteq Tasks /\ n \in 0..Cardinality(Tasks) /\ n = Cardinality(r)
      /\ x = "ISLAND_GATE_1" \/ (x = "ISLAND_GATE_2" /\ r = Tasks)
  <2>1. r \subseteq Tasks
    OBVIOUS
  <2>2. IsFiniteSet(Tasks)
    BY TaskCycleAssumption
  <2>3. IsFiniteSet(r) /\ Cardinality(r) <= Cardinality(Tasks)
    BY <2>1, <2>2, FS_Subset
  <2>4. Cardinality(r) \in Nat /\ Cardinality(Tasks) \in Nat
    BY <2>2, <2>3, FS_CardinalityType
  <2> QED
    BY <2>1, <2>3, <2>4
<1> HIDE DEF r, n, x
<1>6. /\ s' \in States /\ s'.pending = None /\ s'.sub = x /\ s'.awaiting = s.awaiting
      /\ s'.target = s.target /\ s'.doc = s.doc /\ s'.produced = s.produced
      /\ s'.review = s.review /\ s'.graph = TRUE /\ s'.refs = TRUE /\ s'.stub = s.stub
      /\ s'.task = None /\ s'.green = s.green /\ s'.count = n /\ s'.retained = r
      /\ s'.waived = s.waived /\ s'.lock = s.lock
  <2>1. u \in States
    BY <1>2
  <2>0. x \in Substates
    BY <1>0 DEF Substates, Reviews
  <2>2. s' \in States
    BY <2>1, <1>3, <2>0, <1>0, ZenonT(40) DEF States
  <2>3. /\ s'.pending = u.pending /\ s'.sub = x /\ s'.awaiting = u.awaiting
        /\ s'.target = u.target /\ s'.doc = u.doc /\ s'.produced = u.produced
        /\ s'.review = u.review /\ s'.graph = TRUE /\ s'.refs = TRUE /\ s'.stub = u.stub
        /\ s'.task = None /\ s'.green = u.green /\ s'.count = n /\ s'.retained = r
        /\ s'.waived = u.waived /\ s'.lock = u.lock
    BY <2>1, <1>3, <1>0, ZenonT(40) DEF States
  <2> QED
    BY <2>2, <2>3, <1>2
<1>7. /\ log' \in Logs /\ log'.ever = log.ever /\ log'.done = {} /\ log'.started = {}
      /\ log'.waived = {} /\ log'.lease = log.lease /\ log'.stale = (log.lease # None)
      /\ log'.family = log.family /\ log'.greened = log.greened
      /\ log'.pinned = log.pinned /\ log'.latest = log.latest /\ log'.noted = FALSE
  <2> DEFINE b == log.lease # None
  <2>1. /\ b \in BOOLEAN /\ b = (log.lease # None)
        /\ log' = [log EXCEPT !.done = {}, !.started = {}, !.waived = {}, !.stale = b,
                             !.seen = FALSE, !.noted = FALSE, !.registered = FALSE]
    BY <1>4
  <2> HIDE DEF b
  <2>2. log' \in Logs
    BY <1>1, <2>1, ZenonT(40) DEF Logs
  <2>3. /\ log'.ever = log.ever /\ log'.done = {} /\ log'.started = {}
        /\ log'.waived = {} /\ log'.lease = log.lease /\ log'.stale = b
        /\ log'.family = log.family /\ log'.greened = log.greened
        /\ log'.pinned = log.pinned /\ log'.latest = log.latest /\ log'.noted = FALSE
    BY <1>1, <2>1 DEF Logs
  <2> QED
    BY <2>1, <2>2, <2>3
<1>8. /\ hist' \in Histories /\ hist'.held = FALSE /\ hist'.returned = FALSE
      /\ hist'.unfixed = FALSE
  BY <1>1, <1>5 DEF Histories
<1>9. Typed'
  BY <1>1, <1>6, <1>7, <1>8 DEF Typed, BoundsKept
<1>10. PendingFits'
  BY <1>6 DEF PendingFits
<1>11. TaskPlaced'
  BY <1>6, <1>0 DEF TaskPlaced, Settled, Placed, InHand, Between
<1>12. LeaseKnown'
  BY <1>1, <1>6, <1>7, <1>8, <1>0 DEF LeaseKnown, Settled
<1>13. StartsAnswered'
  BY <1>1, <1>6, <1>7, <1>8, <1>0
     DEF StartsAnswered, Settled, EffectivelyCompleted
<1>14. Counted'
  BY <1>1, <1>6, <1>7, <1>8, <1>0 DEF Counted, Settled
<1>15. Replays'
  BY <1>1, <1>6, <1>7, <1>8, <1>0 DEF Replays, Settled, Greens
<1>16. PlansFresh'
  BY <1>1, <1>6, <1>7, <1>8, <1>0 DEF PlansFresh, Settled
<1>17. WorkIsOpenAndLeased'
  BY <1>1, <1>6, <1>7, <1>8, <1>0 DEF WorkIsOpenAndLeased, Settled
<1>18. GateReached'
  BY <1>1, <1>6, <1>7, <1>8, <1>0 DEF GateReached, Settled
<1>19. Free(s') /\ s'.pending = None
  BY <1>0, <1>6 DEF Free, Writing, Reviews, Settled, PlansFresh
<1> QED
  BY <1>9, <1>10, <1>11, <1>12, <1>13, <1>14, <1>15, <1>16, <1>17, <1>18, <1>19
     DEF Settled

(* A task completed: the counter follows, and the last one opens the gate. *)
LEMMA CompletionSettles ==
    ASSUME Settled, NEW ev, AppendEvent(ev), ev.e = "completed", s.task # None, ev.task = s.task
    PROVE  /\ Settled' /\ Free(s') /\ s'.pending = None /\ s'.task = None
           /\ s'.sub \in {"TASK_DISPATCH", "ISLAND_GATE_2"}
<1> DEFINE u == Cleared(s)
           D == s.retained \cup log.done
           n == s.count + 1
           x == IF n >= Cardinality(Tasks) THEN "ISLAND_GATE_2" ELSE "TASK_DISPATCH"
<1>1. s \in States /\ log \in Logs /\ hist \in Histories /\ BoundsKept
  BY AppendBounds DEF Settled, Typed
<1>2. /\ u \in States /\ u.pending = None /\ u.sub = s.sub /\ u.awaiting = s.awaiting
      /\ u.target = s.target /\ u.doc = s.doc /\ u.produced = s.produced
      /\ u.review = s.review /\ u.graph = s.graph /\ u.refs = s.refs /\ u.stub = s.stub
      /\ u.task = s.task /\ u.green = s.green /\ u.count = s.count
      /\ u.retained = s.retained /\ u.waived = s.waived /\ u.lock = s.lock
  BY <1>1, ClearedEffect
<1>00. /\ ev.task = s.task /\ ev.task \in Tasks /\ s.refs /\ log.latest = ev.task
       /\ s.task \notin s.retained \cup log.done \cup log.waived
  BY <1>1 DEF Settled, WorkIsOpenAndLeased, LeaseKnown, States
<1>3. s' = [u EXCEPT !.count = n, !.task = None, !.green = FALSE, !.r = FALSE,
                    !.doc = FALSE, !.produced = FALSE, !.sub = x]
  BY <1>1, <1>2, <1>00
     DEF AppendEvent, Reduce, Cleared, OnTaskCompleted, ResetDoc,
         ClearResidency, Go, States
<1>4. log' = [log EXCEPT !.ever = @ \cup {ev.task}, !.done = @ \cup {ev.task}]
  BY DEF AppendEvent, Record
<1>5. hist' = hist
  BY DEF AppendEvent, Histories
<1> HIDE DEF u
<1>0. /\ n \in 0..Cardinality(Tasks) /\ n = Cardinality(D \cup {ev.task})
      /\ x = "TASK_DISPATCH" \/ (x = "ISLAND_GATE_2" /\ Tasks \subseteq D \cup {ev.task})
  <2> DEFINE E == D \cup {ev.task}
  <2>1. D \subseteq Tasks /\ E \subseteq Tasks /\ ev.task \notin D
    BY <1>1, <1>00 DEF States, Logs
  <2>2. IsFiniteSet(Tasks)
    BY TaskCycleAssumption
  <2>3. s.count = Cardinality(D)
    BY DEF Settled, LeaseKnown, Counted
  <2> HIDE DEF D
  <2>4. IsFiniteSet(D)
    BY <2>1, <2>2, FS_Subset
  <2>5. Cardinality(E) = Cardinality(D) + 1
    BY <2>1, <2>4, FS_AddElement
  <2>6. /\ IsFiniteSet(E) /\ Cardinality(E) <= Cardinality(Tasks)
        /\ Cardinality(E) = Cardinality(Tasks) => E = Tasks
    BY <2>1, <2>2, FS_Subset
  <2>7. /\ Cardinality(D) \in Nat /\ Cardinality(E) \in Nat
        /\ Cardinality(Tasks) \in Nat
    BY <2>2, <2>4, <2>6, FS_CardinalityType
  <2>8. n = Cardinality(E) /\ n <= Cardinality(Tasks) /\ n \in Nat
    BY <2>3, <2>5, <2>6, <2>7
  <2>9. n >= Cardinality(Tasks) => E = Tasks
    BY <2>6, <2>7, <2>8
  <2> QED
    BY <2>7, <2>8, <2>9
<1> HIDE DEF n, x
<1>6. /\ s' \in States /\ s'.pending = None /\ s'.sub = x /\ s'.awaiting = s.awaiting
      /\ s'.target = s.target /\ s'.doc = FALSE /\ s'.produced = FALSE
      /\ s'.review = s.review /\ s'.graph = s.graph /\ s'.refs = s.refs
      /\ s'.stub = s.stub /\ s'.task = None /\ s'.green = FALSE /\ s'.count = n
      /\ s'.retained = s.retained /\ s'.waived = s.waived /\ s'.lock = s.lock
  <2>1. u \in States
    BY <1>2
  <2>0. x \in Substates
    BY <1>0 DEF Substates, Reviews
  <2>2. s' \in States
    BY <2>1, <1>3, <2>0, <1>0, ZenonT(40) DEF States
  <2>3. /\ s'.pending = u.pending /\ s'.sub = x /\ s'.awaiting = u.awaiting
        /\ s'.target = u.target /\ s'.doc = FALSE /\ s'.produced = FALSE
        /\ s'.review = u.review /\ s'.graph = u.graph /\ s'.refs = u.refs
        /\ s'.stub = u.stub /\ s'.task = None /\ s'.green = FALSE /\ s'.count = n
        /\ s'.retained = u.retained /\ s'.waived = u.waived /\ s'.lock = u.lock
    BY <2>1, <1>3, <1>0 DEF States
  <2> QED
    BY <2>2, <2>3, <1>2
<1>7. /\ log' \in Logs /\ log'.ever = log.ever \cup {ev.task}
      /\ log'.done = log.done \cup {ev.task} /\ log'.started = log.started
      /\ log'.waived = log.waived /\ log'.lease = log.lease /\ log'.stale = log.stale
      /\ log'.family = log.family /\ log'.greened = log.greened
      /\ log'.pinned = log.pinned /\ log'.latest = log.latest /\ log'.noted = log.noted
  BY <1>1, <1>4, <1>00 DEF Logs
<1>8. /\ hist' \in Histories /\ hist'.held = hist.held /\ hist'.returned = hist.returned
      /\ hist'.unfixed = hist.unfixed
  BY <1>1, <1>5 DEF Histories
<1>9. Typed'
  BY <1>1, <1>6, <1>7, <1>8 DEF Typed, BoundsKept
<1>10. PendingFits'
  BY <1>6 DEF PendingFits
<1>11. TaskPlaced'
  BY <1>6, <1>0, <1>00 DEF TaskPlaced, Settled, Placed, InHand, Between
<1>12. LeaseKnown'
  BY <1>1, <1>6, <1>7, <1>8, <1>0, <1>00 DEF LeaseKnown, Settled
<1>13. StartsAnswered'
  <2>1. EffectivelyCompleted' = EffectivelyCompleted \cup {ev.task}
    BY <1>6, <1>7 DEF EffectivelyCompleted
  <2>2. log.started \subseteq EffectivelyCompleted \cup {ev.task}
    BY <1>00 DEF Settled, StartsAnswered
  <2>3. s'.sub \notin {"ISLAND_GATE_1", "PRISM_PLAN"}
    BY <1>0, <1>6
  <2> QED
    BY <1>7, <2>1, <2>2, <2>3 DEF StartsAnswered
<1>14. Counted'
  <2>1. s'.retained \cup log'.done = D \cup {ev.task}
    BY <1>6, <1>7
  <2>2. s'.count = Cardinality(D \cup {ev.task}) /\ s'.refs
    BY <1>0, <1>00, <1>6
  <2> QED
    BY <2>1, <2>2 DEF Counted
<1>15. Replays'
  BY <1>1, <1>6, <1>7, <1>8, <1>0, <1>00 DEF Replays, Settled, Greens
<1>16. PlansFresh'
  BY <1>1, <1>6, <1>7, <1>8, <1>0, <1>00 DEF PlansFresh, Settled
<1>17. WorkIsOpenAndLeased'
  BY <1>1, <1>6, <1>7, <1>8, <1>0, <1>00 DEF WorkIsOpenAndLeased, Settled
<1>18. GateReached'
  BY <1>1, <1>6, <1>7, <1>8, <1>0, <1>00 DEF GateReached, Settled
<1>19. /\ Free(s') /\ s'.pending = None /\ s'.task = None
       /\ s'.sub \in {"TASK_DISPATCH", "ISLAND_GATE_2"}
  BY <1>0, <1>6 DEF Free, Writing, Reviews, Settled, PlansFresh
<1> QED
  BY <1>9, <1>10, <1>11, <1>12, <1>13, <1>14, <1>15, <1>16, <1>17, <1>18, <1>19
     DEF Settled
(* An agent's work delivered.                                              *)
LEMMA OutcomeSettles ==
    ASSUME Settled, NEW ev, AppendEvent(ev), ev.e = "outcome", ev.how = "done",
           s.sub \in Asking, s.sub \in {"RED", "GREEN"} => s.task # None
    PROVE  /\ Settled' /\ Landed(Cleared(s), s')
           /\ s.sub \notin Reviews => Free(s') \/ (hist'.returned /\ s'.sub = "PLANNING")
<1> DEFINE u == Cleared(s)
           d == IF s.sub \in {"RED", "GREEN", "REFACTOR"}
                THEN s.sub = "GREEN" /\ ev.how = "done" ELSE log.devon
<1> USE DEF Asking, Writing, Reviews
<1>1. /\ s \in States /\ log \in Logs /\ hist \in Histories /\ Placed(s) /\ BoundsKept
  BY AppendBounds DEF Settled, Typed, TaskPlaced
<1>2. /\ u \in States /\ u.pending = None /\ u.refs = s.refs /\ u.count = s.count
      /\ u.retained = s.retained /\ u.waived = s.waived /\ u.lock = s.lock
      /\ u.sub = s.sub /\ u.graph = s.graph /\ u.task = s.task /\ u.green = s.green
  BY <1>1, ClearedEffect
<1>3. s' = OnOutcomeDone(u)
  BY DEF AppendEvent, Reduce, Cleared
<1>4. log' = [log EXCEPT !.pinned = FALSE, !.devon = d]
  BY DEF AppendEvent, Record
<1>5. hist' = IF s.sub = "SHIELD_FIX" THEN [hist EXCEPT !.unfixed = log.greened] ELSE hist
  BY DEF AppendEvent
<1>6. d \in BOOLEAN
  BY <1>1 DEF Logs
<1> HIDE DEF u, d
<1>7. Landed(u, s')
  BY <1>2, <1>3, OutcomeLands
<1>8. /\ s' \in States /\ s'.pending = None /\ s'.refs = s.refs /\ s'.count = s.count
      /\ s'.retained = s.retained /\ s'.waived = s.waived /\ s'.lock = s.lock
      /\ s'.task = s.task /\ s'.green = s.green /\ s'.graph = s.graph
      /\ \/ s.sub = "PLANNING" /\ s'.sub = "PLANNING" /\ s'.produced
         \/ s.sub = "RULING" /\ s'.sub = "DIAGNOSE" /\ ~s'.review
         \/ s.sub \in Reviews /\ s'.sub = s.sub
         \/ s.sub = "RED" /\ s'.sub = "RED_GATE"
         \/ s.sub = "GREEN" /\ s'.sub = "GREEN_GATE"
         \/ s.sub = "REFACTOR" /\ s'.sub = "REFACTOR_GATE"
         \/ s.sub = "SHIELD_FIX" /\ s'.sub = "GREEN_GATE"
         \/ s.sub = "SHIELD_FIX" /\ s'.sub = "RED" /\ ~s'.doc
  BY <1>2, <1>7 DEF Landed, Kept
<1>9. /\ log' \in Logs /\ log'.done = log.done /\ log'.started = log.started
      /\ log'.waived = log.waived /\ log'.lease = log.lease /\ log'.stale = log.stale
      /\ log'.latest = log.latest /\ log'.greened = log.greened
      /\ log'.noted = log.noted /\ log'.pinned = FALSE
  BY <1>1, <1>4, <1>6 DEF Logs
<1>10. /\ hist' \in Histories /\ hist'.held = hist.held /\ hist'.returned = hist.returned
       /\ hist'.unfixed = IF s.sub = "SHIELD_FIX" THEN log.greened ELSE hist.unfixed
  BY <1>1, <1>5 DEF Histories, Logs
<1>11. Typed'
  BY <1>1, <1>8, <1>9, <1>10 DEF Typed, BoundsKept
<1>12. PendingFits'
  BY <1>8 DEF PendingFits
<1>13. TaskPlaced'
  BY <1>1, <1>8 DEF TaskPlaced, Placed, InHand, Between
<1>14. LeaseKnown'
  BY <1>8, <1>9 DEF LeaseKnown, Settled
<1>15. StartsAnswered'
  BY <1>8, <1>9, <1>10 DEF StartsAnswered, Settled, EffectivelyCompleted
<1>16. Counted'
  BY <1>8, <1>9 DEF Counted, Settled
<1>17. Replays'
  BY <1>8, <1>9, <1>10 DEF Replays, Settled, Greens
<1>18. PlansFresh'
  BY <1>8, <1>10 DEF PlansFresh, Settled
<1>19. WorkIsOpenAndLeased'
  BY <1>8, <1>9 DEF WorkIsOpenAndLeased, Settled
<1>20. GateReached'
  BY <1>8 DEF GateReached
<1>21. s.sub \notin Reviews => Free(s') \/ (hist'.returned /\ s'.sub = "PLANNING")
  BY <1>8, <1>10 DEF Free, Settled, PlansFresh
<1> QED
  BY <1>7, <1>11, <1>12, <1>13, <1>14, <1>15, <1>16, <1>17, <1>18, <1>19, <1>20,
     <1>21
     DEF Settled, u

(* An audit changes nothing.                                               *)
LEMMA AuditSettles ==
    ASSUME Settled, NEW ev, AppendEvent(ev), ev.e = "audit", s.sub \in Asking
    PROVE  Settled' /\ s'.pending = None /\ s'.sub = s.sub /\ s'.task = s.task
           /\ s'.doc = s.doc
<1> DEFINE u == Cleared(s)
<1> USE DEF Asking, Writing, Reviews
<1>1. /\ s \in States /\ log \in Logs /\ hist \in Histories /\ Placed(s) /\ BoundsKept
  BY AppendBounds DEF Settled, Typed, TaskPlaced
<1>2. /\ u \in States /\ u.sub = s.sub /\ u.task = s.task /\ u.doc = s.doc /\ u.pending = None
  BY <1>1, ClearedEffect
<1>3. s' = u
  BY DEF AppendEvent, Reduce, Cleared
<1>4. log' = log /\ hist' = hist
  BY DEF AppendEvent, Record
<1> HIDE DEF u
<1>5. Routed(u, s', hist'.held)
  BY <1>1, <1>2, <1>3 DEF Routed, Kept, Placed, InHand, Between, Greens
<1>6. LogKept /\ HistKept
  BY <1>1, <1>4 DEF LogKept, HistKept
<1> QED
  BY <1>1, <1>2, <1>3, <1>5, <1>6, RouteSettles DEF u

\* What settles as soon as it is appended.
Due(ev) ==
    \/ Answered(ev)
    \/ ev.e = "baseline" /\ s.sub = "BASELINE"
    \/ ev.e = "graph" /\ s.sub = "PLANNING" /\ ev.kept \subseteq Tasks
    \/ ev.e = "released" /\ s.task = None /\ s.sub \in {"TASK_DISPATCH", "ISLAND_GATE_2"}
    \/ ev.e = "started" /\ Startable(ev.task) /\ s.lock /\ log.lease = ev.task /\ ~log.stale
    \/ Pinning(ev)
    \/ Fixed(ev)
    \/ /\ ev.e = "red" /\ ev.how # "shield_fix"
       /\ s.sub = "RED_CHECKPOINT" \/ (s.sub = "RED" /\ s.task # None)
    \/ ev.e \in {"green", "green_no_change"} /\ s.sub = "GREEN_COMMIT"
    \/ ev.e = "refactor" /\ s.sub = "REFACTOR_GATE"
    \/ ev.e = "rolled_back"

(* So it does.                                                             *)
LEMMA DueSettles ==
    ASSUME Settled, NEW ev, Due(ev), AppendEvent(ev)
    PROVE  Settled' /\ Free(s') /\ s'.pending = None
<1>1. CASE Answered(ev)
  BY <1>1, AnswerSettles
<1>2. CASE ev.e = "baseline" /\ s.sub = "BASELINE"
  BY <1>2, BaselineSettles
<1>3. CASE ev.e = "graph" /\ s.sub = "PLANNING" /\ ev.kept \subseteq Tasks
  BY <1>3, GraphSettles
<1>4. CASE ev.e = "released" /\ s.task = None /\ s.sub \in {"TASK_DISPATCH", "ISLAND_GATE_2"}
  BY <1>4, ReleaseSettles
<1>5. CASE /\ ev.e = "started" /\ Startable(ev.task)
           /\ s.lock /\ log.lease = ev.task /\ ~log.stale
  BY <1>5, StartSettles
<1>6. CASE Pinning(ev)
  <2>1. ev.e = "red" /\ ev.how = "shield_fix"
    BY <1>6 DEF Pinning
  <2> QED
    BY <1>6, <2>1, PinSettles
<1>7. CASE Fixed(ev)
  <2>1. ev.e = "test"
    BY <1>7 DEF Fixed
  <2> QED
    BY <1>7, <2>1, TestSettles
<1>8. CASE /\ ev.e = "red" /\ ev.how # "shield_fix"
           /\ s.sub = "RED_CHECKPOINT" \/ (s.sub = "RED" /\ s.task # None)
  BY <1>8, CheckpointSettles
<1>9. CASE ev.e = "green" /\ s.sub = "GREEN_COMMIT"
  BY <1>9, GreenSettles
<1>10. CASE ev.e = "green_no_change" /\ s.sub = "GREEN_COMMIT"
  BY <1>10, NoChangeSettles
<1>11. CASE ev.e = "refactor" /\ s.sub = "REFACTOR_GATE"
  BY <1>11, RefactorSettles
<1>12. CASE ev.e = "rolled_back"
  BY <1>12, RollbackSettles
<1>13. ev.e \in {"green", "green_no_change"} <=> ev.e = "green" \/ ev.e = "green_no_change"
  OBVIOUS
<1> QED
  BY <1>1, <1>2, <1>3, <1>4, <1>5, <1>6, <1>7, <1>8, <1>9, <1>10, <1>11, <1>12,
     <1>13
     DEF Due

\* An agent's work, with what its verdict may say of it.
Delivered(ev) ==
    /\ ev.e = "outcome" /\ ev.how = "done" /\ s.sub \in Asking
    /\ s.sub \in {"RED", "GREEN"} => s.task # None

Follows(ev) ==
    \/ s.sub = "RULING" /\ ev.e = "passed" /\ ev.how = "redirect"
    \/ /\ s.sub = "RULING" /\ ev.e = "passed" /\ s.task # None
       /\ ev.how \in {"redeliver_green", "deliver_red", "hold"}
    \/ s.sub \in Reviews /\ ev.e = "failed" /\ Failing(s, ev.how)
    \/ s.sub \in Reviews /\ ev.e = "prism" /\ Judging(s, ev.how)
    \/ /\ s.sub = "SHIELD_FIX" /\ ev.e = "failed"
       /\ ev.how \in {"scope", "manifest", "test_defect"}
    \/ s.sub = "SHIELD_FIX" /\ ev.e = "test"

\* Two events of one handler.
Pair(a, b) ==
    \/ Delivered(a) /\ Follows(b)
    \/ /\ a.e = "audit" /\ s.sub \in Asking
       /\ \/ b.e = "malformed" /\ b.how \in Retryable
          \/ b.e = "failed" /\ b.how = "reply_format_error"
    \/ a.e = "completed" /\ s.task # None /\ a.task = s.task /\ b.e = "released"
    \/ a.e = "granted" /\ Startable(a.task) /\ b.e = "started" /\ b.task = a.task
    \/ Fixed(a) /\ Pinning(b)

(* The first of two events makes room for the second.                      *)
LEMMA PairSettles ==
    ASSUME Settled, NEW a, NEW b, Pair(a, b), AppendEvent(a)
    PROVE  Settled' /\ s'.pending = None /\ Owed(b)'
<1> USE DEF Reviews, Writing, Asking
<1>1. CASE Delivered(a) /\ Follows(b)
  <2>1. Settled' /\ Landed(Cleared(s), s')
    BY <1>1, OutcomeSettles DEF Delivered
  <2>2. s \in States
    BY DEF Settled, Typed
  <2>3. /\ s'.pending = None /\ s'.task = s.task
        /\ s.sub = "RULING" => s'.sub = "DIAGNOSE"
        /\ s.sub \in Reviews => s'.sub = s.sub
        /\ s.sub = "SHIELD_FIX" => s'.sub = "GREEN_GATE" \/ (s'.sub = "RED" /\ ~s'.doc)
    BY <2>1, <2>2, ClearedEffect DEF Landed, Kept
  <2>4. CASE s.sub = "RULING" /\ b.e = "passed"
    <3>1. Passing(s', b.how)
      BY <1>1, <2>3, <2>4 DEF Follows, Passing
    <3> QED
      BY <2>1, <2>3, <2>4, <3>1 DEF Owed
  <2>5. CASE s.sub \in Reviews /\ b.e = "failed" /\ Failing(s, b.how)
    <3>1. Failing(s', b.how)
      BY <2>3, <2>5 DEF Failing
    <3> QED
      BY <2>1, <2>3, <2>5, <3>1 DEF Owed
  <2>6. CASE s.sub \in Reviews /\ b.e = "prism" /\ Judging(s, b.how)
    <3>1. Judging(s', b.how)
      BY <2>3, <2>6 DEF Judging
    <3> QED
      BY <2>1, <2>3, <2>6, <3>1 DEF Owed
  <2>7. CASE /\ s.sub = "SHIELD_FIX" /\ b.e = "failed"
             /\ b.how \in {"scope", "manifest", "test_defect"}
    <3>1. Failing(s', b.how)
      BY <2>3, <2>7 DEF Failing
    <3> QED
      BY <2>1, <2>3, <2>7, <3>1 DEF Owed
  <2>8. CASE s.sub = "SHIELD_FIX" /\ b.e = "test"
    <3>1. Fixed(b)'
      BY <2>3, <2>8 DEF Fixed
    <3> QED
      BY <2>1, <2>3, <3>1 DEF Owed
  <2> QED
    BY <1>1, <2>4, <2>5, <2>6, <2>7, <2>8 DEF Follows
<1>2. CASE /\ a.e = "audit" /\ s.sub \in Asking
           /\ \/ b.e = "malformed" /\ b.how \in Retryable
              \/ b.e = "failed" /\ b.how = "reply_format_error"
  <2>1. Settled' /\ s'.pending = None /\ s'.sub = s.sub
    BY <1>2, AuditSettles
  <2>2. b.e = "failed" => Failing(s', b.how)
    BY <1>2, <2>1 DEF Failing
  <2> QED
    BY <1>2, <2>1, <2>2 DEF Owed
<1>3. CASE a.e = "completed" /\ s.task # None /\ a.task = s.task /\ b.e = "released"
  <2>1. /\ Settled' /\ s'.pending = None /\ s'.task = None
        /\ s'.sub \in {"TASK_DISPATCH", "ISLAND_GATE_2"}
    BY <1>3, CompletionSettles
  <2> QED
    BY <1>3, <2>1 DEF Owed
<1>4. CASE a.e = "granted" /\ Startable(a.task) /\ b.e = "started" /\ b.task = a.task
  <2>1. /\ Settled' /\ s'.pending = None
        /\ Startable(a.task)' /\ s'.lock /\ log'.lease = a.task /\ ~log'.stale
    BY <1>4, GrantSettles
  <2>2. Startable(b.task)'
    BY <1>4, <2>1 DEF Startable, EffectivelyCompleted
  <2> QED
    BY <1>4, <2>1, <2>2 DEF Owed
<1>5. CASE Fixed(a) /\ Pinning(b)
  <2>1. /\ Settled' /\ s'.pending = None
        /\ s'.sub = s.sub /\ s'.doc = s.doc /\ s'.task = s.task
    BY <1>5, TestSettles DEF Fixed
  <2>2. Pinning(b)'
    BY <1>5, <2>1 DEF Pinning
  <2> QED
    BY <2>1, <2>2 DEF Owed
<1> QED
  BY <1>1, <1>2, <1>3, <1>4, <1>5 DEF Pair

\* A sequence of events a handler may append.
Line(x) ==
    \/ x = <<x[1]>> /\ Due(x[1])
    \/ x = <<x[1]>> /\ Delivered(x[1]) /\ s.sub \notin Reviews
    \/ x = <<x[1], x[2]>> /\ Pair(x[1], x[2]) /\ Owing(x[2])
    \/ /\ x = <<x[1], x[2], x[3]>> /\ Delivered(x[1]) /\ s.sub = "SHIELD_FIX"
       /\ x[2].e = "test" /\ Owing(x[2])
       /\ x[3].e = "red" /\ x[3].how = "shield_fix" /\ x[3].task = s.task /\ Owing(x[3])

(* Of sequences of up to three.                                            *)
LEMMA ShortSequences ==
    /\ \A a : Head(<<a>>) = a /\ Tail(<<a>>) = <<>> /\ <<a>> # <<>>
    /\ \A a, b : /\ Head(<<a, b>>) = a /\ Tail(<<a, b>>) = <<b>>
                 /\ <<a, b>> # <<>> /\ <<b>> # <<>>
    /\ \A a, b, c : /\ Head(<<a, b, c>>) = a /\ Tail(<<a, b, c>>) = <<b, c>>
                    /\ <<a, b, c>> # <<>> /\ <<b, c>> # <<>>
<1>1. \A a : Head(<<a>>) = a /\ Tail(<<a>>) = <<>> /\ <<a>> # <<>>
  OBVIOUS
<1>2. \A a, b : /\ Head(<<a, b>>) = a /\ Tail(<<a, b>>) = <<b>>
                /\ <<a, b>> # <<>> /\ <<b>> # <<>>
  OBVIOUS
<1>3. \A a, b, c : /\ Head(<<a, b, c>>) = a /\ Tail(<<a, b, c>>) = <<b, c>>
                   /\ <<a, b, c>> # <<>> /\ <<b, c>> # <<>>
  OBVIOUS
<1> QED
  BY <1>1, <1>2, <1>3

(* What is left of a sequence still fits.                                  *)
LEMMA LineSettles ==
    ASSUME Settled, NEW x, Line(x), AppendEvent(Head(x))
    PROVE  /\ x # <<>> /\ Settled' /\ s'.pending = None /\ Fits(Tail(x))'
           /\ drv' = drv \/ Tail(x) = <<>>
<1>1. \A e : e.e # "rolled_back" /\ AppendEvent(e) => drv' = drv
  BY DEF AppendEvent
<1>2. CASE x = <<x[1]>> /\ Due(x[1])
  <2>1. Head(x) = x[1] /\ Tail(x) = <<>> /\ x # <<>>
    BY <1>2, ShortSequences
  <2>2. Settled' /\ Free(s') /\ s'.pending = None
    BY <1>2, <2>1, DueSettles
  <2>3. Fits(<<>>)'
    BY <2>2 DEF Fits, Quiet
  <2> QED
    BY <2>1, <2>2, <2>3
<1>3. CASE x = <<x[1]>> /\ Delivered(x[1]) /\ s.sub \notin Reviews
  <2>1. Head(x) = x[1] /\ Tail(x) = <<>> /\ x # <<>>
    BY <1>3, ShortSequences
  <2>2. /\ Settled' /\ Landed(Cleared(s), s')
        /\ Free(s') \/ (hist'.returned /\ s'.sub = "PLANNING")
    BY <1>3, <2>1, OutcomeSettles DEF Delivered
  <2>3. s \in States
    BY DEF Settled, Typed
  <2>4. s'.pending = None
    BY <2>2, <2>3, ClearedEffect DEF Landed, Kept
  <2>5. Fits(<<>>)'
    BY <2>2 DEF Fits, Quiet
  <2> QED
    BY <2>1, <2>2, <2>4, <2>5
<1>4. CASE x = <<x[1], x[2]>> /\ Pair(x[1], x[2]) /\ Owing(x[2])
  <2>1. Head(x) = x[1] /\ Tail(x) = <<x[2]>> /\ x # <<>>
    <3>1. ASSUME NEW a, NEW b, x = <<a, b>>
          PROVE  Head(x) = a /\ Tail(x) = <<b>> /\ x # <<>>
      BY <3>1, ShortSequences
    <3> QED
      BY <1>4, <3>1
  <2>2. Settled' /\ s'.pending = None /\ Owed(x[2])'
    BY <1>4, <2>1, PairSettles
  <2>3. Fits(<<x[2]>>)'
    BY <1>4, <2>2 DEF Fits
  <2>4. x[1].e # "rolled_back"
    BY <1>4 DEF Pair, Delivered, Fixed
  <2> QED
    BY <1>1, <2>1, <2>2, <2>3, <2>4
<1>5. CASE /\ x = <<x[1], x[2], x[3]>> /\ Delivered(x[1]) /\ s.sub = "SHIELD_FIX"
           /\ x[2].e = "test" /\ Owing(x[2])
           /\ x[3].e = "red" /\ x[3].how = "shield_fix" /\ x[3].task = s.task /\ Owing(x[3])
  <2>1. Head(x) = x[1] /\ Tail(x) = <<x[2], x[3]>> /\ x # <<>>
    <3>1. ASSUME NEW a, NEW b, NEW c, x = <<a, b, c>>
          PROVE  Head(x) = a /\ Tail(x) = <<b, c>> /\ x # <<>>
      BY <3>1, ShortSequences
    <3> QED
      BY <1>5, <3>1
  <2>2. Settled' /\ Landed(Cleared(s), s')
    BY <1>5, <2>1, OutcomeSettles DEF Delivered
  <2>3. s \in States /\ s.task # None
    BY <1>5 DEF Settled, Typed, TaskPlaced, Placed, InHand
  <2>4. /\ s'.pending = None /\ s'.task = s.task
        /\ s'.sub = "GREEN_GATE" \/ (s'.sub = "RED" /\ ~s'.doc)
    BY <1>5, <2>2, <2>3, ClearedEffect DEF Landed, Kept
  <2>5. Fixed(x[2])' /\ Pinning(x[3])'
    BY <1>5, <2>3, <2>4 DEF Fixed, Pinning
  <2>6. Fits(<<x[2], x[3]>>)'
    BY <1>5, <2>5 DEF Fits
  <2>7. x[1].e # "rolled_back"
    BY <1>5 DEF Delivered
  <2> QED
    BY <1>1, <2>1, <2>2, <2>4, <2>6, <2>7
<1> QED
  BY <1>2, <1>3, <1>4, <1>5 DEF Line

(* One event of a handler.                                                 *)
LEMMA AppendSettles ==
    ASSUME Settled, drv = "run", NEW S, \A y \in S : y = <<>> \/ Line(y), AppendOne(S)
    PROVE  IInv'
<1>1. PICK x \in S \ {<<>>} : AppendEvent(Head(x)) /\ todo' = After(S, Head(x))
  BY DEF AppendOne
<1> DEFINE rest == {Tail(y) : y \in {z \in S : z # <<>> /\ Head(z) = Head(x)}}
<1>2. todo' = IF rest = {<<>>} THEN {} ELSE rest
  BY <1>1 DEF After
<1>3. Tail(x) \in rest
  BY <1>1
<1>4. ASSUME NEW z \in rest
      PROVE  Settled' /\ s'.pending = None /\ Fits(z)' /\ (drv' = drv \/ z = <<>>)
  <2>1. PICK y \in S : y # <<>> /\ Head(y) = Head(x) /\ z = Tail(y)
    BY <1>4
  <2>2. Line(y)
    BY <2>1
  <2>3. AppendEvent(Head(y))
    BY <1>1, <2>1
  <2> HIDE DEF rest
  <2>4. /\ Settled' /\ s'.pending = None /\ Fits(Tail(y))'
        /\ drv' = drv \/ Tail(y) = <<>>
    BY <2>2, <2>3, LineSettles
  <2>5. z = Tail(y)
    BY <2>1
  <2> QED
    BY <2>4, <2>5
<1> HIDE DEF rest
<1>5. Settled' /\ s'.pending = None
  BY <1>3, <1>4
<1>6. TodoFits'
  <2>1. ASSUME todo' # {} PROVE drv' = "run"
    <3>1. PICK z \in rest : z # <<>>
      BY <1>2, <1>3, <2>1
    <3> QED
      BY <1>4, <3>1
  <2>2. \A z \in todo' : Fits(z)'
    BY <1>2, <1>4
  <2> QED
    BY <1>5, <2>1, <2>2 DEF TodoFits
<1>7. FlagsAnswered'
  <2>1. CASE todo' # {}
    BY <2>1 DEF FlagsAnswered
  <2>2. CASE todo' = {}
    <3>1. Tail(x) = <<>>
      BY <1>2, <1>3, <2>2
    <3>2. Fits(<<>>)'
      BY <1>3, <1>4, <3>1
    <3>3. Quiet'
      BY <3>2 DEF Fits
    <3> QED
      BY <3>3 DEF Quiet, FlagsAnswered
  <2> QED
    BY <2>1, <2>2
<1> QED
  BY <1>5, <1>6, <1>7 DEF IInv

(* What is still to append is such a sequence.                             *)
LEMMA TodoLines ==
    ASSUME TodoFits, NEW y \in todo
    PROVE  y = <<>> \/ Line(y)
<1>1. Fits(y)
  BY DEF TodoFits
<1>2. CASE y = <<y[1]>> /\ Owed(y[1])
  <2>1. Due(y[1])
    BY <1>2 DEF Owed, Due, Answered, Retryable
  <2> QED
    BY <1>2, <2>1 DEF Line
<1>3. CASE y = <<y[1], y[2]>> /\ Owing(y[2]) /\ Fixed(y[1]) /\ Pinning(y[2])
  BY <1>3 DEF Line, Pair
<1> QED
  BY <1>1, <1>2, <1>3 DEF Fits

(* The next event of the handler at work.                                  *)
LEMMA ContinueSettles ==
    ASSUME IInv, Continue
    PROVE  IInv'
<1>1. drv = "run" /\ TodoFits /\ Settled
  BY DEF IInv, TodoFits, Continue
<1>2. \A y \in todo : y = <<>> \/ Line(y)
  BY <1>1, TodoLines
<1> QED
  BY <1>1, <1>2, AppendSettles DEF Continue

-----------------------------------------------------------------------------
(* What the handlers append.                                               *)

(* An event and a sequence glued together.                                 *)
LEMMA Glued ==
    /\ \A a : <<a>> \o <<>> = <<a>>
    /\ \A a, b : <<a>> \o <<b>> = <<a, b>>
    /\ \A a, b, c : <<a>> \o <<b, c>> = <<a, b, c>>
<1>1. \A a : <<a>> \o <<>> = <<a>>
  OBVIOUS
<1>2. ASSUME NEW a, NEW b
      PROVE  <<a>> \o <<b>> = <<a, b>>
  <2> DEFINE A == {a, b}
  <2>1. <<a>> \in Seq(A) /\ <<b>> \in Seq(A) /\ <<a, b>> \in Seq(A)
    OBVIOUS
  <2>2. Len(<<a>>) = 1 /\ Len(<<b>>) = 1 /\ Len(<<a, b>>) = 2
    OBVIOUS
  <2> HIDE DEF A
  <2>3. /\ <<a>> \o <<b>> \in Seq(A) /\ Len(<<a>> \o <<b>>) = 2
        /\ \A i \in 1..2 : (<<a>> \o <<b>>)[i] =
                             IF i <= 1 THEN <<a>>[i] ELSE <<b>>[i - 1]
    BY <2>1, <2>2, ConcatProperties
  <2>4. \A i \in 1..2 : (<<a>> \o <<b>>)[i] = <<a, b>>[i]
    BY <2>3
  <2> QED
    BY <2>1, <2>2, <2>3, <2>4, SeqEqual
<1>3. ASSUME NEW a, NEW b, NEW c
      PROVE  <<a>> \o <<b, c>> = <<a, b, c>>
  <2> DEFINE A == {a, b, c}
  <2>1. <<a>> \in Seq(A) /\ <<b, c>> \in Seq(A) /\ <<a, b, c>> \in Seq(A)
    OBVIOUS
  <2>2. Len(<<a>>) = 1 /\ Len(<<b, c>>) = 2 /\ Len(<<a, b, c>>) = 3
    OBVIOUS
  <2> HIDE DEF A
  <2>3. /\ <<a>> \o <<b, c>> \in Seq(A) /\ Len(<<a>> \o <<b, c>>) = 3
        /\ \A i \in 1..3 : (<<a>> \o <<b, c>>)[i] =
                             IF i <= 1 THEN <<a>>[i] ELSE <<b, c>>[i - 1]
    BY <2>1, <2>2, ConcatProperties
  <2>4. \A i \in 1..3 : (<<a>> \o <<b, c>>)[i] = <<a, b, c>>[i]
    BY <2>3
  <2> QED
    BY <2>1, <2>2, <2>3, <2>4, SeqEqual
<1> QED
  BY <1>1, <1>2, <1>3

(* Answers of one event.                                                   *)
LEMMA OneShape ==
    ASSUME NEW e, NEW hows, NEW y \in One(e, hows)
    PROVE  /\ y = <<y[1]>> /\ y[1].e = e /\ y[1].how \in hows
           /\ y[1].task = s.task /\ y[1].kept = {}
<1>1. PICK how \in hows : y = <<Event(e, how)>>
  BY DEF One
<1>2. y = <<y[1]>> /\ y[1] = Event(e, how)
  BY <1>1
<1> QED
  BY <1>2 DEF Event

(* Failures and passes of the substate, each a line.                       *)
LEMMA FailsLines ==
    ASSUME NEW hows, NEW y \in Fails(hows), \A how \in hows : Failing(s, how)
    PROVE  Line(y)
<1>1. y = <<y[1]>> /\ y[1].e = "failed" /\ y[1].how \in hows
  BY OneShape DEF Fails
<1> QED
  BY <1>1 DEF Line, Due, Answered

(* A gate passed.                                                          *)
LEMMA PassesLines ==
    ASSUME NEW check, NEW y \in Passes(check), Passing(s, check)
    PROVE  Line(y)
<1>1. y = <<y[1]>> /\ y[1].e = "passed" /\ y[1].how \in {check}
  BY OneShape DEF Passes
<1> QED
  BY <1>1 DEF Line, Due, Answered

(* An evidence that cannot be read.                                        *)
LEMMA MalformedLines ==
    ASSUME NEW y \in Malformed, s.sub \in {"RED_CHECKPOINT", "GREEN_COMMIT", "REFACTOR_GATE"}
    PROVE  Line(y)
<1>1. y = <<y[1]>> /\ y[1].e = "malformed" /\ y[1].how \in {"again", "ruling", "escalate"}
  BY OneShape DEF Malformed
<1> QED
  BY <1>1 DEF Line, Due, Answered, Retryable

(* The completion of the task in hand, with the release of its lease.      *)
LEMMA CompleteLines ==
    ASSUME NEW y \in Complete, s.task \in Tasks, s.task # None
    PROVE  Line(y)
<1> DEFINE a == Event("completed", "")
           b == Event("released", "")
<1>1. y = <<a, b>>
  BY DEF Complete
<1>2. /\ a.e = "completed" /\ a.task = s.task
      /\ b.e = "released" /\ b.task = s.task /\ b.kept = {}
  BY DEF Event
<1> HIDE DEF a, b
<1>3. y = <<y[1], y[2]>> /\ y[1] = a /\ y[2] = b
  BY <1>1
<1> QED
  BY <1>2, <1>3 DEF Line, Pair, Owing

\* What holds when the handler of a command begins.
Handling == Settled /\ s.pending # None

(* The gates without an agent.                                             *)
LEMMA GateLines ==
    ASSUME Handling, NEW y \in Handler(s.pending),
           s.pending \in {"check_island_1", "check_island_2", "run_task_gates",
                          "run_refactor_gate", "rollback_stage", "freeze_baseline",
                          "commit_taskgraph"}
    PROVE  Line(y)
<1>0. PendingFits
  BY DEF Handling, Settled
<1>1. CASE s.pending = "check_island_1"
  <2>1. y \in Passes("island_1") \cup Fails({"island"})
    BY <1>1 DEF Handler
  <2>2. s.sub = "ISLAND_GATE_1"
    BY <1>0, <1>1, TaskCycleAssumption DEF PendingFits, Handling
  <2>3. Passing(s, "island_1") /\ \A how \in {"island"} : Failing(s, how)
    BY <2>2 DEF Passing, Failing
  <2> QED
    BY <2>1, <2>3, PassesLines, FailsLines
<1>2. CASE s.pending = "check_island_2"
  <2>1. y \in Passes("island_2") \cup Fails({"island", "contract_error"})
    BY <1>2 DEF Handler
  <2>2. s.sub = "ISLAND_GATE_2"
    BY <1>0, <1>2 DEF PendingFits, Handling
  <2>3. Passing(s, "island_2") /\ \A how \in {"island", "contract_error"} : Failing(s, how)
    BY <2>2 DEF Passing, Failing
  <2> QED
    BY <2>1, <2>3, PassesLines, FailsLines
<1>3. CASE s.pending = "run_task_gates"
  <2>1. y \in RunTaskGates
    BY <1>3 DEF Handler
  <2>2. s.sub \in {"RED_GATE", "GREEN_GATE", "TASK_REVIEW"}
    BY <1>0, <1>3 DEF PendingFits, Handling
  <2>3. CASE s.sub = "RED_GATE"
    <3>1. y \in Passes("red_valid") \cup Fails({"red_invalid", "red_legal", "lint"})
      BY <2>1, <2>3 DEF RunTaskGates
    <3>2. /\ Passing(s, "red_valid")
          /\ \A how \in {"red_invalid", "red_legal", "lint"} : Failing(s, how)
      BY <2>3 DEF Passing, Failing
    <3> QED
      BY <3>1, <3>2, PassesLines, FailsLines
  <2>4. CASE s.sub = "GREEN_GATE"
    <3> DEFINE F == {"regression", "impl_defect", "contract_conflict", "contract_error",
                     "lint", "commit"}
    <3>1. y \in Passes("green") \cup Fails(F) \/ y \in Fails({"impl_defect"})
      BY <2>1, <2>4 DEF RunTaskGates, GreenGate
    <3>2. Passing(s, "green") /\ \A how \in F : Failing(s, how)
      BY <2>4 DEF Passing, Failing
    <3>3. \A how \in {"impl_defect"} : Failing(s, how)
      BY <2>4 DEF Failing
    <3> HIDE DEF F
    <3> QED
      BY <3>1, <3>2, <3>3, PassesLines, FailsLines
  <2>5. CASE s.sub = "TASK_REVIEW"
    <3> DEFINE F == {"lineage", "scope", "budget", "contract_error"}
    <3>1. y \in Passes("task_review") \cup Fails(F)
      BY <2>1, <2>5 DEF RunTaskGates
    <3>2. Passing(s, "task_review") /\ \A how \in F : Failing(s, how)
      BY <2>5 DEF Passing, Failing
    <3> HIDE DEF F
    <3> QED
      BY <3>1, <3>2, PassesLines, FailsLines
  <2> QED
    BY <2>2, <2>3, <2>4, <2>5
<1>4. CASE s.pending = "run_refactor_gate"
  <2> DEFINE F == {"scope", "regression", "contract_error"}
             H == {""}
  <2>1. y \in One("refactor", H) \cup Malformed \cup Fails(F)
    BY <1>4 DEF Handler, RunRefactorGate
  <2>2. s.sub = "REFACTOR_GATE"
    BY <1>0, <1>4 DEF PendingFits, Handling
  <2>3. \A how \in F : Failing(s, how)
    BY <2>2 DEF Failing
  <2> HIDE DEF F, H
  <2>4. ASSUME y \in One("refactor", H) PROVE Line(y)
    <3>1. y = <<y[1]>> /\ y[1].e = "refactor"
      BY <2>4, OneShape
    <3> QED
      BY <2>2, <3>1 DEF Line, Due
  <2> QED
    BY <2>1, <2>2, <2>3, <2>4, MalformedLines, FailsLines
<1>5. CASE s.pending = "rollback_stage"
  <2> DEFINE H == {""}
  <2>1. y \in One("rolled_back", H)
    BY <1>5 DEF Handler
  <2> HIDE DEF H
  <2>2. y = <<y[1]>> /\ y[1].e = "rolled_back"
    BY <2>1, OneShape
  <2> QED
    BY <2>2 DEF Line, Due
<1>6. CASE s.pending = "freeze_baseline"
  <2>1. y \in One("baseline", {"current", "stale"})
    BY <1>6 DEF Handler
  <2>2. s.sub = "BASELINE"
    BY <1>0, <1>6 DEF PendingFits, Handling
  <2>3. y = <<y[1]>> /\ y[1].e = "baseline"
    BY <2>1, OneShape
  <2> QED
    BY <2>2, <2>3 DEF Line, Due
<1>7. CASE s.pending = "commit_taskgraph"
  <2>1. \/ y \in Fails({"taskgraph"})
        \/ \E k \in SUBSET Tasks : y = <<[Event("graph", "") EXCEPT !.kept = k]>>
    BY <1>7 DEF Handler, CommitTaskgraph
  <2>2. s.sub = "PLANNING"
    BY <1>0, <1>7 DEF PendingFits, Handling
  <2>3. \A how \in {"taskgraph"} : Failing(s, how)
    BY <2>2 DEF Failing
  <2>4. CASE y \in Fails({"taskgraph"})
    BY <2>3, <2>4, FailsLines
  <2>5. CASE \E k \in SUBSET Tasks : y = <<[Event("graph", "") EXCEPT !.kept = k]>>
    <3>1. PICK k \in SUBSET Tasks : y = <<[Event("graph", "") EXCEPT !.kept = k]>>
      BY <2>5
    <3> DEFINE ev == [Event("graph", "") EXCEPT !.kept = k]
    <3>2. ev.e = "graph" /\ ev.kept = k
      BY DEF Event
    <3>3. y = <<ev>>
      BY <3>1
    <3> HIDE DEF ev
    <3>4. y = <<y[1]>> /\ y[1] = ev
      BY <3>3
    <3> QED
      BY <2>2, <3>2, <3>4 DEF Line, Due
  <2> QED
    BY <2>1, <2>4, <2>5
<1> QED
  BY <1>1, <1>2, <1>3, <1>4, <1>5, <1>6, <1>7

(* The phases of a task.                                                   *)
LEMMA PhaseLines ==
    ASSUME Handling, NEW y \in Handler(s.pending),
           s.pending \in {"anchor_red", "verify_task", "checkpoint_red", "commit_green",
                          "complete_task"}
    PROVE  Line(y)
<1>0. PendingFits /\ TaskPlaced /\ s \in States
  BY DEF Handling, Settled, Typed
<1>1. CASE s.pending = "anchor_red"
  <2> DEFINE F == {"red_invalid", "plan_defect", "contract_error"}
  <2>1. y \in One("red", {"anchor"}) \cup Fails(F)
    BY <1>1 DEF Handler, AnchorRed
  <2>2. s.sub = "RED" /\ s.task # None /\ ~s.doc
    BY <1>0, <1>1 DEF PendingFits, Handling
  <2>3. \A how \in F : Failing(s, how)
    BY <2>2 DEF Failing
  <2> HIDE DEF F
  <2>4. ASSUME y \in One("red", {"anchor"}) PROVE Line(y)
    <3>1. y = <<y[1]>> /\ y[1].e = "red" /\ y[1].how \in {"anchor"}
      BY <2>4, OneShape
    <3> QED
      BY <2>2, <3>1 DEF Line, Due
  <2> QED
    BY <2>1, <2>3, <2>4, FailsLines
<1>2. CASE s.pending = "verify_task"
  <2> DEFINE F == {"verification_failed", "contract_error"}
  <2>1. y \in Complete \cup Fails(F)
    BY <1>2 DEF Handler
  <2>2. s.sub \in {"RED", "GREEN"} /\ s.task # None /\ ~s.doc
    BY <1>0, <1>2 DEF PendingFits, Handling
  <2>3. \A how \in F : Failing(s, how)
    BY <2>2 DEF Failing
  <2>4. s.task \in Tasks
    BY <1>0, <2>2 DEF States
  <2> HIDE DEF F
  <2> QED
    BY <2>1, <2>2, <2>3, <2>4, CompleteLines, FailsLines
<1>3. CASE s.pending = "checkpoint_red"
  <2>1. y \in One("red", {"devon"}) \cup Fails({"red_invalid"}) \cup Malformed
    BY <1>3 DEF Handler, CheckpointRed
  <2>2. s.sub = "RED_CHECKPOINT"
    BY <1>0, <1>3 DEF PendingFits, Handling
  <2>3. \A how \in {"red_invalid"} : Failing(s, how)
    BY <2>2 DEF Failing
  <2>4. ASSUME y \in One("red", {"devon"}) PROVE Line(y)
    <3>1. y = <<y[1]>> /\ y[1].e = "red" /\ y[1].how \in {"devon"}
      BY <2>4, OneShape
    <3> QED
      BY <2>2, <3>1 DEF Line, Due
  <2> QED
    BY <2>1, <2>2, <2>3, <2>4, MalformedLines, FailsLines
<1>4. CASE s.pending = "commit_green"
  <2> DEFINE H == {""}
  <2>1. y \in One("green_no_change", H) \cup Fails({"impl_defect"}) \cup Malformed
              \cup One("green", H)
    BY <1>4 DEF Handler, CommitGreen
  <2>2. s.sub = "GREEN_COMMIT"
    BY <1>0, <1>4 DEF PendingFits, Handling
  <2>3. \A how \in {"impl_defect"} : Failing(s, how)
    BY <2>2 DEF Failing
  <2> HIDE DEF H
  <2>4. ASSUME y \in One("green_no_change", H) PROVE Line(y)
    <3>1. y = <<y[1]>> /\ y[1].e = "green_no_change"
      BY <2>4, OneShape
    <3> QED
      BY <2>2, <3>1 DEF Line, Due
  <2>5. ASSUME y \in One("green", H) PROVE Line(y)
    <3>1. y = <<y[1]>> /\ y[1].e = "green"
      BY <2>5, OneShape
    <3> QED
      BY <2>2, <3>1 DEF Line, Due
  <2> QED
    BY <2>1, <2>2, <2>3, <2>4, <2>5, MalformedLines, FailsLines
<1>5. CASE s.pending = "complete_task"
  <2>1. y \in Complete
    BY <1>5 DEF Handler, CompleteTask
  <2>2. s.sub = "TASK_DONE"
    BY <1>0, <1>5 DEF PendingFits, Handling
  <2>3. s.task # None /\ s.task \in Tasks
    BY <1>0, <2>2 DEF TaskPlaced, Placed, InHand, States
  <2> QED
    BY <2>1, <2>3, CompleteLines
<1> QED
  BY <1>1, <1>2, <1>3, <1>4, <1>5

(* The selection of a task.                                                *)
LEMMA SelectLines ==
    ASSUME Handling, NEW y \in Handler(s.pending), s.pending = "select_task"
    PROVE  Line(y)
<1>1. y \in SelectTask
  BY DEF Handler
<1>2. s.sub = "TASK_DISPATCH" /\ log \in Logs
  BY DEF Handling, Settled, PendingFits, Typed
<1>3. CASE y \in Fails({"island"})
  <2>1. \A how \in {"island"} : Failing(s, how)
    BY <1>2 DEF Failing
  <2> QED
    BY <1>3, <2>1, FailsLines
<1>4. CASE /\ s.task = None /\ s.refs /\ log.started \subseteq EffectivelyCompleted
           /\ s.lock /\ log.lease # None /\ y \in RecoverTaskLease
  <2>1. log.lease \in Tasks
    BY <1>2, <1>4 DEF Logs
  <2>2. CASE log.stale \/ log.lease \in EffectivelyCompleted
    <3> DEFINE a == [Event("released", "") EXCEPT !.task = log.lease]
    <3>1. y = <<a>>
      BY <1>4, <2>2 DEF RecoverTaskLease, Of
    <3>2. a.e = "released"
      BY DEF Event
    <3> HIDE DEF a
    <3>3. y = <<y[1]>> /\ y[1] = a
      BY <3>1
    <3> QED
      BY <1>2, <1>4, <3>2, <3>3 DEF Line, Due
  <2>3. CASE ~(log.stale \/ log.lease \in EffectivelyCompleted)
    <3> DEFINE a == [Event("started", "") EXCEPT !.task = log.lease]
    <3>1. y = <<a>>
      BY <1>4, <2>3 DEF RecoverTaskLease, Of
    <3>2. a.e = "started" /\ a.task = log.lease
      BY DEF Event
    <3> HIDE DEF a
    <3>3. y = <<y[1]>> /\ y[1] = a
      BY <3>1
    <3>4. Startable(log.lease)
      BY <1>2, <1>4, <2>1, <2>3 DEF Startable
    <3> QED
      BY <1>4, <2>3, <3>2, <3>3, <3>4 DEF Line, Due
  <2> QED
    BY <2>2, <2>3
<1>5. ASSUME s.task = None, s.refs, log.started \subseteq EffectivelyCompleted,
             NEW i \in Tasks \ EffectivelyCompleted, y = StartTask(i)
      PROVE  Line(y)
  <2> DEFINE a == [Event("granted", "") EXCEPT !.task = i]
             b == [Event("started", "") EXCEPT !.task = i]
  <2>1. y = <<a>> \o <<b>>
    BY <1>5 DEF StartTask, Of
  <2>2. a.e = "granted" /\ a.task = i /\ b.e = "started" /\ b.task = i /\ b.kept = {}
    BY DEF Event
  <2> HIDE DEF a, b
  <2>3. y = <<a, b>>
    BY <2>1, Glued
  <2>4. y = <<y[1], y[2]>> /\ y[1] = a /\ y[2] = b
    BY <2>3
  <2>5. Startable(i)
    BY <1>2, <1>5 DEF Startable
  <2> QED
    BY <2>2, <2>4, <2>5 DEF Line, Pair, Owing
<1>6. \/ y \in Fails({"island"})
      \/ /\ s.task = None /\ s.refs /\ log.started \subseteq EffectivelyCompleted
         /\ s.lock /\ log.lease # None /\ y \in RecoverTaskLease
      \/ /\ s.task = None /\ s.refs /\ log.started \subseteq EffectivelyCompleted
         /\ \E i \in Tasks \ EffectivelyCompleted : y = StartTask(i)
  BY <1>1 DEF SelectTask
<1> QED
  BY <1>3, <1>4, <1>5, <1>6

\* What may follow an outcome.
Ensuing(v) ==
    \/ v = <<>> /\ s.sub \notin Reviews
    \/ v = <<v[1]>> /\ Follows(v[1]) /\ Owing(v[1])
    \/ /\ v = <<v[1], v[2]>> /\ Owing(v[1]) /\ Owing(v[2]) /\ s.sub = "SHIELD_FIX"
       /\ v[1].e = "test" /\ v[2].e = "red" /\ v[2].how = "shield_fix"
       /\ v[2].task = s.task

(* An outcome with what follows it.                                        *)
LEMMA DeliveredLines ==
    ASSUME Settled, s.sub \in Asking, s.sub \in {"RED", "GREEN"} => s.task # None,
           NEW v, Ensuing(v)
    PROVE  Line(<<Event("outcome", "done")>> \o v)
<1> DEFINE a == Event("outcome", "done")
           y == <<a>> \o v
<1>1. Delivered(a)
  BY DEF Delivered, Event
<1> HIDE DEF a
<1>2. CASE v = <<>> /\ s.sub \notin Reviews
  <2>1. y = <<a>>
    BY <1>2, Glued
  <2> HIDE DEF y
  <2>2. y = <<y[1]>> /\ y[1] = a
    BY <2>1
  <2>3. Line(y)
    BY <1>1, <1>2, <2>2 DEF Line
  <2> QED
    BY <2>3 DEF y, a
<1>3. CASE v = <<v[1]>> /\ Follows(v[1]) /\ Owing(v[1])
  <2> DEFINE b == v[1]
  <2>1. y = <<a, b>>
    BY <1>3, Glued
  <2> HIDE DEF y
  <2>2. y = <<y[1], y[2]>> /\ y[1] = a /\ y[2] = v[1]
    BY <2>1
  <2>3. Line(y)
    BY <1>1, <1>3, <2>2 DEF Line, Pair
  <2> QED
    BY <2>3 DEF y, a
<1>4. CASE /\ v = <<v[1], v[2]>> /\ Owing(v[1]) /\ Owing(v[2]) /\ s.sub = "SHIELD_FIX"
           /\ v[1].e = "test" /\ v[2].e = "red" /\ v[2].how = "shield_fix"
           /\ v[2].task = s.task
  <2> DEFINE b == v[1]
             c == v[2]
  <2>1. y = <<a, b, c>>
    <3>1. ASSUME NEW p, NEW q, v = <<p, q>>
          PROVE  y = <<a, p, q>>
      BY <3>1, Glued
    <3> QED
      BY <1>4, <3>1
  <2> HIDE DEF y
  <2>2. y = <<y[1], y[2], y[3]>> /\ y[1] = a /\ y[2] = v[1] /\ y[3] = v[2]
    BY <2>1
  <2>3. Line(y)
    BY <1>1, <1>4, <2>2 DEF Line
  <2> QED
    BY <2>3 DEF y, a
<1> QED
  BY <1>2, <1>3, <1>4 DEF Ensuing


(* The verdicts an agent's report leads to.                                *)
LEMMA VerdictsEnsue ==
    ASSUME s \in States, NEW v \in Verdicts, s.sub \in Asking, s.sub # "SHIELD_FIX"
    PROVE  Ensuing(v)
<1> USE DEF Reviews, Writing, Asking
<1>1. s.task \in Tasks \cup {None}
  BY DEF States
<1>2. CASE v = <<>> /\ s.sub \notin Reviews
  BY <1>2 DEF Ensuing
<1>3. ASSUME NEW hows, v \in Fails(hows), s.sub \in Reviews, \A how \in hows : Failing(s, how)
      PROVE  Ensuing(v)
  <2>1. /\ v = <<v[1]>> /\ v[1].e = "failed" /\ v[1].how \in hows
        /\ v[1].task = s.task /\ v[1].kept = {}
    BY <1>3, OneShape DEF Fails
  <2> QED
    BY <1>1, <1>3, <2>1 DEF Ensuing, Follows, Owing
<1>4. ASSUME NEW hows, v \in One("prism", hows), s.sub \in Reviews,
             \A how \in hows : Judging(s, how)
      PROVE  Ensuing(v)
  <2>1. /\ v = <<v[1]>> /\ v[1].e = "prism" /\ v[1].how \in hows
        /\ v[1].task = s.task /\ v[1].kept = {}
    BY <1>4, OneShape
  <2> QED
    BY <1>1, <1>4, <2>1 DEF Ensuing, Follows, Owing
<1>5. CASE s.sub = "RULING"
  <2> DEFINE H == {"redirect"} \cup OfTask({"redeliver_green", "deliver_red", "hold"})
  <2>1. v = <<>> \/ v \in One("passed", H)
    BY <1>5 DEF Verdicts
  <2>2. \A how \in H : \/ how = "redirect"
                       \/ /\ how \in {"redeliver_green", "deliver_red", "hold"}
                          /\ s.task # None
    BY DEF OfTask
  <2> HIDE DEF H
  <2>3. ASSUME v \in One("passed", H) PROVE Ensuing(v)
    <3>1. /\ v = <<v[1]>> /\ v[1].e = "passed" /\ v[1].how \in H
          /\ v[1].task = s.task /\ v[1].kept = {}
      BY <2>3, OneShape
    <3>2. Follows(v[1])
      BY <1>5, <2>2, <3>1 DEF Follows
    <3> QED
      BY <1>1, <3>1, <3>2 DEF Ensuing, Owing
  <2> QED
    BY <1>2, <1>5, <2>1, <2>3
<1>6. CASE s.sub = "DIAGNOSE"
  <2> DEFINE H == {"plan_defect", "stub_gap", "spec_gap", "unknown", "diagnosis_exhausted"}
                  \cup OfTask({"impl_defect", "red_defect", "test_defect"})
  <2>1. v \in Fails(H)
    BY <1>6 DEF Verdicts
  <2>2. \A how \in H : Failing(s, how)
    BY <1>6 DEF OfTask, Failing
  <2> HIDE DEF H
  <2> QED
    BY <1>3, <1>6, <2>1, <2>2
<1>7. CASE s.sub = "PRISM_PLAN"
  <2> DEFINE H == {"pass", "design_gap", "spec_gap", "revise"}
  <2>1. v \in One("prism", H)
    BY <1>7 DEF Verdicts
  <2>2. \A how \in H : Judging(s, how)
    BY <1>7 DEF Judging
  <2> HIDE DEF H
  <2> QED
    BY <1>4, <1>7, <2>1, <2>2
<1>8. CASE s.sub = "PRISM_RED"
  <2> DEFINE H == {"pass", "plan_defect", "revise"}
  <2>1. v \in One("prism", H)
    BY <1>8 DEF Verdicts
  <2>2. \A how \in H : Judging(s, how)
    BY <1>8 DEF Judging
  <2> HIDE DEF H
  <2> QED
    BY <1>4, <1>8, <2>1, <2>2
<1>9. CASE s.sub = "PRISM_FINAL"
  <2> DEFINE H == {"pass", "red_defect", "plan_defect", "test_defect", "revise"}
  <2>1. v \in One("prism", H)
    BY <1>9 DEF Verdicts
  <2>2. \A how \in H : Judging(s, how)
    BY <1>9 DEF Judging
  <2> HIDE DEF H
  <2> QED
    BY <1>4, <1>9, <2>1, <2>2
<1>10. CASE s.sub \in {"PLANNING", "RED", "GREEN", "REFACTOR"}
  <2>1. v = <<>>
    BY <1>10 DEF Verdicts
  <2> QED
    BY <1>2, <1>10, <2>1
<1> QED
  BY <1>5, <1>6, <1>7, <1>8, <1>9, <1>10

(* Shield's fix is refused, or committed and pinned.                       *)
LEMMA FixesEnsue ==
    ASSUME s \in States, NEW v \in ShieldCommit, s.sub = "SHIELD_FIX"
    PROVE  Ensuing(v)
<1>1. s.task \in Tasks \cup {None}
  BY DEF States
<1> DEFINE H == {"scope", "manifest", "test_defect"}
           a == Event("test", "")
           b == Event("red", "shield_fix")
<1>2. v \in Fails(H) \/ v = <<a>> \o <<b>> \/ v = <<a>> \o <<>>
  BY DEF ShieldCommit
<1>3. /\ a.e = "test" /\ a.task = s.task /\ a.kept = {}
      /\ b.e = "red" /\ b.how = "shield_fix" /\ b.task = s.task /\ b.kept = {}
  BY DEF Event
<1>4. CASE v \in Fails(H)
  <2>1. /\ v = <<v[1]>> /\ v[1].e = "failed" /\ v[1].how \in H
        /\ v[1].task = s.task /\ v[1].kept = {}
    BY <1>4, OneShape DEF Fails
  <2> QED
    BY <1>1, <2>1 DEF Ensuing, Follows, Owing
<1> HIDE DEF a, b, H
<1>5. CASE v = <<a>> \o <<b>>
  <2>1. v = <<a, b>>
    BY <1>5, Glued
  <2>2. v = <<v[1], v[2]>> /\ v[1] = a /\ v[2] = b
    BY <2>1
  <2> QED
    BY <1>1, <1>3, <2>2 DEF Ensuing, Owing
<1>6. CASE v = <<a>> \o <<>>
  <2>1. v = <<a>>
    BY <1>6, Glued
  <2>2. v = <<v[1]>> /\ v[1] = a
    BY <2>1
  <2> QED
    BY <1>1, <1>3, <2>2 DEF Ensuing, Follows, Owing
<1> QED
  BY <1>2, <1>4, <1>5, <1>6

(* The dispatch of an agent.                                               *)
LEMMA DispatchLines ==
    ASSUME Handling, NEW y \in Handler(s.pending), s.pending = "dispatch_agent"
    PROVE  Line(y)
<1> DEFINE after == IF s.sub = "SHIELD_FIX" THEN ShieldCommit ELSE Verdicts
           pack == IF s.sub \in Reviews THEN Fails({"criteria_pack_mismatch"}) ELSE {}
           W == {"worktree"} \cup IF s.sub \in {"RED", "GREEN"} THEN {"plan_defect"} ELSE {}
           H == {"again", "ruling", "escalate", "failed"}
           D == IF s.sub \in {"RED", "GREEN"} THEN OfTask(after) ELSE after \cup pack
<1>1. y \in DispatchAgent
  BY DEF Handler
<1>2. s \in States /\ s.sub \in Asking
  BY DEF Handling, Settled, Typed, PendingFits
<1>3. \/ y \in Fails(W)
      \/ y \in One("outcome", H)
      \/ \E v \in Malformed \cup Fails({"reply_format_error"}) : y = <<Event("audit", "")>> \o v
      \/ \E v \in D : y = <<Event("outcome", "done")>> \o v
  BY <1>1 DEF DispatchAgent
<1>4. \A how \in W : Failing(s, how)
  BY <1>2 DEF Failing
<1>5. \A how \in H : how \in Retryable \cup {"failed"}
  BY DEF Retryable
<1>6. ASSUME NEW v \in D
      PROVE  Ensuing(v) /\ (s.sub \in {"RED", "GREEN"} => s.task # None)
  <2>1. s.sub \in {"RED", "GREEN"} => s.task # None
    BY <1>6 DEF OfTask
  <2>2. v \in after \/ v \in pack
    BY <1>6 DEF OfTask
  <2>3. CASE v \in after /\ s.sub = "SHIELD_FIX"
    <3>1. v \in ShieldCommit
      BY <2>3
    <3> QED
      BY <1>2, <2>1, <2>3, <3>1, FixesEnsue
  <2>4. CASE v \in after /\ s.sub # "SHIELD_FIX"
    <3>1. v \in Verdicts
      BY <2>4
    <3> HIDE DEF after, pack, W, H, D
    <3> QED
      BY <1>2, <2>1, <2>4, <3>1, VerdictsEnsue
  <2>5. CASE v \in pack
    <3>1. s.sub \in Reviews /\ v \in One("failed", {"criteria_pack_mismatch"})
      BY <2>5 DEF Fails
    <3>2. /\ v = <<v[1]>> /\ v[1].e = "failed" /\ v[1].how \in {"criteria_pack_mismatch"}
          /\ v[1].task = s.task /\ v[1].kept = {}
      BY <3>1, OneShape
    <3>3. Failing(s, v[1].how)
      BY <3>1, <3>2 DEF Failing
    <3>4. Owing(v[1])
      BY <1>2, <3>2 DEF Owing, States
    <3> HIDE DEF after, pack, W, H, D
    <3>5. Follows(v[1])
      BY <3>1, <3>2, <3>3 DEF Follows
    <3> QED
      BY <2>1, <3>2, <3>4, <3>5 DEF Ensuing
  <2> QED
    BY <2>1, <2>2, <2>3, <2>4, <2>5
<1> HIDE DEF W, H, D
<1>7. CASE y \in Fails(W)
  BY <1>4, <1>7, FailsLines
<1>8. CASE y \in One("outcome", H)
  <2>1. y = <<y[1]>> /\ y[1].e = "outcome" /\ y[1].how \in H
    BY <1>8, OneShape
  <2> QED
    BY <1>2, <1>5, <2>1 DEF Line, Due, Answered
<1>9. ASSUME NEW v \in Malformed \cup Fails({"reply_format_error"}),
             y = <<Event("audit", "")>> \o v
      PROVE  Line(y)
  <2> DEFINE a == Event("audit", "")
  <2>1. a.e = "audit"
    BY DEF Event
  <2>2. y = <<a>> \o v
    BY <1>9
  <2> HIDE DEF a
  <2>3. /\ v = <<v[1]>> /\ v[1].task = s.task /\ v[1].kept = {}
        /\ \/ v[1].e = "malformed" /\ v[1].how \in {"again", "ruling", "escalate"}
           \/ v[1].e = "failed" /\ v[1].how \in {"reply_format_error"}
    <3>1. CASE v \in Malformed
      BY <3>1, OneShape DEF Malformed
    <3>2. CASE v \in Fails({"reply_format_error"})
      BY <3>2, OneShape DEF Fails
    <3> QED
      BY <1>9, <3>1, <3>2
  <2> DEFINE b == v[1]
  <2>4. y = <<a, b>>
    BY <2>2, <2>3, Glued
  <2>5. y = <<y[1], y[2]>> /\ y[1] = a /\ y[2] = v[1]
    BY <2>4
  <2>6. Owing(v[1])
    BY <1>2, <2>3 DEF Owing, States
  <2>7. Pair(y[1], y[2])
    BY <1>2, <2>1, <2>3, <2>5 DEF Pair, Retryable
  <2> QED
    BY <2>5, <2>6, <2>7 DEF Line
<1>10. ASSUME NEW v \in D, y = <<Event("outcome", "done")>> \o v
       PROVE  Line(y)
  <2>1. Ensuing(v) /\ (s.sub \in {"RED", "GREEN"} => s.task # None)
    BY <1>6
  <2> QED
    BY <1>2, <1>10, <2>1, DeliveredLines DEF Handling
<1> QED
  BY <1>3, <1>7, <1>8, <1>9, <1>10

(* A handler at work.                                                      *)
LEMMA HandlerLines ==
    ASSUME Handling, NEW y \in Handler(s.pending)
    PROVE  Line(y)
<1>1. s.pending \in Commands
  BY DEF Handling, Settled, Typed, States
<1> QED
  BY <1>1, GateLines, PhaseLines, SelectLines, DispatchLines DEF Commands

(* The first event of the handler of the command in flight.                *)
LEMMA ExecuteSettles ==
    ASSUME IInv, Execute
    PROVE  IInv'
<1>1. drv = "run" /\ s.pending # None /\ Settled /\ AppendOne(Handler(s.pending))
  BY DEF Execute, IInv
<1>2. \A y \in Handler(s.pending) : y = <<>> \/ Line(y)
  BY <1>1, HandlerLines DEF Handling
<1> QED
  BY <1>1, <1>2, AppendSettles

-----------------------------------------------------------------------------
(* The steps that append nothing.                                          *)

\* What such a step may do to the projection, the log and the history.
Moved ==
    /\ s' \in States /\ s'.refs = s.refs /\ s'.count = s.count
    /\ s'.retained = s.retained /\ s'.waived = s.waived /\ s'.lock = s.lock
    /\ s'.task = s.task /\ s'.green = s.green /\ s'.graph = s.graph
    /\ \/ s'.sub = s.sub /\ (s'.doc => s.doc \/ s.sub \in Asking)
       \/ s'.sub \in {"RETURNED", "RED"}
       \/ /\ s'.sub = "BASELINE" /\ s.task = None /\ ~s'.doc
          /\ s.sub = "NEEDS_ATTENTION" \/ hist'.returned

Reread ==
    /\ log' \in Logs /\ log'.done = log.done /\ log'.started = log.started
    /\ log'.waived = log.waived /\ log'.lease = log.lease /\ log'.stale = log.stale
    /\ log'.latest = log.latest
    /\ log'.greened => log.greened
    /\ log'.pinned => log.pinned
    /\ log'.noted => log.latest # None

Retold ==
    /\ hist' \in Histories /\ hist'.held = hist.held /\ hist'.unfixed = hist.unfixed
    /\ hist.returned => hist'.returned

(* Such a step keeps what is settled.                                      *)
LEMMA MoveSettles ==
    ASSUME Settled, Moved, Reread, Retold, BoundsKept, PendingFits'
    PROVE  Settled'
<1> USE DEF Asking, Writing, Reviews
<1>1. Typed'
  BY DEF Moved, Reread, Retold, BoundsKept, Typed
<1>2. TaskPlaced'
  BY DEF Moved, Settled, TaskPlaced, Placed, InHand, Between
<1>3. LeaseKnown'
  BY DEF Moved, Reread, Settled, LeaseKnown
<1>4. StartsAnswered'
  <2>1. EffectivelyCompleted' = EffectivelyCompleted
    BY DEF EffectivelyCompleted, Moved, Reread
  <2> QED
    BY <2>1 DEF Moved, Reread, Retold, Settled, StartsAnswered
<1>5. Counted'
  BY DEF Moved, Reread, Settled, Counted
<1>6. Replays'
  BY DEF Moved, Reread, Retold, Settled, Replays, Greens
<1>7. PlansFresh'
  BY DEF Moved, Retold, Settled, PlansFresh
<1>8. WorkIsOpenAndLeased'
  BY DEF Moved, Reread, Settled, WorkIsOpenAndLeased
<1>9. GateReached'
  BY DEF Moved, Reread, Settled, GateReached
<1> QED
  BY <1>1, <1>2, <1>3, <1>4, <1>5, <1>6, <1>7, <1>8, <1>9 DEF Settled

(* A step that leaves the projection alone.                                *)
LEMMA StillSettles ==
    ASSUME Settled, s' = s, Reread, Retold, BoundsKept
    PROVE  Settled'
<1>1. Moved
  BY DEF Moved, Settled, Typed
<1>2. PendingFits'
  BY DEF Settled, PendingFits
<1> QED
  BY <1>1, <1>2, MoveSettles

(* The log and the history as they are.                                    *)
LEMMA Same ==
    ASSUME Settled
    PROVE  /\ log' = log => Reread
           /\ hist' = hist => Retold
           /\ UNCHANGED <<drv, graphs, meddles>> => BoundsKept
           /\ drv' \in {"off", "run"} /\ UNCHANGED <<graphs, meddles>> => BoundsKept
           /\ drv' \in {"off", "run"} /\ UNCHANGED graphs /\ Meddle => BoundsKept
<1>1. log' = log => Reread
  BY DEF Settled, Typed, Reread, LeaseKnown
<1>2. hist' = hist => Retold
  BY DEF Settled, Typed, Retold
<1>3. /\ UNCHANGED <<drv, graphs, meddles>> => BoundsKept
      /\ drv' \in {"off", "run"} /\ UNCHANGED <<graphs, meddles>> => BoundsKept
  BY DEF Settled, Typed, BoundsKept
<1>4. drv' \in {"off", "run"} /\ UNCHANGED graphs /\ Meddle => BoundsKept
  BY TaskCycleAssumption DEF Settled, Typed, BoundsKept, Meddle
<1> QED
  BY <1>1, <1>2, <1>3, <1>4

(* A process starts, parks, or a defect is noted; or nothing happens.      *)
LEMMA IdleSettles ==
    ASSUME IInv, Start \/ Park \/ NoteKnownIssue \/ UNCHANGED vars
    PROVE  IInv'
<1>1. Settled /\ TodoFits /\ FlagsAnswered
  BY DEF IInv
<1>2. s' = s /\ todo' = todo /\ hist' = hist /\ UNCHANGED bounds
  BY DEF Start, Park, NoteKnownIssue, vars, bounds
<1>3. Reread
  <2>1. CASE NoteKnownIssue
    <3> DEFINE b == log.latest # None
    <3>1. log' = [log EXCEPT !.noted = b]
      BY <2>1 DEF NoteKnownIssue
    <3>2. b \in BOOLEAN /\ (b => log.latest # None)
      OBVIOUS
    <3> HIDE DEF b
    <3> QED
      BY <1>1, <3>1, <3>2 DEF Reread, Settled, Typed, Logs
  <2>2. CASE log' = log
    BY <1>1, <2>2, Same
  <2> QED
    BY <2>1, <2>2 DEF Start, Park, vars
<1>4. BoundsKept /\ (todo # {} => drv' = drv)
  <2>1. drv' \in {"off", "run"}
    BY <1>1 DEF Settled, Typed, Start, Park, NoteKnownIssue, vars
  <2>2. todo # {} => drv' = drv
    BY <1>1
       DEF Start, Park, NoteKnownIssue, Parked, AtTop, vars, TodoFits, Resting
  <2> QED
    BY <1>1, <1>2, <2>1, <2>2, Same DEF bounds
<1>5. Settled'
  BY <1>1, <1>2, <1>3, <1>4, Same, StillSettles
<1>6. FlagsAnswered'
  BY <1>1, <1>2 DEF FlagsAnswered
<1>7. TodoFits'
  <2>1. CASE todo = {}
    BY <1>2, <2>1 DEF TodoFits
  <2>2. CASE todo # {}
    <3>1. UNCHANGED vars
      BY <1>1, <2>2
         DEF Start, Park, NoteKnownIssue, Parked, AtTop, TodoFits, Resting
    <3> QED
      BY <1>1, <3>1
         DEF vars, TodoFits, Fits, Owing, Owed, Quiet, Fixed, Pinning,
             Startable,
                        EffectivelyCompleted
  <2> QED
    BY <2>1, <2>2
<1> QED
  BY <1>5, <1>6, <1>7 DEF IInv

(* The handler is done.                                                    *)
LEMMA FinishSettles ==
    ASSUME IInv, Finish
    PROVE  IInv'
<1>1. Settled /\ TodoFits
  BY DEF IInv
<1>2. s' = s /\ log' = log /\ hist' = hist /\ todo' = {} /\ <<>> \in todo
      /\ UNCHANGED <<drv, graphs, meddles>>
  BY DEF Finish, bounds
<1>3. Quiet
  <2>1. Fits(<<>>)
    BY <1>1, <1>2 DEF TodoFits
  <2>2. \A a, b : <<>> # <<a>> /\ <<>> # <<a, b>>
    OBVIOUS
  <2> QED
    BY <2>1, <2>2 DEF Fits
<1>4. Settled'
  BY <1>1, <1>2, Same, StillSettles
<1>5. FlagsAnswered'
  BY <1>2, <1>3 DEF FlagsAnswered, Quiet
<1>6. TodoFits'
  BY <1>2 DEF TodoFits
<1> QED
  BY <1>4, <1>5, <1>6 DEF IInv

(* A process killed.                                                       *)
LEMMA CrashSettles ==
    ASSUME IInv, Crash
    PROVE  IInv'
<1>1. Settled /\ TodoFits /\ FlagsAnswered /\ hist \in Histories
  BY DEF IInv, Settled, Typed
<1> DEFINE b == hist.torn \/ (s.pending = None /\ todo # {})
<1>2. /\ s' = s /\ log' = log /\ drv' = "off" /\ todo' = {} /\ graphs' = graphs /\ Meddle
      /\ hist' = [hist EXCEPT !.torn = b]
  BY DEF Crash
<1>3. b \in BOOLEAN /\ (todo # {} => b) /\ (hist.torn => b)
  BY <1>1 DEF TodoFits, Histories
<1> HIDE DEF b
<1>4. Retold /\ hist'.torn = b /\ hist'.returned = hist.returned /\ hist'.round = hist.round
  BY <1>1, <1>2, <1>3 DEF Retold, Histories
<1>5. Settled'
  BY <1>1, <1>2, <1>4, Same, StillSettles
<1>6. FlagsAnswered'
  BY <1>1, <1>2, <1>3, <1>4 DEF FlagsAnswered
<1>7. TodoFits'
  BY <1>2 DEF TodoFits
<1> QED
  BY <1>5, <1>6, <1>7 DEF IInv

(* Every command has an answer or a replay that stalls; a dispatch always  *)
(* has an answer.                                                          *)
LEMMA DispatchAnswers == Handler("dispatch_agent") # {}
<1>1. Handler("dispatch_agent") = DispatchAgent
  BY DEF Handler
<1>2. <<Event("outcome", "again")>> \in DispatchAgent
  BY DEF DispatchAgent, One
<1> QED
  BY <1>1, <1>2

(* A stall clears the record.                                              *)
LEMMA StallSettles ==
    ASSUME IInv, Stall
    PROVE  IInv'
<1>1. Settled /\ TodoFits /\ FlagsAnswered /\ s \in States
  BY DEF IInv, Settled, Typed
<1>2. /\ s' = Cleared(s) /\ log' = log /\ drv' = "off" /\ todo' = {} /\ todo = {}
      /\ hist' = hist /\ UNCHANGED <<graphs, meddles>>
  BY DEF Stall, Cleared, bounds
<1>3. s.pending # "dispatch_agent"
  BY DispatchAnswers DEF Stall
<1>4. /\ s' \in States /\ s'.pending = None
      /\ s'.refs = s.refs /\ s'.count = s.count
      /\ s'.retained = s.retained /\ s'.waived = s.waived /\ s'.lock = s.lock
      /\ s'.sub = s.sub /\ s'.awaiting = s.awaiting /\ s'.target = s.target
      /\ s'.doc = s.doc /\ s'.produced = s.produced
      /\ s'.review = s.review /\ s'.graph = s.graph
      /\ s'.stub = s.stub /\ s'.task = s.task /\ s'.green = s.green
  BY <1>1, <1>2, ClearedEffect
<1>5. Moved /\ PendingFits'
  BY <1>4 DEF Moved, PendingFits
<1>6. Settled'
  BY <1>1, <1>2, <1>5, Same, MoveSettles
<1>7. FlagsAnswered'
  BY <1>1, <1>2, <1>3, <1>4 DEF FlagsAnswered, Free
<1>8. TodoFits'
  BY <1>2 DEF TodoFits
<1> QED
  BY <1>6, <1>7, <1>8 DEF IInv

(* What decide() asks for is what the substate waits for.                  *)
LEMMA DecideFits ==
    ASSUME s \in States, NEW c, c = Decide(s), c # None
    PROVE  /\ s.awaiting = None /\ c \in Commands
           /\ c # "dispatch_agent" => Free(s)
           /\ c = "freeze_baseline" => s.sub = "BASELINE"
           /\ c = "dispatch_agent" => s.sub \in Asking
           /\ c = "commit_taskgraph" => s.sub = "PLANNING"
           /\ c = "check_island_1" => s.sub = "ISLAND_GATE_1"
           /\ c = "check_island_2" => s.sub = "ISLAND_GATE_2"
           /\ c = "select_task" => s.sub = "TASK_DISPATCH"
           /\ c = "anchor_red" => s.sub = "RED" /\ s.task # None /\ ~s.doc
           /\ c = "verify_task" => s.sub \in {"RED", "GREEN"} /\ s.task # None /\ ~s.doc
           /\ c = "run_task_gates" => s.sub \in {"RED_GATE", "GREEN_GATE", "TASK_REVIEW"}
           /\ c = "checkpoint_red" => s.sub = "RED_CHECKPOINT"
           /\ c = "commit_green" => s.sub = "GREEN_COMMIT"
           /\ c = "run_refactor_gate" => s.sub = "REFACTOR_GATE"
           /\ c = "complete_task" => s.sub = "TASK_DONE"
           /\ c = "rollback_stage" => s.sub \in {"DIAGNOSE", "RETURNED"}
<1> USE DEF Asking, Writing, Reviews
<1>1. s.awaiting = None
  BY DEF Decide
<1>2. CASE s.sub = "PLANNING"
  <2>1. c = IF ~s.doc THEN "dispatch_agent"
            ELSE IF s.produced /\ ~s.graph THEN "commit_taskgraph" ELSE None
    BY <1>1, <1>2 DEF Decide
  <2>2. \/ c = "dispatch_agent"
        \/ c = "commit_taskgraph" /\ s.produced /\ ~s.graph
    BY <2>1
  <2> QED
    BY <1>1, <1>2, <2>2 DEF Commands, Free
<1>3. CASE s.sub = "RULING"
  <2>1. c = IF s.doc THEN None ELSE "dispatch_agent"
    BY <1>1, <1>3 DEF Decide
  <2> QED
    BY <1>1, <1>3, <2>1 DEF Commands
<1>4. CASE s.sub \in Reviews
  <2>1. c = IF s.sub = "DIAGNOSE" /\ s.stub THEN "rollback_stage"
            ELSE IF s.review THEN None ELSE "dispatch_agent"
    BY <1>1, <1>4 DEF Decide
  <2>2. \/ c = "dispatch_agent"
        \/ c = "rollback_stage" /\ s.sub = "DIAGNOSE" /\ s.stub
    BY <2>1
  <2> QED
    BY <1>1, <1>4, <2>2 DEF Commands, Free
<1>5. CASE s.sub \in {"RED", "GREEN", "REFACTOR", "SHIELD_FIX"}
  <2>1. c = AgentCommand(s)
    BY <1>1, <1>5 DEF Decide
  <2>2. ~s.doc
    BY <2>1 DEF AgentCommand
  <2>3. \/ c = "verify_task" /\ s.sub \in {"RED", "GREEN"} /\ s.task # None
        \/ c = "anchor_red" /\ s.sub = "RED" /\ s.task # None
        \/ c = "dispatch_agent"
    BY <2>1 DEF AgentCommand, Verification
  <2> QED
    BY <1>1, <1>5, <2>2, <2>3 DEF Commands, Free
<1>6. ASSUME NEW b \in Commands,
             s.sub \notin {"PLANNING", "RULING", "RED", "GREEN", "REFACTOR", "SHIELD_FIX"},
             s.sub \notin Reviews
      PROVE  Free(s)
  BY <1>6 DEF Free
<1>7. CASE s.sub \in {"BASELINE", "ISLAND_GATE_1", "ISLAND_GATE_2", "RED_GATE", "GREEN_GATE",
                      "TASK_REVIEW", "RED_CHECKPOINT", "GREEN_COMMIT"}
  <2>1. \/ s.sub = "BASELINE" /\ c = "freeze_baseline"
        \/ s.sub = "ISLAND_GATE_1" /\ c = "check_island_1"
        \/ s.sub = "ISLAND_GATE_2" /\ c = "check_island_2"
        \/ s.sub \in {"RED_GATE", "GREEN_GATE", "TASK_REVIEW"} /\ c = "run_task_gates"
        \/ s.sub = "RED_CHECKPOINT" /\ c = "checkpoint_red"
        \/ s.sub = "GREEN_COMMIT" /\ c = "commit_green"
    BY <1>1, <1>7 DEF Decide
  <2> QED
    BY <1>1, <1>6, <1>7, <2>1 DEF Commands
<1>8. CASE s.sub \in {"REFACTOR_GATE", "TASK_DISPATCH", "TASK_DONE", "RETURNED"}
  <2>1. \/ s.sub = "REFACTOR_GATE" /\ c = "run_refactor_gate"
        \/ s.sub = "TASK_DISPATCH" /\ c = "select_task"
        \/ s.sub = "TASK_DONE" /\ c = "complete_task"
        \/ s.sub = "RETURNED" /\ c = "rollback_stage"
    BY <1>1, <1>8 DEF Decide
  <2> QED
    BY <1>1, <1>6, <1>8, <2>1 DEF Commands
<1>9. s.sub \notin {"NEEDS_ATTENTION", "EXIT", "LEFT"}
  BY <1>1 DEF Decide
<1>10. s.sub \in Substates
  BY DEF States
<1> QED
  BY <1>2, <1>3, <1>4, <1>5, <1>7, <1>8, <1>9, <1>10 DEF Substates

\* The fields of a projection but for the ones a command changes.
Alike(t, u) ==
    /\ u.refs = t.refs /\ u.count = t.count /\ u.retained = t.retained
    /\ u.waived = t.waived /\ u.lock = t.lock /\ u.task = t.task
    /\ u.green = t.green /\ u.graph = t.graph

(* A command issued.                                                       *)
LEMMA IssueSettles ==
    ASSUME IInv, Issue
    PROVE  IInv'
<1> DEFINE c == Decide(s)
<1>1. Settled /\ TodoFits /\ FlagsAnswered /\ s \in States /\ hist \in Histories
  BY DEF IInv, Settled, Typed
<1>2. /\ drv = "run" /\ todo = {} /\ s.pending = None /\ c # None
      /\ s' = OnCommandIssued(s, c) /\ hist' = Calm(hist)
      /\ log' = log /\ todo' = todo /\ UNCHANGED <<drv, graphs, meddles>>
  BY DEF Issue, AtTop, bounds
<1> HIDE DEF c
<1>3. c = Decide(s)
  BY DEF c
<1>4. /\ s.awaiting = None /\ c \in Commands
      /\ c # "dispatch_agent" => Free(s)
      /\ c = "dispatch_agent" => s.sub \in Asking
  BY <1>1, <1>2, <1>3, DecideFits
<1>5. /\ s' \in States /\ Alike(s, s') /\ s'.pending = c /\ s'.sub = s.sub
      /\ s'.awaiting = s.awaiting /\ s'.target = s.target /\ s'.produced = s.produced
      /\ s'.stub = s.stub
      /\ c # "dispatch_agent" => s'.doc = s.doc /\ s'.review = s.review
      /\ s'.doc => s.doc \/ s.sub \in Asking
  <2>1. CASE c # "dispatch_agent"
    <3>1. s' = [s EXCEPT !.pending = c]
      BY <1>2, <2>1 DEF OnCommandIssued
    <3>2. c \in Commands \cup {None}
      BY <1>4
    <3>3. s' \in States
      BY <1>1, <3>1, <3>2, ZenonT(40) DEF States
    <3> QED
      BY <1>1, <2>1, <3>1, <3>3 DEF States, Alike
  <2>2. CASE c = "dispatch_agent" /\ s.sub \in Reviews
    <3>1. s' = [s EXCEPT !.pending = c, !.review = TRUE]
      BY <1>2, <2>2 DEF OnCommandIssued
    <3>2. c \in Commands \cup {None}
      BY <1>4
    <3>3. s' \in States
      BY <1>1, <3>1, <3>2 DEF States
    <3> QED
      BY <1>1, <2>2, <3>1, <3>3 DEF States, Alike
  <2>3. CASE c = "dispatch_agent" /\ s.sub \notin Reviews
    <3>1. s' = [s EXCEPT !.pending = c, !.doc = TRUE]
      BY <1>2, <2>3 DEF OnCommandIssued
    <3>2. c \in Commands \cup {None}
      BY <1>4
    <3>3. s' \in States
      BY <1>1, <3>1, <3>2 DEF States
    <3> QED
      BY <1>1, <1>4, <2>3, <3>1, <3>3 DEF States, Alike
  <2> QED
    BY <2>1, <2>2, <2>3
<1>6. Moved
  BY <1>5 DEF Moved, Alike
<1>7. Retold
  BY <1>1, <1>2 DEF Retold, Histories, Calm
<1>8. PendingFits'
  <2>1. c \in {"anchor_red", "verify_task"} => s'.doc = s.doc
    BY <1>5
  <2>2. s'.task = s.task /\ s'.awaiting = s.awaiting
    BY <1>5 DEF Alike
  <2> QED
    BY <1>1, <1>2, <1>3, <1>5, <2>1, <2>2, DecideFits DEF PendingFits
<1>9. Settled'
  BY <1>1, <1>2, <1>6, <1>7, <1>8, Same, MoveSettles
<1>10. FlagsAnswered'
  BY <1>4, <1>5 DEF FlagsAnswered, Free, Alike
<1>11. TodoFits'
  BY <1>2 DEF TodoFits
<1> QED
  BY <1>9, <1>10, <1>11 DEF IInv

(* The breaker of the run trips.                                           *)
LEMMA BreakerSettles ==
    ASSUME IInv, Breaker
    PROVE  IInv'
<1>1. Settled /\ TodoFits /\ FlagsAnswered /\ s \in States
  BY DEF IInv, Settled, Typed
<1>2. /\ s.pending = None /\ todo = {} /\ s.awaiting = None /\ s' = Escalate(s)
      /\ log' = log /\ hist' = hist /\ todo' = todo /\ UNCHANGED <<drv, graphs>> /\ Meddle
  BY DEF Breaker, AtTop, Active
<1>3. /\ s' \in States /\ Kept(s, s') /\ s'.sub = s.sub /\ s'.target = s.target
      /\ s'.doc = s.doc /\ s'.produced = s.produced /\ s'.review = s.review
      /\ s'.graph = s.graph /\ s'.stub = s.stub /\ s'.task = s.task /\ s'.green = s.green
  BY <1>1, <1>2, EscalateEffect
<1>4. Moved /\ PendingFits'
  BY <1>2, <1>3 DEF Moved, Kept, PendingFits
<1>5. BoundsKept
  BY <1>1, <1>2, Same DEF Settled, Typed
<1>6. Settled'
  BY <1>1, <1>2, <1>4, <1>5, Same, MoveSettles
<1>7. FlagsAnswered'
  BY <1>1, <1>2, <1>3 DEF FlagsAnswered, Free, None
<1>8. TodoFits'
  BY <1>2 DEF TodoFits
<1> QED
  BY <1>6, <1>7, <1>8 DEF IInv

(* A repair round opened.                                                  *)
LEMMA RoundSettles ==
    ASSUME IInv, NEW owner, RepairRound(owner)
    PROVE  IInv'
<1>1. Settled /\ TodoFits /\ FlagsAnswered
      /\ s \in States /\ log \in Logs /\ hist \in Histories
  BY DEF IInv, Settled, Typed
<1> DEFINE x == IF owner = "devon" THEN "RED" ELSE "DIAGNOSE"
<1>2. /\ s.pending = None /\ todo = {} /\ s.sub = "DIAGNOSE" /\ s.awaiting = "escalation"
      /\ log.rounds < RoundLimit
      /\ log' = [log EXCEPT !.rounds = @ + 1, !.seen = TRUE]
      /\ hist' = [hist EXCEPT !.round = TRUE]
      /\ todo' = todo /\ UNCHANGED <<drv, graphs, meddles>>
  BY <1>1, TaskCycleAssumption
     DEF RepairRound, Parked, AtTop, Exhausted, bounds, Logs
<1>3. s' = [s EXCEPT !.awaiting = None, !.sub = x]
  <2>1. s' = OnRepairRoundStarted(s, owner)
    BY DEF RepairRound
  <2> QED
    BY <1>1, <1>2, <2>1 DEF OnRepairRoundStarted, States
<1>4. x \in Substates /\ x \in {"RED", "DIAGNOSE"}
  BY DEF Substates, Reviews
<1> HIDE DEF x
<1>5. /\ s' \in States /\ Alike(s, s') /\ s'.pending = s.pending /\ s'.sub = x
      /\ s'.target = s.target /\ s'.doc = s.doc /\ s'.produced = s.produced
      /\ s'.review = s.review /\ s'.stub = s.stub
  BY <1>1, <1>3, <1>4 DEF States, Alike
<1>6. Moved /\ PendingFits'
  BY <1>2, <1>4, <1>5 DEF Moved, Alike, PendingFits
<1>7. Reread
  <2>1. log.rounds + 1 \in 0..RoundLimit
    BY <1>1, <1>2, TaskCycleAssumption DEF Logs
  <2>2. log' \in Logs
    BY <1>1, <1>2, <2>1 DEF Logs
  <2>3. log.noted => log.latest # None
    BY <1>1 DEF Settled, LeaseKnown
  <2> QED
    BY <1>1, <1>2, <2>2, <2>3 DEF Reread, Logs
<1>8. Retold /\ hist'.round
  BY <1>1, <1>2 DEF Retold, Histories
<1>9. Settled'
  BY <1>1, <1>2, <1>6, <1>7, <1>8, Same, MoveSettles
<1>10. FlagsAnswered'
  <2>1. CASE x = "RED"
    BY <1>5, <1>8, <2>1 DEF FlagsAnswered
  <2>2. CASE x = "DIAGNOSE"
    <3>1. Free(s) \/ hist.torn
      BY <1>1, <1>2 DEF FlagsAnswered, None
    <3>2. hist'.torn = hist.torn
      BY <1>1, <1>2 DEF Histories
    <3> QED
      BY <1>2, <1>5, <2>2, <3>1, <3>2 DEF FlagsAnswered, Free, Writing, Reviews
  <2> QED
    BY <1>4, <2>1, <2>2
<1>11. TodoFits'
  BY <1>2 DEF TodoFits
<1> QED
  BY <1>9, <1>10, <1>11 DEF IInv

-----------------------------------------------------------------------------
(* The human and the other stages.                                         *)

\* What a human command leaves: nobody asked, nothing in flight.
Reopened(t) ==
    [t EXCEPT !.awaiting = None, !.attempt = 0, !.pending = None,
              !.sub = IF @ = "NEEDS_ATTENTION" THEN "BASELINE" ELSE @]

(* The rest of the projection stays.                                       *)
LEMMA ReopenedEffect ==
    ASSUME NEW t \in States
    PROVE  /\ Reopened(t) \in States /\ Alike(t, Reopened(t))
           /\ Reopened(t).awaiting = None /\ Reopened(t).pending = None
           /\ Reopened(t).sub = t.sub
              \/ (Reopened(t).sub = "BASELINE" /\ t.sub = "NEEDS_ATTENTION")
           /\ Reopened(t).doc = t.doc /\ Reopened(t).produced = t.produced
           /\ Reopened(t).review = t.review /\ Reopened(t).stub = t.stub
           /\ Reopened(t).target = t.target
<1> DEFINE x == IF t.sub = "NEEDS_ATTENTION" THEN "BASELINE" ELSE t.sub
           w == Reopened(t)
<1>1. w = [t EXCEPT !.awaiting = None, !.attempt = 0, !.pending = None, !.sub = x]
  BY DEF Reopened
<1>2. x \in Substates /\ (x = t.sub \/ (x = "BASELINE" /\ t.sub = "NEEDS_ATTENTION"))
  BY DEF States, Substates
<1>3. 0 \in 0..AttemptLimit
  BY TaskCycleAssumption
<1> HIDE DEF x, w
<1>4. w \in States
  BY <1>1, <1>2, <1>3 DEF States
<1>5. /\ w.awaiting = None /\ w.pending = None /\ w.sub = x
      /\ w.doc = t.doc /\ w.produced = t.produced /\ w.review = t.review
      /\ w.stub = t.stub /\ w.target = t.target
      /\ Alike(t, w)
  BY <1>1 DEF States, Alike
<1> QED
  BY <1>2, <1>4, <1>5 DEF w

(* A command of a human at rest that keeps the substate, or reopens the    *)
(* baseline.                                                               *)
LEMMA RetriedRereads ==
    ASSUME Settled, log' = Retried(log)
    PROVE  Reread
<1>1. log \in Logs /\ (log.noted => log.latest # None)
  BY DEF Settled, Typed, LeaseKnown
<1> QED
  BY <1>1 DEF Reread, Retried, Logs

(* trac retry.                                                             *)
LEMMA RetrySettles ==
    ASSUME IInv, HumanRetry
    PROVE  IInv'
<1>1. Settled /\ TodoFits /\ FlagsAnswered /\ s \in States
  BY DEF IInv, Settled, Typed
<1>2. /\ s.awaiting = "escalation" \/ (s.awaiting = "rollback" /\ ~s.target)
      /\ s' = Reopened(s) /\ log' = Retried(log) /\ hist' = hist /\ todo' = todo
      /\ UNCHANGED <<drv, graphs, meddles>> /\ drv = "off"
  BY DEF HumanRetry, Reopened, bounds, Resting
<1>3. /\ s' \in States /\ Alike(s, s') /\ s'.awaiting = None /\ s'.pending = None
      /\ s'.sub = s.sub \/ (s'.sub = "BASELINE" /\ s.sub = "NEEDS_ATTENTION")
      /\ s'.doc = s.doc /\ s'.produced = s.produced
      /\ s'.review = s.review /\ s'.stub = s.stub /\ s'.target = s.target
  BY <1>1, <1>2, ReopenedEffect
<1>4. s.sub = "NEEDS_ATTENTION" => s.task = None /\ ~s.doc
  BY <1>1 DEF Settled, TaskPlaced, Placed, Between, PlansFresh
<1>5. Moved /\ PendingFits'
  BY <1>3, <1>4 DEF Moved, Alike, PendingFits
<1>6. Settled'
  BY <1>1, <1>2, <1>5, RetriedRereads, Same, MoveSettles
<1>7. s.pending = None
  BY <1>1, <1>2 DEF Settled, PendingFits, None
<1>8. FlagsAnswered'
  BY <1>1, <1>2, <1>3, <1>7
     DEF FlagsAnswered, Free, Alike, Writing, Reviews, None
<1>9. TodoFits'
  BY <1>1, <1>2 DEF TodoFits
<1> QED
  BY <1>6, <1>8, <1>9 DEF IInv

(* trac retry --clear.                                                     *)
LEMMA RetryClearSettles ==
    ASSUME IInv, HumanRetryClear
    PROVE  IInv'
<1>1. Settled /\ TodoFits /\ FlagsAnswered /\ s \in States
  BY DEF IInv, Settled, Typed
<1> DEFINE u == Reopened(s)
           v == ResetDoc(u)
<1>2. /\ s' = ResetReview(v) /\ log' = Retried(log) /\ hist' = hist /\ todo' = todo
      /\ UNCHANGED <<drv, graphs>> /\ drv = "off" /\ Meddle
  BY DEF HumanRetryClear, Reopened, Resting
<1>3. /\ u \in States /\ Alike(s, u) /\ u.pending = None
      /\ u.sub = s.sub \/ (u.sub = "BASELINE" /\ s.sub = "NEEDS_ATTENTION")
  BY <1>1, ReopenedEffect
<1> HIDE DEF u
<1>4. /\ v \in States /\ Kept(u, v) /\ v.doc = FALSE /\ v.sub = u.sub
      /\ v.graph = u.graph /\ v.task = u.task /\ v.green = u.green
  BY <1>3, ResetDocEffect
<1> HIDE DEF v
<1>5. /\ s' \in States /\ Kept(v, s') /\ s'.review = FALSE /\ s'.doc = v.doc
      /\ s'.sub = v.sub /\ s'.graph = v.graph /\ s'.task = v.task /\ s'.green = v.green
  BY <1>2, <1>4, ResetReviewEffect
<1>6. s.sub = "NEEDS_ATTENTION" => s.task = None
  BY <1>1 DEF Settled, TaskPlaced, Placed, Between
<1>7. Moved /\ PendingFits'
  BY <1>3, <1>4, <1>5, <1>6 DEF Moved, Alike, Kept, PendingFits
<1>8. Settled'
  BY <1>1, <1>2, <1>7, RetriedRereads, Same, MoveSettles DEF Settled, Typed
<1>9. FlagsAnswered'
  BY <1>4, <1>5 DEF FlagsAnswered, Free, Writing, Reviews
<1>10. TodoFits'
  BY <1>1, <1>2 DEF TodoFits
<1> QED
  BY <1>8, <1>9, <1>10 DEF IInv

(* A return upstream, approved or asked for.                               *)
LEMMA ReturnSettles ==
    ASSUME IInv, HumanApprove \/ HumanReturn
    PROVE  IInv'
<1>1. Settled /\ TodoFits /\ s \in States
  BY DEF IInv, Settled, Typed
<1>2. /\ s' = [s EXCEPT !.awaiting = None, !.sub = "RETURNED", !.pending = None]
      /\ log' = log /\ hist' = hist /\ todo' = todo /\ drv' = drv /\ drv = "off"
  BY DEF HumanApprove, HumanReturn, Resting, bounds
<1>3. BoundsKept
  <2>1. CASE HumanApprove
    BY <1>1, <2>1, Same DEF HumanApprove, bounds
  <2>2. CASE HumanReturn
    BY <1>1, <1>2, <2>2, Same DEF HumanReturn, Settled, Typed
  <2> QED
    BY <2>1, <2>2
<1>4. "RETURNED" \in Substates
  BY DEF Substates
<1>5. s' \in States
  BY <1>1, <1>2, <1>4 DEF States
<1>6. s'.sub = "RETURNED" /\ s'.pending = None /\ Alike(s, s')
  BY <1>1, <1>2 DEF States, Alike
<1>7. Moved /\ PendingFits'
  BY <1>5, <1>6 DEF Moved, Alike, PendingFits
<1>8. Settled'
  BY <1>1, <1>2, <1>3, <1>7, Same, MoveSettles
<1>9. FlagsAnswered'
  BY <1>6 DEF FlagsAnswered, Free, Writing, Reviews
<1>10. TodoFits'
  BY <1>1, <1>2 DEF TodoFits
<1> QED
  BY <1>8, <1>9, <1>10 DEF IInv

(* A return into the stage from a later one.                               *)
LEMMA ReturnIntoSettles ==
    ASSUME IInv, ReturnInto
    PROVE  IInv'
<1>1. Settled /\ TodoFits /\ s \in States /\ hist \in Histories
  BY DEF IInv, Settled, Typed
<1> DEFINE u == [s EXCEPT !.sub = "BASELINE", !.attempt = 0, !.target = FALSE]
           v == ResetDoc(u)
<1>2. /\ s.sub = "EXIT" /\ s' = ResetReview(v) /\ log' = log
      /\ hist' = [hist EXCEPT !.returned = TRUE]
      /\ todo' = todo /\ UNCHANGED <<drv, graphs>> /\ drv = "off" /\ Meddle
  BY DEF ReturnInto, OnReturnedInto, Resting
<1>3. "BASELINE" \in Substates /\ 0 \in 0..AttemptLimit
  BY TaskCycleAssumption DEF Substates
<1>4. u \in States
  BY <1>1, <1>3 DEF States
<1>5. u.sub = "BASELINE" /\ u.pending = s.pending /\ Alike(s, u)
  BY <1>1 DEF States, Alike
<1> HIDE DEF u
<1>6. /\ v \in States /\ Kept(u, v) /\ v.doc = FALSE /\ v.sub = u.sub
      /\ v.graph = u.graph /\ v.task = u.task /\ v.green = u.green
  BY <1>4, ResetDocEffect
<1> HIDE DEF v
<1>7. /\ s' \in States /\ Kept(v, s') /\ s'.review = FALSE /\ s'.doc = v.doc
      /\ s'.sub = v.sub /\ s'.graph = v.graph /\ s'.task = v.task /\ s'.green = v.green
  BY <1>2, <1>6, ResetReviewEffect
<1>8. s.task = None
  BY <1>1, <1>2 DEF Settled, TaskPlaced, Placed, Between
<1>9. s.pending = None
  <2>1. s.pending \in Commands \cup {None}
    BY <1>1 DEF States
  <2>2. s.pending # None => s.pending \notin Commands
    BY <1>1, <1>2 DEF Settled, PendingFits, Commands, Asking, Writing, Reviews
  <2> QED
    BY <2>1, <2>2
<1>10. Retold /\ hist'.returned
  BY <1>1, <1>2 DEF Retold, Histories
<1>11. Moved /\ PendingFits'
  BY <1>5, <1>6, <1>7, <1>8, <1>9, <1>10 DEF Moved, Alike, Kept, PendingFits
<1>12. BoundsKept
  BY <1>1, <1>2, Same DEF Settled, Typed
<1>13. Settled'
  BY <1>1, <1>2, <1>10, <1>11, <1>12, Same, MoveSettles
<1>14. FlagsAnswered'
  BY <1>5, <1>6, <1>7 DEF FlagsAnswered, Free, Writing, Reviews
<1>15. TodoFits'
  BY <1>1, <1>2 DEF TodoFits
<1> QED
  BY <1>13, <1>14, <1>15 DEF IInv

(* A residency begins.                                                     *)
LEMMA EnteredEffect ==
    /\ Entered \in States /\ Entered.sub = "BASELINE" /\ Entered.awaiting = None
    /\ Entered.target = FALSE /\ Entered.pending = None /\ Entered.doc = FALSE
    /\ Entered.produced = FALSE /\ Entered.review = FALSE /\ Entered.graph = FALSE
    /\ Entered.refs = FALSE /\ Entered.stub = FALSE /\ Entered.task = None
    /\ Entered.green = FALSE /\ Entered.count = 0 /\ Entered.retained = {}
    /\ Entered.waived = {} /\ Entered.lock = FALSE
<1>1. "BASELINE" \in Substates /\ 0 \in 0..AttemptLimit
  BY TaskCycleAssumption DEF Substates
<1>2. 0 \in 0..Cardinality(Tasks)
  BY TaskCycleAssumption, FS_CardinalityType
<1>3. Entered \in States
  BY <1>1, <1>2 DEF Entered, States
<1> QED
  BY <1>3 DEF Entered

(* The stages upstream are done.                                           *)
LEMMA ReenterSettles ==
    ASSUME IInv, Reenter
    PROVE  IInv'
<1> USE DEF Writing, Reviews
<1>1. /\ Settled /\ TodoFits /\ log \in Logs /\ hist \in Histories
      /\ log.noted => log.latest # None
  BY DEF IInv, Settled, Typed, LeaseKnown
<1>2. /\ s' = Entered /\ log' = [log EXCEPT !.started = {}]
      /\ hist' = [h \in DOMAIN hist |-> FALSE]
      /\ drv = "off" /\ UNCHANGED <<drv, todo, graphs, meddles>>
  BY DEF Reenter, Resting, bounds
<1>3. log' \in Logs /\ log'.started = {} /\ (log'.noted => log'.latest # None)
  BY <1>1, <1>2 DEF Logs
<1>4. hist' \in Histories
  BY <1>1, <1>2 DEF Histories
<1>5. todo' = {}
  BY <1>1, <1>2 DEF TodoFits
<1>6. /\ s' \in States /\ s'.sub = "BASELINE" /\ s'.awaiting = None
      /\ s'.pending = None /\ s'.doc = FALSE /\ s'.graph = FALSE
      /\ s'.refs = FALSE /\ s'.task = None /\ s'.count = 0 /\ s'.retained = {}
      /\ s'.waived = {} /\ s'.lock = FALSE
  BY <1>2, EnteredEffect
<1>7. Typed' /\ PendingFits'
  BY <1>1, <1>2, <1>3, <1>4, <1>6 DEF Settled, Typed, PendingFits
<1>8. TaskPlaced' /\ LeaseKnown' /\ Counted'
  BY <1>3, <1>6 DEF TaskPlaced, Placed, InHand, LeaseKnown, Counted
<1>9. StartsAnswered'
  BY <1>3 DEF StartsAnswered
<1>10. Replays' /\ PlansFresh' /\ WorkIsOpenAndLeased' /\ GateReached'
  BY <1>6 DEF Replays, PlansFresh, WorkIsOpenAndLeased, GateReached, Greens
<1>11. TodoFits' /\ FlagsAnswered'
  BY <1>5, <1>6 DEF TodoFits, FlagsAnswered, Free
<1> QED
  BY <1>7, <1>8, <1>9, <1>10, <1>11 DEF IInv, Settled

(* The defect registered: the task of the parked walk is waived, and the   *)
(* gate is reached when no task is left that is not waived.                *)
LEMMA RegisterSettles ==
    ASSUME IInv, RegisterKnownIssue
    PROVE  IInv'
<1> DEFINE i == log.latest
           D == s.retained \cup log.done
           W == s.waived \cup {i}
           x == IF s.refs /\ s.count + Cardinality(W) >= Cardinality(Tasks)
                THEN "ISLAND_GATE_2" ELSE "TASK_DISPATCH"
<1>1. Settled /\ TodoFits /\ s \in States /\ log \in Logs /\ hist \in Histories
  BY DEF IInv, Settled, Typed
<1>2. /\ s.pending = None /\ todo = {} /\ s.awaiting = "escalation" /\ log.noted
      /\ s' = OnKnownIssueRegistered(s, i)
      /\ log' = [log EXCEPT !.registered = TRUE, !.waived = @ \cup {i}]
      /\ hist' = hist /\ todo' = todo /\ UNCHANGED <<drv, graphs, meddles>>
  BY DEF RegisterKnownIssue, Parked, AtTop, bounds
<1>3. i \in Tasks
  BY <1>1, <1>2 DEF Settled, LeaseKnown, Logs
<1> DEFINE V == s.waived \cup ({i} \ {None})
<1>4. W = V /\ W \in SUBSET Tasks
  BY <1>1, <1>3, TaskCycleAssumption DEF States
<1>5. s' = [s EXCEPT !.waived = W, !.stub = FALSE, !.awaiting = None,
                     !.task = None, !.green = FALSE, !.r = FALSE, !.sub = x]
  <2> HIDE DEF V
  <2>1. s' = Go(ClearResidency([s EXCEPT !.waived = V, !.stub = FALSE, !.awaiting = None]),
                IF s.refs /\ s.count + Cardinality(V) >= Cardinality(Tasks)
                THEN "ISLAND_GATE_2" ELSE "TASK_DISPATCH")
    BY <1>1, <1>2 DEF OnKnownIssueRegistered, ClearResidency, States, V
  <2> QED
    BY <1>1, <1>4, <2>1 DEF Go, ClearResidency, States
<1>6. x = "TASK_DISPATCH" \/
      (x = "ISLAND_GATE_2" /\ s.refs /\ s.count + Cardinality(W) >= Cardinality(Tasks))
  OBVIOUS
<1> HIDE DEF x, V, W
<1>7. x \in Substates
  BY <1>6 DEF Substates
<1>8. /\ s' \in States /\ s'.pending = None /\ s'.sub = x /\ s'.awaiting = None
      /\ s'.graph = s.graph /\ s'.refs = s.refs /\ s'.task = None /\ s'.green = FALSE
      /\ s'.count = s.count /\ s'.retained = s.retained /\ s'.waived = W
      /\ s'.lock = s.lock
  <2>1. s' \in States
    BY <1>1, <1>4, <1>5, <1>7 DEF States
  <2> QED
    BY <1>1, <1>2, <1>5, <2>1 DEF States
<1>9. /\ log' \in Logs /\ log'.done = log.done /\ log'.started = log.started
      /\ log'.waived = log.waived \cup {i} /\ log'.lease = log.lease
      /\ log'.latest = i /\ log'.noted = log.noted
  BY <1>1, <1>2, <1>3 DEF Logs
<1>10. Typed'
  BY <1>1, <1>2, <1>8, <1>9 DEF Settled, Typed
<1>11. PendingFits' /\ TaskPlaced'
  BY <1>6, <1>8 DEF PendingFits, TaskPlaced, Placed, InHand
<1>12. LeaseKnown'
  BY <1>1, <1>8, <1>9 DEF LeaseKnown, Settled
<1>13. StartsAnswered'
  <2>1. EffectivelyCompleted' = EffectivelyCompleted \cup {i}
    BY <1>8, <1>9 DEF EffectivelyCompleted
  <2>2. log.started \subseteq EffectivelyCompleted \cup {i}
    BY <1>1 DEF Settled, StartsAnswered
  <2> QED
    BY <1>6, <1>8, <1>9, <2>1, <2>2 DEF StartsAnswered
<1>14. Counted'
  BY <1>1, <1>8, <1>9 DEF Counted, Settled
<1>15. Replays' /\ PlansFresh' /\ WorkIsOpenAndLeased'
  BY <1>6, <1>8 DEF Replays, PlansFresh, WorkIsOpenAndLeased, Greens
<1>16. GateReached'
  <2> SUFFICES ASSUME x = "ISLAND_GATE_2", W \cap D = {}
               PROVE  Tasks \subseteq D \cup W
    BY <1>8, <1>9 DEF GateReached
  <2>1. s.count = Cardinality(D) /\ s.count + Cardinality(W) >= Cardinality(Tasks)
    BY <1>1, <1>6 DEF Settled, Counted
  <2>2. D \in SUBSET Tasks
    BY <1>1 DEF States, Logs
  <2> HIDE DEF D
  <2> DEFINE E == D \cup W
  <2>3. E \in SUBSET Tasks /\ D \cap W = {}
    BY <1>4, <2>2
  <2>4. IsFiniteSet(Tasks) /\ IsFiniteSet(D) /\ IsFiniteSet(W)
    BY <1>4, <2>2, TaskCycleAssumption, FS_Subset
  <2>5. Cardinality(E) = Cardinality(D) + Cardinality(W) - Cardinality(D \cap W)
    BY <2>4, FS_Union
  <2>6. Cardinality(D \cap W) = 0
    BY <2>3, FS_EmptySet
  <2>7. /\ Cardinality(E) <= Cardinality(Tasks)
        /\ Cardinality(Tasks) = Cardinality(E) => Tasks = E
    BY <2>3, <2>4, FS_Subset
  <2>8. /\ Cardinality(D) \in Nat /\ Cardinality(W) \in Nat /\ Cardinality(Tasks) \in Nat
    BY <2>4, FS_CardinalityType
  <2>9. Cardinality(E) = Cardinality(Tasks)
    BY <2>1, <2>5, <2>6, <2>7, <2>8
  <2> QED
    BY <2>7, <2>9
<1>17. FlagsAnswered'
  BY <1>6, <1>8 DEF FlagsAnswered, Free, Writing, Reviews
<1>18. TodoFits'
  BY <1>2 DEF TodoFits
<1> QED
  BY <1>10, <1>11, <1>12, <1>13, <1>14, <1>15, <1>16, <1>17, <1>18
     DEF IInv, Settled

-----------------------------------------------------------------------------
(* The theorems.                                                           *)

(* A first residency begins.                                               *)
LEMMA InitSettles == Init => IInv
<1> SUFFICES ASSUME Init PROVE IInv
  OBVIOUS
<1> USE DEF Writing, Reviews
<1>1. /\ s = Entered /\ drv = "off" /\ todo = {} /\ graphs = 0 /\ meddles = 0
      /\ log.started = {} /\ ~log.noted
  BY DEF Init
<1>2. log \in Logs /\ hist \in Histories
  BY TaskCycleAssumption DEF Init, Logs, Histories
<1>3. graphs \in 0..MaxGraphs /\ meddles \in 0..MaxMeddles
  BY <1>1, TaskCycleAssumption
<1>4. /\ s \in States /\ s.sub = "BASELINE" /\ s.awaiting = None
      /\ s.pending = None /\ s.doc = FALSE /\ s.graph = FALSE
      /\ s.refs = FALSE /\ s.task = None /\ s.count = 0 /\ s.retained = {}
      /\ s.waived = {} /\ s.lock = FALSE
  BY <1>1, EnteredEffect
<1>5. Typed /\ PendingFits
  BY <1>1, <1>2, <1>3, <1>4 DEF Typed, PendingFits
<1>6. TaskPlaced /\ LeaseKnown /\ Counted
  BY <1>1, <1>4 DEF TaskPlaced, Placed, InHand, LeaseKnown, Counted
<1>7. StartsAnswered
  BY <1>1 DEF StartsAnswered
<1>8. Replays /\ PlansFresh /\ WorkIsOpenAndLeased /\ GateReached
  BY <1>4 DEF Replays, PlansFresh, WorkIsOpenAndLeased, GateReached, Greens
<1>9. TodoFits /\ FlagsAnswered
  BY <1>1, <1>4 DEF TodoFits, FlagsAnswered, Free
<1> QED
  BY <1>5, <1>6, <1>7, <1>8, <1>9 DEF IInv, Settled

(* Every step keeps it.                                                    *)
LEMMA StepSettles ==
    ASSUME IInv, [Next]_vars
    PROVE  IInv'
<1>1. CASE Start \/ Park \/ NoteKnownIssue \/ UNCHANGED vars
  BY <1>1, IdleSettles
<1>2. CASE Issue
  BY <1>2, IssueSettles
<1>3. CASE Execute
  BY <1>3, ExecuteSettles
<1>4. CASE Continue
  BY <1>4, ContinueSettles
<1>5. CASE Finish
  BY <1>5, FinishSettles
<1>6. CASE Stall
  BY <1>6, StallSettles
<1>7. CASE \E owner \in {"devon", "archer"} : RepairRound(owner)
  BY <1>7, RoundSettles
<1>8. CASE RegisterKnownIssue
  BY <1>8, RegisterSettles
<1>9. CASE Crash
  BY <1>9, CrashSettles
<1>10. CASE Breaker
  BY <1>10, BreakerSettles
<1>11. CASE HumanRetry
  BY <1>11, RetrySettles
<1>12. CASE HumanRetryClear
  BY <1>12, RetryClearSettles
<1>13. CASE HumanApprove \/ HumanReturn
  BY <1>13, ReturnSettles
<1>14. CASE Reenter
  BY <1>14, ReenterSettles
<1>15. CASE ReturnInto
  BY <1>15, ReturnIntoSettles
<1> QED
  BY <1>1, <1>2, <1>3, <1>4, <1>5, <1>6, <1>7, <1>8, <1>9, <1>10, <1>11, <1>12,
     <1>13,
     <1>14, <1>15 DEF Next, DriverStep, Human

(***************************************************************************)
(* The invariant of the walk: what is projected, what the handlers read    *)
(* and what the handler at work still owes fit together at every step.     *)
(***************************************************************************)
THEOREM CycleInvariant == Spec => []IInv
<1>1. Init => IInv
  BY InitSettles
<1>2. IInv /\ [Next]_vars => IInv'
  BY StepSettles
<1> QED
  BY <1>1, <1>2, PTL DEF Spec

(***************************************************************************)
(* Every projection, log and sequence of owed events is of its type.       *)
(***************************************************************************)
THEOREM CycleTypes == Spec => []TypeOK
<1>1. ASSUME IInv, NEW y \in todo, NEW i \in 1..Len(y)
      PROVE  y[i].task \in Tasks \cup {None} /\ y[i].kept \subseteq Tasks
  <2>1. Fits(y)
    BY <1>1 DEF IInv, TodoFits
  <2>2. CASE y = <<>>
    <3>1. Len(y) = 0
      BY <2>2
    <3> QED
      BY <3>1
  <2>3. CASE y = <<y[1]>> /\ Owing(y[1])
    <3>1. Len(y) = 1
      BY <2>3
    <3>2. i = 1
      BY <3>1
    <3> QED
      BY <2>3, <3>2 DEF Owing
  <2>4. CASE y = <<y[1], y[2]>> /\ Owing(y[1]) /\ Owing(y[2])
    <3>1. Len(y) = 2
      BY <2>4
    <3>2. i = 1 \/ i = 2
      BY <3>1
    <3> QED
      BY <2>4, <3>2 DEF Owing
  <2> QED
    BY <2>1, <2>2, <2>3, <2>4 DEF Fits
<1>2. IInv => TypeOK
  <2> SUFFICES ASSUME IInv PROVE TypeOK
    OBVIOUS
  <2>1. Typed
    BY DEF IInv, Settled
  <2>2. \A y \in todo : \A i \in 1..Len(y) :
            y[i].task \in Tasks \cup {None} /\ y[i].kept \subseteq Tasks
    BY <1>1
  <2> QED
    BY <2>1, <2>2 DEF Typed, TypeOK, States, Logs, Histories
<1> QED
  BY <1>2, CycleInvariant, PTL

(***************************************************************************)
(* The task in hand holds the lease of the graph in force and is open in   *)
(* it.                                                                     *)
(***************************************************************************)
THEOREM TaskInHandIsOpen == Spec => []WorkIsOpenAndLeased
<1>1. IInv => WorkIsOpenAndLeased
  BY DEF IInv, Settled
<1> QED
  BY <1>1, CycleInvariant, PTL

(***************************************************************************)
(* The counter of completions is the number of them, and the second island *)
(* gate is reached with every task done, retained or waived.               *)
(***************************************************************************)
THEOREM GateIsTerminal == Spec => []IslandMeansTerminal
<1>1. IInv => IslandMeansTerminal
  BY DEF IInv, Settled, Counted, GateReached, IslandMeansTerminal, CountIsTrue
<1> QED
  BY <1>1, CycleInvariant, PTL

(* A projection whose flags are answered has a command to issue.           *)
LEMMA FreeDecides ==
    ASSUME s \in States, Free(s), s.awaiting = None,
           s.sub \notin {"NEEDS_ATTENTION", "EXIT", "LEFT"}
    PROVE  Decide(s) # None
<1> USE DEF Writing, Reviews, None
<1>1. CASE s.sub = "PLANNING"
  <2>1. Decide(s) = IF ~s.doc THEN "dispatch_agent"
                    ELSE IF s.produced /\ ~s.graph THEN "commit_taskgraph" ELSE None
    BY <1>1 DEF Decide
  <2> QED
    BY <1>1, <2>1 DEF Free
<1>2. CASE s.sub = "RULING"
  <2>1. Decide(s) = IF s.doc THEN None ELSE "dispatch_agent"
    BY <1>2 DEF Decide
  <2> QED
    BY <1>2, <2>1 DEF Free
<1>3. CASE s.sub \in Reviews
  <2>1. Decide(s) = IF s.sub = "DIAGNOSE" /\ s.stub THEN "rollback_stage"
                    ELSE IF s.review THEN None ELSE "dispatch_agent"
    BY <1>3 DEF Decide
  <2> QED
    BY <1>3, <2>1 DEF Free
<1>4. CASE s.sub \in {"RED", "GREEN", "REFACTOR", "SHIELD_FIX"}
  <2>1. Decide(s) = AgentCommand(s)
    BY <1>4 DEF Decide
  <2>2. ~s.doc
    BY <1>4 DEF Free
  <2> QED
    BY <2>1, <2>2 DEF AgentCommand
<1>5. CASE s.sub \in {"BASELINE", "ISLAND_GATE_1", "ISLAND_GATE_2", "RED_GATE", "GREEN_GATE",
                      "TASK_REVIEW", "RED_CHECKPOINT", "GREEN_COMMIT"}
  BY <1>5 DEF Decide
<1>6. CASE s.sub \in {"REFACTOR_GATE", "TASK_DISPATCH", "TASK_DONE", "RETURNED"}
  BY <1>6 DEF Decide
<1>7. s.sub \in Substates
  BY DEF States
<1> QED
  BY <1>1, <1>2, <1>3, <1>4, <1>5, <1>6, <1>7 DEF Substates

(***************************************************************************)
(* A walk at rest with nobody asked has a command to issue, but for the    *)
(* three halts that are known.                                             *)
(***************************************************************************)
THEOREM CycleHaltsExplained == Spec => []HaltIsExplained
<1>1. IInv => HaltIsExplained
  <2> SUFFICES ASSUME IInv, Idle, Decide(s) = None,
                      s.sub \notin {"NEEDS_ATTENTION", "EXIT", "LEFT"}
               PROVE  \/ hist.torn
                      \/ hist.returned /\ s.sub = "PLANNING"
                      \/ hist.round /\ s.sub = "RED"
    BY DEF HaltIsExplained
  <2>1. s \in States /\ s.awaiting = None /\ s.pending # "dispatch_agent" /\ todo = {}
    BY DEF IInv, Settled, Typed, TodoFits, Idle, Resting, Active, None
  <2>2. ~Free(s)
    BY <2>1, FreeDecides
  <2> QED
    BY <2>1, <2>2 DEF IInv, FlagsAnswered
<1> QED
  BY <1>1, CycleInvariant, PTL

(* Handlers that always have an event to append.                           *)
LEMMA SomeEvents ==
    /\ \A e, how, S : One(e, {how}) \cup S # {}
    /\ \A check, S : Passes(check) \cup S # {}
    /\ \A how, S : Fails({how}) \cup S # {}
    /\ Complete # {}
<1>1. ASSUME NEW e, NEW how, NEW S
      PROVE  One(e, {how}) \cup S # {}
  <2>1. <<Event(e, how)>> \in One(e, {how})
    BY DEF One
  <2> QED
    BY <2>1
<1>2. Complete # {}
  BY DEF Complete
<1> QED
  BY <1>1, <1>2 DEF Passes, Fails

(* A handler that appends nothing took its command for a replay.           *)
LEMMA StallIsKnown ==
    ASSUME IInv, Stall
    PROVE  \/ s.sub = "TASK_DISPATCH" /\ hist.held
           \/ s.sub = "GREEN_COMMIT" /\ hist.unfixed
<1> DEFINE c == s.pending
<1>1. Settled /\ PendingFits /\ s \in States /\ log \in Logs
  BY DEF IInv, Settled, Typed
<1>2. c \in Commands /\ c # None /\ Handler(c) = {}
  BY <1>1 DEF Stall, States
<1>3. c # "dispatch_agent"
  BY <1>2, DispatchAnswers
<1>4. c # "freeze_baseline"
  <2> SUFFICES ASSUME c = "freeze_baseline" PROVE FALSE
    OBVIOUS
  <2>1. Handler(c) = One("baseline", {"current", "stale"})
    BY DEF Handler
  <2>2. <<Event("baseline", "current")>> \in One("baseline", {"current", "stale"})
    BY DEF One
  <2> QED
    BY <1>2, <2>1, <2>2
<1>5. c \notin {"commit_taskgraph", "check_island_1", "check_island_2"}
  <2>1. Handler("commit_taskgraph") # {}
    BY SomeEvents DEF Handler, CommitTaskgraph
  <2>2. Handler("check_island_1") # {}
    BY SomeEvents DEF Handler
  <2>3. Handler("check_island_2") # {}
    BY SomeEvents DEF Handler
  <2> QED
    BY <1>2, <2>1, <2>2, <2>3
<1>6. c \notin {"anchor_red", "verify_task", "run_refactor_gate", "rollback_stage"}
  <2>1. Handler("anchor_red") # {}
    BY SomeEvents DEF Handler, AnchorRed
  <2>2. Handler("verify_task") # {}
    BY SomeEvents DEF Handler
  <2>3. Handler("run_refactor_gate") # {}
    <3>1. <<Event("refactor", "")>> \in One("refactor", {""})
      BY DEF One
    <3> QED
      BY <3>1 DEF Handler, RunRefactorGate
  <2>4. Handler("rollback_stage") # {}
    <3>1. <<Event("rolled_back", "")>> \in One("rolled_back", {""})
      BY DEF One
    <3> QED
      BY <3>1 DEF Handler
  <2> QED
    BY <1>2, <2>1, <2>2, <2>3, <2>4
<1>7. c # "run_task_gates"
  <2> SUFFICES ASSUME c = "run_task_gates" PROVE FALSE
    OBVIOUS
  <2>1. RunTaskGates = {}
    BY <1>2 DEF Handler
  <2>2. CASE s.sub = "RED_GATE"
    BY <2>1, <2>2, SomeEvents DEF RunTaskGates
  <2>3. CASE s.sub = "GREEN_GATE"
    <3>1. GreenGate = {}
      BY <2>1, <2>3 DEF RunTaskGates
    <3>2. Fails({"impl_defect"}) # {}
      BY SomeEvents
    <3> QED
      BY <3>1, <3>2, SomeEvents DEF GreenGate
  <2>4. CASE s.sub \notin {"RED_GATE", "GREEN_GATE"}
    BY <2>1, <2>4, SomeEvents DEF RunTaskGates
  <2> QED
    BY <2>2, <2>3, <2>4
<1>8. c # "checkpoint_red"
  <2> SUFFICES ASSUME c = "checkpoint_red" PROVE FALSE
    OBVIOUS
  <2>1. ~log.pinned
    BY <1>1 DEF PendingFits, Settled, Replays, None
  <2> QED
    BY <1>2, <2>1, SomeEvents DEF Handler, CheckpointRed
<1>9. c # "complete_task"
  <2> SUFFICES ASSUME c = "complete_task" PROVE FALSE
    OBVIOUS
  <2>1. s.sub = "TASK_DONE"
    BY <1>1 DEF PendingFits, None
  <2>2. s.task \notin log.done \cup s.retained
    BY <1>1, <2>1 DEF Settled, TaskPlaced, Placed, InHand, WorkIsOpenAndLeased
  <2> QED
    BY <1>2, <2>2, SomeEvents DEF Handler, CompleteTask
<1>10. CASE c = "commit_green"
  <2>1. s.sub = "GREEN_COMMIT"
    BY <1>1, <1>10 DEF PendingFits, None
  <2>2. CommitGreen = {}
    BY <1>2, <1>10 DEF Handler
  <2>3. s.green /\ log.greened
    <3> SUFFICES ASSUME ~(s.green /\ log.greened) PROVE FALSE
      OBVIOUS
    <3>1. <<Event("green_no_change", "")>> \in CommitGreen
      BY DEF CommitGreen, One
    <3> QED
      BY <2>2, <3>1
  <2> QED
    BY <1>1, <2>1, <2>3 DEF Settled, Replays, Greens
<1>11. CASE c = "select_task"
  <2>1. s.sub = "TASK_DISPATCH"
    BY <1>1, <1>11 DEF PendingFits, None
  <2>2. s.task = None /\ (s.lock => log.lease # None)
    BY <1>1, <2>1 DEF Settled, TaskPlaced, Placed, Between, LeaseKnown
  <2>3. SelectTask = {}
    BY <1>2, <1>11 DEF Handler
  <2>4. log.started \subseteq EffectivelyCompleted => FALSE
    <3> SUFFICES ASSUME log.started \subseteq EffectivelyCompleted PROVE FALSE
      OBVIOUS
    <3>1. Fails({"island"}) # {}
      BY SomeEvents
    <3>2. s.refs
      BY <2>2, <2>3, <3>1 DEF SelectTask
    <3>3. RecoverTaskLease # {}
      BY DEF RecoverTaskLease
    <3>4. CASE s.lock
      BY <2>2, <2>3, <3>2, <3>3, <3>4 DEF SelectTask
    <3>5. CASE ~s.lock
      <4>1. ~(Tasks \subseteq EffectivelyCompleted)
        BY <2>2, <2>3, <3>1, <3>2, <3>5 DEF SelectTask
      <4>2. PICK i : i \in Tasks \ EffectivelyCompleted
        BY <4>1
      <4>3. StartTask(i) \in SelectTask
        BY <2>2, <3>2, <3>5, <4>1, <4>2 DEF SelectTask
      <4> QED
        BY <2>3, <4>3
    <3> QED
      BY <3>4, <3>5
  <2> QED
    BY <1>1, <2>1, <2>4 DEF Settled, StartsAnswered
<1> QED
  BY <1>2, <1>3, <1>4, <1>5, <1>6, <1>7, <1>8, <1>9, <1>10, <1>11 DEF Commands

(***************************************************************************)
(* The handlers and the decision agree on what is a replay, in every run.  *)
(***************************************************************************)
THEOREM CommandsProgressAlways == Spec => CommandsProgress
<1>1. IInv /\ [Next]_vars =>
        [Stall => \/ s.sub = "TASK_DISPATCH" /\ hist.held
                  \/ s.sub = "GREEN_COMMIT" /\ hist.unfixed]_vars
  BY StallIsKnown
<1> QED
  BY <1>1, CycleInvariant, PTL DEF Spec, CommandsProgress
=============================================================================
