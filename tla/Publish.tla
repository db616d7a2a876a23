------------------------------ MODULE Publish ------------------------------
(***************************************************************************)
(* The release of a frozen candidate: its preview, the human's decision,   *)
(* the batch of remote operations and the closing tail of the milestone,   *)
(* stages M-RELEASE, M-PUBLISH and M-MILESTONE (kernel/release.py,         *)
(* executor/publish_face.py, publish_runtime.py, milestone_chain.py,       *)
(* effects/publish.py).                                                    *)
(*                                                                         *)
(* `s' is the projected State, `log' what the handlers read back from the  *)
(* events.  A step of the driver appends one event or has one effect, so a *)
(* crash may fall between any two of them and the effect of a push may be  *)
(* there without its event.  The driver holds the writer lock (module      *)
(* WriterLock): a human command finds it off.  Others share the remote.    *)
(*                                                                         *)
(* The verify and security walk that freezes a candidate is one step of    *)
(* the environment.  Facts outside the run (blob, contract, HEAD, working  *)
(* tree, origin, sync product proof) hold or not at each preflight.  A     *)
(* preview stands for its digest; the agent gate is left out, for decide() *)
(* names no actor.  One command's loop of no-progress turns is one step.   *)
(***************************************************************************)
EXTENDS Integers, Sequences, FiniteSets

CONSTANTS
    Plan,           \* the kinds of the plan's operations, in order
    MaxCandidates,  \* bound: candidates frozen
    MaxPreviews,    \* bound: previews generated
    MaxMeddles      \* bound: changes others make to the remote

ASSUME PublishAssumption ==
    /\ Plan \in Seq({"merge", "sync", "tag"}) /\ Len(Plan) > 0
    /\ MaxCandidates \in Nat \ {0}
    /\ MaxPreviews \in Nat \ {0}
    /\ MaxMeddles \in Nat

VARIABLES
    s,          \* the projection of the run's events
    log,        \* what the handlers read from the events
    remote,     \* the object each operation's ref names
    drv,        \* the process holding the writer lock: its place, operation, push
    meddles,    \* changes made by others
    held,       \* history: operations whose object the remote held since the preview
    tried       \* history: the decision on the latest preview was executed

vars == <<s, log, remote, drv, meddles, held, tried>>

Ops == 1..Len(Plan)
Verify == "M-VERIFY"
ReleaseStages == {"M-RELEASE", "M-PUBLISH", "M-MILESTONE"}
Commands == {"generate_preview", "execute_publish", "close_milestone", "rollback_stage"}
TailLength == 5     \* trace, items, seal, refs, completion

\* What a ref names: a branch tip or base before the release, nothing, an
\* object of others, a candidate, or the product prepared for a preview.
Old == <<"old", 0>>
Absent == <<"absent", 0>>
Foreign == <<"foreign", 0>>
Candidate(c) == <<"candidate", c>>
Product(n) == <<"product", n>>
Objects == {Old, Absent, Foreign} \cup {Candidate(c) : c \in 1..MaxCandidates}
              \cup {Product(n) : n \in 1..MaxPreviews}

Untouched(i) == IF Plan[i] = "tag" THEN Absent ELSE Old

\* What the projection, the events and the driver may be.
States ==
    [stage : ReleaseStages \cup {Verify},
     sub : {"WALK", "PREVIEWING", "AWAITING_RELEASE", "DELAYED", "RETURNED",
            "PUBLISHING", "CLOSING"},
     exited : BOOLEAN, pending : Commands \cup {"none"},
     started : BOOLEAN, status : {"none", "planned", "done", "blocked"},
     done : SUBSET Ops, decision : {"none", "release", "delay", "return"},
     target : ReleaseStages \cup {Verify, "none"},
     candidate : 1..MaxCandidates,
     completed : {"no", "released", "cancelled"}]

Logs ==
    [preview : 0..MaxPreviews, of : 0..MaxCandidates, base : [Ops -> Objects],
     decided : {"none", "release", "delay", "return"},
     staled : BOOLEAN, barrier : BOOLEAN, planned : SUBSET Ops,
     status : [Ops -> {"none", "ok", "failed"}],
     traced : 0..MaxCandidates, tail : 0..TailLength]

Drivers ==
    [at : {"off", "top", "preview", "rollback", "authority", "refuse", "plan",
           "read", "push", "confirm", "close", "tail"},
     op : Ops, push : {"none", "ok", "error", "timeout"}]

TypeOK ==
    /\ s \in States
    /\ log \in Logs
    /\ remote \in [Ops -> Objects]
    /\ drv \in Drivers
    /\ meddles \in 0..MaxMeddles
    /\ held \subseteq Ops
    /\ tried \in BOOLEAN

\* The first candidate has passed the walk: M-RELEASE is entered.
Init ==
    /\ s = [stage |-> "M-RELEASE", sub |-> "PREVIEWING", exited |-> FALSE,
            pending |-> "none", started |-> FALSE, status |-> "none", done |-> {},
            decision |-> "none", target |-> "none", candidate |-> 1, completed |-> "no"]
    /\ log = [preview |-> 0, of |-> 0, base |-> [i \in Ops |-> Old], decided |-> "none",
              staled |-> FALSE, barrier |-> FALSE, planned |-> {},
              status |-> [i \in Ops |-> "none"], traced |-> 0, tail |-> 0]
    /\ remote = [i \in Ops |-> Untouched(i)]
    /\ drv = [at |-> "off", op |-> 1, push |-> "none"]
    /\ meddles = 0 /\ held = {} /\ tried = FALSE

\* The object operation i of the latest preview publishes.
Object(i) == IF Plan[i] = "sync" THEN Product(log.preview) ELSE Candidate(log.of)

Alive == s.completed = "no"
Go(at) == drv' = [drv EXCEPT !.at = at]
Resting == drv.at = "off"
-----------------------------------------------------------------------------
(* The reducers.  Every event but command.issued clears the write-ahead    *)
(* record, those of a started publish batch excepted.                      *)

Cleared(t) == [t EXCEPT !.pending = "none"]

(***************************************************************************)
(* _preserves_publish_pending: publish.planned, executed and failed events *)
(* of the command in flight keep it, once its batch is started.            *)
(***************************************************************************)
ClearedByPublish(t) ==
    IF t.pending = "execute_publish" /\ t.started THEN t ELSE Cleared(t)

(***************************************************************************)
(* release.previewed: the batch is counted anew.  The decision and the     *)
(* publish status of an earlier preview stay.                              *)
(***************************************************************************)
OnReleasePreviewed(t) ==
    [t EXCEPT !.done = {},
              !.sub = IF t.stage = "M-RELEASE" /\ t.sub = "PREVIEWING"
                      THEN "AWAITING_RELEASE" ELSE @]

OnReleaseDecided(t, action) ==
    [t EXCEPT !.decision = action,
              !.sub = CASE action = "delay" -> "DELAYED"
                        [] action = "return" -> "RETURNED"
                        [] OTHER -> @]

\* publish.planned is preserved even as the first of its batch.
OnPublishPlanned(t) ==
    LET u == [t EXCEPT !.status = "planned", !.started = TRUE] IN
    IF t.stage # "M-RELEASE" THEN u
    ELSE [u EXCEPT !.stage = "M-PUBLISH", !.sub = "PUBLISHING", !.exited = FALSE]

\* publish.executed: the stage ends with the last operation of the plan.
OnPublishExecuted(t, i) ==
    LET u == [t EXCEPT !.done = @ \cup {i}, !.status = "done"] IN
    IF u.done = Ops THEN [Cleared(u) EXCEPT !.exited = TRUE, !.started = FALSE] ELSE u

OnPublishFailed(t) == [t EXCEPT !.status = "blocked", !.exited = FALSE]

OnTraceClosed(t) ==
    IF t.stage # "M-PUBLISH" THEN t
    ELSE [t EXCEPT !.stage = "M-MILESTONE", !.sub = "CLOSING", !.exited = FALSE]

\* candidate.frozen of a new identity, then stage.entered of M-RELEASE.
OnCandidateFrozen(t, c) ==
    IF t.candidate = c THEN t
    ELSE [t EXCEPT !.candidate = c, !.decision = "none", !.status = "none",
                   !.done = {}, !.started = FALSE]

EntrySubstate == [st \in ReleaseStages \cup {Verify} |->
    CASE st = "M-RELEASE" -> "PREVIEWING" [] st = "M-PUBLISH" -> "PUBLISHING"
      [] st = "M-MILESTONE" -> "CLOSING" [] OTHER -> "WALK"]

OnStageEntered(t, st) == [t EXCEPT !.stage = st, !.sub = EntrySubstate[st], !.exited = FALSE]

\* stage.rolled_back: the flag of the exit is kept, unlike at an entry.
OnStageRolledBack(t) ==
    [t EXCEPT !.stage = t.target, !.sub = EntrySubstate[t.target], !.target = "none"]

\* command.issued: a publish command opens a new batch.
OnCommandIssued(t, c) ==
    [t EXCEPT !.pending = c, !.started = IF c = "execute_publish" THEN FALSE ELSE @]
-----------------------------------------------------------------------------
(* decide() and the run loop.                                              *)

\* Mutant: a terminal publish is issued again.
ReleaseCommandAgain(t) ==
    CASE t.sub = "PREVIEWING" -> "generate_preview"
      [] t.sub = "AWAITING_RELEASE" /\ t.decision = "release" -> "execute_publish"
      [] OTHER -> "none"

ReleaseCommand(t) ==
    CASE t.sub = "PREVIEWING" -> "generate_preview"
      [] t.sub = "AWAITING_RELEASE" /\ t.decision = "release"
            /\ t.status \in {"none", "planned"} -> "execute_publish"
      [] OTHER -> "none"

Decide(t) ==
    CASE t.completed # "no" -> "none"
      [] t.completed = "no" /\ t.sub = "RETURNED" ->
            IF t.target = "none" THEN "none" ELSE "rollback_stage"
      [] t.completed = "no" /\ t.stage = "M-RELEASE" /\ t.sub # "RETURNED" ->
            ReleaseCommand(t)
      [] t.completed = "no" /\ t.stage = "M-PUBLISH" /\ t.sub = "PUBLISHING" ->
            IF t.exited THEN "close_milestone" ELSE "none"
      [] t.completed = "no" /\ t.stage = "M-MILESTONE" /\ t.sub = "CLOSING" ->
            "close_milestone"
      [] OTHER -> "none"

Handler == [c \in Commands |->
    CASE c = "generate_preview" -> "preview" [] c = "execute_publish" -> "authority"
      [] c = "close_milestone" -> "close" [] OTHER -> "rollback"]

\* run_loop: a command issued and never resolved is executed again first.
Start ==
    /\ Resting /\ Alive /\ s.stage \in ReleaseStages
    /\ Go(IF s.pending = "none" THEN "top" ELSE Handler[s.pending])
    /\ UNCHANGED <<s, log, remote, meddles, held, tried>>

Issue ==
    /\ drv.at = "top"
    /\ Decide(s) # "none"
    /\ s' = OnCommandIssued(s, Decide(s))
    /\ Go(Handler[Decide(s)])
    /\ tried' = (tried \/ (Decide(s) = "execute_publish" /\ log.decided = "release"))
    /\ UNCHANGED <<log, remote, meddles, held>>

Park ==
    /\ drv.at = "top"
    /\ Decide(s) = "none"
    /\ Go("off")
    /\ UNCHANGED <<s, log, remote, meddles, held, tried>>

\* loop.aborted at the loop's top: the code on disk changed under the driver.
Drift ==
    /\ drv.at = "top"
    /\ s' = Cleared(s)
    /\ Go("off")
    /\ UNCHANGED <<log, remote, meddles, held, tried>>

Crash ==
    /\ ~Resting
    /\ drv' = [at |-> "off", op |-> 1, push |-> "none"]
    /\ UNCHANGED <<s, log, remote, meddles, held, tried>>
-----------------------------------------------------------------------------
(* generate_preview and rollback_stage.                                    *)

\* The staled evidence set does not cover the candidate: attention, and decide() again.
PreviewIncomplete ==
    /\ drv.at = "preview"
    /\ log.barrier
    /\ s' = Cleared(s)
    /\ Go("top")
    /\ UNCHANGED <<log, remote, meddles, held, tried>>

(***************************************************************************)
(* release.previewed, content-addressed: a new identity is a new plan of   *)
(* operations, and a sync operation records the tip it was prepared on.    *)
(***************************************************************************)
PreviewNew ==
    /\ drv.at = "preview"
    /\ ~log.barrier
    /\ log.preview < MaxPreviews
    /\ s' = OnReleasePreviewed(Cleared(s))
    /\ log' = [log EXCEPT !.preview = @ + 1, !.of = s.candidate, !.base = remote,
                          !.decided = "none", !.staled = FALSE, !.planned = {},
                          !.status = [i \in Ops |-> "none"]]
    /\ held' = {i \in Ops : Plan[i] # "sync" /\ remote[i] = Candidate(s.candidate)}
    /\ tried' = FALSE
    /\ Go("top")
    /\ UNCHANGED <<remote, meddles>>

\* _park_preview_changed: the same content lands no event, until the stall breaker stops the loop.
PreviewUnchanged ==
    /\ drv.at = "preview"
    /\ ~log.barrier
    /\ log.of = s.candidate
    /\ s' = Cleared(s)
    /\ Go("off")
    /\ UNCHANGED <<log, remote, meddles, held, tried>>

\* stage.rolled_back: a return is no phase boundary, the drive goes on.
Rollback ==
    /\ drv.at = "rollback"
    /\ s' = OnStageRolledBack(Cleared(s))
    /\ Go("top")
    /\ UNCHANGED <<log, remote, meddles, held, tried>>
-----------------------------------------------------------------------------
(* execute_publish: every operation is authorised before any effect.       *)

(***************************************************************************)
(* The latest preview is of the frozen candidate and the decision on that  *)
(* very preview is to release.                                             *)
(***************************************************************************)
Approved ==
    /\ log.preview > 0 /\ log.of = s.candidate
    /\ log.decided = "release"

\* _sync_product_remote_check: a sync branch is where it was, or has the product.
SyncCurrent ==
    \A i \in Ops : Plan[i] = "sync" => remote[i] \in {log.base[i], Object(i)}

Authorise ==
    /\ drv.at = "authority"
    /\ Approved /\ SyncCurrent
    /\ drv' = [drv EXCEPT !.at = "plan", !.op = 1]
    /\ UNCHANGED <<s, log, remote, meddles, held, tried>>

\* A fact outside the run, or the approval, is missing.
Refuse ==
    /\ drv.at = "authority"
    /\ Go("refuse")
    /\ UNCHANGED <<s, log, remote, meddles, held, tried>>

\* The census of remote tags fails while an approved plan is rebuilt: attention.required.
CensusFails ==
    /\ drv.at = "authority"
    /\ Approved
    /\ s' = Cleared(s)
    /\ Go("refuse")
    /\ UNCHANGED <<log, remote, meddles, held, tried>>

\* publish.failed names no operation: the tail's judgment does not see it.
FailPreflight ==
    /\ drv.at = "refuse"
    /\ s' = OnPublishFailed(ClearedByPublish(s))
    /\ Go("top")
    /\ UNCHANGED <<log, remote, meddles, held, tried>>
-----------------------------------------------------------------------------
(* One operation: write-ahead record, remote read, push, readback, event.  *)

\* publish.planned, unless this command wrote it before the driver was lost.
PlanOp ==
    /\ drv.at = "plan"
    /\ IF drv.op \in log.planned THEN UNCHANGED <<s, log>>
       ELSE /\ s' = OnPublishPlanned(s)
            /\ log' = [log EXCEPT !.planned = @ \cup {drv.op}]
    /\ Go("read")
    /\ UNCHANGED <<remote, meddles, held, tried>>

\* Mutant: the batch does not end at its last operation.
ExecutedGoesOn ==
    /\ s' = OnPublishExecuted(ClearedByPublish(s), drv.op)
    /\ log' = [log EXCEPT !.status[drv.op] = "ok"]
    /\ drv' = [at |-> "plan", op |-> drv.op + 1, push |-> "none"]
    /\ UNCHANGED <<remote, meddles, held, tried>>

\* publish.executed: the batch goes on with the next operation.
Executed ==
    /\ s' = OnPublishExecuted(ClearedByPublish(s), drv.op)
    /\ log' = [log EXCEPT !.status[drv.op] = "ok"]
    /\ drv' = IF drv.op = Len(Plan) THEN [drv EXCEPT !.at = "top", !.push = "none"]
              ELSE [at |-> "plan", op |-> drv.op + 1, push |-> "none"]
    /\ UNCHANGED <<remote, meddles, held, tried>>

\* Mutant: a failed operation does not stop the batch.
FailedContinues ==
    /\ s' = OnPublishFailed(ClearedByPublish(s))
    /\ log' = [log EXCEPT !.status[drv.op] = "failed"]
    /\ drv' = IF drv.op = Len(Plan) THEN [drv EXCEPT !.at = "top", !.push = "none"]
              ELSE [at |-> "plan", op |-> drv.op + 1, push |-> "none"]
    /\ UNCHANGED <<remote, meddles, held, tried>>

\* reconcile_conflict and publish.failed, or publish.failed: the batch stops.
Failed ==
    /\ s' = OnPublishFailed(ClearedByPublish(s))
    /\ log' = [log EXCEPT !.status[drv.op] = "failed"]
    /\ drv' = [drv EXCEPT !.at = "top", !.push = "none"]
    /\ UNCHANGED <<remote, meddles, held, tried>>

(***************************************************************************)
(* What a remote accepts: a branch only moves forward, a sync branch only  *)
(* from the tip the product was prepared on (--force-with-lease), and a    *)
(* tag is only created.                                                    *)
(***************************************************************************)
MayBecome(i, v) ==
    CASE Plan[i] = "merge" -> v = Old \/ v \in {Candidate(c) : c \in 1..log.of - 1}
      [] Plan[i] = "sync" -> v = log.base[i]
      [] OTHER -> v = Absent

\* The remote already holds the object: reconciled_skip.
ReadMatches ==
    /\ drv.at = "read"
    /\ remote[drv.op] = Object(drv.op)
    /\ Executed

ReadMayPush ==
    /\ drv.at = "read"
    /\ remote[drv.op] # Object(drv.op)
    /\ MayBecome(drv.op, remote[drv.op])
    /\ Go("push")
    /\ UNCHANGED <<s, log, remote, meddles, held, tried>>

\* Another object is there, or the read fails.
ReadFails ==
    /\ drv.at = "read"
    /\ Failed

(***************************************************************************)
(* The push takes effect or not, and what the caller sees of it, success,  *)
(* an error or a timeout, does not tell which.                             *)
(***************************************************************************)
PushLands ==
    /\ drv.at = "push"
    /\ MayBecome(drv.op, remote[drv.op])
    /\ remote' = [remote EXCEPT ![drv.op] = Object(drv.op)]
    /\ held' = held \cup {drv.op}
    /\ \E seen \in {"ok", "error", "timeout"} :
          drv' = [drv EXCEPT !.at = "confirm", !.push = seen]
    /\ UNCHANGED <<s, log, meddles, tried>>

PushLost ==
    /\ drv.at = "push"
    /\ \E seen \in {"error", "timeout"} : drv' = [drv EXCEPT !.at = "confirm", !.push = seen]
    /\ UNCHANGED <<s, log, remote, meddles, held, tried>>

\* Mutant: what the push returned is believed.
ConfirmUnread ==
    /\ drv.at = "confirm"
    /\ drv.push # "error"
    /\ Executed

\* The readback, not the push's return, is the proof: done or reconciled_skip.
Confirm ==
    /\ drv.at = "confirm"
    /\ remote[drv.op] = Object(drv.op)
    /\ drv.push # "error"
    /\ Executed

\* Unconfirmed, refused, or the readback fails.
Unconfirmed ==
    /\ drv.at = "confirm"
    /\ Failed
-----------------------------------------------------------------------------
(* close_milestone: each step of the tail is its own event, skipped when   *)
(* that event is there, whichever release it belongs to.                   *)

BatchTerminal == log.of = s.candidate /\ \A i \in Ops : log.status[i] = "ok"

\* _block_incomplete_publish: an unfinished batch is never closed over.
Close ==
    /\ drv.at = "close"
    /\ IF BatchTerminal THEN Go("tail") /\ UNCHANGED s
       ELSE Go("top") /\ s' = Cleared(s)
    /\ UNCHANGED <<log, remote, meddles, held, tried>>

\* milestone.trace_closed, the closed items, milestone.sealed, refs.cleaned.
TailStep ==
    /\ drv.at = "tail"
    /\ log.tail < TailLength - 1
    /\ s' = IF log.tail = 0 THEN OnTraceClosed(Cleared(s)) ELSE Cleared(s)
    /\ log' = [log EXCEPT !.tail = @ + 1,
                          !.traced = IF log.tail = 0 THEN s.candidate ELSE @]
    /\ UNCHANGED <<remote, drv, meddles, held, tried>>

\* The seal or the cleaning fails for good: attention once, then the stall breaker.
TailFails ==
    /\ drv.at = "tail"
    /\ log.tail \in {2, 3}
    /\ s' = Cleared(s)
    /\ Go("off")
    /\ UNCHANGED <<log, remote, meddles, held, tried>>

\* run.completed(released).
Complete ==
    /\ drv.at = "tail"
    /\ log.tail = TailLength - 1
    /\ s' = [Cleared(s) EXCEPT !.completed = "released"]
    /\ log' = [log EXCEPT !.tail = TailLength]
    /\ Go("off")
    /\ UNCHANGED <<remote, meddles, held, tried>>
-----------------------------------------------------------------------------
(* The human, at the command line.                                         *)

\* cmd_release: one decision on the latest preview, while nothing was staled.
HumanDecide(action) ==
    /\ Resting /\ Alive
    /\ log.preview > 0 /\ log.decided = "none"
    /\ ~log.staled /\ log.of = s.candidate
    /\ s' = OnReleaseDecided(Cleared(s), action)
    /\ log' = [log EXCEPT !.decided = action]
    /\ UNCHANGED <<remote, drv, meddles, held, tried>>

Upstream(st) ==
    CASE st = "M-RELEASE" -> {Verify}
      [] st = "M-PUBLISH" -> {Verify, "M-RELEASE"}
      [] OTHER -> {Verify, "M-RELEASE", "M-PUBLISH"}

\* cmd_return: the downstream evidence is staled, then human.return.
HumanReturn(to) ==
    /\ Resting /\ Alive /\ s.stage \in ReleaseStages
    /\ to \in Upstream(s.stage)
    /\ s' = [Cleared(s) EXCEPT !.sub = "RETURNED", !.target = to]
    /\ log' = [log EXCEPT !.staled = TRUE, !.barrier = TRUE]
    /\ UNCHANGED <<remote, drv, meddles, held, tried>>

HumanAbandon ==
    /\ Resting /\ Alive
    /\ s' = [Cleared(s) EXCEPT !.completed = "cancelled"]
    /\ UNCHANGED <<log, remote, drv, meddles, held, tried>>
-----------------------------------------------------------------------------
(* The environment.                                                        *)

(***************************************************************************)
(* The verify and security walk passes again, for this candidate or a new  *)
(* one, and the drive that did it goes on.  It does not get through while  *)
(* the exit of a release stage is still projected.                         *)
(***************************************************************************)
Rewalk(c) ==
    /\ Resting /\ Alive
    /\ s.stage = Verify /\ s.sub = "WALK" /\ ~s.exited
    /\ log.preview < MaxPreviews
    /\ c \in {s.candidate, s.candidate + 1} /\ c <= MaxCandidates
    /\ s' = OnStageEntered(OnCandidateFrozen(Cleared(s), c), "M-RELEASE")
    /\ log' = [log EXCEPT !.barrier = FALSE]
    /\ Go("top")
    /\ UNCHANGED <<remote, meddles, held, tried>>

\* Others move a ref, or put it back.
Meddle(i, v) ==
    /\ meddles < MaxMeddles
    /\ v # remote[i]
    /\ remote' = [remote EXCEPT ![i] = v]
    /\ meddles' = meddles + 1
    /\ UNCHANGED <<s, log, drv, held, tried>>
-----------------------------------------------------------------------------
DriverStep ==
    \/ Issue \/ Park
    \/ PreviewIncomplete \/ PreviewNew \/ PreviewUnchanged \/ Rollback
    \/ Authorise \/ Refuse \/ CensusFails \/ FailPreflight
    \/ PlanOp \/ ReadMatches \/ ReadMayPush \/ ReadFails
    \/ PushLands \/ PushLost \/ Confirm \/ Unconfirmed
    \/ Close \/ TailStep \/ TailFails \/ Complete

Next ==
    \/ Start \/ DriverStep \/ Drift \/ Crash
    \/ \E action \in {"release", "delay", "return"} : HumanDecide(action)
    \/ \E to \in ReleaseStages \cup {Verify} : HumanReturn(to)
    \/ HumanAbandon
    \/ \E c \in 1..MaxCandidates : Rewalk(c)
    \/ \E i \in Ops : \E v \in {Foreign, Untouched(i)} : Meddle(i, v)

Spec == Init /\ [][Next]_vars

\* The lock's holder is one process that goes on until it returns or is lost.
FairSpec == Spec /\ WF_vars(DriverStep)
-----------------------------------------------------------------------------
(* Properties.                                                             *)

(***************************************************************************)
(* Nothing is put on the remote but under the human's decision to release  *)
(* the very preview being published, by a started command whose record     *)
(* survives, after the operation's own write-ahead record and after every  *)
(* earlier operation of the plan has succeeded, whatever crashes, returns  *)
(* and replays came before (execute_publish_operations).                   *)
(***************************************************************************)
PushesAreAuthorised ==
    [][remote' # remote /\ meddles' = meddles =>
          /\ log.of = s.candidate /\ log.decided = "release"
          /\ s.pending = "execute_publish" /\ s.started
          /\ drv.op \in log.planned
          /\ \A j \in 1..drv.op - 1 : log.status[j] = "ok"]_vars

(***************************************************************************)
(* An operation recorded as published was on the remote: a push that timed *)
(* out, failed after it took effect, or was replayed after a crash is only *)
(* believed on the remote's word (_push_confirmation).                     *)
(***************************************************************************)
PublishedWasOnRemote == \A i \in Ops : log.status[i] = "ok" => i \in held

(***************************************************************************)
(* What is recorded as published was on the remote, and a run ends as      *)
(* released only when every operation of the latest preview succeeded, for *)
(* the candidate frozen last, and the human decided to release that        *)
(* preview and no other (_push_confirmation, _complete_milestone).  On the way    *)
(* there the two judgments of the same events agree: when the projection,  *)
(* whose done keys only grow, has left M-PUBLISH, the tail's judgment by   *)
(* the last status finds nothing missing, or close_milestone would be      *)
(* refused without end (on_publish_events, _publish_batch_incomplete).     *)
(***************************************************************************)
ReleasedMeansPublished ==
    /\ PublishedWasOnRemote
    /\ s.completed = "released" =>
           /\ log.of = s.candidate /\ log.decided = "release"
           /\ \A i \in Ops : log.status[i] = "ok"
    /\ s.stage = "M-PUBLISH" /\ s.sub = "PUBLISHING" /\ s.exited => BatchTerminal

(***************************************************************************)
(* A drive comes to rest: no command is issued and refused without end.    *)
(* The exception is a preview whose evidence was staled, where every turn  *)
(* of the loop leaves another attention (_park_preview).                   *)
(***************************************************************************)
DriveRests ==
    ~Resting ~> (Resting \/ (s.sub = "PREVIEWING" /\ log.barrier))

(***************************************************************************)
(* What machine.py:710-718 and publish_face.py:132 say, and the code does  *)
(* not do: a stopped batch keeps its command, for the next drive to replay *)
(* it.  An attention of the replay itself, or an aborted loop, clears it.  *)
(***************************************************************************)
StoppedBatchKeepsCommand ==
    Resting /\ Alive /\ s.stage = "M-PUBLISH" /\ s.sub = "PUBLISHING"
        /\ ~s.exited /\ ~log.staled => s.pending = "execute_publish"

(***************************************************************************)
(* What release.py:143-146 says, and the code does not do: a new preview   *)
(* and decision fix a blocked publish.  The status of the earlier preview  *)
(* stays, and the decision is never executed.                              *)
(***************************************************************************)
DecisionIsExecuted ==
    Resting /\ Alive /\ s.sub = "AWAITING_RELEASE" /\ s.pending = "none"
        /\ log.decided = "release" /\ ~tried => Decide(s) = "execute_publish"
=============================================================================
