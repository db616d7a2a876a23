----------------------------- MODULE VerifyWalk -----------------------------
(***************************************************************************)
(* The verification of a release candidate: stages M-VERIFY and M-SECURITY *)
(* up to the entry of M-RELEASE, where module Publish begins.  The links   *)
(* of the walk (freeze, FULL judgment, closure evidence, local gates, CI   *)
(* readback, final review, security) are chained by their handlers, each   *)
(* issuing the next; decide() drives none of them.  What brings a stopped  *)
(* walk forward is the entry of run_loop alone, once for each `trac run'.  *)
(*                                                                         *)
(* `s' is the projected State, `log' and `ev' what the handlers read back  *)
(* from the events: the identity of the candidates, and the evidence bound *)
(* to the current one.  A step of the driver appends one event, or a few   *)
(* no crash can tell apart; a crash may fall between any two.  The driver  *)
(* holds the writer lock (module WriterLock) and gives it up only while it *)
(* waits for CI.  The repository has no lock: commits and edits interleave *)
(* with the driver.                                                        *)
(*                                                                         *)
(* A commit is its number in the history.  What a test run, a gate, CI, a  *)
(* reviewer or a scan answers is a choice; MaxBad bounds the bad answers,  *)
(* to fewer than the failed reviews that would escalate the run.  Left     *)
(* out: the version gate's own attention, build and smoke phases (gates    *)
(* of another name), a version without closure experiments (the link is    *)
(* then a pass), and the human's return.                                   *)
(***************************************************************************)
EXTENDS Integers, Sequences, FiniteSets

CONSTANTS
    MaxCommits,   \* bound: commits of the repository
    RoundLimit,   \* repair rounds a run may open (3 in the code)
    NumGates,     \* local gates the host contract declares
    MaxBad,       \* bound: bad or late answers, and edits left in the working tree
    MaxCrashes    \* bound: drivers that die

ASSUME VerifyAssumption ==
    /\ MaxCommits \in Nat \ {0} /\ RoundLimit \in Nat \ {0} /\ NumGates \in Nat \ {0}
    /\ MaxBad \in Nat /\ MaxCrashes \in Nat

VARIABLES
    tree,     \* the repository: HEAD, the round each commit's trailer names, dirtiness
    s,        \* the projection of the run's events
    log,      \* the candidates frozen, their fix chain, repair rounds, known issue
    ev,       \* the evidence bound to the current candidate
    attn,     \* what became of the latest attention of each area
    drv,      \* the driver
    left,     \* what is left of the bounds
    moved     \* history: HEAD moved under a link since the candidate was frozen

vars == <<tree, s, log, ev, attn, drv, left, moved>>

Commits == 1..MaxCommits
Gates == 1..NumGates
Areas == {"freeze", "host_contract", "local_gate", "ci_readback", "review"}
AutoRetry == {"freeze", "ci_readback"}
Guarded == {"judge_full_f_reuse", "produce_closure_evidence", "run_local_gates",
            "observe_ci_runs", "assess_security"}
Commands == Guarded \cup {"freeze_candidate", "dispatch_agent"}
Places == Commands \cup {"off", "entry", "check", "issue", "mint", "full", "baseline",
                         "gate", "refuse", "route", "wait", "exit", "enter", "leave",
                         "release"}

NoEvidence == [closure |-> "none", gate |-> [g \in Gates |-> "none"],
               at |-> [g \in Gates |-> 0], once |-> FALSE, ci |-> "none", review |-> "none",
               security |-> "none", reused |-> FALSE]
Off == [at |-> "off", ret |-> "off", next |-> "freeze_candidate", replay |-> FALSE,
        sha |-> 0, gate |-> 1, green |-> TRUE]

TypeOK ==
    /\ tree \in [head : Commits, trailer : [Commits -> 0..RoundLimit], dirty : BOOLEAN]
    /\ s \in [stage : {"M-VERIFY", "M-SECURITY", "M-RELEASE"},
              sub : {"VERIFYING", "RESPOND", "EXIT", "ASSESSING", "PREVIEWING"},
              exited : BOOLEAN, pending : Commands \cup {"none"}]
    /\ log.frozen \in Seq(Commits) /\ Len(log.frozen) <= MaxCommits
    /\ log.rounds \in Seq(Commits) /\ Len(log.rounds) <= RoundLimit
    /\ log.pred \in [Commits -> 0..MaxCommits] /\ log.old \in 0..MaxCommits
    /\ log.staled \in BOOLEAN /\ log.issue \in {"none", "pending", "registered"}
    /\ log.full \in [at : 0..MaxCommits, is : {"none", "running", "failed", "passed", "staled"}]
    /\ ev \in [closure : {"none", "blocked", "declared", "closed"},
               gate : [Gates -> {"none", "passed", "failed"}], at : [Gates -> 0..MaxCommits],
               once : BOOLEAN, ci : {"none", "failed", "passed"},
               review : {"none", "pass", "revise"}, security : {"none", "failed", "passed"},
               reused : BOOLEAN]
    /\ attn \in [Areas -> {"none", "open", "overtaken"}]
    /\ drv \in [at : Places, ret : {"off", "check"}, next : Commands, replay : BOOLEAN,
                sha : 0..MaxCommits, gate : Gates, green : BOOLEAN]
    /\ left \in [bad : 0..MaxBad, crashes : 0..MaxCrashes]
    /\ moved \in BOOLEAN

\* M-VERIFY has just been entered; M-IMPL's last FULL may be of this HEAD.
Init ==
    /\ tree = [head |-> 1, trailer |-> [c \in Commits |-> 0], dirty |-> FALSE]
    /\ s = [stage |-> "M-VERIFY", sub |-> "VERIFYING", exited |-> FALSE, pending |-> "none"]
    /\ \E full \in {[at |-> 0, is |-> "none"], [at |-> 1, is |-> "passed"]} :
          log = [frozen |-> <<>>, pred |-> [c \in Commits |-> 0], old |-> 0,
                 staled |-> FALSE, rounds |-> <<>>, issue |-> "none", full |-> full]
    /\ ev = NoEvidence
    /\ attn = [a \in Areas |-> "none"]
    /\ drv = Off
    /\ left = [bad |-> MaxBad, crashes |-> MaxCrashes]
    /\ moved = FALSE

-----------------------------------------------------------------------------
Frozen == log.frozen # <<>>
Candidate == IF Frozen THEN log.frozen[Len(log.frozen)] ELSE 0

Walking == s.stage = "M-VERIFY" /\ s.sub = "VERIFYING" /\ ~s.exited

\* Mutant: the commit the evidence is of is not compared.
EvidenceMissingAnywhere == Walking /\ Frozen /\ ~ev.once

\* No local gate ever passed on the current candidate, and HEAD still is it.
EvidenceMissing == Walking /\ Frozen /\ tree.head = Candidate /\ ~ev.once

\* The latest round opened for a candidate, or for the one it replaced.
OwnRound(c) == CHOOSE r \in 0..Len(log.rounds) :
    /\ r > 0 => log.rounds[r] = c
    /\ \A q \in r + 1..Len(log.rounds) : log.rounds[q] # c

RoundOf(c) ==
    LET inherited[d \in 0..MaxCommits] ==
          IF d = 0 THEN 0
          ELSE IF OwnRound(d) > 0 THEN OwnRound(d) ELSE inherited[log.pred[d]]
    IN inherited[c]

\* HEAD's trailer names the round of the frozen candidate's fix chain.
RewalkAllowed == RoundOf(Candidate) > 0 /\ tree.trailer[tree.head] = RoundOf(Candidate)

Unresolved == {a \in Areas : attn[a] # "none"}

\* An attention a plain `trac run' must not clear: the latest one is later than
\* the latest repair round exactly when some unresolved one is.
Blocked ==
    /\ s.stage = "M-VERIFY"
    /\ Unresolved # {}
    /\ Unresolved \cap AutoRetry = {}
    /\ ~(Frozen /\ tree.head # Candidate)
    /\ \E a \in Unresolved : attn[a] = "open"

\* An event other than command.issued resolves the write-ahead record.
Appended == s' = [s EXCEPT !.pending = "none"]
At(place) == drv' = [drv EXCEPT !.at = place]
Hand(kind) == drv' = [drv EXCEPT !.at = "issue", !.next = kind]
Stop == drv' = [Off EXCEPT !.at = drv.ret]
Attention(area) == attn' = [attn EXCEPT ![area] = "open"]
Bad == left.bad > 0 /\ left' = [left EXCEPT !.bad = @ - 1]

-----------------------------------------------------------------------------
(* The entry of run_loop: recovery, then one re-drive.                      *)

Drive ==
    /\ drv.at = "off" /\ s.stage # "M-RELEASE"
    /\ At("entry")
    /\ UNCHANGED <<tree, s, log, ev, attn, left, moved>>

\* Mutant: only the gates count as a link that must not be replayed.
StaleLinkGates == s.stage = "M-VERIFY" /\ s.pending = "run_local_gates" /\ EvidenceMissing

\* A link a dead driver left behind is parked for the operator, not replayed.
StaleLink == s.stage = "M-VERIFY" /\ s.pending \in Guarded /\ EvidenceMissing

ParkStaleLink ==
    /\ drv.at = "entry" /\ StaleLink
    /\ drv' = Off
    /\ \/ Blocked /\ UNCHANGED <<s, attn>>
       \/ ~Blocked /\ Appended /\ Attention("local_gate")
    /\ UNCHANGED <<tree, log, ev, left, moved>>

Recover ==
    /\ drv.at = "entry" /\ ~StaleLink
    /\ drv' = IF s.pending = "none"
              THEN [Off EXCEPT !.at = "check"]
              ELSE [Off EXCEPT !.at = s.pending, !.ret = "check", !.replay = TRUE]
    /\ UNCHANGED <<tree, s, log, ev, attn, left, moved>>

\* Nothing below the entry moves the walk: decide() has no command for it.
ResumeReleaseChain ==
    /\ drv.at = "check"
    /\ drv' = IF Blocked THEN Off
              ELSE IF Walking
              THEN [Off EXCEPT !.at = "issue", !.next = IF EvidenceMissing
                                                        THEN "run_local_gates"
                                                        ELSE "freeze_candidate"]
              ELSE IF s.stage = "M-SECURITY" /\ ~s.exited
              THEN [Off EXCEPT !.at = "issue", !.next = "assess_security"]
              ELSE Off
    /\ UNCHANGED <<tree, s, log, ev, attn, left, moved>>

Issue ==
    /\ drv.at = "issue"
    /\ s' = [s EXCEPT !.pending = drv.next]
    /\ drv' = [drv EXCEPT !.at = drv.next, !.replay = FALSE]
    /\ UNCHANGED <<tree, log, ev, attn, left, moved>>

-----------------------------------------------------------------------------
(* Freezing the candidate.                                                  *)

Freezing == drv.at = "freeze_candidate" /\ ~(drv.replay /\ Frozen)
Drifted == Frozen /\ tree.head # Candidate

FreezeReplayed ==
    /\ drv.at = "freeze_candidate" /\ drv.replay /\ Frozen
    /\ Stop
    /\ UNCHANGED <<tree, s, log, ev, attn, left, moved>>

FreezeDirty ==
    /\ Freezing /\ tree.dirty
    /\ Appended /\ Attention("freeze") /\ Stop
    /\ UNCHANGED <<tree, log, ev, left, moved>>

FreezeStands ==
    /\ Freezing /\ ~tree.dirty /\ Frozen /\ ~Drifted
    /\ Hand("judge_full_f_reuse")
    /\ UNCHANGED <<tree, s, log, ev, attn, left, moved>>

\* HEAD moved without the trailer of an open round: candidate.stale.
FreezeDrift ==
    /\ Freezing /\ ~tree.dirty /\ Drifted /\ ~RewalkAllowed
    /\ Appended /\ At("route")
    /\ UNCHANGED <<tree, log, ev, attn, left, moved>>

FreezeFirst ==
    /\ Freezing /\ ~tree.dirty /\ ~Frozen
    /\ drv' = [drv EXCEPT !.at = "mint", !.sha = tree.head]
    /\ UNCHANGED <<tree, s, log, ev, attn, left, moved>>

\* A fix commit: candidate.stale, and evidence.staled once for the old candidate,
\* which no FULL before it survives.
FreezeRewalk ==
    /\ Freezing /\ ~tree.dirty /\ Drifted /\ RewalkAllowed
    /\ Appended
    /\ log' = IF log.staled THEN log
              ELSE [log EXCEPT !.staled = TRUE, !.old = Candidate,
                               !.full.is = IF @ = "passed" THEN "staled" ELSE @]
    /\ drv' = [drv EXCEPT !.at = "mint", !.sha = tree.head]
    /\ UNCHANGED <<tree, ev, attn, left, moved>>

\* candidate.frozen: it resolves every attention but a review's, which has no area.
Mint ==
    /\ drv.at = "mint"
    /\ Appended
    /\ log' = [log EXCEPT !.frozen = Append(@, drv.sha), !.pred[drv.sha] = log.old,
                          !.old = 0, !.staled = FALSE, !.issue = "none"]
    /\ ev' = NoEvidence
    /\ attn' = [a \in Areas |-> IF a = "review" THEN attn[a] ELSE "none"]
    /\ moved' = (tree.head # drv.sha)
    /\ Hand("judge_full_f_reuse")
    /\ UNCHANGED <<tree, left>>

-----------------------------------------------------------------------------
(* FULL and the closure evidence.                                           *)

\* The latest FULL selection passed on the candidate and is identical to what
\* the working tree would select now.
Reusable == log.full = [at |-> Candidate, is |-> "passed"]
               /\ tree.head = Candidate /\ ~tree.dirty

JudgeReuse ==
    /\ drv.at = "judge_full_f_reuse" /\ Reusable
    /\ \/ ev.reused /\ UNCHANGED <<s, ev>>
       \/ ~ev.reused /\ Appended /\ ev' = [ev EXCEPT !.reused = TRUE]
    /\ Hand("produce_closure_evidence")
    /\ UNCHANGED <<tree, log, attn, left, moved>>

JudgeRerun ==
    /\ drv.at = "judge_full_f_reuse" /\ ~Reusable
    /\ Appended
    /\ log' = [log EXCEPT !.full = [at |-> tree.head, is |-> "running"]]
    /\ At("full")
    /\ UNCHANGED <<tree, ev, attn, left, moved>>

FullPasses ==
    /\ drv.at = "full"
    /\ Appended
    /\ log' = [log EXCEPT !.full.is = "passed"]
    /\ Hand("produce_closure_evidence")
    /\ UNCHANGED <<tree, ev, attn, left, moved>>

FullFails ==
    /\ drv.at = "full" /\ Bad
    /\ Appended
    /\ log' = [log EXCEPT !.full.is = "failed"]
    /\ Stop
    /\ UNCHANGED <<tree, ev, attn, moved>>

\* A manifest for the candidate exists, whatever became of its experiment.
ClosureExists ==
    /\ drv.at = "produce_closure_evidence" /\ ev.closure # "none"
    /\ Hand("run_local_gates")
    /\ UNCHANGED <<tree, s, log, ev, attn, left, moved>>

ClosureDeclared ==
    /\ drv.at = "produce_closure_evidence" /\ ev.closure = "none"
    /\ Appended
    /\ ev' = [ev EXCEPT !.closure = "declared"]
    /\ At("baseline")
    /\ UNCHANGED <<tree, log, attn, left, moved>>

ClosureProduced ==
    /\ drv.at = "baseline"
    /\ Appended
    /\ ev' = [ev EXCEPT !.closure = "closed"]
    /\ Hand("run_local_gates")
    /\ UNCHANGED <<tree, log, attn, left, moved>>

ClosureBlocked ==
    /\ drv.at = "produce_closure_evidence" /\ ev.closure = "none" /\ Bad
    /\ Appended
    /\ ev' = [ev EXCEPT !.closure = "blocked"]
    /\ Stop
    /\ UNCHANGED <<tree, log, attn, moved>>

-----------------------------------------------------------------------------
(* The local gates and the repair route of their failure.                   *)

AllPassed == \A g \in Gates : ev.gate[g] = "passed"

GatesReused ==
    /\ drv.at = "run_local_gates" /\ drv.replay /\ AllPassed
    /\ Hand("observe_ci_runs")
    /\ UNCHANGED <<tree, s, log, ev, attn, left, moved>>

GatesBegin ==
    /\ drv.at = "run_local_gates" /\ ~(drv.replay /\ AllPassed)
    /\ drv' = [drv EXCEPT !.at = "gate", !.gate = 1, !.green = TRUE]
    /\ UNCHANGED <<tree, s, log, ev, attn, left, moved>>

\* host_contract.invalid and a failed contract gate: no attention.
ContractInvalid ==
    /\ drv.at = "run_local_gates" /\ Bad
    /\ Appended /\ At("route")
    /\ UNCHANGED <<tree, log, ev, attn, moved>>

\* Every gate runs, on the live tree, whatever the ones before it gave.
AfterGate(green) ==
    drv' = IF drv.gate < NumGates THEN [drv EXCEPT !.gate = @ + 1, !.green = green]
           ELSE IF green THEN [drv EXCEPT !.at = "issue", !.next = "observe_ci_runs"]
           ELSE [drv EXCEPT !.at = "refuse"]

Judged(result) == ev' = [ev EXCEPT !.gate[drv.gate] = result, !.at[drv.gate] = tree.head,
                                   !.once = @ \/ result = "passed"]

GatePasses ==
    /\ drv.at = "gate"
    /\ Appended
    /\ Judged("passed")
    /\ attn' = [attn EXCEPT !["host_contract"] = "none", !["local_gate"] = "none"]
    /\ AfterGate(drv.green)
    /\ UNCHANGED <<tree, log, left, moved>>

GateFails ==
    /\ drv.at = "gate" /\ Bad
    /\ Appended
    /\ Judged("failed")
    /\ AfterGate(FALSE)
    /\ UNCHANGED <<tree, log, attn, moved>>

GatesRefused ==
    /\ drv.at = "refuse"
    /\ Appended /\ Attention("host_contract") /\ At("route")
    /\ UNCHANGED <<tree, log, ev, left, moved>>

\* Mutant: one round more than the budget.
RepairRouteOneMore ==
    /\ drv.at = "route"
    /\ Stop
    /\ \/ /\ log.issue = "registered"
          /\ UNCHANGED <<s, log, attn>>
       \/ /\ log.issue # "registered" /\ Len(log.rounds) <= RoundLimit
          /\ Appended
          /\ log' = [log EXCEPT !.rounds = Append(@, Candidate)]
          /\ attn' = [a \in Areas |-> IF attn[a] = "open" THEN "overtaken" ELSE attn[a]]
       \/ /\ log.issue # "registered" /\ Len(log.rounds) > RoundLimit
          /\ Appended
          /\ log' = [log EXCEPT !.issue = IF @ = "none" THEN "pending" ELSE "registered"]
          /\ UNCHANGED attn
    /\ UNCHANGED <<tree, ev, left, moved>>

\* _park_repair_route: a round within the budget, then the known issue in two drives.
RepairRoute ==
    /\ drv.at = "route"
    /\ Stop
    /\ \/ /\ log.issue = "registered"
          /\ UNCHANGED <<s, log, attn>>
       \/ /\ log.issue # "registered" /\ Len(log.rounds) < RoundLimit
          /\ Appended
          /\ log' = [log EXCEPT !.rounds = Append(@, Candidate)]
          /\ attn' = [a \in Areas |-> IF attn[a] = "open" THEN "overtaken" ELSE attn[a]]
       \/ /\ log.issue # "registered" /\ Len(log.rounds) = RoundLimit
          /\ Appended
          /\ log' = [log EXCEPT !.issue = IF @ = "none" THEN "pending" ELSE "registered"]
          /\ UNCHANGED attn
    /\ UNCHANGED <<tree, ev, left, moved>>

-----------------------------------------------------------------------------
(* CI, the final review and the two stage crossings.                        *)

\* Push refused, no token, no network, no run in time, or a run that does not bind.
CiRefused ==
    /\ drv.at = "observe_ci_runs" /\ Bad
    /\ Appended /\ Attention("ci_readback") /\ Stop
    /\ \E ci \in {ev.ci, "failed"} : ev' = [ev EXCEPT !.ci = ci]
    /\ UNCHANGED <<tree, log, moved>>

CiPending ==
    /\ drv.at = "observe_ci_runs" /\ Bad
    /\ Appended /\ At("wait")
    /\ UNCHANGED <<tree, log, ev, attn, moved>>

CiPollsAgain ==
    /\ drv.at = "wait"
    /\ At("observe_ci_runs")
    /\ UNCHANGED <<tree, s, log, ev, attn, left, moved>>

\* The bound observation resolves its area.  A replayed command reads CI again:
\* the event its reuse branch looks for has resolved the command's own record.
CiBound ==
    /\ drv.at = "observe_ci_runs"
    /\ Appended
    /\ ev' = [ev EXCEPT !.ci = "passed"]
    /\ attn' = [attn EXCEPT !["ci_readback"] = "none"]
    /\ Hand("dispatch_agent")
    /\ UNCHANGED <<tree, log, left, moved>>

\* The outcome is a failure, or its verdict is not one of this candidate's.
ReviewFails ==
    /\ drv.at = "dispatch_agent" /\ Bad
    /\ Appended /\ Stop
    /\ attn' \in {attn, [attn EXCEPT !["review"] = "open"]}
    /\ UNCHANGED <<tree, log, ev, moved>>

\* The reducer has no case for M-VERIFY: a rejected candidate is sent to RESPOND.
ReviewRevises ==
    /\ drv.at = "dispatch_agent" /\ Bad
    /\ s' = [s EXCEPT !.pending = "none", !.sub = "RESPOND"]
    /\ ev' = [ev EXCEPT !.review = "revise"]
    /\ Attention("review") /\ Stop
    /\ UNCHANGED <<tree, log, moved>>

ReviewPasses ==
    /\ drv.at = "dispatch_agent"
    /\ s' = [s EXCEPT !.pending = "none", !.sub = "EXIT"]
    /\ ev' = [ev EXCEPT !.review = "pass"]
    /\ At("exit")
    /\ UNCHANGED <<tree, log, attn, left, moved>>

ExitVerify ==
    /\ drv.at = "exit"
    /\ s' = [s EXCEPT !.pending = "none", !.exited = TRUE]
    /\ attn' = [a \in Areas |-> "none"]
    /\ At("enter")
    /\ UNCHANGED <<tree, log, ev, left, moved>>

EnterSecurity ==
    /\ drv.at = "enter"
    /\ s' = [stage |-> "M-SECURITY", sub |-> "ASSESSING", exited |-> FALSE, pending |-> "none"]
    /\ Hand("assess_security")
    /\ UNCHANGED <<tree, log, ev, attn, left, moved>>

\* Scans and their nested review: a crash in either leads back to the assessment.
AssessFails ==
    /\ drv.at = "assess_security" /\ Bad
    /\ Appended /\ Stop
    /\ ev' = [ev EXCEPT !.security = "failed"]
    /\ UNCHANGED <<tree, log, attn, moved>>

AssessPasses ==
    /\ drv.at = "assess_security"
    /\ Appended /\ At("leave")
    /\ ev' = [ev EXCEPT !.security = "passed"]
    /\ UNCHANGED <<tree, log, attn, left, moved>>

ExitSecurity ==
    /\ drv.at = "leave"
    /\ s' = [s EXCEPT !.pending = "none", !.exited = TRUE]
    /\ At("release")
    /\ UNCHANGED <<tree, log, ev, attn, left, moved>>

EnterRelease ==
    /\ drv.at = "release"
    /\ s' = [stage |-> "M-RELEASE", sub |-> "PREVIEWING", exited |-> FALSE, pending |-> "none"]
    /\ drv' = Off
    /\ UNCHANGED <<tree, log, ev, attn, left, moved>>

-----------------------------------------------------------------------------
(* The operator and the repository.                                         *)

Crash ==
    /\ drv.at # "off" /\ left.crashes > 0
    /\ left' = [left EXCEPT !.crashes = @ - 1]
    /\ drv' = Off
    /\ UNCHANGED <<tree, s, log, ev, attn, moved>>

\* Mutant: a retry resolves the attentions of an area only.
HumanRetryByArea == Appended /\ attn' = [a \in Areas |-> IF a = "review" THEN attn[a] ELSE "none"]

HumanRetry == Appended /\ attn' = [a \in Areas |-> "none"]

\* `trac retry --clear-evidence' on an active run; plain retry asks for less.
Retry ==
    /\ drv.at = "off" /\ s.stage # "M-RELEASE"
    /\ Unresolved # {} \/ s.pending # "none"
    /\ HumanRetry
    /\ UNCHANGED <<tree, log, ev, drv, left, moved>>

\* It lands while the driver sleeps without the lock: the wait is abandoned.
RetryInWait ==
    /\ drv.at = "wait"
    /\ HumanRetry /\ Stop
    /\ UNCHANGED <<tree, log, ev, left, moved>>

Commit ==
    /\ s.stage # "M-RELEASE" /\ tree.head < MaxCommits
    /\ \E r \in 0..Len(log.rounds) :
          tree' = [head |-> tree.head + 1, dirty |-> FALSE,
                   trailer |-> [tree.trailer EXCEPT ![tree.head + 1] = r]]
    /\ moved' = (moved \/ drv.at # "off" \/ s.pending # "none")
    /\ UNCHANGED <<s, log, ev, attn, drv, left>>

Dirty ==
    /\ s.stage # "M-RELEASE" /\ ~tree.dirty /\ Bad
    /\ tree' = [tree EXCEPT !.dirty = TRUE]
    /\ UNCHANGED <<s, log, ev, attn, drv, moved>>

Clean ==
    /\ tree.dirty
    /\ tree' = [tree EXCEPT !.dirty = FALSE]
    /\ UNCHANGED <<s, log, ev, attn, drv, left, moved>>

Driver ==
    \/ ParkStaleLink \/ Recover \/ ResumeReleaseChain \/ Issue
    \/ FreezeReplayed \/ FreezeDirty \/ FreezeStands \/ FreezeDrift \/ FreezeFirst
    \/ FreezeRewalk \/ Mint
    \/ JudgeReuse \/ JudgeRerun \/ FullPasses \/ FullFails
    \/ ClosureExists \/ ClosureDeclared \/ ClosureProduced \/ ClosureBlocked
    \/ GatesReused \/ GatesBegin \/ ContractInvalid \/ GatePasses \/ GateFails
    \/ GatesRefused \/ RepairRoute
    \/ CiRefused \/ CiPending \/ CiPollsAgain \/ CiBound
    \/ ReviewFails \/ ReviewRevises \/ ReviewPasses \/ ExitVerify \/ EnterSecurity
    \/ AssessFails \/ AssessPasses \/ ExitSecurity \/ EnterRelease

Next == Drive \/ Driver \/ Crash \/ Retry \/ RetryInWait \/ Commit \/ Dirty \/ Clean

Spec == Init /\ [][Next]_vars

\* A driver goes on; the operator drives, answers what blocks and cleans the tree.
FairSpec == Spec /\ WF_vars(Driver) /\ WF_vars(Drive) /\ SF_vars(Retry) /\ WF_vars(Clean)

-----------------------------------------------------------------------------
\* A candidate that has left M-VERIFY passed every local gate, the CI of its
\* own commit and the final review, each for this very candidate, whatever
\* stopped, died or was replayed on the way (_advance_verify_chain).
SecurityIsEarned ==
    (s.stage # "M-VERIFY" \/ s.exited) =>
        AllPassed /\ ev.ci = "passed" /\ ev.review = "pass"

\* Every gate result bound to the candidate was computed on the candidate's
\* own commit, unless HEAD moved while a link ran or was left behind: a HEAD
\* that moves between drives is met by the freeze (_verify_gate_evidence_missing).
JudgedOnItsCommit ==
    ~moved => \A g \in Gates : ev.at[g] \in {0, Candidate}

\* Every later candidate replaces the one frozen before it, and its commit
\* names the last repair round of the fix chain before it; a driver that dies
\* between evidence.staled and candidate.frozen breaks no link of the chain
\* (_repair_chain_maps, _inherited_repair_round).
FixChainUnbroken ==
    \A i \in 2..Len(log.frozen) :
        LET c == log.frozen[i]
            before == {log.frozen[j] : j \in 1..i - 1}
            earlier == {r \in DOMAIN log.rounds : log.rounds[r] \in before}
        IN  /\ log.pred[c] = log.frozen[i - 1]
            /\ tree.trailer[c] \in earlier
            /\ \A r \in earlier : r <= tree.trailer[c]

\* What leaves M-VERIFY is the candidate that was judged, on its own commit,
\* and the last of an unbroken chain of fixes: the three together, through
\* every replay, repair round and killed driver (_park_freeze_candidate).
CandidateIsSound == SecurityIsEarned /\ JudgedOnItsCommit /\ FixChainUnbroken

\* The next drive never replays under the writer lock the FULL, closure or
\* gate link a dead driver left behind while the frozen HEAD has no gate
\* evidence (_stale_verify_resume_attention).
NoStaleReplay ==
    [][drv.replay /\ EvidenceMissing => drv'.at \notin {"full", "baseline", "gate"}]_vars

\* With drives and answers that keep coming and bad answers that end, the walk
\* reaches M-RELEASE, unless HEAD rests on a commit no round allows, or the
\* walk was left in one of the places nothing drives.
Stranded ==
    \/ s.stage = "M-VERIFY" /\ s.sub \in {"RESPOND", "EXIT"}
    \/ s.stage = "M-SECURITY" /\ s.exited

WalkFinishes ==
    <>[](s.stage = "M-RELEASE" \/ Stranded \/ (Drifted /\ ~RewalkAllowed))

\* A candidate whose FULL failed or whose closure experiment was blocked gets
\* no gate evidence: the failure stops the chain before the gates
\* (_do_judge_full_f_reuse, _do_produce_closure_evidence).  The code breaks it.
FailedEvidenceStopsTheWalk ==
    [][log.full = [at |-> Candidate, is |-> "failed"] \/ ev.closure = "blocked"
          => ~(ev'.once /\ ~ev.once)]_vars
=============================================================================
