--------------------------- MODULE VerifyWalkProofs ---------------------------
(***************************************************************************)
(* What a release candidate has earned when it leaves M-VERIFY, for any    *)
(* number of commits, gates, repair rounds, bad answers and dead drivers.  *)
(***************************************************************************)
EXTENDS VerifyWalk, WellFoundedInduction, TLAPS

TreeTypes == [head : Commits, trailer : [Commits -> 0..RoundLimit], dirty : BOOLEAN]
StateTypes == [stage : {"M-VERIFY", "M-SECURITY", "M-RELEASE"},
               sub : {"VERIFYING", "RESPOND", "EXIT", "ASSESSING", "PREVIEWING"},
               exited : BOOLEAN, pending : Commands \cup {"none"}]
FullTypes == [at : 0..MaxCommits, is : {"none", "running", "failed", "passed", "staled"}]
LogTypes == [frozen : Seq(Commits), pred : [Commits -> 0..MaxCommits], old : 0..MaxCommits,
             staled : BOOLEAN, rounds : Seq(Commits),
             issue : {"none", "pending", "registered"}, full : FullTypes]
EvidenceTypes ==
    [closure : {"none", "blocked", "declared", "closed"},
     gate : [Gates -> {"none", "passed", "failed"}], at : [Gates -> 0..MaxCommits],
     once : BOOLEAN, ci : {"none", "failed", "passed"},
     review : {"none", "pass", "revise"}, security : {"none", "failed", "passed"},
     reused : BOOLEAN]
DriverTypes == [at : Places, ret : {"off", "check"}, next : Commands, replay : BOOLEAN,
                sha : 0..MaxCommits, gate : Gates, green : BOOLEAN]

\* The events recorded are a whole record: TypeOK names its fields one by one.
Typed ==
    /\ tree \in TreeTypes
    /\ s \in StateTypes
    /\ log \in LogTypes /\ Len(log.rounds) <= RoundLimit
    /\ ev \in EvidenceTypes
    /\ attn \in [Areas -> {"none", "open", "overtaken"}]
    /\ drv \in DriverTypes
    /\ left \in [bad : 0..MaxBad, crashes : 0..MaxCrashes]
    /\ moved \in BOOLEAN

(***************************************************************************)
(* What is ahead of the driver: the link it runs, the one it is about to   *)
(* issue, or the one a dead driver left behind.                            *)
(***************************************************************************)
Ahead(links) ==
    \/ drv.at \in links
    \/ drv.at = "issue" /\ drv.next \in links
    \/ s.pending \in links

ToGates == {"judge_full_f_reuse", "produce_closure_evidence", "run_local_gates"}
BeforeGates == ToGates \cup {"full", "baseline", "gate"}
AfterFreeze == BeforeGates \cup {"refuse", "route"}
VerifyLinks == AfterFreeze \cup {"freeze_candidate", "mint", "observe_ci_runs", "wait",
                                 "dispatch_agent"}

\* Every link is in the stage that has it, and nothing but the link run or the
\* one before it is on record as issued.
LinksPlaced ==
    /\ Ahead(VerifyLinks) => Walking
    /\ Ahead({"assess_security", "leave"}) => s.stage = "M-SECURITY" /\ ~s.exited
    /\ drv.at = "exit" => s.stage = "M-VERIFY" /\ s.sub = "EXIT" /\ ~s.exited
    /\ drv.at = "enter" => s.stage = "M-VERIFY" /\ s.exited
    /\ drv.at = "release" => s.stage = "M-SECURITY" /\ s.exited
    /\ drv.at \in BeforeGates \cup {"mint", "freeze_candidate"} =>
          s.pending \notin {"observe_ci_runs", "dispatch_agent"}
    /\ drv.at \in {"observe_ci_runs", "wait"} => s.pending # "dispatch_agent"

\* The links after the freeze run for a frozen candidate, and on its commit as
\* long as HEAD did not move under a link.
OnTheCandidate ==
    /\ Ahead(AfterFreeze) => Frozen
    /\ Ahead(BeforeGates) /\ ~moved => tree.head = Candidate

\* What each link of the chain requires of the ones before it.
EvidenceInOrder ==
    /\ drv.at = "gate" /\ drv.green => \A g \in 1..drv.gate - 1 : ev.gate[g] = "passed"
    /\ Ahead({"observe_ci_runs", "wait", "dispatch_agent"}) => AllPassed
    /\ Ahead({"dispatch_agent"}) => ev.ci = "passed"
    /\ s.stage = "M-VERIFY" /\ s.sub = "EXIT" =>
          AllPassed /\ ev.ci = "passed" /\ ev.review = "pass"

\* A replayed link is never one of the stale ones.
ReplayAllowed == drv.replay /\ drv.at \in BeforeGates => ~EvidenceMissing

\* Candidates are frozen along the history.
CandidatesInOrder ==
    /\ \A i \in DOMAIN log.frozen : i <= log.frozen[i] /\ log.frozen[i] <= tree.head
    /\ \A i, j \in DOMAIN log.frozen : i < j => log.frozen[i] < log.frozen[j]

\* The predecessor of a candidate is the one frozen before it; the stale one is
\* on record until the next is frozen.
ChainLinked ==
    /\ \A c \in Commits : log.pred[c] # 0 =>
          \E i \in DOMAIN log.frozen : i > 1 /\ c = log.frozen[i]
    /\ \A i \in DOMAIN log.frozen : i > 1 => log.pred[log.frozen[i]] = log.frozen[i - 1]
    /\ log.staled => Frozen
    /\ log.old = IF log.staled THEN Candidate ELSE 0

\* Every repair round is one of a candidate, in the order of the candidates.
RoundsInOrder ==
    /\ \A r \in DOMAIN log.rounds : \E i \in DOMAIN log.frozen : log.rounds[r] = log.frozen[i]
    /\ \A r, q \in DOMAIN log.rounds : r <= q => log.rounds[r] <= log.rounds[q]

\* The commit about to be frozen is a later one, of the last repair round.
AboutToMint ==
    drv.at = "mint" =>
        /\ drv.sha \in Commits /\ drv.sha <= tree.head
        /\ Frozen => /\ log.staled /\ Candidate < drv.sha
                     /\ Len(log.rounds) > 0 /\ tree.trailer[drv.sha] = Len(log.rounds)

IInv ==
    /\ Typed /\ LinksPlaced /\ OnTheCandidate /\ EvidenceInOrder /\ ReplayAllowed
    /\ CandidatesInOrder /\ ChainLinked /\ RoundsInOrder /\ AboutToMint
    /\ SecurityIsEarned /\ JudgedOnItsCommit /\ FixChainUnbroken

-----------------------------------------------------------------------------
(* What the helpers of the handlers do.                                     *)

\* The bounds and the sets that the fields range over, as facts about numbers.
LEMMA Bounds ==
    /\ MaxCommits \in Nat \ {0} /\ RoundLimit \in Nat \ {0} /\ NumGates \in Nat \ {0}
    /\ MaxBad \in Nat /\ MaxCrashes \in Nat
BY VerifyAssumption

\* An appended event resolves the record of the command and moves nothing else.
LEMMA AppendedEffect ==
    ASSUME Typed, Appended
    PROVE  /\ s' \in StateTypes
           /\ s'.stage = s.stage /\ s'.sub = s.sub /\ s'.exited = s.exited
           /\ s'.pending = "none"
<1>1. s \in StateTypes
  BY DEF Typed
<1>2. s' = [s EXCEPT !.pending = "none"]
  BY DEF Appended
<1>3. s' \in StateTypes
  BY <1>1, <1>2, ZenonT(40) DEF StateTypes
<1>4. QED
  BY <1>1, <1>2, <1>3 DEF StateTypes

\* The driver goes to another place with all that it holds.
LEMMA AtEffect ==
    ASSUME Typed, NEW place \in Places, At(place)
    PROVE  /\ drv' \in DriverTypes /\ drv'.at = place
           /\ drv'.ret = drv.ret /\ drv'.next = drv.next /\ drv'.replay = drv.replay
           /\ drv'.sha = drv.sha /\ drv'.gate = drv.gate /\ drv'.green = drv.green
<1>1. drv \in DriverTypes
  BY DEF Typed
<1>2. drv' = [drv EXCEPT !.at = place]
  BY DEF At
<1>3. drv' \in DriverTypes
  BY <1>1, <1>2, ZenonT(40) DEF DriverTypes
<1>4. QED
  BY <1>1, <1>2, <1>3 DEF DriverTypes

\* The next link is handed on to be issued.
LEMMA HandEffect ==
    ASSUME Typed, NEW kind \in Commands, Hand(kind)
    PROVE  /\ drv' \in DriverTypes /\ drv'.at = "issue" /\ drv'.next = kind
           /\ drv'.replay = drv.replay /\ drv'.green = drv.green
<1>1. drv \in DriverTypes
  BY DEF Typed
<1>2. drv' = [drv EXCEPT !.at = "issue", !.next = kind]
  BY DEF Hand
<1>3. "issue" \in Places
  BY DEF Places
<1>4. drv' \in DriverTypes
  BY <1>1, <1>2, <1>3, ZenonT(40) DEF DriverTypes
<1>5. QED
  BY <1>1, <1>2, <1>4 DEF DriverTypes

\* A driver that ends, wherever it goes, carries nothing on.
LEMMA OffFields ==
    /\ Off.at = "off" /\ Off.ret = "off" /\ Off.next = "freeze_candidate" /\ Off.replay = FALSE
    /\ Off.sha = 0 /\ Off.gate = 1 /\ Off.green = TRUE
    /\ Off \in DriverTypes
    /\ \A place \in Places : [Off EXCEPT !.at = place] \in DriverTypes
<1>1. "off" \in Places /\ "freeze_candidate" \in Commands /\ "off" \in {"off", "check"}
  BY DEF Places, Commands
<1>2. 0 \in 0..MaxCommits /\ 1 \in Gates
  BY Bounds DEF Gates
<1>3. Off \in DriverTypes
  BY <1>1, <1>2, ZenonT(40) DEF Off, DriverTypes
<1>4. ASSUME NEW place \in Places
      PROVE  [Off EXCEPT !.at = place] \in DriverTypes
  BY <1>3, ZenonT(40) DEF DriverTypes
<1>5. QED
  BY <1>3, <1>4 DEF Off

\* A link that stops the walk gives the driver back to the entry or ends it.
LEMMA StopEffect ==
    ASSUME Typed, Stop
    PROVE  /\ drv' \in DriverTypes /\ drv'.at = drv.ret /\ drv'.at \in {"off", "check"}
           /\ drv'.replay = FALSE
<1>1. drv \in DriverTypes
  BY DEF Typed
<1>2. drv' = [Off EXCEPT !.at = drv.ret]
  BY DEF Stop
<1>3. drv.ret \in {"off", "check"}
  BY <1>1 DEF DriverTypes
<1>4. drv.ret \in Places
  BY <1>3 DEF Places
<1>5. QED
  BY <1>2, <1>3, <1>4, OffFields DEF Off

\* An attention is one of the areas, open.
LEMMA AttentionEffect ==
    ASSUME Typed, NEW area \in Areas, Attention(area)
    PROVE  attn' \in [Areas -> {"none", "open", "overtaken"}]
BY DEF Typed, Attention

\* A bad answer is one of those left.
LEMMA BadEffect ==
    ASSUME Typed, Bad
    PROVE  left' \in [bad : 0..MaxBad, crashes : 0..MaxCrashes]
BY Bounds DEF Typed, Bad

\* An update of one field of the evidence is evidence.
LEMMA EvidenceUpdates ==
    ASSUME NEW e \in EvidenceTypes
    PROVE  /\ \A v \in {"none", "blocked", "declared", "closed"} :
                 [e EXCEPT !.closure = v] \in EvidenceTypes
           /\ \A v \in {"none", "failed", "passed"} :
                 [e EXCEPT !.ci = v] \in EvidenceTypes /\ [e EXCEPT !.security = v] \in EvidenceTypes
           /\ \A v \in {"none", "pass", "revise"} : [e EXCEPT !.review = v] \in EvidenceTypes
           /\ [e EXCEPT !.reused = TRUE] \in EvidenceTypes
<1>1. ASSUME NEW v \in {"none", "blocked", "declared", "closed"}
      PROVE  [e EXCEPT !.closure = v] \in EvidenceTypes
  BY ZenonT(40) DEF EvidenceTypes
<1>2. ASSUME NEW v \in {"none", "failed", "passed"}
      PROVE  [e EXCEPT !.ci = v] \in EvidenceTypes
  BY ZenonT(40) DEF EvidenceTypes
<1>3. ASSUME NEW v \in {"none", "failed", "passed"}
      PROVE  [e EXCEPT !.security = v] \in EvidenceTypes
  BY ZenonT(40) DEF EvidenceTypes
<1>4. ASSUME NEW v \in {"none", "pass", "revise"}
      PROVE  [e EXCEPT !.review = v] \in EvidenceTypes
  BY ZenonT(40) DEF EvidenceTypes
<1>5. [e EXCEPT !.reused = TRUE] \in EvidenceTypes
  BY ZenonT(40) DEF EvidenceTypes
<1>6. QED
  BY <1>1, <1>2, <1>3, <1>4, <1>5

\* The result of a gate is the driver's, of the commit HEAD is at.
LEMMA JudgedEffect ==
    ASSUME Typed, NEW result \in {"passed", "failed"}, Judged(result)
    PROVE  /\ ev' \in EvidenceTypes
           /\ ev'.gate = [ev.gate EXCEPT ![drv.gate] = result]
           /\ ev'.at = [ev.at EXCEPT ![drv.gate] = tree.head]
           /\ ev'.once = (ev.once \/ result = "passed")
           /\ ev'.ci = ev.ci /\ ev'.review = ev.review
<1> DEFINE gate == [ev.gate EXCEPT ![drv.gate] = result]
           at == [ev.at EXCEPT ![drv.gate] = tree.head]
           once == ev.once \/ result = "passed"
<1>1. ev \in EvidenceTypes /\ drv.gate \in Gates /\ tree.head \in Commits
  BY DEF Typed, DriverTypes, TreeTypes
<1>2. ev' = [ev EXCEPT !.gate = gate, !.at = at, !.once = once]
  BY <1>1 DEF Judged, EvidenceTypes
<1>3. gate \in [Gates -> {"none", "passed", "failed"}]
  BY <1>1 DEF EvidenceTypes
<1>4. at \in [Gates -> 0..MaxCommits]
  BY <1>1, Bounds DEF EvidenceTypes, Commits
<1>5. once \in BOOLEAN
  BY <1>1 DEF EvidenceTypes
<1> HIDE DEF gate, at, once
<1>6. ev' \in EvidenceTypes
  BY <1>1, <1>2, <1>3, <1>4, <1>5, ZenonT(40) DEF EvidenceTypes
<1>7. ev'.gate = gate /\ ev'.at = at /\ ev'.once = once /\ ev'.ci = ev.ci
          /\ ev'.review = ev.review
  BY <1>1, <1>2, ZenonT(40) DEF EvidenceTypes
<1>8. QED
  BY <1>6, <1>7 DEF gate, at, once

\* After a gate comes the next one, and after the last the verdict.
LEMMA AfterGateEffect ==
    ASSUME Typed, NEW green \in BOOLEAN, AfterGate(green), drv.at = "gate"
    PROVE  /\ drv' \in DriverTypes /\ drv'.replay = drv.replay
           /\ drv'.at = "gate" => drv'.gate = drv.gate + 1 /\ drv'.green = green
                                  /\ drv.gate < NumGates
           /\ drv'.at = "issue" => drv'.next = "observe_ci_runs" /\ green
           /\ drv'.at = "gate" \/ drv.gate = NumGates
           /\ drv'.at \in {"gate", "issue", "refuse"}
<1>1. drv \in DriverTypes /\ drv.gate \in 1..NumGates
  BY DEF Typed, DriverTypes, Gates
<1>2. CASE drv.gate < NumGates
  <2>1. drv' = [drv EXCEPT !.gate = drv.gate + 1, !.green = green]
    BY <1>2 DEF AfterGate
  <2>2. drv.gate + 1 \in Gates
    BY <1>1, <1>2, Bounds DEF Gates
  <2>3. drv' \in DriverTypes
    BY <1>1, <2>1, <2>2, ZenonT(40) DEF DriverTypes
  <2>4. drv'.at = "gate" /\ drv'.gate = drv.gate + 1 /\ drv'.green = green
            /\ drv'.replay = drv.replay
    BY <1>1, <2>1 DEF DriverTypes
  <2>5. QED
    BY <1>2, <2>3, <2>4
<1>3. CASE drv.gate >= NumGates /\ green
  <2>1. drv' = [drv EXCEPT !.at = "issue", !.next = "observe_ci_runs"]
    BY <1>1, <1>3, Bounds DEF AfterGate
  <2>2. "issue" \in Places /\ "observe_ci_runs" \in Commands
    BY DEF Places, Commands, Guarded
  <2>3. drv' \in DriverTypes
    BY <1>1, <2>1, <2>2, ZenonT(40) DEF DriverTypes
  <2>4. drv'.at = "issue" /\ drv'.next = "observe_ci_runs" /\ drv'.replay = drv.replay
    BY <1>1, <2>1 DEF DriverTypes
  <2>5. QED
    BY <1>1, <1>3, <2>3, <2>4, Bounds
<1>4. CASE drv.gate >= NumGates /\ ~green
  <2>1. drv' = [drv EXCEPT !.at = "refuse"]
    BY <1>1, <1>4, Bounds DEF AfterGate
  <2>2. "refuse" \in Places
    BY DEF Places
  <2>3. drv' \in DriverTypes
    BY <1>1, <2>1, <2>2, ZenonT(40) DEF DriverTypes
  <2>4. drv'.at = "refuse" /\ drv'.replay = drv.replay
    BY <1>1, <2>1 DEF DriverTypes
  <2>5. QED
    BY <1>1, <1>4, <2>3, <2>4, Bounds
<1>5. QED
  BY <1>1, <1>2, <1>3, <1>4, Bounds

\* What a fix commit leaves of the candidate that it replaces.
LEMMA RewalkEffect ==
    ASSUME Typed, FreezeRewalk, Candidate \in Commits
    PROVE  /\ log' \in LogTypes
           /\ log'.frozen = log.frozen /\ log'.pred = log.pred /\ log'.rounds = log.rounds
           /\ log'.staled = TRUE /\ log'.old = (IF log.staled THEN log.old ELSE Candidate)
<1>1. log \in LogTypes
  BY DEF Typed
<1>2. CASE log.staled
  BY <1>1, <1>2 DEF FreezeRewalk, LogTypes
<1>3. CASE ~log.staled
  <2> DEFINE was == log.full.is
             full == [log.full EXCEPT !.is = IF was = "passed" THEN "staled" ELSE was]
  <2>1. log' = [log EXCEPT !.staled = TRUE, !.old = Candidate, !.full = full]
    BY <1>1, <1>3 DEF FreezeRewalk, LogTypes
  <2>2. full \in FullTypes
    BY <1>1 DEF LogTypes, FullTypes
  <2>3. Candidate \in 0..MaxCommits
    BY Bounds DEF Commits
  <2> HIDE DEF full
  <2>4. log' \in LogTypes
    BY <1>1, <2>1, <2>2, <2>3, ZenonT(40) DEF LogTypes
  <2>5. log'.frozen = log.frozen /\ log'.pred = log.pred /\ log'.rounds = log.rounds
            /\ log'.staled = TRUE /\ log'.old = Candidate
    BY <1>1, <2>1, ZenonT(40) DEF LogTypes
  <2>6. QED
    BY <1>3, <2>4, <2>5
<1>4. QED
  BY <1>2, <1>3

\* A candidate is frozen behind the ones before it, and replaces the stale one.
LEMMA MintEffect ==
    ASSUME Typed, Mint, drv.sha \in Commits
    PROVE  /\ log' \in LogTypes
           /\ log'.frozen = Append(log.frozen, drv.sha)
           /\ log'.pred = [log.pred EXCEPT ![drv.sha] = log.old]
           /\ log'.rounds = log.rounds /\ log'.staled = FALSE /\ log'.old = 0
<1> DEFINE frozen == Append(log.frozen, drv.sha)
           pred == [log.pred EXCEPT ![drv.sha] = log.old]
<1>1. log \in LogTypes
  BY DEF Typed
<1>2. log' = [log EXCEPT !.frozen = frozen, !.pred = pred, !.old = 0, !.staled = FALSE,
                         !.issue = "none"]
  BY <1>1 DEF Mint, LogTypes
<1>3. frozen \in Seq(Commits) /\ pred \in [Commits -> 0..MaxCommits] /\ 0 \in 0..MaxCommits
  BY <1>1, Bounds DEF LogTypes
<1> HIDE DEF frozen, pred
<1>4. log' \in LogTypes
  BY <1>1, <1>2, <1>3, ZenonT(40) DEF LogTypes
<1>5. log'.frozen = frozen /\ log'.pred = pred /\ log'.rounds = log.rounds
          /\ log'.staled = FALSE /\ log'.old = 0
  BY <1>1, <1>2, ZenonT(40) DEF LogTypes
<1>6. QED
  BY <1>4, <1>5 DEF frozen, pred

\* What a FULL run records is of no consequence for the candidates.
LEMMA FullEffect ==
    ASSUME Typed, JudgeRerun \/ FullPasses \/ FullFails
    PROVE  /\ log' \in LogTypes
           /\ log'.frozen = log.frozen /\ log'.pred = log.pred /\ log'.rounds = log.rounds
           /\ log'.staled = log.staled /\ log'.old = log.old
<1>1. log \in LogTypes /\ tree.head \in Commits
  BY DEF Typed, TreeTypes
<1>2. PICK full \in FullTypes : log' = [log EXCEPT !.full = full]
  <2>1. CASE JudgeRerun
    <3>1. [at |-> tree.head, is |-> "running"] \in FullTypes
      BY <1>1, Bounds DEF FullTypes, Commits
    <3>2. log' = [log EXCEPT !.full = [at |-> tree.head, is |-> "running"]]
      BY <2>1 DEF JudgeRerun
    <3>3. QED
      BY <3>1, <3>2
  <2>2. CASE FullPasses
    BY <1>1, <2>2 DEF FullPasses, FullTypes, LogTypes
  <2>3. CASE FullFails
    BY <1>1, <2>3 DEF FullFails, FullTypes, LogTypes
  <2>4. QED
    BY <2>1, <2>2, <2>3
<1>3. log' \in LogTypes
  BY <1>1, <1>2, ZenonT(40) DEF LogTypes
<1>4. QED
  BY <1>1, <1>2, <1>3, ZenonT(40) DEF LogTypes

\* The repair route opens a round for the candidate, or records the known issue.
LEMMA RouteEffect ==
    ASSUME Typed, RepairRoute, Candidate \in Commits
    PROVE  /\ log' \in LogTypes /\ Len(log'.rounds) <= RoundLimit
           /\ log'.frozen = log.frozen /\ log'.pred = log.pred
           /\ log'.staled = log.staled /\ log'.old = log.old
           /\ log'.rounds \in {log.rounds, Append(log.rounds, Candidate)}
           /\ s' \in StateTypes
           /\ s'.stage = s.stage /\ s'.sub = s.sub /\ s'.exited = s.exited
           /\ s'.pending \in {s.pending, "none"}
           /\ attn' \in [Areas -> {"none", "open", "overtaken"}]
<1>1. log \in LogTypes /\ Len(log.rounds) <= RoundLimit /\ log.rounds \in Seq(Commits)
          /\ attn \in [Areas -> {"none", "open", "overtaken"}] /\ s \in StateTypes
  BY DEF Typed, LogTypes
<1>2. CASE log.issue = "registered"
  BY <1>1, <1>2 DEF RepairRoute
<1>3. CASE log.issue # "registered" /\ Len(log.rounds) < RoundLimit
  <2> DEFINE rounds == Append(log.rounds, Candidate)
  <2>1. Appended /\ log' = [log EXCEPT !.rounds = rounds]
          /\ attn' = [a \in Areas |-> IF attn[a] = "open" THEN "overtaken" ELSE attn[a]]
    BY <1>1, <1>3, Bounds DEF RepairRoute, LogTypes
  <2>2. rounds \in Seq(Commits) /\ Len(rounds) = Len(log.rounds) + 1 /\ Len(log.rounds) \in Nat
    BY <1>1
  <2>3. attn' \in [Areas -> {"none", "open", "overtaken"}]
    BY <1>1, <2>1
  <2> HIDE DEF rounds
  <2>4. log' \in LogTypes
    BY <1>1, <2>1, <2>2, ZenonT(40) DEF LogTypes
  <2>5. log'.rounds = rounds /\ log'.frozen = log.frozen /\ log'.pred = log.pred
           /\ log'.staled = log.staled /\ log'.old = log.old
    BY <1>1, <2>1, ZenonT(40) DEF LogTypes
  <2>6. QED
    BY <1>3, <2>1, <2>2, <2>3, <2>4, <2>5, AppendedEffect, Bounds DEF rounds
<1>4. CASE log.issue # "registered" /\ Len(log.rounds) = RoundLimit
  <2>1. Appended /\ attn' = attn
          /\ log' = [log EXCEPT !.issue = IF log.issue = "none" THEN "pending" ELSE "registered"]
    BY <1>1, <1>4, Bounds DEF RepairRoute, LogTypes
  <2>2. log' \in LogTypes
    BY <1>1, <2>1, ZenonT(40) DEF LogTypes
  <2>3. log'.rounds = log.rounds /\ log'.frozen = log.frozen /\ log'.pred = log.pred
           /\ log'.staled = log.staled /\ log'.old = log.old
    BY <1>1, <2>1, ZenonT(40) DEF LogTypes
  <2>4. QED
    BY <1>1, <2>1, <2>2, <2>3, AppendedEffect
<1>5. QED
  BY <1>1, <1>2, <1>3, <1>4, Bounds DEF RepairRoute

\* The areas the handlers name.
LEMMA AreasNamed == {"freeze", "host_contract", "local_gate", "ci_readback", "review"} \subseteq Areas
BY DEF Areas

\* Recovery runs the command on record again, or goes on to the check.
LEMMA RecoverEffect ==
    ASSUME Typed, Recover
    PROVE  /\ drv' \in DriverTypes
           /\ s.pending = "none" => drv'.at = "check" /\ ~drv'.replay
           /\ s.pending # "none" => drv'.at = s.pending
<1>1. s.pending \in Commands \cup {"none"} /\ Off \in DriverTypes
  BY OffFields DEF Typed, StateTypes
<1>2. CASE s.pending = "none"
  <2>1. "check" \in Places /\ drv' = [Off EXCEPT !.at = "check"]
    BY <1>2 DEF Recover, Places
  <2>2. drv' \in DriverTypes
    BY <2>1, OffFields
  <2>3. QED
    BY <1>2, <2>1, <2>2 DEF Off
<1>3. CASE s.pending # "none"
  <2>1. drv' = [Off EXCEPT !.at = s.pending, !.ret = "check", !.replay = TRUE]
    BY <1>3 DEF Recover
  <2>2. s.pending \in Places /\ "check" \in {"off", "check"}
    BY <1>1, <1>3 DEF Places
  <2>3. drv' \in DriverTypes
    BY <1>1, <2>1, <2>2, ZenonT(40) DEF DriverTypes
  <2>4. QED
    BY <1>3, <2>1, <2>3 DEF Off
<1>4. QED
  BY <1>2, <1>3

\* The re-drive hands on the one link that a stopped walk needs, or nothing.
LEMMA ResumeEffect ==
    ASSUME Typed, ResumeReleaseChain
    PROVE  /\ drv' \in DriverTypes /\ ~drv'.replay
           /\ drv'.at \in {"off", "issue"}
           /\ drv'.at = "issue" =>
                 \/ Walking /\ drv'.next = "freeze_candidate"
                 \/ Walking /\ EvidenceMissing /\ drv'.next = "run_local_gates"
                 \/ s.stage = "M-SECURITY" /\ ~s.exited /\ drv'.next = "assess_security"
<1>1. ASSUME NEW kind \in Commands
      PROVE  [Off EXCEPT !.at = "issue", !.next = kind] \in DriverTypes
  <2>1. "issue" \in Places
    BY DEF Places
  <2>2. Off \in DriverTypes
    BY OffFields
  <2>3. QED
    BY <2>1, <2>2, ZenonT(40) DEF DriverTypes
<1>2. {"run_local_gates", "freeze_candidate", "assess_security"} \subseteq Commands
  BY DEF Commands, Guarded
<1>3. \/ drv' = Off
      \/ Walking /\ drv' = [Off EXCEPT !.at = "issue", !.next = "freeze_candidate"]
      \/ /\ Walking /\ EvidenceMissing
         /\ drv' = [Off EXCEPT !.at = "issue", !.next = "run_local_gates"]
      \/ /\ s.stage = "M-SECURITY" /\ ~s.exited
         /\ drv' = [Off EXCEPT !.at = "issue", !.next = "assess_security"]
  BY Zenon DEF ResumeReleaseChain
<1>4. QED
  BY <1>1, <1>2, <1>3, OffFields DEF Off

\* The command is on record before it runs, and it is not a replay.
LEMMA IssueEffect ==
    ASSUME Typed, Issue
    PROVE  /\ drv' \in DriverTypes /\ drv'.at = drv.next /\ ~drv'.replay
           /\ s' \in StateTypes /\ s'.pending = drv.next
           /\ s'.stage = s.stage /\ s'.sub = s.sub /\ s'.exited = s.exited
<1>1. drv \in DriverTypes /\ s \in StateTypes /\ drv.next \in Commands
  BY DEF Typed, DriverTypes
<1>2. drv' = [drv EXCEPT !.at = drv.next, !.replay = FALSE] /\ s' = [s EXCEPT !.pending = drv.next]
  BY DEF Issue
<1>3. drv.next \in Places /\ drv.next \in Commands \cup {"none"}
  BY <1>1 DEF Places
<1>4. drv' \in DriverTypes
  BY <1>1, <1>2, <1>3, ZenonT(40) DEF DriverTypes
<1>5. s' \in StateTypes
  BY <1>1, <1>2, <1>3, ZenonT(40) DEF StateTypes
<1>6. drv'.at = drv.next /\ ~drv'.replay
  BY <1>1, <1>2 DEF DriverTypes
<1>7. s'.pending = drv.next /\ s'.stage = s.stage /\ s'.sub = s.sub /\ s'.exited = s.exited
  BY <1>1, <1>2 DEF StateTypes
<1>8. QED
  BY <1>4, <1>5, <1>6, <1>7

\* The commit to freeze is the one that HEAD was at.
LEMMA ToMintEffect ==
    ASSUME Typed, drv' = [drv EXCEPT !.at = "mint", !.sha = tree.head]
    PROVE  drv' \in DriverTypes /\ drv'.at = "mint" /\ drv'.sha = tree.head
<1>1. drv \in DriverTypes /\ tree.head \in 0..MaxCommits /\ "mint" \in Places
  BY Bounds DEF Typed, TreeTypes, Commits, Places
<1>2. drv' \in DriverTypes
  BY <1>1, ZenonT(40) DEF DriverTypes
<1>3. QED
  BY <1>1, <1>2 DEF DriverTypes

\* The gates are run from the first.
LEMMA GatesBeginEffect ==
    ASSUME Typed, GatesBegin
    PROVE  drv' \in DriverTypes /\ drv'.at = "gate" /\ drv'.gate = 1 /\ drv'.replay = drv.replay
<1>1. drv \in DriverTypes /\ 1 \in Gates /\ "gate" \in Places
  BY Bounds DEF Typed, Gates, Places
<1>2. drv' = [drv EXCEPT !.at = "gate", !.gate = 1, !.green = TRUE]
  BY DEF GatesBegin
<1>3. drv' \in DriverTypes
  BY <1>1, <1>2, ZenonT(40) DEF DriverTypes
<1>4. QED
  BY <1>1, <1>2, <1>3 DEF DriverTypes

\* The review and the exits move the stage, and resolve the command.
LEMMA CrossingEffect ==
    ASSUME Typed, ReviewRevises \/ ReviewPasses \/ ExitVerify \/ ExitSecurity
    PROVE  /\ s' \in StateTypes /\ s'.stage = s.stage /\ s'.pending = "none"
           /\ s'.sub = (IF ReviewRevises THEN "RESPOND" ELSE IF ReviewPasses THEN "EXIT" ELSE s.sub)
           /\ s'.exited = (IF ReviewRevises \/ ReviewPasses THEN s.exited ELSE TRUE)
<1>1. s \in StateTypes
  BY DEF Typed
<1>2. \A sub \in {"RESPOND", "EXIT"} : [s EXCEPT !.pending = "none", !.sub = sub] \in StateTypes
  <2>1. SUFFICES ASSUME NEW sub \in {"RESPOND", "EXIT"}
                 PROVE  [s EXCEPT !.pending = "none", !.sub = sub] \in StateTypes
    OBVIOUS
  <2>2. sub \in {"VERIFYING", "RESPOND", "EXIT", "ASSESSING", "PREVIEWING"}
    OBVIOUS
  <2>3. QED
    BY <1>1, <2>2, ZenonT(40) DEF StateTypes
<1>3. [s EXCEPT !.pending = "none", !.exited = TRUE] \in StateTypes
  BY <1>1, ZenonT(40) DEF StateTypes
<1>4. CASE ReviewRevises
  BY <1>1, <1>2, <1>4 DEF ReviewRevises, StateTypes
<1>5. CASE ReviewPasses /\ ~ReviewRevises
  BY <1>1, <1>2, <1>5 DEF ReviewPasses, StateTypes
<1>6. CASE (ExitVerify \/ ExitSecurity) /\ ~ReviewRevises /\ ~ReviewPasses
  <2>1. s' = [s EXCEPT !.pending = "none", !.exited = TRUE]
    BY <1>6 DEF ExitVerify, ExitSecurity
  <2>2. QED
    BY <1>1, <1>3, <1>6, <2>1 DEF StateTypes
<1>7. QED
  BY <1>4, <1>5, <1>6

\* A commit is one more, and the trailers of those before it stand.
LEMMA CommitEffect ==
    ASSUME Typed, Commit
    PROVE  /\ tree' \in TreeTypes /\ tree'.head = tree.head + 1
           /\ \A c \in Commits : c <= tree.head => tree'.trailer[c] = tree.trailer[c]
<1>1. tree \in TreeTypes /\ log \in LogTypes /\ Len(log.rounds) \in 0..RoundLimit
  BY Bounds DEF Typed, LogTypes
<1>2. tree.head \in Commits /\ tree.trailer \in [Commits -> 0..RoundLimit]
  BY <1>1 DEF TreeTypes
<1>3. PICK r \in 0..Len(log.rounds) :
          tree' = [head |-> tree.head + 1, dirty |-> FALSE,
                   trailer |-> [tree.trailer EXCEPT ![tree.head + 1] = r]]
  BY DEF Commit
<1>4. r \in 0..RoundLimit /\ tree.head + 1 \in Commits
  BY <1>1, <1>2, Bounds DEF Commit, Commits
<1>5. [tree.trailer EXCEPT ![tree.head + 1] = r] \in [Commits -> 0..RoundLimit]
  BY <1>2, <1>4
<1>6. tree' \in TreeTypes
  BY <1>3, <1>4, <1>5 DEF TreeTypes
<1>7. \A c \in Commits : c <= tree.head => tree'.trailer[c] = tree.trailer[c]
  BY <1>2, <1>3, <1>4, Bounds DEF Commits
<1>8. QED
  BY <1>3, <1>6, <1>7

\* An edit of the working tree moves no commit.
LEMMA EditEffect ==
    ASSUME Typed, Dirty \/ Clean
    PROVE  tree' \in TreeTypes /\ tree'.head = tree.head /\ tree'.trailer = tree.trailer
<1>1. tree \in TreeTypes
  BY DEF Typed
<1>2. \A d \in BOOLEAN : [tree EXCEPT !.dirty = d] \in TreeTypes
  BY <1>1, ZenonT(40) DEF TreeTypes
<1>3. PICK d \in BOOLEAN : tree' = [tree EXCEPT !.dirty = d]
  BY DEF Dirty, Clean
<1>4. QED
  BY <1>1, <1>2, <1>3 DEF TreeTypes

-----------------------------------------------------------------------------
(* The types.                                                               *)

\* The candidate is the last commit frozen, and none is later.
LEMMA CandidateIsLast ==
    ASSUME Typed, CandidatesInOrder, Frozen
    PROVE  /\ Len(log.frozen) \in Nat \ {0} /\ DOMAIN log.frozen = 1..Len(log.frozen)
           /\ Candidate = log.frozen[Len(log.frozen)]
           /\ Candidate \in Commits /\ Candidate <= tree.head
           /\ \A i \in DOMAIN log.frozen : log.frozen[i] \in Commits /\ log.frozen[i] <= Candidate
<1>1. log.frozen \in Seq(Commits) /\ log.frozen # <<>>
  BY DEF Typed, LogTypes, Frozen
<1>2. Len(log.frozen) \in Nat \ {0} /\ DOMAIN log.frozen = 1..Len(log.frozen)
  BY <1>1
<1>3. Candidate = log.frozen[Len(log.frozen)]
  BY DEF Candidate
<1>4. \A i \in DOMAIN log.frozen : log.frozen[i] \in Commits /\ log.frozen[i] \in Nat
  BY <1>1, <1>2, Bounds DEF Commits
<1>5. QED
  BY <1>1, <1>2, <1>3, <1>4 DEF CandidatesInOrder

\* The commits on record are numbers.
LEMMA RecordedNumbers ==
    ASSUME Typed
    PROVE  /\ \A i \in DOMAIN log.frozen : log.frozen[i] \in Nat
           /\ \A r \in DOMAIN log.rounds : log.rounds[r] \in Nat
           /\ Len(log.frozen) \in Nat /\ DOMAIN log.frozen = 1..Len(log.frozen)
           /\ Len(log.rounds) \in Nat /\ DOMAIN log.rounds = 1..Len(log.rounds)
<1>1. \A c \in Commits : c \in Nat
  BY DEF Commits
<1>2. log.frozen \in Seq(Commits) /\ log.rounds \in Seq(Commits)
  BY DEF Typed, LogTypes
<1>3. QED
  BY <1>1, <1>2

\* The candidate is what the last candidate.frozen froze.
LEMMA SameCandidate ==
    ASSUME log'.frozen = log.frozen
    PROVE  Candidate' = Candidate /\ (Frozen' <=> Frozen)
BY DEF Candidate, Frozen

\* A freeze makes the commit of the driver the candidate.
LEMMA NewCandidate ==
    ASSUME Typed, Mint, drv.sha \in Commits
    PROVE  Candidate' = drv.sha /\ Frozen'
<1>1. log.frozen \in Seq(Commits) /\ log'.frozen = Append(log.frozen, drv.sha)
  BY MintEffect DEF Typed, LogTypes
<1>2. /\ log'.frozen # <<>> /\ Len(log'.frozen) = Len(log.frozen) + 1
      /\ log'.frozen[Len(log.frozen) + 1] = drv.sha
  BY <1>1
<1>3. QED
  BY <1>2 DEF Candidate, Frozen

\* No step but a fix commit's freeze, a freeze, a repair round and a commit
\* moves what the history of the candidates and HEAD are.
SameHistory ==
    /\ log'.frozen = log.frozen /\ log'.pred = log.pred /\ log'.rounds = log.rounds
    /\ log'.staled = log.staled /\ log'.old = log.old
    /\ tree'.head = tree.head /\ tree'.trailer = tree.trailer

\* Every step keeps the types.
LEMMA TypedStep ==
    ASSUME IInv, [Next]_vars
    PROVE  Typed'
<1>1. Typed
  BY DEF IInv
<1>2. /\ tree \in TreeTypes /\ s \in StateTypes /\ log \in LogTypes /\ ev \in EvidenceTypes
      /\ Len(log.rounds) <= RoundLimit
      /\ attn \in [Areas -> {"none", "open", "overtaken"}] /\ drv \in DriverTypes
      /\ left \in [bad : 0..MaxBad, crashes : 0..MaxCrashes] /\ moved \in BOOLEAN
  BY <1>1 DEF Typed
<1>3. Commands \subseteq Places
  BY DEF Places
<1>4. Frozen => Candidate \in Commits
  BY CandidateIsLast DEF IInv
<1>5. ASSUME Drive
      PROVE  Typed'
  BY <1>1, <1>2, <1>3, <1>4, <1>5, AtEffect
     DEF Drive, Places, Commands, Guarded, Typed
<1>6. ASSUME ParkStaleLink
      PROVE  Typed'
  BY <1>1, <1>2, <1>3, <1>4, <1>6, AppendedEffect, AttentionEffect, AreasNamed,
     OffFields
     DEF ParkStaleLink, Typed
<1>7. ASSUME Recover
      PROVE  Typed'
  BY <1>1, <1>2, <1>3, <1>4, <1>7, RecoverEffect
     DEF Recover, Typed
<1>8. ASSUME ResumeReleaseChain
      PROVE  Typed'
  BY <1>1, <1>2, <1>3, <1>4, <1>8, ResumeEffect
     DEF ResumeReleaseChain, Typed
<1>9. ASSUME Issue
      PROVE  Typed'
  BY <1>1, <1>2, <1>3, <1>4, <1>9, IssueEffect
     DEF Issue, Typed
<1>10. ASSUME FreezeReplayed
      PROVE  Typed'
  BY <1>1, <1>2, <1>3, <1>4, <1>10, StopEffect
     DEF FreezeReplayed, Typed
<1>11. ASSUME FreezeDirty
      PROVE  Typed'
  BY <1>1, <1>2, <1>3, <1>4, <1>11, AppendedEffect, StopEffect, AttentionEffect,
     AreasNamed
     DEF FreezeDirty, Typed
<1>12. ASSUME FreezeStands
      PROVE  Typed'
  BY <1>1, <1>2, <1>3, <1>4, <1>12, HandEffect
     DEF FreezeStands, Commands, Guarded, Typed
<1>13. ASSUME FreezeDrift
      PROVE  Typed'
  BY <1>1, <1>2, <1>3, <1>4, <1>13, AppendedEffect, AtEffect
     DEF FreezeDrift, Places, Commands, Guarded, Typed
<1>14. ASSUME FreezeFirst
      PROVE  Typed'
  BY <1>1, <1>2, <1>3, <1>4, <1>14, ToMintEffect
     DEF FreezeFirst, Typed
<1>15. ASSUME FreezeRewalk
      PROVE  Typed'
  <2>1. Frozen
    BY <1>15 DEF FreezeRewalk, Drifted
  <2>2. log' \in LogTypes /\ Len(log'.rounds) <= RoundLimit
    BY <1>1, <1>2, <1>4, <1>15, <2>1, RewalkEffect
  <2>3. drv' \in DriverTypes
    BY <1>1, <1>15, ToMintEffect DEF FreezeRewalk
  <2>4. QED
    BY <1>1, <1>2, <1>15, <2>2, <2>3, AppendedEffect DEF FreezeRewalk, Typed
<1>16. ASSUME Mint
      PROVE  Typed'
  <2>1. drv.sha \in Commits
    BY <1>16 DEF Mint, IInv, AboutToMint
  <2>2. ev' \in EvidenceTypes
    BY <1>16, Bounds DEF Mint, NoEvidence, EvidenceTypes
  <2>3. attn' \in [Areas -> {"none", "open", "overtaken"}]
    BY <1>2, <1>16 DEF Mint
  <2>4. drv' \in DriverTypes
    BY <1>1, <1>16, HandEffect DEF Mint, Commands, Guarded
  <2>5. moved' \in BOOLEAN
    BY <1>16 DEF Mint
  <2>6. QED
    BY <1>1, <1>2, <1>16, <2>1, <2>2, <2>3, <2>4, <2>5, AppendedEffect,
       MintEffect
       DEF Mint, Typed
<1>17. ASSUME JudgeReuse
      PROVE  Typed'
  BY <1>1, <1>2, <1>3, <1>4, <1>17, AppendedEffect, HandEffect, EvidenceUpdates
     DEF JudgeReuse, Commands, Guarded, Typed
<1>18. ASSUME JudgeRerun
      PROVE  Typed'
  BY <1>1, <1>2, <1>3, <1>4, <1>18, AppendedEffect, AtEffect, FullEffect
     DEF JudgeRerun, Places, Commands, Guarded, Typed
<1>19. ASSUME FullPasses
      PROVE  Typed'
  BY <1>1, <1>2, <1>3, <1>4, <1>19, AppendedEffect, HandEffect, FullEffect
     DEF FullPasses, Commands, Guarded, Typed
<1>20. ASSUME FullFails
      PROVE  Typed'
  BY <1>1, <1>2, <1>3, <1>4, <1>20, AppendedEffect, StopEffect, BadEffect,
     FullEffect
     DEF FullFails, Typed
<1>21. ASSUME ClosureExists
      PROVE  Typed'
  BY <1>1, <1>2, <1>3, <1>4, <1>21, HandEffect
     DEF ClosureExists, Commands, Guarded, Typed
<1>22. ASSUME ClosureDeclared
      PROVE  Typed'
  BY <1>1, <1>2, <1>3, <1>4, <1>22, AppendedEffect, AtEffect, EvidenceUpdates
     DEF ClosureDeclared, Places, Commands, Guarded, Typed
<1>23. ASSUME ClosureProduced
      PROVE  Typed'
  BY <1>1, <1>2, <1>3, <1>4, <1>23, AppendedEffect, HandEffect, EvidenceUpdates
     DEF ClosureProduced, Commands, Guarded, Typed
<1>24. ASSUME ClosureBlocked
      PROVE  Typed'
  BY <1>1, <1>2, <1>3, <1>4, <1>24, AppendedEffect, StopEffect, BadEffect,
     EvidenceUpdates
     DEF ClosureBlocked, Typed
<1>25. ASSUME GatesReused
      PROVE  Typed'
  BY <1>1, <1>2, <1>3, <1>4, <1>25, HandEffect
     DEF GatesReused, Commands, Guarded, Typed
<1>26. ASSUME GatesBegin
      PROVE  Typed'
  BY <1>1, <1>2, <1>3, <1>4, <1>26, GatesBeginEffect
     DEF GatesBegin, Typed
<1>27. ASSUME ContractInvalid
      PROVE  Typed'
  BY <1>1, <1>2, <1>3, <1>4, <1>27, AppendedEffect, AtEffect, BadEffect
     DEF ContractInvalid, Places, Commands, Guarded, Typed
<1>28. ASSUME GatePasses
      PROVE  Typed'
  <2>1. attn' \in [Areas -> {"none", "open", "overtaken"}]
    BY <1>2, <1>28 DEF GatePasses
  <2>2. drv' \in DriverTypes
    BY <1>1, <1>2, <1>28, AfterGateEffect DEF GatePasses, DriverTypes
  <2>3. QED
    BY <1>1, <1>2, <1>28, <2>1, <2>2, AppendedEffect, JudgedEffect
       DEF GatePasses, Typed
<1>29. ASSUME GateFails
      PROVE  Typed'
  BY <1>1, <1>2, <1>3, <1>4, <1>29, AppendedEffect, BadEffect, JudgedEffect,
     AfterGateEffect
     DEF GateFails, Typed
<1>30. ASSUME GatesRefused
      PROVE  Typed'
  BY <1>1, <1>2, <1>3, <1>4, <1>30, AppendedEffect, AtEffect, AttentionEffect,
     AreasNamed
     DEF GatesRefused, Places, Commands, Guarded, Typed
<1>31. ASSUME RepairRoute
      PROVE  Typed'
  <2>1. Frozen
    BY <1>31 DEF RepairRoute, IInv, OnTheCandidate, Ahead, AfterFreeze
  <2>2. Stop /\ UNCHANGED <<tree, ev, left, moved>>
    BY <1>31 DEF RepairRoute
  <2>3. QED
    BY <1>1, <1>2, <1>4, <1>31, <2>1, <2>2, StopEffect, RouteEffect DEF Typed
<1>32. ASSUME CiRefused
      PROVE  Typed'
  <2>1. PICK ci \in {ev.ci, "failed"} : ev' = [ev EXCEPT !.ci = ci]
    BY <1>32 DEF CiRefused
  <2>2. ci \in {"none", "failed", "passed"}
    BY <1>2 DEF EvidenceTypes
  <2>3. ev' \in EvidenceTypes
    BY <1>2, <2>1, <2>2, EvidenceUpdates
  <2>4. QED
    BY <1>1, <1>2, <1>32, <2>3, AppendedEffect, StopEffect, AttentionEffect,
       BadEffect, AreasNamed
       DEF CiRefused, Typed
<1>33. ASSUME CiPending
      PROVE  Typed'
  BY <1>1, <1>2, <1>3, <1>4, <1>33, AppendedEffect, AtEffect, BadEffect
     DEF CiPending, Places, Commands, Guarded, Typed
<1>34. ASSUME CiPollsAgain
      PROVE  Typed'
  BY <1>1, <1>2, <1>3, <1>4, <1>34, AtEffect
     DEF CiPollsAgain, Places, Commands, Guarded, Typed
<1>35. ASSUME CiBound
      PROVE  Typed'
  BY <1>1, <1>2, <1>3, <1>4, <1>35, AppendedEffect, HandEffect, EvidenceUpdates
     DEF CiBound, Commands, Guarded, Typed
<1>36. ASSUME ReviewFails
      PROVE  Typed'
  BY <1>1, <1>2, <1>3, <1>4, <1>36, AppendedEffect, StopEffect, BadEffect
     DEF ReviewFails, Typed
<1>37. ASSUME ReviewRevises
      PROVE  Typed'
  BY <1>1, <1>2, <1>3, <1>4, <1>37, StopEffect, AttentionEffect, BadEffect,
     CrossingEffect, AreasNamed, EvidenceUpdates
     DEF ReviewRevises, Typed
<1>38. ASSUME ReviewPasses
      PROVE  Typed'
  BY <1>1, <1>2, <1>3, <1>4, <1>38, AtEffect, CrossingEffect, EvidenceUpdates
     DEF ReviewPasses, Places, Commands, Guarded, Typed
<1>39. ASSUME ExitVerify
      PROVE  Typed'
  BY <1>1, <1>2, <1>3, <1>4, <1>39, AtEffect, CrossingEffect
     DEF ExitVerify, Places, Commands, Guarded, Typed
<1>40. ASSUME EnterSecurity
      PROVE  Typed'
  <2>1. s' \in StateTypes
    BY <1>40 DEF EnterSecurity, StateTypes
  <2>2. drv' \in DriverTypes
    BY <1>1, <1>40, HandEffect DEF EnterSecurity, Commands, Guarded
  <2>3. QED
    BY <1>2, <1>40, <2>1, <2>2 DEF EnterSecurity, Typed
<1>41. ASSUME AssessFails
      PROVE  Typed'
  BY <1>1, <1>2, <1>3, <1>4, <1>41, AppendedEffect, StopEffect, BadEffect,
     EvidenceUpdates
     DEF AssessFails, Typed
<1>42. ASSUME AssessPasses
      PROVE  Typed'
  BY <1>1, <1>2, <1>3, <1>4, <1>42, AppendedEffect, AtEffect, EvidenceUpdates
     DEF AssessPasses, Places, Commands, Guarded, Typed
<1>43. ASSUME ExitSecurity
      PROVE  Typed'
  BY <1>1, <1>2, <1>3, <1>4, <1>43, AtEffect, CrossingEffect
     DEF ExitSecurity, Places, Commands, Guarded, Typed
<1>44. ASSUME EnterRelease
      PROVE  Typed'
  <2>1. s' \in StateTypes
    BY <1>44 DEF EnterRelease, StateTypes
  <2>2. QED
    BY <1>2, <1>44, <2>1, OffFields DEF EnterRelease, Typed
<1>45. ASSUME Crash
      PROVE  Typed'
  <2>1. left' = [left EXCEPT !.crashes = left.crashes - 1] /\ left.crashes > 0 /\ drv' = Off
    BY <1>45 DEF Crash
  <2>2. left' \in [bad : 0..MaxBad, crashes : 0..MaxCrashes]
    BY <1>2, <2>1, Bounds
  <2>3. QED
    BY <1>2, <1>45, <2>1, <2>2, OffFields DEF Crash, Typed
<1>46. ASSUME Retry
      PROVE  Typed'
  BY <1>1, <1>2, <1>3, <1>4, <1>46, AppendedEffect
     DEF Retry, HumanRetry, Typed
<1>47. ASSUME RetryInWait
      PROVE  Typed'
  BY <1>1, <1>2, <1>3, <1>4, <1>47, AppendedEffect, StopEffect
     DEF RetryInWait, HumanRetry, Typed
<1>48. ASSUME Commit
      PROVE  Typed'
  BY <1>1, <1>2, <1>3, <1>4, <1>48, CommitEffect
     DEF Commit, Typed
<1>49. ASSUME Dirty
      PROVE  Typed'
  BY <1>1, <1>2, <1>3, <1>4, <1>49, BadEffect, EditEffect
     DEF Dirty, Typed
<1>50. ASSUME Clean
      PROVE  Typed'
  BY <1>1, <1>2, <1>3, <1>4, <1>50, EditEffect
     DEF Clean, Typed
<1>51. CASE UNCHANGED vars
  BY <1>1, <1>51 DEF vars, Typed
<1>52. QED
  BY <1>5, <1>6, <1>7, <1>8, <1>9, <1>10, <1>11, <1>12, <1>13, <1>14, <1>15,
     <1>16, <1>17, <1>18, <1>19, <1>20, <1>21, <1>22, <1>23, <1>24, <1>25,
     <1>26, <1>27, <1>28, <1>29, <1>30, <1>31, <1>32, <1>33, <1>34, <1>35,
     <1>36, <1>37, <1>38, <1>39, <1>40, <1>41, <1>42, <1>43, <1>44, <1>45,
     <1>46, <1>47, <1>48, <1>49, <1>50, <1>51
     DEF Next, Driver

\* Every step keeps the links in their stage.
LEMMA LinksStep ==
    ASSUME IInv, [Next]_vars
    PROVE  LinksPlaced'
<1>1. Typed /\ LinksPlaced
  BY DEF IInv
<1>2. Frozen => Candidate \in Commits
  BY CandidateIsLast DEF IInv
<1>3. /\ drv.next \in Commands /\ s.pending \in Commands \cup {"none"}
      /\ drv.green \in BOOLEAN
  BY <1>1 DEF Typed, DriverTypes, StateTypes
<1>4. ASSUME Drive
      PROVE  LinksPlaced'
  BY <1>1, <1>2, <1>3, <1>4, AtEffect
     DEF Drive, Places, Commands, Guarded, LinksPlaced, Ahead, Walking,
         VerifyLinks, AfterFreeze, BeforeGates, ToGates
<1>5. ASSUME ParkStaleLink
      PROVE  LinksPlaced'
  BY <1>1, <1>2, <1>3, <1>5, AppendedEffect, OffFields
     DEF ParkStaleLink, LinksPlaced, Ahead, Walking, VerifyLinks, AfterFreeze,
         BeforeGates, ToGates
<1>6. ASSUME Recover
      PROVE  LinksPlaced'
  <2>1. s' = s
    BY <1>6 DEF Recover
  <2>2. drv'.at = "check" \/ (drv'.at = s.pending /\ s.pending \in Commands)
    BY <1>1, <1>3, <1>6, RecoverEffect
  <2>3. QED
    BY <1>1, <1>3, <2>1, <2>2
       DEF Commands, Guarded, LinksPlaced, Ahead, Walking, VerifyLinks,
           AfterFreeze, BeforeGates, ToGates
<1>7. ASSUME ResumeReleaseChain
      PROVE  LinksPlaced'
  BY <1>1, <1>2, <1>3, <1>7, ResumeEffect
     DEF ResumeReleaseChain, LinksPlaced, Ahead, Walking, VerifyLinks,
         AfterFreeze, BeforeGates, ToGates
<1>8. ASSUME Issue
      PROVE  LinksPlaced'
  <2>1. drv.at = "issue" /\ drv.next # "issue"
    BY <1>3, <1>8 DEF Issue, Commands, Guarded
  <2>2. QED
    BY <1>1, <1>3, <1>8, <2>1, IssueEffect
       DEF Commands, Guarded, LinksPlaced, Ahead, Walking, VerifyLinks,
           AfterFreeze, BeforeGates, ToGates
<1>9. ASSUME FreezeReplayed
      PROVE  LinksPlaced'
  BY <1>1, <1>2, <1>3, <1>9, StopEffect
     DEF FreezeReplayed, LinksPlaced, Ahead, Walking, VerifyLinks, AfterFreeze,
         BeforeGates, ToGates
<1>10. ASSUME FreezeDirty
      PROVE  LinksPlaced'
  BY <1>1, <1>2, <1>3, <1>10, AppendedEffect, StopEffect
     DEF FreezeDirty, Freezing, LinksPlaced, Ahead, Walking, VerifyLinks,
         AfterFreeze, BeforeGates, ToGates
<1>11. ASSUME FreezeStands
      PROVE  LinksPlaced'
  BY <1>1, <1>2, <1>3, <1>11, HandEffect
     DEF FreezeStands, Freezing, Commands, Guarded, LinksPlaced, Ahead, Walking,
         VerifyLinks, AfterFreeze, BeforeGates, ToGates
<1>12. ASSUME FreezeDrift
      PROVE  LinksPlaced'
  BY <1>1, <1>2, <1>3, <1>12, AppendedEffect, AtEffect
     DEF FreezeDrift, Freezing, Places, Commands, Guarded, LinksPlaced, Ahead,
         Walking, VerifyLinks, AfterFreeze, BeforeGates, ToGates
<1>13. ASSUME FreezeFirst
      PROVE  LinksPlaced'
  BY <1>1, <1>2, <1>3, <1>13, ToMintEffect
     DEF FreezeFirst, Freezing, LinksPlaced, Ahead, Walking, VerifyLinks,
         AfterFreeze, BeforeGates, ToGates
<1>14. ASSUME FreezeRewalk
      PROVE  LinksPlaced'
  BY <1>1, <1>2, <1>3, <1>14, AppendedEffect, ToMintEffect
     DEF FreezeRewalk, Freezing, LinksPlaced, Ahead, Walking, VerifyLinks,
         AfterFreeze, BeforeGates, ToGates
<1>15. ASSUME Mint
      PROVE  LinksPlaced'
  BY <1>1, <1>2, <1>3, <1>15, AppendedEffect, HandEffect
     DEF Mint, Commands, Guarded, LinksPlaced, Ahead, Walking, VerifyLinks,
         AfterFreeze, BeforeGates, ToGates
<1>16. ASSUME JudgeReuse
      PROVE  LinksPlaced'
  BY <1>1, <1>2, <1>3, <1>16, AppendedEffect, HandEffect
     DEF JudgeReuse, Commands, Guarded, LinksPlaced, Ahead, Walking,
         VerifyLinks, AfterFreeze, BeforeGates, ToGates
<1>17. ASSUME JudgeRerun
      PROVE  LinksPlaced'
  BY <1>1, <1>2, <1>3, <1>17, AppendedEffect, AtEffect
     DEF JudgeRerun, Places, Commands, Guarded, LinksPlaced, Ahead, Walking,
         VerifyLinks, AfterFreeze, BeforeGates, ToGates
<1>18. ASSUME FullPasses
      PROVE  LinksPlaced'
  BY <1>1, <1>2, <1>3, <1>18, AppendedEffect, HandEffect
     DEF FullPasses, Commands, Guarded, LinksPlaced, Ahead, Walking,
         VerifyLinks, AfterFreeze, BeforeGates, ToGates
<1>19. ASSUME FullFails
      PROVE  LinksPlaced'
  BY <1>1, <1>2, <1>3, <1>19, AppendedEffect, StopEffect
     DEF FullFails, LinksPlaced, Ahead, Walking, VerifyLinks, AfterFreeze,
         BeforeGates, ToGates
<1>20. ASSUME ClosureExists
      PROVE  LinksPlaced'
  BY <1>1, <1>2, <1>3, <1>20, HandEffect
     DEF ClosureExists, Commands, Guarded, LinksPlaced, Ahead, Walking,
         VerifyLinks, AfterFreeze, BeforeGates, ToGates
<1>21. ASSUME ClosureDeclared
      PROVE  LinksPlaced'
  BY <1>1, <1>2, <1>3, <1>21, AppendedEffect, AtEffect
     DEF ClosureDeclared, Places, Commands, Guarded, LinksPlaced, Ahead,
         Walking, VerifyLinks, AfterFreeze, BeforeGates, ToGates
<1>22. ASSUME ClosureProduced
      PROVE  LinksPlaced'
  BY <1>1, <1>2, <1>3, <1>22, AppendedEffect, HandEffect
     DEF ClosureProduced, Commands, Guarded, LinksPlaced, Ahead, Walking,
         VerifyLinks, AfterFreeze, BeforeGates, ToGates
<1>23. ASSUME ClosureBlocked
      PROVE  LinksPlaced'
  BY <1>1, <1>2, <1>3, <1>23, AppendedEffect, StopEffect
     DEF ClosureBlocked, LinksPlaced, Ahead, Walking, VerifyLinks, AfterFreeze,
         BeforeGates, ToGates
<1>24. ASSUME GatesReused
      PROVE  LinksPlaced'
  BY <1>1, <1>2, <1>3, <1>24, HandEffect
     DEF GatesReused, Commands, Guarded, LinksPlaced, Ahead, Walking,
         VerifyLinks, AfterFreeze, BeforeGates, ToGates
<1>25. ASSUME GatesBegin
      PROVE  LinksPlaced'
  BY <1>1, <1>2, <1>3, <1>25, GatesBeginEffect
     DEF GatesBegin, LinksPlaced, Ahead, Walking, VerifyLinks, AfterFreeze,
         BeforeGates, ToGates
<1>26. ASSUME ContractInvalid
      PROVE  LinksPlaced'
  BY <1>1, <1>2, <1>3, <1>26, AppendedEffect, AtEffect
     DEF ContractInvalid, Places, Commands, Guarded, LinksPlaced, Ahead,
         Walking, VerifyLinks, AfterFreeze, BeforeGates, ToGates
<1>27. ASSUME GatePasses
      PROVE  LinksPlaced'
  <2>1. drv'.at \in {"gate", "issue", "refuse"} /\ drv.at = "gate"
            /\ (drv'.at = "issue" => drv'.next = "observe_ci_runs")
    BY <1>1, <1>3, <1>27, AfterGateEffect DEF GatePasses
  <2>2. s'.stage = s.stage /\ s'.sub = s.sub /\ s'.exited = s.exited /\ s'.pending = "none"
    BY <1>1, <1>27, AppendedEffect DEF GatePasses
  <2>3. QED
    BY <1>1, <2>1, <2>2
       DEF LinksPlaced, Ahead, Walking, VerifyLinks, AfterFreeze, BeforeGates,
           ToGates
<1>28. ASSUME GateFails
      PROVE  LinksPlaced'
  BY <1>1, <1>2, <1>3, <1>28, AppendedEffect, AfterGateEffect
     DEF GateFails, LinksPlaced, Ahead, Walking, VerifyLinks, AfterFreeze,
         BeforeGates, ToGates
<1>29. ASSUME GatesRefused
      PROVE  LinksPlaced'
  BY <1>1, <1>2, <1>3, <1>29, AppendedEffect, AtEffect
     DEF GatesRefused, Places, Commands, Guarded, LinksPlaced, Ahead, Walking,
         VerifyLinks, AfterFreeze, BeforeGates, ToGates
<1>30. ASSUME RepairRoute
      PROVE  LinksPlaced'
  <2>1. Frozen
    BY <1>30 DEF RepairRoute, IInv, OnTheCandidate, Ahead, AfterFreeze
  <2>2. Stop /\ drv.at = "route"
    BY <1>30 DEF RepairRoute
  <2>3. QED
    BY <1>1, <1>2, <1>30, <2>1, <2>2, StopEffect, RouteEffect
       DEF LinksPlaced, Ahead, Walking, VerifyLinks, AfterFreeze, BeforeGates,
           ToGates
<1>31. ASSUME CiRefused
      PROVE  LinksPlaced'
  BY <1>1, <1>2, <1>3, <1>31, AppendedEffect, StopEffect
     DEF CiRefused, LinksPlaced, Ahead, Walking, VerifyLinks, AfterFreeze,
         BeforeGates, ToGates
<1>32. ASSUME CiPending
      PROVE  LinksPlaced'
  BY <1>1, <1>2, <1>3, <1>32, AppendedEffect, AtEffect
     DEF CiPending, Places, Commands, Guarded, LinksPlaced, Ahead, Walking,
         VerifyLinks, AfterFreeze, BeforeGates, ToGates
<1>33. ASSUME CiPollsAgain
      PROVE  LinksPlaced'
  BY <1>1, <1>2, <1>3, <1>33, AtEffect
     DEF CiPollsAgain, Places, Commands, Guarded, LinksPlaced, Ahead, Walking,
         VerifyLinks, AfterFreeze, BeforeGates, ToGates
<1>34. ASSUME CiBound
      PROVE  LinksPlaced'
  BY <1>1, <1>2, <1>3, <1>34, AppendedEffect, HandEffect
     DEF CiBound, Commands, Guarded, LinksPlaced, Ahead, Walking, VerifyLinks,
         AfterFreeze, BeforeGates, ToGates
<1>35. ASSUME ReviewFails
      PROVE  LinksPlaced'
  BY <1>1, <1>2, <1>3, <1>35, AppendedEffect, StopEffect
     DEF ReviewFails, LinksPlaced, Ahead, Walking, VerifyLinks, AfterFreeze,
         BeforeGates, ToGates
<1>36. ASSUME ReviewRevises
      PROVE  LinksPlaced'
  BY <1>1, <1>2, <1>3, <1>36, StopEffect, CrossingEffect
     DEF ReviewRevises, LinksPlaced, Ahead, Walking, VerifyLinks, AfterFreeze,
         BeforeGates, ToGates
<1>37. ASSUME ReviewPasses
      PROVE  LinksPlaced'
  BY <1>1, <1>2, <1>3, <1>37, AtEffect, CrossingEffect
     DEF ReviewPasses, Places, Commands, Guarded, LinksPlaced, Ahead, Walking,
         VerifyLinks, AfterFreeze, BeforeGates, ToGates
<1>38. ASSUME ExitVerify
      PROVE  LinksPlaced'
  BY <1>1, <1>2, <1>3, <1>38, AtEffect, CrossingEffect
     DEF ExitVerify, Places, Commands, Guarded, LinksPlaced, Ahead, Walking,
         VerifyLinks, AfterFreeze, BeforeGates, ToGates
<1>39. ASSUME EnterSecurity
      PROVE  LinksPlaced'
  BY <1>1, <1>2, <1>3, <1>39, HandEffect
     DEF EnterSecurity, Commands, Guarded, LinksPlaced, Ahead, Walking,
         VerifyLinks, AfterFreeze, BeforeGates, ToGates
<1>40. ASSUME AssessFails
      PROVE  LinksPlaced'
  BY <1>1, <1>2, <1>3, <1>40, AppendedEffect, StopEffect
     DEF AssessFails, LinksPlaced, Ahead, Walking, VerifyLinks, AfterFreeze,
         BeforeGates, ToGates
<1>41. ASSUME AssessPasses
      PROVE  LinksPlaced'
  BY <1>1, <1>2, <1>3, <1>41, AppendedEffect, AtEffect
     DEF AssessPasses, Places, Commands, Guarded, LinksPlaced, Ahead, Walking,
         VerifyLinks, AfterFreeze, BeforeGates, ToGates
<1>42. ASSUME ExitSecurity
      PROVE  LinksPlaced'
  BY <1>1, <1>2, <1>3, <1>42, AtEffect, CrossingEffect
     DEF ExitSecurity, Places, Commands, Guarded, LinksPlaced, Ahead, Walking,
         VerifyLinks, AfterFreeze, BeforeGates, ToGates
<1>43. ASSUME EnterRelease
      PROVE  LinksPlaced'
  BY <1>1, <1>2, <1>3, <1>43, OffFields
     DEF EnterRelease, LinksPlaced, Ahead, Walking, VerifyLinks, AfterFreeze,
         BeforeGates, ToGates
<1>44. ASSUME Crash
      PROVE  LinksPlaced'
  BY <1>1, <1>2, <1>3, <1>44, OffFields
     DEF Crash, LinksPlaced, Ahead, Walking, VerifyLinks, AfterFreeze,
         BeforeGates, ToGates
<1>45. ASSUME Retry
      PROVE  LinksPlaced'
  BY <1>1, <1>2, <1>3, <1>45, AppendedEffect
     DEF Retry, HumanRetry, LinksPlaced, Ahead, Walking, VerifyLinks,
         AfterFreeze, BeforeGates, ToGates
<1>46. ASSUME RetryInWait
      PROVE  LinksPlaced'
  BY <1>1, <1>2, <1>3, <1>46, AppendedEffect, StopEffect
     DEF RetryInWait, HumanRetry, LinksPlaced, Ahead, Walking, VerifyLinks,
         AfterFreeze, BeforeGates, ToGates
<1>47. ASSUME Commit
      PROVE  LinksPlaced'
  BY <1>1, <1>2, <1>3, <1>47, CommitEffect
     DEF Commit, LinksPlaced, Ahead, Walking, VerifyLinks, AfterFreeze,
         BeforeGates, ToGates
<1>48. ASSUME Dirty
      PROVE  LinksPlaced'
  BY <1>1, <1>2, <1>3, <1>48, EditEffect
     DEF Dirty, LinksPlaced, Ahead, Walking, VerifyLinks, AfterFreeze,
         BeforeGates, ToGates
<1>49. ASSUME Clean
      PROVE  LinksPlaced'
  BY <1>1, <1>2, <1>3, <1>49, EditEffect
     DEF Clean, LinksPlaced, Ahead, Walking, VerifyLinks, AfterFreeze,
         BeforeGates, ToGates
<1>50. CASE UNCHANGED vars
  BY <1>1, <1>2, <1>3, <1>50
     DEF vars, LinksPlaced, Ahead, Walking, VerifyLinks, AfterFreeze,
         BeforeGates, ToGates
<1>51. QED
  BY <1>4, <1>5, <1>6, <1>7, <1>8, <1>9, <1>10, <1>11, <1>12, <1>13, <1>14,
     <1>15, <1>16, <1>17, <1>18, <1>19, <1>20, <1>21, <1>22, <1>23, <1>24,
     <1>25, <1>26, <1>27, <1>28, <1>29, <1>30, <1>31, <1>32, <1>33, <1>34,
     <1>35, <1>36, <1>37, <1>38, <1>39, <1>40, <1>41, <1>42, <1>43, <1>44,
     <1>45, <1>46, <1>47, <1>48, <1>49, <1>50
     DEF Next, Driver

\* The four steps that move the history.
LEMMA HistoryStep ==
    ASSUME IInv, [Next]_vars
    PROVE  SameHistory \/ FreezeRewalk \/ Mint \/ RepairRoute \/ Commit
<1>1. Typed
  BY DEF IInv
<1>2. ASSUME Drive
      PROVE  SameHistory
  BY <1>1, <1>2
     DEF Drive, SameHistory
<1>3. ASSUME ParkStaleLink
      PROVE  SameHistory
  BY <1>1, <1>3
     DEF ParkStaleLink, SameHistory
<1>4. ASSUME Recover
      PROVE  SameHistory
  BY <1>1, <1>4
     DEF Recover, SameHistory
<1>5. ASSUME ResumeReleaseChain
      PROVE  SameHistory
  BY <1>1, <1>5
     DEF ResumeReleaseChain, SameHistory
<1>6. ASSUME Issue
      PROVE  SameHistory
  BY <1>1, <1>6
     DEF Issue, SameHistory
<1>7. ASSUME FreezeReplayed
      PROVE  SameHistory
  BY <1>1, <1>7
     DEF FreezeReplayed, SameHistory
<1>8. ASSUME FreezeDirty
      PROVE  SameHistory
  BY <1>1, <1>8
     DEF FreezeDirty, SameHistory
<1>9. ASSUME FreezeStands
      PROVE  SameHistory
  BY <1>1, <1>9
     DEF FreezeStands, SameHistory
<1>10. ASSUME FreezeDrift
      PROVE  SameHistory
  BY <1>1, <1>10
     DEF FreezeDrift, SameHistory
<1>11. ASSUME FreezeFirst
      PROVE  SameHistory
  BY <1>1, <1>11
     DEF FreezeFirst, SameHistory
<1>12. ASSUME JudgeReuse
      PROVE  SameHistory
  BY <1>1, <1>12
     DEF JudgeReuse, SameHistory
<1>13. ASSUME JudgeRerun
      PROVE  SameHistory
  BY <1>1, <1>13, FullEffect
     DEF JudgeRerun, SameHistory
<1>14. ASSUME FullPasses
      PROVE  SameHistory
  BY <1>1, <1>14, FullEffect
     DEF FullPasses, SameHistory
<1>15. ASSUME FullFails
      PROVE  SameHistory
  BY <1>1, <1>15, FullEffect
     DEF FullFails, SameHistory
<1>16. ASSUME ClosureExists
      PROVE  SameHistory
  BY <1>1, <1>16
     DEF ClosureExists, SameHistory
<1>17. ASSUME ClosureDeclared
      PROVE  SameHistory
  BY <1>1, <1>17
     DEF ClosureDeclared, SameHistory
<1>18. ASSUME ClosureProduced
      PROVE  SameHistory
  BY <1>1, <1>18
     DEF ClosureProduced, SameHistory
<1>19. ASSUME ClosureBlocked
      PROVE  SameHistory
  BY <1>1, <1>19
     DEF ClosureBlocked, SameHistory
<1>20. ASSUME GatesReused
      PROVE  SameHistory
  BY <1>1, <1>20
     DEF GatesReused, SameHistory
<1>21. ASSUME GatesBegin
      PROVE  SameHistory
  BY <1>1, <1>21
     DEF GatesBegin, SameHistory
<1>22. ASSUME ContractInvalid
      PROVE  SameHistory
  BY <1>1, <1>22
     DEF ContractInvalid, SameHistory
<1>23. ASSUME GatePasses
      PROVE  SameHistory
  BY <1>1, <1>23
     DEF GatePasses, SameHistory
<1>24. ASSUME GateFails
      PROVE  SameHistory
  BY <1>1, <1>24
     DEF GateFails, SameHistory
<1>25. ASSUME GatesRefused
      PROVE  SameHistory
  BY <1>1, <1>25
     DEF GatesRefused, SameHistory
<1>26. ASSUME CiRefused
      PROVE  SameHistory
  BY <1>1, <1>26
     DEF CiRefused, SameHistory
<1>27. ASSUME CiPending
      PROVE  SameHistory
  BY <1>1, <1>27
     DEF CiPending, SameHistory
<1>28. ASSUME CiPollsAgain
      PROVE  SameHistory
  BY <1>1, <1>28
     DEF CiPollsAgain, SameHistory
<1>29. ASSUME CiBound
      PROVE  SameHistory
  BY <1>1, <1>29
     DEF CiBound, SameHistory
<1>30. ASSUME ReviewFails
      PROVE  SameHistory
  BY <1>1, <1>30
     DEF ReviewFails, SameHistory
<1>31. ASSUME ReviewRevises
      PROVE  SameHistory
  BY <1>1, <1>31
     DEF ReviewRevises, SameHistory
<1>32. ASSUME ReviewPasses
      PROVE  SameHistory
  BY <1>1, <1>32
     DEF ReviewPasses, SameHistory
<1>33. ASSUME ExitVerify
      PROVE  SameHistory
  BY <1>1, <1>33
     DEF ExitVerify, SameHistory
<1>34. ASSUME EnterSecurity
      PROVE  SameHistory
  BY <1>1, <1>34
     DEF EnterSecurity, SameHistory
<1>35. ASSUME AssessFails
      PROVE  SameHistory
  BY <1>1, <1>35
     DEF AssessFails, SameHistory
<1>36. ASSUME AssessPasses
      PROVE  SameHistory
  BY <1>1, <1>36
     DEF AssessPasses, SameHistory
<1>37. ASSUME ExitSecurity
      PROVE  SameHistory
  BY <1>1, <1>37
     DEF ExitSecurity, SameHistory
<1>38. ASSUME EnterRelease
      PROVE  SameHistory
  BY <1>1, <1>38
     DEF EnterRelease, SameHistory
<1>39. ASSUME Crash
      PROVE  SameHistory
  BY <1>1, <1>39
     DEF Crash, SameHistory
<1>40. ASSUME Retry
      PROVE  SameHistory
  BY <1>1, <1>40
     DEF Retry, HumanRetry, SameHistory
<1>41. ASSUME RetryInWait
      PROVE  SameHistory
  BY <1>1, <1>41
     DEF RetryInWait, HumanRetry, SameHistory
<1>42. ASSUME Dirty
      PROVE  SameHistory
  BY <1>1, <1>42, EditEffect
     DEF Dirty, SameHistory
<1>43. ASSUME Clean
      PROVE  SameHistory
  BY <1>1, <1>43, EditEffect
     DEF Clean, SameHistory
<1>44. CASE UNCHANGED vars
  BY <1>1, <1>44 DEF vars, SameHistory
<1>45. QED
  BY <1>2, <1>3, <1>4, <1>5, <1>6, <1>7, <1>8, <1>9, <1>10, <1>11, <1>12, <1>13,
     <1>14, <1>15, <1>16, <1>17, <1>18, <1>19, <1>20, <1>21, <1>22, <1>23,
     <1>24, <1>25, <1>26, <1>27, <1>28, <1>29, <1>30, <1>31, <1>32, <1>33,
     <1>34, <1>35, <1>36, <1>37, <1>38, <1>39, <1>40, <1>41, <1>42, <1>43, <1>44
     DEF Next, Driver

\* Every step keeps the links after the freeze on the candidate.
LEMMA OnTheCandidateStep ==
    ASSUME IInv, [Next]_vars
    PROVE  OnTheCandidate'
<1>1. Typed /\ OnTheCandidate
  BY DEF IInv
<1>2. Frozen => Candidate \in Commits /\ Candidate <= tree.head
  BY CandidateIsLast DEF IInv
<1>3. /\ drv.next \in Commands /\ s.pending \in Commands \cup {"none"}
      /\ drv.green \in BOOLEAN /\ moved \in BOOLEAN
  BY <1>1 DEF Typed, DriverTypes, StateTypes
<1>4. ASSUME Drive
      PROVE  OnTheCandidate'
  BY <1>1, <1>2, <1>3, <1>4, AtEffect, SameCandidate
     DEF Drive, Places, Commands, Guarded, OnTheCandidate, Ahead, AfterFreeze,
         BeforeGates, ToGates
<1>5. ASSUME ParkStaleLink
      PROVE  OnTheCandidate'
  BY <1>1, <1>2, <1>3, <1>5, AppendedEffect, OffFields, SameCandidate
     DEF ParkStaleLink, OnTheCandidate, Ahead, AfterFreeze, BeforeGates, ToGates
<1>6. ASSUME Recover
      PROVE  OnTheCandidate'
  <2>1. UNCHANGED <<s, tree, log, moved>>
    BY <1>6 DEF Recover
  <2>2. drv'.at = "check" \/ (drv'.at = s.pending /\ s.pending \in Commands)
    BY <1>1, <1>3, <1>6, RecoverEffect
  <2>3. QED
    BY <1>1, <1>3, <2>1, <2>2, SameCandidate
       DEF Commands, Guarded, OnTheCandidate, Ahead, AfterFreeze, BeforeGates,
           ToGates
<1>7. ASSUME ResumeReleaseChain
      PROVE  OnTheCandidate'
  <2>1. UNCHANGED <<s, tree, log, moved>>
    BY <1>7 DEF ResumeReleaseChain
  <2>2. QED
    BY <1>1, <1>7, <2>1, ResumeEffect, SameCandidate
       DEF EvidenceMissing, OnTheCandidate, Ahead, AfterFreeze, BeforeGates,
           ToGates
<1>8. ASSUME Issue
      PROVE  OnTheCandidate'
  <2>1. drv.at = "issue" /\ drv.next # "issue" /\ UNCHANGED <<tree, log, moved>>
    BY <1>3, <1>8 DEF Issue, Commands, Guarded
  <2>2. QED
    BY <1>1, <1>3, <1>8, <2>1, IssueEffect, SameCandidate
       DEF OnTheCandidate, Ahead, AfterFreeze, BeforeGates, ToGates
<1>9. ASSUME FreezeReplayed
      PROVE  OnTheCandidate'
  BY <1>1, <1>2, <1>3, <1>9, StopEffect, SameCandidate
     DEF FreezeReplayed, OnTheCandidate, Ahead, AfterFreeze, BeforeGates,
         ToGates
<1>10. ASSUME FreezeDirty
      PROVE  OnTheCandidate'
  BY <1>1, <1>2, <1>3, <1>10, AppendedEffect, StopEffect, SameCandidate
     DEF FreezeDirty, Freezing, Drifted, OnTheCandidate, Ahead, AfterFreeze,
         BeforeGates, ToGates
<1>11. ASSUME FreezeStands
      PROVE  OnTheCandidate'
  BY <1>1, <1>2, <1>3, <1>11, HandEffect, SameCandidate
     DEF FreezeStands, Freezing, Drifted, Commands, Guarded, OnTheCandidate,
         Ahead, AfterFreeze, BeforeGates, ToGates
<1>12. ASSUME FreezeDrift
      PROVE  OnTheCandidate'
  BY <1>1, <1>2, <1>3, <1>12, AppendedEffect, AtEffect, SameCandidate
     DEF FreezeDrift, Freezing, Drifted, Places, Commands, Guarded,
         OnTheCandidate, Ahead, AfterFreeze, BeforeGates, ToGates
<1>13. ASSUME FreezeFirst
      PROVE  OnTheCandidate'
  BY <1>1, <1>2, <1>3, <1>13, ToMintEffect, SameCandidate
     DEF FreezeFirst, Freezing, Drifted, OnTheCandidate, Ahead, AfterFreeze,
         BeforeGates, ToGates
<1>14. ASSUME FreezeRewalk
      PROVE  OnTheCandidate'
  BY <1>1, <1>2, <1>3, <1>14, AppendedEffect, RewalkEffect, ToMintEffect,
     SameCandidate
     DEF FreezeRewalk, Freezing, Drifted, OnTheCandidate, Ahead, AfterFreeze,
         BeforeGates, ToGates
<1>15. ASSUME Mint
      PROVE  OnTheCandidate'
  <2>1. Candidate' = drv.sha /\ Frozen'
    BY <1>1, <1>15, NewCandidate DEF Mint, IInv, AboutToMint
  <2>2. moved' = (tree.head # drv.sha) /\ tree' = tree
    BY <1>15 DEF Mint
  <2>3. QED
    BY <2>1, <2>2 DEF OnTheCandidate
<1>16. ASSUME JudgeReuse
      PROVE  OnTheCandidate'
  BY <1>1, <1>2, <1>3, <1>16, AppendedEffect, HandEffect, SameCandidate
     DEF JudgeReuse, Commands, Guarded, OnTheCandidate, Ahead, AfterFreeze,
         BeforeGates, ToGates
<1>17. ASSUME JudgeRerun
      PROVE  OnTheCandidate'
  BY <1>1, <1>2, <1>3, <1>17, AppendedEffect, AtEffect, FullEffect,
     SameCandidate
     DEF JudgeRerun, Places, Commands, Guarded, OnTheCandidate, Ahead,
         AfterFreeze, BeforeGates, ToGates
<1>18. ASSUME FullPasses
      PROVE  OnTheCandidate'
  BY <1>1, <1>2, <1>3, <1>18, AppendedEffect, HandEffect, FullEffect,
     SameCandidate
     DEF FullPasses, Commands, Guarded, OnTheCandidate, Ahead, AfterFreeze,
         BeforeGates, ToGates
<1>19. ASSUME FullFails
      PROVE  OnTheCandidate'
  BY <1>1, <1>2, <1>3, <1>19, AppendedEffect, StopEffect, FullEffect,
     SameCandidate
     DEF FullFails, OnTheCandidate, Ahead, AfterFreeze, BeforeGates, ToGates
<1>20. ASSUME ClosureExists
      PROVE  OnTheCandidate'
  BY <1>1, <1>2, <1>3, <1>20, HandEffect, SameCandidate
     DEF ClosureExists, Commands, Guarded, OnTheCandidate, Ahead, AfterFreeze,
         BeforeGates, ToGates
<1>21. ASSUME ClosureDeclared
      PROVE  OnTheCandidate'
  BY <1>1, <1>2, <1>3, <1>21, AppendedEffect, AtEffect, SameCandidate
     DEF ClosureDeclared, Places, Commands, Guarded, OnTheCandidate, Ahead,
         AfterFreeze, BeforeGates, ToGates
<1>22. ASSUME ClosureProduced
      PROVE  OnTheCandidate'
  BY <1>1, <1>2, <1>3, <1>22, AppendedEffect, HandEffect, SameCandidate
     DEF ClosureProduced, Commands, Guarded, OnTheCandidate, Ahead, AfterFreeze,
         BeforeGates, ToGates
<1>23. ASSUME ClosureBlocked
      PROVE  OnTheCandidate'
  BY <1>1, <1>2, <1>3, <1>23, AppendedEffect, StopEffect, SameCandidate
     DEF ClosureBlocked, OnTheCandidate, Ahead, AfterFreeze, BeforeGates,
         ToGates
<1>24. ASSUME GatesReused
      PROVE  OnTheCandidate'
  BY <1>1, <1>2, <1>3, <1>24, HandEffect, SameCandidate
     DEF GatesReused, Commands, Guarded, OnTheCandidate, Ahead, AfterFreeze,
         BeforeGates, ToGates
<1>25. ASSUME GatesBegin
      PROVE  OnTheCandidate'
  BY <1>1, <1>2, <1>3, <1>25, GatesBeginEffect, SameCandidate
     DEF GatesBegin, OnTheCandidate, Ahead, AfterFreeze, BeforeGates, ToGates
<1>26. ASSUME ContractInvalid
      PROVE  OnTheCandidate'
  BY <1>1, <1>2, <1>3, <1>26, AppendedEffect, AtEffect, SameCandidate
     DEF ContractInvalid, Places, Commands, Guarded, OnTheCandidate, Ahead,
         AfterFreeze, BeforeGates, ToGates
<1>27. ASSUME GatePasses
      PROVE  OnTheCandidate'
  <2>1. drv'.at \in {"gate", "issue", "refuse"} /\ drv.at = "gate"
            /\ (drv'.at = "issue" => drv'.next = "observe_ci_runs")
    BY <1>1, <1>3, <1>27, AfterGateEffect DEF GatePasses
  <2>2. s'.pending = "none" /\ UNCHANGED <<tree, log, moved>>
    BY <1>1, <1>27, AppendedEffect DEF GatePasses
  <2>3. QED
    BY <1>1, <2>1, <2>2, SameCandidate
       DEF OnTheCandidate, Ahead, AfterFreeze, BeforeGates, ToGates
<1>28. ASSUME GateFails
      PROVE  OnTheCandidate'
  BY <1>1, <1>2, <1>3, <1>28, AppendedEffect, AfterGateEffect, SameCandidate
     DEF GateFails, OnTheCandidate, Ahead, AfterFreeze, BeforeGates, ToGates
<1>29. ASSUME GatesRefused
      PROVE  OnTheCandidate'
  BY <1>1, <1>2, <1>3, <1>29, AppendedEffect, AtEffect, SameCandidate
     DEF GatesRefused, Places, Commands, Guarded, OnTheCandidate, Ahead,
         AfterFreeze, BeforeGates, ToGates
<1>30. ASSUME RepairRoute
      PROVE  OnTheCandidate'
  <2>1. Frozen
    BY <1>1, <1>30
       DEF RepairRoute, OnTheCandidate, Ahead, AfterFreeze, BeforeGates, ToGates
  <2>2. Stop /\ drv.at = "route" /\ UNCHANGED <<tree, moved>>
    BY <1>30 DEF RepairRoute
  <2>3. log'.frozen = log.frozen /\ s'.pending \in {s.pending, "none"}
    BY <1>1, <1>2, <1>30, <2>1, RouteEffect
  <2>4. QED
    BY <1>1, <2>1, <2>2, <2>3, StopEffect, SameCandidate
       DEF OnTheCandidate, Ahead, AfterFreeze, BeforeGates, ToGates
<1>31. ASSUME CiRefused
      PROVE  OnTheCandidate'
  BY <1>1, <1>2, <1>3, <1>31, AppendedEffect, StopEffect, SameCandidate
     DEF CiRefused, OnTheCandidate, Ahead, AfterFreeze, BeforeGates, ToGates
<1>32. ASSUME CiPending
      PROVE  OnTheCandidate'
  BY <1>1, <1>2, <1>3, <1>32, AppendedEffect, AtEffect, SameCandidate
     DEF CiPending, Places, Commands, Guarded, OnTheCandidate, Ahead,
         AfterFreeze, BeforeGates, ToGates
<1>33. ASSUME CiPollsAgain
      PROVE  OnTheCandidate'
  BY <1>1, <1>2, <1>3, <1>33, AtEffect, SameCandidate
     DEF CiPollsAgain, Places, Commands, Guarded, OnTheCandidate, Ahead,
         AfterFreeze, BeforeGates, ToGates
<1>34. ASSUME CiBound
      PROVE  OnTheCandidate'
  BY <1>1, <1>2, <1>3, <1>34, AppendedEffect, HandEffect, SameCandidate
     DEF CiBound, Commands, Guarded, OnTheCandidate, Ahead, AfterFreeze,
         BeforeGates, ToGates
<1>35. ASSUME ReviewFails
      PROVE  OnTheCandidate'
  BY <1>1, <1>2, <1>3, <1>35, AppendedEffect, StopEffect, SameCandidate
     DEF ReviewFails, OnTheCandidate, Ahead, AfterFreeze, BeforeGates, ToGates
<1>36. ASSUME ReviewRevises
      PROVE  OnTheCandidate'
  BY <1>1, <1>2, <1>3, <1>36, StopEffect, CrossingEffect, SameCandidate
     DEF ReviewRevises, OnTheCandidate, Ahead, AfterFreeze, BeforeGates, ToGates
<1>37. ASSUME ReviewPasses
      PROVE  OnTheCandidate'
  BY <1>1, <1>2, <1>3, <1>37, AtEffect, CrossingEffect, SameCandidate
     DEF ReviewPasses, Places, Commands, Guarded, OnTheCandidate, Ahead,
         AfterFreeze, BeforeGates, ToGates
<1>38. ASSUME ExitVerify
      PROVE  OnTheCandidate'
  BY <1>1, <1>2, <1>3, <1>38, AtEffect, CrossingEffect, SameCandidate
     DEF ExitVerify, Places, Commands, Guarded, OnTheCandidate, Ahead,
         AfterFreeze, BeforeGates, ToGates
<1>39. ASSUME EnterSecurity
      PROVE  OnTheCandidate'
  BY <1>1, <1>2, <1>3, <1>39, HandEffect, SameCandidate
     DEF EnterSecurity, Commands, Guarded, OnTheCandidate, Ahead, AfterFreeze,
         BeforeGates, ToGates
<1>40. ASSUME AssessFails
      PROVE  OnTheCandidate'
  BY <1>1, <1>2, <1>3, <1>40, AppendedEffect, StopEffect, SameCandidate
     DEF AssessFails, OnTheCandidate, Ahead, AfterFreeze, BeforeGates, ToGates
<1>41. ASSUME AssessPasses
      PROVE  OnTheCandidate'
  BY <1>1, <1>2, <1>3, <1>41, AppendedEffect, AtEffect, SameCandidate
     DEF AssessPasses, Places, Commands, Guarded, OnTheCandidate, Ahead,
         AfterFreeze, BeforeGates, ToGates
<1>42. ASSUME ExitSecurity
      PROVE  OnTheCandidate'
  BY <1>1, <1>2, <1>3, <1>42, AtEffect, CrossingEffect, SameCandidate
     DEF ExitSecurity, Places, Commands, Guarded, OnTheCandidate, Ahead,
         AfterFreeze, BeforeGates, ToGates
<1>43. ASSUME EnterRelease
      PROVE  OnTheCandidate'
  BY <1>1, <1>2, <1>3, <1>43, OffFields, SameCandidate
     DEF EnterRelease, OnTheCandidate, Ahead, AfterFreeze, BeforeGates, ToGates
<1>44. ASSUME Crash
      PROVE  OnTheCandidate'
  BY <1>1, <1>2, <1>3, <1>44, OffFields, SameCandidate
     DEF Crash, OnTheCandidate, Ahead, AfterFreeze, BeforeGates, ToGates
<1>45. ASSUME Retry
      PROVE  OnTheCandidate'
  BY <1>1, <1>2, <1>3, <1>45, AppendedEffect, SameCandidate
     DEF Retry, HumanRetry, OnTheCandidate, Ahead, AfterFreeze, BeforeGates,
         ToGates
<1>46. ASSUME RetryInWait
      PROVE  OnTheCandidate'
  BY <1>1, <1>2, <1>3, <1>46, AppendedEffect, StopEffect, SameCandidate
     DEF RetryInWait, HumanRetry, OnTheCandidate, Ahead, AfterFreeze,
         BeforeGates, ToGates
<1>47. ASSUME Commit
      PROVE  OnTheCandidate'
  BY <1>1, <1>2, <1>3, <1>47, CommitEffect, SameCandidate
     DEF Commit, OnTheCandidate, Ahead, AfterFreeze, BeforeGates, ToGates
<1>48. ASSUME Dirty
      PROVE  OnTheCandidate'
  BY <1>1, <1>2, <1>3, <1>48, EditEffect, SameCandidate
     DEF Dirty, OnTheCandidate, Ahead, AfterFreeze, BeforeGates, ToGates
<1>49. ASSUME Clean
      PROVE  OnTheCandidate'
  BY <1>1, <1>2, <1>3, <1>49, EditEffect, SameCandidate
     DEF Clean, OnTheCandidate, Ahead, AfterFreeze, BeforeGates, ToGates
<1>50. CASE UNCHANGED vars
  BY <1>1, <1>2, <1>3, <1>50, SameCandidate
     DEF vars, OnTheCandidate, Ahead, AfterFreeze, BeforeGates, ToGates
<1>51. QED
  BY <1>4, <1>5, <1>6, <1>7, <1>8, <1>9, <1>10, <1>11, <1>12, <1>13, <1>14,
     <1>15, <1>16, <1>17, <1>18, <1>19, <1>20, <1>21, <1>22, <1>23, <1>24,
     <1>25, <1>26, <1>27, <1>28, <1>29, <1>30, <1>31, <1>32, <1>33, <1>34,
     <1>35, <1>36, <1>37, <1>38, <1>39, <1>40, <1>41, <1>42, <1>43, <1>44,
     <1>45, <1>46, <1>47, <1>48, <1>49, <1>50
     DEF Next, Driver

\* The gates that passed are those the evidence says.
LEMMA SameGates ==
    ASSUME ev'.gate = ev.gate
    PROVE  AllPassed' <=> AllPassed
BY DEF AllPassed

\* A field of the evidence other than the gates' leaves the gates' alone.
LEMMA OtherEvidence ==
    ASSUME Typed,
           \/ \E v : ev' = [ev EXCEPT !.closure = v] \/ ev' = [ev EXCEPT !.security = v]
           \/ ev' = [ev EXCEPT !.reused = TRUE]
    PROVE  ev'.gate = ev.gate /\ ev'.at = ev.at /\ ev'.once = ev.once
               /\ ev'.ci = ev.ci /\ ev'.review = ev.review
BY Zenon DEF Typed, EvidenceTypes

\* CI and the review change their own field.
LEMMA ReviewEvidence ==
    ASSUME Typed, NEW v
    PROVE  /\ ev' = [ev EXCEPT !.ci = v] =>
                 ev'.gate = ev.gate /\ ev'.at = ev.at /\ ev'.once = ev.once
                     /\ ev'.ci = v /\ ev'.review = ev.review
           /\ ev' = [ev EXCEPT !.review = v] =>
                 ev'.gate = ev.gate /\ ev'.at = ev.at /\ ev'.once = ev.once
                     /\ ev'.ci = ev.ci /\ ev'.review = v
BY Zenon DEF Typed, EvidenceTypes

\* Every step keeps the order in which the evidence is earned.
LEMMA EvidenceStep ==
    ASSUME IInv, [Next]_vars
    PROVE  EvidenceInOrder'
<1>1. Typed /\ LinksPlaced /\ EvidenceInOrder
  BY DEF IInv
<1>2. /\ drv.next \in Commands /\ s.pending \in Commands \cup {"none"}
      /\ drv.green \in BOOLEAN /\ drv.gate \in 1..NumGates /\ ev \in EvidenceTypes
  BY <1>1 DEF Typed, DriverTypes, StateTypes, Gates
<1>3. ASSUME Drive
      PROVE  EvidenceInOrder'
  BY <1>1, <1>2, <1>3, AtEffect, SameGates
     DEF Drive, Places, Commands, Guarded, EvidenceInOrder, Ahead
<1>4. ASSUME ParkStaleLink
      PROVE  EvidenceInOrder'
  BY <1>1, <1>2, <1>4, AppendedEffect, OffFields, SameGates
     DEF ParkStaleLink, EvidenceInOrder, Ahead
<1>5. ASSUME Recover
      PROVE  EvidenceInOrder'
  <2>1. UNCHANGED <<s, ev>>
    BY <1>5 DEF Recover
  <2>2. drv'.at = "check" \/ (drv'.at = s.pending /\ s.pending \in Commands)
    BY <1>1, <1>2, <1>5, RecoverEffect
  <2>3. QED
    BY <1>1, <2>1, <2>2, SameGates DEF Commands, Guarded, EvidenceInOrder, Ahead
<1>6. ASSUME ResumeReleaseChain
      PROVE  EvidenceInOrder'
  <2>1. UNCHANGED <<s, ev>>
    BY <1>6 DEF ResumeReleaseChain
  <2>2. QED
    BY <1>1, <1>6, <2>1, ResumeEffect, SameGates DEF EvidenceInOrder, Ahead
<1>7. ASSUME Issue
      PROVE  EvidenceInOrder'
  <2>1. drv.at = "issue" /\ drv.next \notin {"issue", "gate", "wait"} /\ ev' = ev
    BY <1>2, <1>7 DEF Issue, Commands, Guarded
  <2>2. QED
    BY <1>1, <1>2, <1>7, <2>1, IssueEffect, SameGates DEF EvidenceInOrder, Ahead
<1>8. ASSUME FreezeReplayed
      PROVE  EvidenceInOrder'
  BY <1>1, <1>2, <1>8, StopEffect, SameGates
     DEF FreezeReplayed, EvidenceInOrder, Ahead
<1>9. ASSUME FreezeDirty
      PROVE  EvidenceInOrder'
  BY <1>1, <1>2, <1>9, AppendedEffect, StopEffect, SameGates
     DEF FreezeDirty, EvidenceInOrder, Ahead
<1>10. ASSUME FreezeStands
      PROVE  EvidenceInOrder'
  BY <1>1, <1>2, <1>10, HandEffect, SameGates
     DEF FreezeStands, Commands, Guarded, EvidenceInOrder, Ahead
<1>11. ASSUME FreezeDrift
      PROVE  EvidenceInOrder'
  BY <1>1, <1>2, <1>11, AppendedEffect, AtEffect, SameGates
     DEF FreezeDrift, Places, Commands, Guarded, EvidenceInOrder, Ahead
<1>12. ASSUME FreezeFirst
      PROVE  EvidenceInOrder'
  BY <1>1, <1>2, <1>12, ToMintEffect, SameGates
     DEF FreezeFirst, EvidenceInOrder, Ahead
<1>13. ASSUME FreezeRewalk
      PROVE  EvidenceInOrder'
  BY <1>1, <1>2, <1>13, AppendedEffect, ToMintEffect, SameGates
     DEF FreezeRewalk, EvidenceInOrder, Ahead
<1>14. ASSUME Mint
      PROVE  EvidenceInOrder'
  <2>1. /\ drv.at = "mint" /\ drv'.at = "issue" /\ drv'.next = "judge_full_f_reuse"
        /\ s'.pending = "none" /\ s'.sub = s.sub
    BY <1>1, <1>14, AppendedEffect, HandEffect DEF Mint, Commands, Guarded
  <2>2. s.sub = "VERIFYING"
    BY <1>1, <2>1
       DEF LinksPlaced, Walking, Ahead, VerifyLinks, AfterFreeze, BeforeGates,
           ToGates
  <2>3. QED
    BY <2>1, <2>2 DEF EvidenceInOrder, Ahead
<1>15. ASSUME JudgeReuse
      PROVE  EvidenceInOrder'
  BY <1>1, <1>2, <1>15, AppendedEffect, HandEffect, OtherEvidence, SameGates
     DEF JudgeReuse, Commands, Guarded, EvidenceInOrder, Ahead
<1>16. ASSUME JudgeRerun
      PROVE  EvidenceInOrder'
  BY <1>1, <1>2, <1>16, AppendedEffect, AtEffect, SameGates
     DEF JudgeRerun, Places, Commands, Guarded, EvidenceInOrder, Ahead
<1>17. ASSUME FullPasses
      PROVE  EvidenceInOrder'
  BY <1>1, <1>2, <1>17, AppendedEffect, HandEffect, SameGates
     DEF FullPasses, Commands, Guarded, EvidenceInOrder, Ahead
<1>18. ASSUME FullFails
      PROVE  EvidenceInOrder'
  BY <1>1, <1>2, <1>18, AppendedEffect, StopEffect, SameGates
     DEF FullFails, EvidenceInOrder, Ahead
<1>19. ASSUME ClosureExists
      PROVE  EvidenceInOrder'
  BY <1>1, <1>2, <1>19, HandEffect, SameGates
     DEF ClosureExists, Commands, Guarded, EvidenceInOrder, Ahead
<1>20. ASSUME ClosureDeclared
      PROVE  EvidenceInOrder'
  BY <1>1, <1>2, <1>20, AppendedEffect, AtEffect, OtherEvidence, SameGates
     DEF ClosureDeclared, Places, Commands, Guarded, EvidenceInOrder, Ahead
<1>21. ASSUME ClosureProduced
      PROVE  EvidenceInOrder'
  BY <1>1, <1>2, <1>21, AppendedEffect, HandEffect, OtherEvidence, SameGates
     DEF ClosureProduced, Commands, Guarded, EvidenceInOrder, Ahead
<1>22. ASSUME ClosureBlocked
      PROVE  EvidenceInOrder'
  BY <1>1, <1>2, <1>22, AppendedEffect, StopEffect, OtherEvidence, SameGates
     DEF ClosureBlocked, EvidenceInOrder, Ahead
<1>23. ASSUME GatesReused
      PROVE  EvidenceInOrder'
  BY <1>1, <1>2, <1>23, HandEffect, SameGates
     DEF GatesReused, Commands, Guarded, EvidenceInOrder, Ahead
<1>24. ASSUME GatesBegin
      PROVE  EvidenceInOrder'
  <2>1. /\ drv.at = "run_local_gates" /\ drv'.at = "gate" /\ drv'.gate = 1
        /\ UNCHANGED <<s, ev>>
    BY <1>1, <1>24, GatesBeginEffect DEF GatesBegin
  <2>2. QED
    BY <1>1, <2>1, SameGates DEF EvidenceInOrder, Ahead
<1>25. ASSUME ContractInvalid
      PROVE  EvidenceInOrder'
  BY <1>1, <1>2, <1>25, AppendedEffect, AtEffect, SameGates
     DEF ContractInvalid, Places, Commands, Guarded, EvidenceInOrder, Ahead
<1>26. ASSUME GatePasses
      PROVE  EvidenceInOrder'
  <2>1. /\ drv.at = "gate" /\ drv'.at \in {"gate", "issue", "refuse"}
        /\ drv'.at = "gate" => drv'.gate = drv.gate + 1 /\ drv'.green = drv.green
        /\ drv'.at = "issue" => drv.green /\ drv.gate = NumGates
    BY <1>1, <1>2, <1>26, AfterGateEffect DEF GatePasses
  <2>2. s'.stage = s.stage /\ s'.sub = s.sub /\ s'.pending = "none"
    BY <1>1, <1>26, AppendedEffect DEF GatePasses
  <2>3. s.sub = "VERIFYING"
    BY <1>1, <2>1
       DEF LinksPlaced, Walking, Ahead, VerifyLinks, AfterFreeze, BeforeGates,
           ToGates
  <2>4. ev'.gate = [ev.gate EXCEPT ![drv.gate] = "passed"] /\ DOMAIN ev.gate = 1..NumGates
    BY <1>1, <1>2, <1>26, JudgedEffect DEF GatePasses, EvidenceTypes, Gates
  <2>5. drv'.at = "gate" /\ drv'.green => \A g \in 1..drv'.gate - 1 : ev'.gate[g] = "passed"
    <3>1. SUFFICES ASSUME drv'.at = "gate", drv'.green, NEW g \in 1..drv'.gate - 1
                   PROVE  ev'.gate[g] = "passed"
      OBVIOUS
    <3>2. g \in 1..drv.gate /\ drv.green
      <4>1. drv'.gate = drv.gate + 1 /\ drv.green
        BY <2>1, <3>1, Zenon
      <4>2. g \in 1..drv.gate
        BY <1>2, <4>1, Bounds
      <4>3. QED
        BY <4>1, <4>2
    <3>3. g # drv.gate => g \in 1..drv.gate - 1 /\ g \in 1..NumGates
      BY <1>2, <3>2, Bounds
    <3>4. g # drv.gate => ev.gate[g] = "passed"
      BY <1>1, <2>1, <3>2, <3>3 DEF EvidenceInOrder
    <3>5. QED
      BY <1>2, <2>4, <3>3, <3>4
  <2>6. drv'.at = "issue" => AllPassed'
    BY <1>1, <1>2, <2>1, <2>4, Bounds DEF EvidenceInOrder, AllPassed, Gates
  <2>7. ~Ahead({"dispatch_agent"})'
    BY <1>1, <1>2, <1>26, <2>1, <2>2, AfterGateEffect DEF GatePasses, Ahead
  <2>8. QED
    BY <2>1, <2>2, <2>3, <2>5, <2>6, <2>7 DEF EvidenceInOrder, Ahead
<1>27. ASSUME GateFails
      PROVE  EvidenceInOrder'
  <2>1. /\ drv.at = "gate" /\ drv'.at \in {"gate", "refuse"}
        /\ drv'.at = "gate" => ~drv'.green
    BY <1>1, <1>2, <1>27, AfterGateEffect DEF GateFails
  <2>2. s'.stage = s.stage /\ s'.sub = s.sub /\ s'.pending = "none"
    BY <1>1, <1>27, AppendedEffect DEF GateFails
  <2>3. s.sub = "VERIFYING"
    BY <1>1, <2>1
       DEF LinksPlaced, Walking, Ahead, VerifyLinks, AfterFreeze, BeforeGates,
           ToGates
  <2>4. QED
    BY <2>1, <2>2, <2>3 DEF EvidenceInOrder, Ahead
<1>28. ASSUME GatesRefused
      PROVE  EvidenceInOrder'
  BY <1>1, <1>2, <1>28, AppendedEffect, AtEffect, SameGates
     DEF GatesRefused, Places, Commands, Guarded, EvidenceInOrder, Ahead
<1>29. ASSUME RepairRoute
      PROVE  EvidenceInOrder'
  <2>1. Frozen
    BY <1>29 DEF RepairRoute, IInv, OnTheCandidate, Ahead, AfterFreeze
  <2>2. Stop /\ drv.at = "route" /\ ev' = ev
    BY <1>29 DEF RepairRoute
  <2>3. s'.pending \in {s.pending, "none"} /\ s'.stage = s.stage /\ s'.sub = s.sub
    BY <1>1, <1>29, <2>1, RouteEffect, CandidateIsLast DEF IInv
  <2>4. QED
    BY <1>1, <2>2, <2>3, StopEffect, SameGates DEF EvidenceInOrder, Ahead
<1>30. ASSUME CiRefused
      PROVE  EvidenceInOrder'
  <2>1. drv.at = "observe_ci_runs" /\ drv'.at \in {"off", "check"} /\ s'.pending = "none"
            /\ s'.sub = s.sub /\ s'.stage = s.stage
    BY <1>1, <1>30, AppendedEffect, StopEffect DEF CiRefused
  <2>2. s.sub = "VERIFYING"
    BY <1>1, <2>1
       DEF LinksPlaced, Walking, Ahead, VerifyLinks, AfterFreeze, BeforeGates,
           ToGates
  <2>3. QED
    BY <2>1, <2>2 DEF EvidenceInOrder, Ahead
<1>31. ASSUME CiPending
      PROVE  EvidenceInOrder'
  BY <1>1, <1>2, <1>31, AppendedEffect, AtEffect, SameGates
     DEF CiPending, Places, Commands, Guarded, EvidenceInOrder, Ahead
<1>32. ASSUME CiPollsAgain
      PROVE  EvidenceInOrder'
  BY <1>1, <1>2, <1>32, AtEffect, SameGates
     DEF CiPollsAgain, Places, Commands, Guarded, EvidenceInOrder, Ahead
<1>33. ASSUME CiBound
      PROVE  EvidenceInOrder'
  BY <1>1, <1>2, <1>33, AppendedEffect, HandEffect, ReviewEvidence, SameGates
     DEF CiBound, Commands, Guarded, EvidenceInOrder, Ahead
<1>34. ASSUME ReviewFails
      PROVE  EvidenceInOrder'
  BY <1>1, <1>2, <1>34, AppendedEffect, StopEffect, SameGates
     DEF ReviewFails, EvidenceInOrder, Ahead
<1>35. ASSUME ReviewRevises
      PROVE  EvidenceInOrder'
  <2>1. drv'.at \in {"off", "check"} /\ s'.pending = "none" /\ s'.sub = "RESPOND"
    BY <1>1, <1>35, CrossingEffect, StopEffect DEF ReviewRevises
  <2>2. QED
    BY <2>1 DEF EvidenceInOrder, Ahead
<1>36. ASSUME ReviewPasses
      PROVE  EvidenceInOrder'
  <2>1. drv.at = "dispatch_agent" /\ drv'.at = "exit" /\ s'.pending = "none"
    BY <1>1, <1>36, CrossingEffect, AtEffect DEF ReviewPasses, Places
  <2>2. ev'.gate = ev.gate /\ ev'.ci = ev.ci /\ ev'.review = "pass"
    BY <1>1, <1>36, ReviewEvidence DEF ReviewPasses
  <2>3. AllPassed /\ ev.ci = "passed"
    BY <1>1, <2>1 DEF EvidenceInOrder, Ahead
  <2>4. QED
    BY <2>1, <2>2, <2>3, SameGates DEF EvidenceInOrder, Ahead
<1>37. ASSUME ExitVerify
      PROVE  EvidenceInOrder'
  BY <1>1, <1>2, <1>37, AtEffect, CrossingEffect, SameGates
     DEF ExitVerify, Places, Commands, Guarded, EvidenceInOrder, Ahead
<1>38. ASSUME EnterSecurity
      PROVE  EvidenceInOrder'
  <2>1. drv'.at = "issue" /\ drv'.next = "assess_security" /\ s'.pending = "none"
            /\ s'.stage = "M-SECURITY"
    BY <1>1, <1>38, HandEffect DEF EnterSecurity, Commands, Guarded
  <2>2. QED
    BY <2>1 DEF EvidenceInOrder, Ahead
<1>39. ASSUME AssessFails
      PROVE  EvidenceInOrder'
  BY <1>1, <1>2, <1>39, AppendedEffect, StopEffect, OtherEvidence, SameGates
     DEF AssessFails, EvidenceInOrder, Ahead
<1>40. ASSUME AssessPasses
      PROVE  EvidenceInOrder'
  BY <1>1, <1>2, <1>40, AppendedEffect, AtEffect, OtherEvidence, SameGates
     DEF AssessPasses, Places, Commands, Guarded, EvidenceInOrder, Ahead
<1>41. ASSUME ExitSecurity
      PROVE  EvidenceInOrder'
  BY <1>1, <1>2, <1>41, AtEffect, CrossingEffect, SameGates
     DEF ExitSecurity, Places, Commands, Guarded, EvidenceInOrder, Ahead
<1>42. ASSUME EnterRelease
      PROVE  EvidenceInOrder'
  <2>1. drv'.at = "off" /\ s'.pending = "none" /\ s'.stage = "M-RELEASE"
    BY <1>42, OffFields DEF EnterRelease
  <2>2. QED
    BY <2>1 DEF EvidenceInOrder, Ahead
<1>43. ASSUME Crash
      PROVE  EvidenceInOrder'
  BY <1>1, <1>2, <1>43, OffFields, SameGates
     DEF Crash, EvidenceInOrder, Ahead
<1>44. ASSUME Retry
      PROVE  EvidenceInOrder'
  BY <1>1, <1>2, <1>44, AppendedEffect, SameGates
     DEF Retry, HumanRetry, EvidenceInOrder, Ahead
<1>45. ASSUME RetryInWait
      PROVE  EvidenceInOrder'
  BY <1>1, <1>2, <1>45, AppendedEffect, StopEffect, SameGates
     DEF RetryInWait, HumanRetry, EvidenceInOrder, Ahead
<1>46. ASSUME Commit
      PROVE  EvidenceInOrder'
  BY <1>1, <1>2, <1>46, SameGates
     DEF Commit, EvidenceInOrder, Ahead
<1>47. ASSUME Dirty
      PROVE  EvidenceInOrder'
  BY <1>1, <1>2, <1>47, SameGates
     DEF Dirty, EvidenceInOrder, Ahead
<1>48. ASSUME Clean
      PROVE  EvidenceInOrder'
  BY <1>1, <1>2, <1>48, SameGates
     DEF Clean, EvidenceInOrder, Ahead
<1>49. CASE UNCHANGED vars
  BY <1>1, <1>2, <1>49, SameGates DEF vars, EvidenceInOrder, Ahead
<1>50. QED
  BY <1>3, <1>4, <1>5, <1>6, <1>7, <1>8, <1>9, <1>10, <1>11, <1>12, <1>13,
     <1>14, <1>15, <1>16, <1>17, <1>18, <1>19, <1>20, <1>21, <1>22, <1>23,
     <1>24, <1>25, <1>26, <1>27, <1>28, <1>29, <1>30, <1>31, <1>32, <1>33,
     <1>34, <1>35, <1>36, <1>37, <1>38, <1>39, <1>40, <1>41, <1>42, <1>43,
     <1>44, <1>45, <1>46, <1>47, <1>48, <1>49
     DEF Next, Driver

\* Every step keeps what is earned by the candidate that left.
LEMMA SecurityStep ==
    ASSUME IInv, [Next]_vars
    PROVE  SecurityIsEarned'
<1>1. Typed /\ LinksPlaced /\ EvidenceInOrder /\ SecurityIsEarned
  BY DEF IInv
<1>2. ASSUME Drive
      PROVE  SecurityIsEarned'
  BY <1>1, <1>2, SameGates
     DEF Drive, SecurityIsEarned
<1>3. ASSUME ParkStaleLink
      PROVE  SecurityIsEarned'
  BY <1>1, <1>3, AppendedEffect, SameGates
     DEF ParkStaleLink, SecurityIsEarned
<1>4. ASSUME Recover
      PROVE  SecurityIsEarned'
  BY <1>1, <1>4, SameGates
     DEF Recover, SecurityIsEarned
<1>5. ASSUME ResumeReleaseChain
      PROVE  SecurityIsEarned'
  BY <1>1, <1>5, SameGates
     DEF ResumeReleaseChain, SecurityIsEarned
<1>6. ASSUME Issue
      PROVE  SecurityIsEarned'
  BY <1>1, <1>6, IssueEffect, SameGates
     DEF Issue, SecurityIsEarned
<1>7. ASSUME FreezeReplayed
      PROVE  SecurityIsEarned'
  BY <1>1, <1>7, SameGates
     DEF FreezeReplayed, SecurityIsEarned
<1>8. ASSUME FreezeDirty
      PROVE  SecurityIsEarned'
  BY <1>1, <1>8, AppendedEffect, SameGates
     DEF FreezeDirty, SecurityIsEarned
<1>9. ASSUME FreezeStands
      PROVE  SecurityIsEarned'
  BY <1>1, <1>9, SameGates
     DEF FreezeStands, SecurityIsEarned
<1>10. ASSUME FreezeDrift
      PROVE  SecurityIsEarned'
  BY <1>1, <1>10, AppendedEffect, SameGates
     DEF FreezeDrift, SecurityIsEarned
<1>11. ASSUME FreezeFirst
      PROVE  SecurityIsEarned'
  BY <1>1, <1>11, SameGates
     DEF FreezeFirst, SecurityIsEarned
<1>12. ASSUME FreezeRewalk
      PROVE  SecurityIsEarned'
  BY <1>1, <1>12, AppendedEffect, SameGates
     DEF FreezeRewalk, SecurityIsEarned
<1>13. ASSUME Mint
      PROVE  SecurityIsEarned'
  <2>1. drv.at = "mint"
    BY <1>13 DEF Mint
  <2>2. Walking
    BY <1>1, <2>1
       DEF LinksPlaced, Ahead, VerifyLinks, AfterFreeze, BeforeGates, ToGates
  <2>3. s'.stage = s.stage /\ s'.exited = s.exited
    BY <1>1, <1>13, AppendedEffect DEF Mint
  <2>4. QED
    BY <2>2, <2>3 DEF Walking, SecurityIsEarned
<1>14. ASSUME JudgeReuse
      PROVE  SecurityIsEarned'
  BY <1>1, <1>14, AppendedEffect, OtherEvidence, SameGates
     DEF JudgeReuse, SecurityIsEarned
<1>15. ASSUME JudgeRerun
      PROVE  SecurityIsEarned'
  BY <1>1, <1>15, AppendedEffect, SameGates
     DEF JudgeRerun, SecurityIsEarned
<1>16. ASSUME FullPasses
      PROVE  SecurityIsEarned'
  BY <1>1, <1>16, AppendedEffect, SameGates
     DEF FullPasses, SecurityIsEarned
<1>17. ASSUME FullFails
      PROVE  SecurityIsEarned'
  BY <1>1, <1>17, AppendedEffect, SameGates
     DEF FullFails, SecurityIsEarned
<1>18. ASSUME ClosureExists
      PROVE  SecurityIsEarned'
  BY <1>1, <1>18, SameGates
     DEF ClosureExists, SecurityIsEarned
<1>19. ASSUME ClosureDeclared
      PROVE  SecurityIsEarned'
  BY <1>1, <1>19, AppendedEffect, OtherEvidence, SameGates
     DEF ClosureDeclared, SecurityIsEarned
<1>20. ASSUME ClosureProduced
      PROVE  SecurityIsEarned'
  BY <1>1, <1>20, AppendedEffect, OtherEvidence, SameGates
     DEF ClosureProduced, SecurityIsEarned
<1>21. ASSUME ClosureBlocked
      PROVE  SecurityIsEarned'
  BY <1>1, <1>21, AppendedEffect, OtherEvidence, SameGates
     DEF ClosureBlocked, SecurityIsEarned
<1>22. ASSUME GatesReused
      PROVE  SecurityIsEarned'
  BY <1>1, <1>22, SameGates
     DEF GatesReused, SecurityIsEarned
<1>23. ASSUME GatesBegin
      PROVE  SecurityIsEarned'
  BY <1>1, <1>23, SameGates
     DEF GatesBegin, SecurityIsEarned
<1>24. ASSUME ContractInvalid
      PROVE  SecurityIsEarned'
  BY <1>1, <1>24, AppendedEffect, SameGates
     DEF ContractInvalid, SecurityIsEarned
<1>25. ASSUME GatePasses
      PROVE  SecurityIsEarned'
  <2>1. drv.at = "gate"
    BY <1>25 DEF GatePasses
  <2>2. Walking
    BY <1>1, <2>1
       DEF LinksPlaced, Ahead, VerifyLinks, AfterFreeze, BeforeGates, ToGates
  <2>3. s'.stage = s.stage /\ s'.exited = s.exited
    BY <1>1, <1>25, AppendedEffect DEF GatePasses
  <2>4. QED
    BY <2>2, <2>3 DEF Walking, SecurityIsEarned
<1>26. ASSUME GateFails
      PROVE  SecurityIsEarned'
  <2>1. drv.at = "gate"
    BY <1>26 DEF GateFails
  <2>2. Walking
    BY <1>1, <2>1
       DEF LinksPlaced, Ahead, VerifyLinks, AfterFreeze, BeforeGates, ToGates
  <2>3. s'.stage = s.stage /\ s'.exited = s.exited
    BY <1>1, <1>26, AppendedEffect DEF GateFails
  <2>4. QED
    BY <2>2, <2>3 DEF Walking, SecurityIsEarned
<1>27. ASSUME GatesRefused
      PROVE  SecurityIsEarned'
  BY <1>1, <1>27, AppendedEffect, SameGates
     DEF GatesRefused, SecurityIsEarned
<1>28. ASSUME RepairRoute
      PROVE  SecurityIsEarned'
  <2>1. Frozen
    BY <1>28 DEF RepairRoute, IInv, OnTheCandidate, Ahead, AfterFreeze
  <2>2. ev' = ev
    BY <1>28 DEF RepairRoute
  <2>3. s'.exited = s.exited /\ s'.stage = s.stage
    BY <1>1, <1>28, <2>1, RouteEffect, CandidateIsLast DEF IInv
  <2>4. QED
    BY <1>1, <2>2, <2>3, SameGates DEF SecurityIsEarned
<1>29. ASSUME CiRefused
      PROVE  SecurityIsEarned'
  <2>1. drv.at = "observe_ci_runs"
    BY <1>29 DEF CiRefused
  <2>2. Walking
    BY <1>1, <2>1
       DEF LinksPlaced, Ahead, VerifyLinks, AfterFreeze, BeforeGates, ToGates
  <2>3. s'.stage = s.stage /\ s'.exited = s.exited
    BY <1>1, <1>29, AppendedEffect DEF CiRefused
  <2>4. QED
    BY <2>2, <2>3 DEF Walking, SecurityIsEarned
<1>30. ASSUME CiPending
      PROVE  SecurityIsEarned'
  BY <1>1, <1>30, AppendedEffect, SameGates
     DEF CiPending, SecurityIsEarned
<1>31. ASSUME CiPollsAgain
      PROVE  SecurityIsEarned'
  BY <1>1, <1>31, SameGates
     DEF CiPollsAgain, SecurityIsEarned
<1>32. ASSUME CiBound
      PROVE  SecurityIsEarned'
  BY <1>1, <1>32, AppendedEffect, ReviewEvidence, SameGates
     DEF CiBound, SecurityIsEarned
<1>33. ASSUME ReviewFails
      PROVE  SecurityIsEarned'
  BY <1>1, <1>33, AppendedEffect, SameGates
     DEF ReviewFails, SecurityIsEarned
<1>34. ASSUME ReviewRevises
      PROVE  SecurityIsEarned'
  <2>1. drv.at = "dispatch_agent"
    BY <1>34 DEF ReviewRevises
  <2>2. Walking
    BY <1>1, <2>1
       DEF LinksPlaced, Ahead, VerifyLinks, AfterFreeze, BeforeGates, ToGates
  <2>3. s'.stage = s.stage /\ s'.exited = s.exited
    BY <1>1, <1>34, CrossingEffect DEF ReviewRevises
  <2>4. QED
    BY <2>2, <2>3 DEF Walking, SecurityIsEarned
<1>35. ASSUME ReviewPasses
      PROVE  SecurityIsEarned'
  <2>1. drv.at = "dispatch_agent"
    BY <1>35 DEF ReviewPasses
  <2>2. Walking
    BY <1>1, <2>1
       DEF LinksPlaced, Ahead, VerifyLinks, AfterFreeze, BeforeGates, ToGates
  <2>3. s'.stage = s.stage /\ s'.exited = s.exited
    BY <1>1, <1>35, CrossingEffect DEF ReviewPasses
  <2>4. QED
    BY <2>2, <2>3 DEF Walking, SecurityIsEarned
<1>36. ASSUME ExitVerify
      PROVE  SecurityIsEarned'
  <2>1. drv.at = "exit" /\ ev' = ev
    BY <1>36 DEF ExitVerify
  <2>2. QED
    BY <1>1, <2>1, SameGates DEF SecurityIsEarned, EvidenceInOrder, LinksPlaced
<1>37. ASSUME EnterSecurity
      PROVE  SecurityIsEarned'
  <2>1. drv.at = "enter" /\ ev' = ev
    BY <1>37 DEF EnterSecurity
  <2>2. QED
    BY <1>1, <2>1, SameGates DEF SecurityIsEarned, LinksPlaced
<1>38. ASSUME AssessFails
      PROVE  SecurityIsEarned'
  BY <1>1, <1>38, AppendedEffect, OtherEvidence, SameGates
     DEF AssessFails, SecurityIsEarned
<1>39. ASSUME AssessPasses
      PROVE  SecurityIsEarned'
  BY <1>1, <1>39, AppendedEffect, OtherEvidence, SameGates
     DEF AssessPasses, SecurityIsEarned
<1>40. ASSUME ExitSecurity
      PROVE  SecurityIsEarned'
  <2>1. drv.at = "leave" /\ ev' = ev
    BY <1>40 DEF ExitSecurity
  <2>2. s.stage = "M-SECURITY"
    BY <1>1, <2>1 DEF LinksPlaced, Ahead
  <2>3. QED
    BY <1>1, <2>1, <2>2, SameGates DEF SecurityIsEarned
<1>41. ASSUME EnterRelease
      PROVE  SecurityIsEarned'
  <2>1. drv.at = "release" /\ ev' = ev
    BY <1>41 DEF EnterRelease
  <2>2. QED
    BY <1>1, <2>1, SameGates DEF SecurityIsEarned, LinksPlaced
<1>42. ASSUME Crash
      PROVE  SecurityIsEarned'
  BY <1>1, <1>42, SameGates
     DEF Crash, SecurityIsEarned
<1>43. ASSUME Retry
      PROVE  SecurityIsEarned'
  BY <1>1, <1>43, AppendedEffect, SameGates
     DEF Retry, HumanRetry, SecurityIsEarned
<1>44. ASSUME RetryInWait
      PROVE  SecurityIsEarned'
  BY <1>1, <1>44, AppendedEffect, SameGates
     DEF RetryInWait, HumanRetry, SecurityIsEarned
<1>45. ASSUME Commit
      PROVE  SecurityIsEarned'
  BY <1>1, <1>45, SameGates
     DEF Commit, SecurityIsEarned
<1>46. ASSUME Dirty
      PROVE  SecurityIsEarned'
  BY <1>1, <1>46, SameGates
     DEF Dirty, SecurityIsEarned
<1>47. ASSUME Clean
      PROVE  SecurityIsEarned'
  BY <1>1, <1>47, SameGates
     DEF Clean, SecurityIsEarned
<1>48. CASE UNCHANGED vars
  BY <1>1, <1>48, SameGates DEF vars, SecurityIsEarned
<1>49. QED
  BY <1>2, <1>3, <1>4, <1>5, <1>6, <1>7, <1>8, <1>9, <1>10, <1>11, <1>12, <1>13,
     <1>14, <1>15, <1>16, <1>17, <1>18, <1>19, <1>20, <1>21, <1>22, <1>23,
     <1>24, <1>25, <1>26, <1>27, <1>28, <1>29, <1>30, <1>31, <1>32, <1>33,
     <1>34, <1>35, <1>36, <1>37, <1>38, <1>39, <1>40, <1>41, <1>42, <1>43,
     <1>44, <1>45, <1>46, <1>47, <1>48
     DEF Next, Driver

\* What is missing after a step that froze nothing was missing before it: HEAD
\* never comes back to the candidate, and no gate result is taken back.
LEMMA NothingNewMissing ==
    ASSUME Typed, CandidatesInOrder,
           s'.stage = s.stage, s'.sub = s.sub, s'.exited = s.exited,
           log'.frozen = log.frozen, tree'.head \in Commits, tree.head <= tree'.head,
           ev.once => ev'.once
    PROVE  EvidenceMissing' => EvidenceMissing
<1>1. SUFFICES ASSUME EvidenceMissing' PROVE EvidenceMissing
  OBVIOUS
<1>2. Walking /\ Frozen /\ tree'.head = Candidate /\ ~ev.once
  BY <1>1, SameCandidate DEF EvidenceMissing, Walking
<1>3. tree.head \in Nat /\ Candidate \in Nat /\ Candidate <= tree.head
  BY <1>2, CandidateIsLast, Bounds DEF Typed, TreeTypes, Commits
<1>4. QED
  BY <1>2, <1>3 DEF EvidenceMissing

\* Every step keeps a replayed link from being a stale one.
LEMMA ReplayStep ==
    ASSUME IInv, [Next]_vars
    PROVE  ReplayAllowed'
<1>1. Typed /\ ReplayAllowed /\ CandidatesInOrder
  BY DEF IInv
<1>2. /\ drv.next \in Commands /\ s.pending \in Commands \cup {"none"}
      /\ tree.head \in Nat /\ tree.head \in Commits /\ drv.green \in BOOLEAN
  BY <1>1, Bounds DEF Typed, DriverTypes, StateTypes, TreeTypes, Commits
<1>3. ASSUME Drive
      PROVE  ReplayAllowed'
  BY <1>1, <1>2, <1>3, AtEffect
     DEF Drive, Places, Commands, Guarded, ReplayAllowed, BeforeGates, ToGates
<1>4. ASSUME ParkStaleLink
      PROVE  ReplayAllowed'
  BY <1>1, <1>2, <1>4, OffFields
     DEF ParkStaleLink, ReplayAllowed, BeforeGates, ToGates
<1>5. ASSUME Recover
      PROVE  ReplayAllowed'
  <2>1. ~StaleLink /\ UNCHANGED <<s, tree, log, ev>>
    BY <1>5 DEF Recover
  <2>2. drv'.at = "check" \/ (drv'.at = s.pending /\ s.pending \in Commands)
    BY <1>1, <1>2, <1>5, RecoverEffect
  <2>3. EvidenceMissing' => EvidenceMissing
    BY <1>1, <1>2, <2>1, NothingNewMissing
  <2>4. QED
    BY <2>1, <2>2, <2>3
       DEF StaleLink, EvidenceMissing, Walking, Commands, Guarded,
           ReplayAllowed, BeforeGates, ToGates
<1>6. ASSUME ResumeReleaseChain
      PROVE  ReplayAllowed'
  BY <1>1, <1>2, <1>6, ResumeEffect
     DEF ResumeReleaseChain, ReplayAllowed, BeforeGates, ToGates
<1>7. ASSUME Issue
      PROVE  ReplayAllowed'
  BY <1>1, <1>2, <1>7, IssueEffect
     DEF Issue, ReplayAllowed, BeforeGates, ToGates
<1>8. ASSUME FreezeReplayed
      PROVE  ReplayAllowed'
  BY <1>1, <1>2, <1>8, StopEffect
     DEF FreezeReplayed, ReplayAllowed, BeforeGates, ToGates
<1>9. ASSUME FreezeDirty
      PROVE  ReplayAllowed'
  BY <1>1, <1>2, <1>9, StopEffect
     DEF FreezeDirty, ReplayAllowed, BeforeGates, ToGates
<1>10. ASSUME FreezeStands
      PROVE  ReplayAllowed'
  BY <1>1, <1>2, <1>10, HandEffect
     DEF FreezeStands, Commands, Guarded, ReplayAllowed, BeforeGates, ToGates
<1>11. ASSUME FreezeDrift
      PROVE  ReplayAllowed'
  BY <1>1, <1>2, <1>11, AtEffect
     DEF FreezeDrift, Places, Commands, Guarded, ReplayAllowed, BeforeGates,
         ToGates
<1>12. ASSUME FreezeFirst
      PROVE  ReplayAllowed'
  BY <1>1, <1>2, <1>12, ToMintEffect
     DEF FreezeFirst, ReplayAllowed, BeforeGates, ToGates
<1>13. ASSUME FreezeRewalk
      PROVE  ReplayAllowed'
  BY <1>1, <1>2, <1>13, ToMintEffect
     DEF FreezeRewalk, ReplayAllowed, BeforeGates, ToGates
<1>14. ASSUME Mint
      PROVE  ReplayAllowed'
  BY <1>1, <1>2, <1>14, HandEffect
     DEF Mint, Commands, Guarded, ReplayAllowed, BeforeGates, ToGates
<1>15. ASSUME JudgeReuse
      PROVE  ReplayAllowed'
  BY <1>1, <1>2, <1>15, HandEffect
     DEF JudgeReuse, Commands, Guarded, ReplayAllowed, BeforeGates, ToGates
<1>16. ASSUME JudgeRerun
      PROVE  ReplayAllowed'
  <2>1. drv.at = "judge_full_f_reuse" /\ drv'.replay = drv.replay
    BY <1>1, <1>2, <1>16, AtEffect DEF JudgeRerun, Places
  <2>2. /\ s'.stage = s.stage /\ s'.sub = s.sub /\ s'.exited = s.exited
        /\ log'.frozen = log.frozen /\ tree' = tree /\ (ev.once => ev'.once)
    BY <1>1, <1>2, <1>16, AppendedEffect, FullEffect DEF JudgeRerun
  <2>3. EvidenceMissing' => EvidenceMissing
    BY <1>1, <1>2, <2>2, NothingNewMissing
  <2>4. QED
    BY <1>1, <2>1, <2>3 DEF ReplayAllowed, BeforeGates, ToGates
<1>17. ASSUME FullPasses
      PROVE  ReplayAllowed'
  BY <1>1, <1>2, <1>17, HandEffect
     DEF FullPasses, Commands, Guarded, ReplayAllowed, BeforeGates, ToGates
<1>18. ASSUME FullFails
      PROVE  ReplayAllowed'
  BY <1>1, <1>2, <1>18, StopEffect
     DEF FullFails, ReplayAllowed, BeforeGates, ToGates
<1>19. ASSUME ClosureExists
      PROVE  ReplayAllowed'
  BY <1>1, <1>2, <1>19, HandEffect
     DEF ClosureExists, Commands, Guarded, ReplayAllowed, BeforeGates, ToGates
<1>20. ASSUME ClosureDeclared
      PROVE  ReplayAllowed'
  <2>1. drv.at = "produce_closure_evidence" /\ drv'.replay = drv.replay
    BY <1>1, <1>2, <1>20, AtEffect DEF ClosureDeclared, Places
  <2>2. /\ s'.stage = s.stage /\ s'.sub = s.sub /\ s'.exited = s.exited
        /\ log'.frozen = log.frozen /\ tree' = tree /\ (ev.once => ev'.once)
    BY <1>1, <1>2, <1>20, AppendedEffect, OtherEvidence DEF ClosureDeclared
  <2>3. EvidenceMissing' => EvidenceMissing
    BY <1>1, <1>2, <2>2, NothingNewMissing
  <2>4. QED
    BY <1>1, <2>1, <2>3 DEF ReplayAllowed, BeforeGates, ToGates
<1>21. ASSUME ClosureProduced
      PROVE  ReplayAllowed'
  BY <1>1, <1>2, <1>21, HandEffect
     DEF ClosureProduced, Commands, Guarded, ReplayAllowed, BeforeGates, ToGates
<1>22. ASSUME ClosureBlocked
      PROVE  ReplayAllowed'
  BY <1>1, <1>2, <1>22, StopEffect
     DEF ClosureBlocked, ReplayAllowed, BeforeGates, ToGates
<1>23. ASSUME GatesReused
      PROVE  ReplayAllowed'
  BY <1>1, <1>2, <1>23, HandEffect
     DEF GatesReused, Commands, Guarded, ReplayAllowed, BeforeGates, ToGates
<1>24. ASSUME GatesBegin
      PROVE  ReplayAllowed'
  <2>1. drv.at = "run_local_gates" /\ drv'.replay = drv.replay
    BY <1>1, <1>2, <1>24, GatesBeginEffect DEF GatesBegin
  <2>2. /\ s'.stage = s.stage /\ s'.sub = s.sub /\ s'.exited = s.exited
        /\ log'.frozen = log.frozen /\ tree' = tree /\ (ev.once => ev'.once)
    BY <1>1, <1>2, <1>24, GatesBeginEffect DEF GatesBegin
  <2>3. EvidenceMissing' => EvidenceMissing
    BY <1>1, <1>2, <2>2, NothingNewMissing
  <2>4. QED
    BY <1>1, <2>1, <2>3 DEF ReplayAllowed, BeforeGates, ToGates
<1>25. ASSUME ContractInvalid
      PROVE  ReplayAllowed'
  BY <1>1, <1>2, <1>25, AtEffect
     DEF ContractInvalid, Places, Commands, Guarded, ReplayAllowed, BeforeGates,
         ToGates
<1>26. ASSUME GatePasses
      PROVE  ReplayAllowed'
  <2>1. drv.at = "gate" /\ drv'.replay = drv.replay
    BY <1>1, <1>2, <1>26, AfterGateEffect DEF GatePasses
  <2>2. /\ s'.stage = s.stage /\ s'.sub = s.sub /\ s'.exited = s.exited
        /\ log'.frozen = log.frozen /\ tree' = tree /\ (ev.once => ev'.once)
    BY <1>1, <1>2, <1>26, AppendedEffect, JudgedEffect DEF GatePasses
  <2>3. EvidenceMissing' => EvidenceMissing
    BY <1>1, <1>2, <2>2, NothingNewMissing
  <2>4. QED
    BY <1>1, <2>1, <2>3 DEF ReplayAllowed, BeforeGates, ToGates
<1>27. ASSUME GateFails
      PROVE  ReplayAllowed'
  <2>1. drv.at = "gate" /\ drv'.replay = drv.replay
    BY <1>1, <1>2, <1>27, AfterGateEffect DEF GateFails
  <2>2. /\ s'.stage = s.stage /\ s'.sub = s.sub /\ s'.exited = s.exited
        /\ log'.frozen = log.frozen /\ tree' = tree /\ (ev.once => ev'.once)
    BY <1>1, <1>2, <1>27, AppendedEffect, JudgedEffect DEF GateFails
  <2>3. EvidenceMissing' => EvidenceMissing
    BY <1>1, <1>2, <2>2, NothingNewMissing
  <2>4. QED
    BY <1>1, <2>1, <2>3 DEF ReplayAllowed, BeforeGates, ToGates
<1>28. ASSUME GatesRefused
      PROVE  ReplayAllowed'
  BY <1>1, <1>2, <1>28, AtEffect
     DEF GatesRefused, Places, Commands, Guarded, ReplayAllowed, BeforeGates,
         ToGates
<1>29. ASSUME RepairRoute
      PROVE  ReplayAllowed'
  <2>1. Stop
    BY <1>29 DEF RepairRoute
  <2>2. QED
    BY <1>1, <2>1, StopEffect DEF ReplayAllowed, BeforeGates, ToGates
<1>30. ASSUME CiRefused
      PROVE  ReplayAllowed'
  BY <1>1, <1>2, <1>30, StopEffect
     DEF CiRefused, ReplayAllowed, BeforeGates, ToGates
<1>31. ASSUME CiPending
      PROVE  ReplayAllowed'
  BY <1>1, <1>2, <1>31, AtEffect
     DEF CiPending, Places, Commands, Guarded, ReplayAllowed, BeforeGates,
         ToGates
<1>32. ASSUME CiPollsAgain
      PROVE  ReplayAllowed'
  BY <1>1, <1>2, <1>32, AtEffect
     DEF CiPollsAgain, Places, Commands, Guarded, ReplayAllowed, BeforeGates,
         ToGates
<1>33. ASSUME CiBound
      PROVE  ReplayAllowed'
  BY <1>1, <1>2, <1>33, HandEffect
     DEF CiBound, Commands, Guarded, ReplayAllowed, BeforeGates, ToGates
<1>34. ASSUME ReviewFails
      PROVE  ReplayAllowed'
  BY <1>1, <1>2, <1>34, StopEffect
     DEF ReviewFails, ReplayAllowed, BeforeGates, ToGates
<1>35. ASSUME ReviewRevises
      PROVE  ReplayAllowed'
  BY <1>1, <1>2, <1>35, StopEffect
     DEF ReviewRevises, ReplayAllowed, BeforeGates, ToGates
<1>36. ASSUME ReviewPasses
      PROVE  ReplayAllowed'
  BY <1>1, <1>2, <1>36, AtEffect
     DEF ReviewPasses, Places, Commands, Guarded, ReplayAllowed, BeforeGates,
         ToGates
<1>37. ASSUME ExitVerify
      PROVE  ReplayAllowed'
  BY <1>1, <1>2, <1>37, AtEffect
     DEF ExitVerify, Places, Commands, Guarded, ReplayAllowed, BeforeGates,
         ToGates
<1>38. ASSUME EnterSecurity
      PROVE  ReplayAllowed'
  BY <1>1, <1>2, <1>38, HandEffect
     DEF EnterSecurity, Commands, Guarded, ReplayAllowed, BeforeGates, ToGates
<1>39. ASSUME AssessFails
      PROVE  ReplayAllowed'
  BY <1>1, <1>2, <1>39, StopEffect
     DEF AssessFails, ReplayAllowed, BeforeGates, ToGates
<1>40. ASSUME AssessPasses
      PROVE  ReplayAllowed'
  BY <1>1, <1>2, <1>40, AtEffect
     DEF AssessPasses, Places, Commands, Guarded, ReplayAllowed, BeforeGates,
         ToGates
<1>41. ASSUME ExitSecurity
      PROVE  ReplayAllowed'
  BY <1>1, <1>2, <1>41, AtEffect
     DEF ExitSecurity, Places, Commands, Guarded, ReplayAllowed, BeforeGates,
         ToGates
<1>42. ASSUME EnterRelease
      PROVE  ReplayAllowed'
  BY <1>1, <1>2, <1>42, OffFields
     DEF EnterRelease, ReplayAllowed, BeforeGates, ToGates
<1>43. ASSUME Crash
      PROVE  ReplayAllowed'
  BY <1>1, <1>2, <1>43, OffFields
     DEF Crash, ReplayAllowed, BeforeGates, ToGates
<1>44. ASSUME Retry
      PROVE  ReplayAllowed'
  BY <1>1, <1>2, <1>44
     DEF Retry, HumanRetry, ReplayAllowed, BeforeGates, ToGates
<1>45. ASSUME RetryInWait
      PROVE  ReplayAllowed'
  BY <1>1, <1>2, <1>45, StopEffect
     DEF RetryInWait, HumanRetry, ReplayAllowed, BeforeGates, ToGates
<1>46. ASSUME Commit
      PROVE  ReplayAllowed'
  <2>1. UNCHANGED <<s, log, ev, drv>> /\ tree'.head = tree.head + 1 /\ tree'.head \in Commits
    BY <1>1, <1>46, CommitEffect DEF Commit, TreeTypes
  <2>2. EvidenceMissing' => EvidenceMissing
    BY <1>1, <1>2, <2>1, NothingNewMissing
  <2>3. QED
    BY <1>1, <2>1, <2>2 DEF ReplayAllowed, BeforeGates, ToGates
<1>47. ASSUME Dirty
      PROVE  ReplayAllowed'
  <2>1. UNCHANGED <<s, log, ev, drv>> /\ tree'.head = tree.head
    BY <1>1, <1>47, EditEffect DEF Dirty
  <2>2. EvidenceMissing' => EvidenceMissing
    BY <1>1, <1>2, <2>1, NothingNewMissing
  <2>3. QED
    BY <1>1, <2>1, <2>2 DEF ReplayAllowed, BeforeGates, ToGates
<1>48. ASSUME Clean
      PROVE  ReplayAllowed'
  <2>1. UNCHANGED <<s, log, ev, drv>> /\ tree'.head = tree.head
    BY <1>1, <1>48, EditEffect DEF Clean
  <2>2. EvidenceMissing' => EvidenceMissing
    BY <1>1, <1>2, <2>1, NothingNewMissing
  <2>3. QED
    BY <1>1, <2>1, <2>2 DEF ReplayAllowed, BeforeGates, ToGates
<1>49. CASE UNCHANGED vars
  <2>1. UNCHANGED <<tree, s, log, ev, drv>>
    BY <1>49 DEF vars
  <2>2. EvidenceMissing' => EvidenceMissing
    BY <1>1, <1>2, <2>1, NothingNewMissing
  <2>3. QED
    BY <1>1, <2>1, <2>2 DEF ReplayAllowed, BeforeGates, ToGates
<1>50. QED
  BY <1>3, <1>4, <1>5, <1>6, <1>7, <1>8, <1>9, <1>10, <1>11, <1>12, <1>13,
     <1>14, <1>15, <1>16, <1>17, <1>18, <1>19, <1>20, <1>21, <1>22, <1>23,
     <1>24, <1>25, <1>26, <1>27, <1>28, <1>29, <1>30, <1>31, <1>32, <1>33,
     <1>34, <1>35, <1>36, <1>37, <1>38, <1>39, <1>40, <1>41, <1>42, <1>43,
     <1>44, <1>45, <1>46, <1>47, <1>48, <1>49
     DEF Next, Driver

\* Nothing but a freeze and a gate moves the results of the gates.
LEMMA ResultsStep ==
    ASSUME IInv, [Next]_vars
    PROVE  \/ ev'.at = ev.at /\ log'.frozen = log.frozen /\ (moved => moved')
           \/ Mint \/ GatePasses \/ GateFails
<1>1. Typed /\ moved \in BOOLEAN
  BY DEF IInv, Typed
<1>2. Frozen => Candidate \in Commits
  BY CandidateIsLast DEF IInv
<1>3. ASSUME Drive
      PROVE  ev'.at = ev.at /\ log'.frozen = log.frozen /\ (moved => moved')
  BY <1>1, <1>2, <1>3
     DEF Drive
<1>4. ASSUME ParkStaleLink
      PROVE  ev'.at = ev.at /\ log'.frozen = log.frozen /\ (moved => moved')
  BY <1>1, <1>2, <1>4
     DEF ParkStaleLink
<1>5. ASSUME Recover
      PROVE  ev'.at = ev.at /\ log'.frozen = log.frozen /\ (moved => moved')
  BY <1>1, <1>2, <1>5
     DEF Recover
<1>6. ASSUME ResumeReleaseChain
      PROVE  ev'.at = ev.at /\ log'.frozen = log.frozen /\ (moved => moved')
  BY <1>1, <1>2, <1>6
     DEF ResumeReleaseChain
<1>7. ASSUME Issue
      PROVE  ev'.at = ev.at /\ log'.frozen = log.frozen /\ (moved => moved')
  BY <1>1, <1>2, <1>7
     DEF Issue
<1>8. ASSUME FreezeReplayed
      PROVE  ev'.at = ev.at /\ log'.frozen = log.frozen /\ (moved => moved')
  BY <1>1, <1>2, <1>8
     DEF FreezeReplayed
<1>9. ASSUME FreezeDirty
      PROVE  ev'.at = ev.at /\ log'.frozen = log.frozen /\ (moved => moved')
  BY <1>1, <1>2, <1>9
     DEF FreezeDirty
<1>10. ASSUME FreezeStands
      PROVE  ev'.at = ev.at /\ log'.frozen = log.frozen /\ (moved => moved')
  BY <1>1, <1>2, <1>10
     DEF FreezeStands
<1>11. ASSUME FreezeDrift
      PROVE  ev'.at = ev.at /\ log'.frozen = log.frozen /\ (moved => moved')
  BY <1>1, <1>2, <1>11
     DEF FreezeDrift
<1>12. ASSUME FreezeFirst
      PROVE  ev'.at = ev.at /\ log'.frozen = log.frozen /\ (moved => moved')
  BY <1>1, <1>2, <1>12
     DEF FreezeFirst
<1>13. ASSUME FreezeRewalk
      PROVE  ev'.at = ev.at /\ log'.frozen = log.frozen /\ (moved => moved')
  <2>1. Frozen /\ UNCHANGED <<ev, moved>>
    BY <1>13 DEF FreezeRewalk, Drifted
  <2>2. QED
    BY <1>1, <1>2, <1>13, <2>1, RewalkEffect
<1>14. ASSUME JudgeReuse
      PROVE  ev'.at = ev.at /\ log'.frozen = log.frozen /\ (moved => moved')
  BY <1>1, <1>2, <1>14, OtherEvidence
     DEF JudgeReuse
<1>15. ASSUME JudgeRerun
      PROVE  ev'.at = ev.at /\ log'.frozen = log.frozen /\ (moved => moved')
  BY <1>1, <1>2, <1>15, FullEffect
     DEF JudgeRerun
<1>16. ASSUME FullPasses
      PROVE  ev'.at = ev.at /\ log'.frozen = log.frozen /\ (moved => moved')
  BY <1>1, <1>2, <1>16, FullEffect
     DEF FullPasses
<1>17. ASSUME FullFails
      PROVE  ev'.at = ev.at /\ log'.frozen = log.frozen /\ (moved => moved')
  BY <1>1, <1>2, <1>17, FullEffect
     DEF FullFails
<1>18. ASSUME ClosureExists
      PROVE  ev'.at = ev.at /\ log'.frozen = log.frozen /\ (moved => moved')
  BY <1>1, <1>2, <1>18
     DEF ClosureExists
<1>19. ASSUME ClosureDeclared
      PROVE  ev'.at = ev.at /\ log'.frozen = log.frozen /\ (moved => moved')
  BY <1>1, <1>2, <1>19, OtherEvidence
     DEF ClosureDeclared
<1>20. ASSUME ClosureProduced
      PROVE  ev'.at = ev.at /\ log'.frozen = log.frozen /\ (moved => moved')
  BY <1>1, <1>2, <1>20, OtherEvidence
     DEF ClosureProduced
<1>21. ASSUME ClosureBlocked
      PROVE  ev'.at = ev.at /\ log'.frozen = log.frozen /\ (moved => moved')
  BY <1>1, <1>2, <1>21, OtherEvidence
     DEF ClosureBlocked
<1>22. ASSUME GatesReused
      PROVE  ev'.at = ev.at /\ log'.frozen = log.frozen /\ (moved => moved')
  BY <1>1, <1>2, <1>22
     DEF GatesReused
<1>23. ASSUME GatesBegin
      PROVE  ev'.at = ev.at /\ log'.frozen = log.frozen /\ (moved => moved')
  BY <1>1, <1>2, <1>23
     DEF GatesBegin
<1>24. ASSUME ContractInvalid
      PROVE  ev'.at = ev.at /\ log'.frozen = log.frozen /\ (moved => moved')
  BY <1>1, <1>2, <1>24
     DEF ContractInvalid
<1>25. ASSUME GatesRefused
      PROVE  ev'.at = ev.at /\ log'.frozen = log.frozen /\ (moved => moved')
  BY <1>1, <1>2, <1>25
     DEF GatesRefused
<1>26. ASSUME RepairRoute
      PROVE  ev'.at = ev.at /\ log'.frozen = log.frozen /\ (moved => moved')
  <2>1. Frozen
    BY <1>26 DEF RepairRoute, IInv, OnTheCandidate, Ahead, AfterFreeze
  <2>2. UNCHANGED <<ev, moved>>
    BY <1>26 DEF RepairRoute
  <2>3. QED
    BY <1>1, <1>2, <1>26, <2>1, <2>2, RouteEffect
<1>27. ASSUME CiRefused
      PROVE  ev'.at = ev.at /\ log'.frozen = log.frozen /\ (moved => moved')
  BY <1>1, <1>2, <1>27, ReviewEvidence
     DEF CiRefused
<1>28. ASSUME CiPending
      PROVE  ev'.at = ev.at /\ log'.frozen = log.frozen /\ (moved => moved')
  BY <1>1, <1>2, <1>28
     DEF CiPending
<1>29. ASSUME CiPollsAgain
      PROVE  ev'.at = ev.at /\ log'.frozen = log.frozen /\ (moved => moved')
  BY <1>1, <1>2, <1>29
     DEF CiPollsAgain
<1>30. ASSUME CiBound
      PROVE  ev'.at = ev.at /\ log'.frozen = log.frozen /\ (moved => moved')
  BY <1>1, <1>2, <1>30, ReviewEvidence
     DEF CiBound
<1>31. ASSUME ReviewFails
      PROVE  ev'.at = ev.at /\ log'.frozen = log.frozen /\ (moved => moved')
  BY <1>1, <1>2, <1>31
     DEF ReviewFails
<1>32. ASSUME ReviewRevises
      PROVE  ev'.at = ev.at /\ log'.frozen = log.frozen /\ (moved => moved')
  BY <1>1, <1>2, <1>32, ReviewEvidence
     DEF ReviewRevises
<1>33. ASSUME ReviewPasses
      PROVE  ev'.at = ev.at /\ log'.frozen = log.frozen /\ (moved => moved')
  BY <1>1, <1>2, <1>33, ReviewEvidence
     DEF ReviewPasses
<1>34. ASSUME ExitVerify
      PROVE  ev'.at = ev.at /\ log'.frozen = log.frozen /\ (moved => moved')
  BY <1>1, <1>2, <1>34
     DEF ExitVerify
<1>35. ASSUME EnterSecurity
      PROVE  ev'.at = ev.at /\ log'.frozen = log.frozen /\ (moved => moved')
  BY <1>1, <1>2, <1>35
     DEF EnterSecurity
<1>36. ASSUME AssessFails
      PROVE  ev'.at = ev.at /\ log'.frozen = log.frozen /\ (moved => moved')
  BY <1>1, <1>2, <1>36, OtherEvidence
     DEF AssessFails
<1>37. ASSUME AssessPasses
      PROVE  ev'.at = ev.at /\ log'.frozen = log.frozen /\ (moved => moved')
  BY <1>1, <1>2, <1>37, OtherEvidence
     DEF AssessPasses
<1>38. ASSUME ExitSecurity
      PROVE  ev'.at = ev.at /\ log'.frozen = log.frozen /\ (moved => moved')
  BY <1>1, <1>2, <1>38
     DEF ExitSecurity
<1>39. ASSUME EnterRelease
      PROVE  ev'.at = ev.at /\ log'.frozen = log.frozen /\ (moved => moved')
  BY <1>1, <1>2, <1>39
     DEF EnterRelease
<1>40. ASSUME Crash
      PROVE  ev'.at = ev.at /\ log'.frozen = log.frozen /\ (moved => moved')
  BY <1>1, <1>2, <1>40
     DEF Crash
<1>41. ASSUME Retry
      PROVE  ev'.at = ev.at /\ log'.frozen = log.frozen /\ (moved => moved')
  BY <1>1, <1>2, <1>41
     DEF Retry, HumanRetry
<1>42. ASSUME RetryInWait
      PROVE  ev'.at = ev.at /\ log'.frozen = log.frozen /\ (moved => moved')
  BY <1>1, <1>2, <1>42
     DEF RetryInWait, HumanRetry
<1>43. ASSUME Commit
      PROVE  ev'.at = ev.at /\ log'.frozen = log.frozen /\ (moved => moved')
  BY <1>1, <1>2, <1>43
     DEF Commit
<1>44. ASSUME Dirty
      PROVE  ev'.at = ev.at /\ log'.frozen = log.frozen /\ (moved => moved')
  BY <1>1, <1>2, <1>44
     DEF Dirty
<1>45. ASSUME Clean
      PROVE  ev'.at = ev.at /\ log'.frozen = log.frozen /\ (moved => moved')
  BY <1>1, <1>2, <1>45
     DEF Clean
<1>46. CASE UNCHANGED vars
  BY <1>1, <1>2, <1>46 DEF vars
<1>47. QED
  BY <1>3, <1>4, <1>5, <1>6, <1>7, <1>8, <1>9, <1>10, <1>11, <1>12, <1>13,
     <1>14, <1>15, <1>16, <1>17, <1>18, <1>19, <1>20, <1>21, <1>22, <1>23,
     <1>24, <1>25, <1>26, <1>27, <1>28, <1>29, <1>30, <1>31, <1>32, <1>33,
     <1>34, <1>35, <1>36, <1>37, <1>38, <1>39, <1>40, <1>41, <1>42, <1>43,
     <1>44, <1>45, <1>46
     DEF Next, Driver

\* Every step keeps the gate results on the candidate's own commit.
LEMMA JudgedStep ==
    ASSUME IInv, [Next]_vars
    PROVE  JudgedOnItsCommit'
<1>1. /\ Typed /\ JudgedOnItsCommit /\ OnTheCandidate /\ ev.at \in [Gates -> 0..MaxCommits]
      /\ moved \in BOOLEAN
  BY DEF IInv, Typed, EvidenceTypes
<1>2. CASE GatePasses \/ GateFails
  <2>1. /\ ev'.at = [ev.at EXCEPT ![drv.gate] = tree.head] /\ UNCHANGED <<log, moved>>
        /\ drv.at = "gate"
    BY <1>1, <1>2, JudgedEffect DEF GatePasses, GateFails
  <2>2. ~moved => tree.head = Candidate
    BY <1>1, <2>1 DEF OnTheCandidate, Ahead, BeforeGates
  <2>3. QED
    BY <1>1, <2>1, <2>2, SameCandidate DEF JudgedOnItsCommit
<1>3. CASE Mint
  <2>1. ev' = NoEvidence
    BY <1>3 DEF Mint
  <2>2. \A g \in Gates : ev'.at[g] = 0
    BY <2>1 DEF NoEvidence
  <2>3. QED
    BY <2>2 DEF JudgedOnItsCommit
<1>4. CASE ev'.at = ev.at /\ log'.frozen = log.frozen /\ (moved => moved')
  BY <1>1, <1>4, SameCandidate DEF JudgedOnItsCommit
<1>5. QED
  BY <1>2, <1>3, <1>4, ResultsStep

-----------------------------------------------------------------------------
(* The round of a candidate, which RoundOf defines by recursion along the   *)
(* chain of its predecessors.                                               *)

LessNat == {p \in Nat \X Nat : p[1] < p[2]}

\* Every set of numbers that is not empty has a least one.
LEMMA LeastNumber ==
    ASSUME NEW T \in SUBSET Nat, T # {}
    PROVE  \E x \in T : \A y \in T : x <= y
<1>1. OpToRel(<, Nat) = LessNat
  BY Zenon DEF OpToRel, LessNat
<1>2. IsWellFoundedOn(LessNat, Nat)
  BY <1>1, NatLessThanWellFounded, Zenon
<1>3. PICK x \in T : \A y \in T : ~(<<y, x>> \in LessNat)
  BY <1>2, WFMin
<1>4. \A y \in T : ~(y < x)
  BY <1>3 DEF LessNat
<1>5. QED
  BY <1>4

\* And a greatest one when it is bounded.
LEMMA GreatestNumber ==
    ASSUME NEW n \in Nat, NEW T \in SUBSET (0..n), T # {}
    PROVE  \E x \in T : \A y \in T : y <= x
<1> DEFINE U == {n - x : x \in T}
<1>1. U \in SUBSET Nat /\ U # {}
  <2>1. \A x \in T : n - x \in Nat
    OBVIOUS
  <2>2. PICK x \in T : TRUE
    OBVIOUS
  <2>3. n - x \in U
    BY <2>2
  <2>4. QED
    BY <2>1, <2>3
<1>2. PICK u \in U : \A v \in U : u <= v
  BY <1>1, LeastNumber
<1>3. PICK x \in T : u = n - x
  BY <1>2
<1>4. ASSUME NEW y \in T PROVE y <= x
  <2>1. n - x <= n - y
    BY <1>2, <1>3
  <2>2. QED
    BY <2>1
<1>5. QED
  BY <1>4

\* The latest round opened for a commit, if one was.
LEMMA OwnRoundIs ==
    ASSUME Typed, NEW c
    PROVE  /\ OwnRound(c) \in 0..Len(log.rounds)
           /\ OwnRound(c) > 0 => log.rounds[OwnRound(c)] = c
           /\ \A q \in OwnRound(c) + 1..Len(log.rounds) : log.rounds[q] # c
<1> DEFINE T == {r \in 0..Len(log.rounds) : r > 0 => log.rounds[r] = c}
<1>1. Len(log.rounds) \in Nat
  BY DEF Typed, LogTypes
<1>2. T \in SUBSET (0..Len(log.rounds)) /\ 0 \in T
  BY <1>1
<1>3. PICK r \in T : \A q \in T : q <= r
  BY <1>1, <1>2, GreatestNumber
<1>4. \A q \in r + 1..Len(log.rounds) : log.rounds[q] # c
  <2>1. SUFFICES ASSUME NEW q \in r + 1..Len(log.rounds), log.rounds[q] = c
                 PROVE  FALSE
    OBVIOUS
  <2>2. q \in T /\ q > r
    BY <1>1, <1>3, <2>1
  <2>3. QED
    BY <1>1, <1>3, <2>2
<1>5. \E r0 \in 0..Len(log.rounds) :
         /\ r0 > 0 => log.rounds[r0] = c
         /\ \A q \in r0 + 1..Len(log.rounds) : log.rounds[q] # c
  BY <1>3, <1>4
<1>6. QED
  BY <1>5 DEF OwnRound

\* The last round that is of no later commit.
LastUpTo(d, r) ==
    /\ r \in 0..Len(log.rounds)
    /\ r > 0 => log.rounds[r] <= d
    /\ \A q \in r + 1..Len(log.rounds) : d < log.rounds[q]

Latest(d) == CHOOSE r \in 0..Len(log.rounds) : LastUpTo(d, r)

\* There is but one.
LEMMA LatestIs ==
    ASSUME Typed, NEW d \in Nat, NEW r, LastUpTo(d, r)
    PROVE  Latest(d) = r
<1>1. Len(log.rounds) \in Nat /\ \A q \in 1..Len(log.rounds) : log.rounds[q] \in Nat
  BY RecordedNumbers
<1>2. ASSUME NEW p, NEW q, LastUpTo(d, p), LastUpTo(d, q), p < q
      PROVE  FALSE
  BY <1>1, <1>2 DEF LastUpTo
<1>3. LastUpTo(d, Latest(d)) /\ Latest(d) \in Nat /\ r \in Nat
  <2>1. r \in 0..Len(log.rounds)
    BY DEF LastUpTo
  <2>2. LastUpTo(d, Latest(d)) /\ Latest(d) \in 0..Len(log.rounds)
    BY <2>1, Zenon DEF Latest
  <2>3. QED
    BY <1>1, <2>1, <2>2
<1>4. QED
  BY <1>2, <1>3

\* What is inherited along the chain, as RoundOf defines it.
Inherits(f) ==
    f = [d \in 0..MaxCommits |->
            IF d = 0 THEN 0 ELSE IF OwnRound(d) > 0 THEN OwnRound(d) ELSE f[log.pred[d]]]

Ranked == [d \in 0..MaxCommits |->
              IF \E i \in DOMAIN log.frozen : d = log.frozen[i] THEN Latest(d) ELSE 0]

\* Facts about the chain that the two lemmas below go along.
LEMMA ChainFacts ==
    ASSUME Typed, CandidatesInOrder, ChainLinked, RoundsInOrder
    PROVE  /\ DOMAIN log.frozen = 1..Len(log.frozen) /\ Len(log.frozen) \in Nat
           /\ DOMAIN log.rounds = 1..Len(log.rounds) /\ Len(log.rounds) \in Nat
           /\ \A i \in DOMAIN log.frozen : log.frozen[i] \in 1..MaxCommits
           /\ \A i, j \in DOMAIN log.frozen : log.frozen[i] = log.frozen[j] => i = j
           /\ \A i, j \in DOMAIN log.frozen : i <= j => log.frozen[i] <= log.frozen[j]
           /\ \A r \in DOMAIN log.rounds : log.rounds[r] \in 1..MaxCommits
           /\ \A d \in 1..MaxCommits : log.pred[d] \in 0..MaxCommits
           /\ 1 \in DOMAIN log.frozen => log.pred[log.frozen[1]] = 0
<1>1. log.frozen \in Seq(Commits) /\ log.rounds \in Seq(Commits)
          /\ log.pred \in [Commits -> 0..MaxCommits]
  BY DEF Typed, LogTypes
<1>2. /\ DOMAIN log.frozen = 1..Len(log.frozen) /\ Len(log.frozen) \in Nat
      /\ DOMAIN log.rounds = 1..Len(log.rounds) /\ Len(log.rounds) \in Nat
      /\ \A i \in DOMAIN log.frozen : log.frozen[i] \in 1..MaxCommits
      /\ \A r \in DOMAIN log.rounds : log.rounds[r] \in 1..MaxCommits
      /\ \A d \in 1..MaxCommits : log.pred[d] \in 0..MaxCommits
  <2>1. /\ DOMAIN log.frozen = 1..Len(log.frozen) /\ Len(log.frozen) \in Nat
        /\ \A i \in DOMAIN log.frozen : log.frozen[i] \in Commits
    BY <1>1
  <2>2. /\ DOMAIN log.rounds = 1..Len(log.rounds) /\ Len(log.rounds) \in Nat
        /\ \A r \in DOMAIN log.rounds : log.rounds[r] \in Commits
    BY <1>1
  <2>3. QED
    BY <1>1, <2>1, <2>2, Zenon DEF Commits
<1>3. ASSUME NEW i \in DOMAIN log.frozen, NEW j \in DOMAIN log.frozen
      PROVE  /\ log.frozen[i] = log.frozen[j] => i = j
             /\ i <= j => log.frozen[i] <= log.frozen[j]
  <2>1. i \in Nat /\ j \in Nat /\ log.frozen[i] \in Nat /\ log.frozen[j] \in Nat
    BY <1>2, <1>3, Bounds
  <2>2. (i < j => log.frozen[i] < log.frozen[j]) /\ (j < i => log.frozen[j] < log.frozen[i])
    BY <1>3 DEF CandidatesInOrder
  <2>3. QED
    BY <2>1, <2>2
<1>4. 1 \in DOMAIN log.frozen => log.pred[log.frozen[1]] = 0
  <2>1. SUFFICES ASSUME 1 \in DOMAIN log.frozen, log.pred[log.frozen[1]] # 0
                 PROVE  FALSE
    OBVIOUS
  <2>2. PICK i \in DOMAIN log.frozen : i > 1 /\ log.frozen[1] = log.frozen[i]
    BY <1>2, <2>1 DEF ChainLinked, Commits
  <2>3. QED
    BY <1>3, <2>1, <2>2
<1>5. QED
  BY <1>2, <1>3, <1>4

\* The round of every candidate is the last one opened up to it: the ranking is
\* what the chain hands down.
LEMMA RankedInherits ==
    ASSUME Typed, CandidatesInOrder, ChainLinked, RoundsInOrder
    PROVE  Inherits(Ranked)
<1> DEFINE own(d) == IF OwnRound(d) > 0 THEN OwnRound(d) ELSE Ranked[log.pred[d]]
<1>1. ASSUME NEW d \in 1..MaxCommits, ~ \E i \in DOMAIN log.frozen : d = log.frozen[i]
      PROVE  own(d) = 0
  <2>1. log.pred[d] = 0
    BY <1>1 DEF ChainLinked, Commits
  <2>2. OwnRound(d) = 0
    BY <1>1, OwnRoundIs, ChainFacts DEF RoundsInOrder
  <2>3. ~ \E i \in DOMAIN log.frozen : 0 = log.frozen[i]
    BY ChainFacts
  <2>4. Ranked[0] = 0
    BY <2>3, Bounds DEF Ranked
  <2>5. QED
    BY <2>1, <2>2, <2>4
<1>2. ASSUME NEW i \in DOMAIN log.frozen
      PROVE  own(log.frozen[i]) = Latest(log.frozen[i])
  <2> DEFINE d == log.frozen[i]
             n == Len(log.rounds)
  <2>1. d \in 1..MaxCommits /\ i \in Nat /\ n \in Nat /\ DOMAIN log.rounds = 1..n
    BY <1>2, ChainFacts
  <2>2. CASE OwnRound(d) > 0
    <3>1. OwnRound(d) \in 1..n /\ log.rounds[OwnRound(d)] = d
      BY <2>1, <2>2, OwnRoundIs
    <3>2. ASSUME NEW q \in OwnRound(d) + 1..n PROVE d < log.rounds[q]
      <4>1. q \in DOMAIN log.rounds /\ OwnRound(d) \in DOMAIN log.rounds /\ OwnRound(d) <= q
        BY <2>1, <3>1
      <4>2. d <= log.rounds[q] /\ log.rounds[q] \in Nat
        BY <3>1, <4>1, RecordedNumbers DEF RoundsInOrder
      <4>3. log.rounds[q] # d
        BY OwnRoundIs
      <4>4. QED
        BY <2>1, <4>2, <4>3
    <3>3. LastUpTo(d, OwnRound(d))
      BY <2>1, <3>1, <3>2 DEF LastUpTo
    <3>4. QED
      BY <2>1, <2>2, <3>3, LatestIs
  <2>3. CASE ~(OwnRound(d) > 0)
    <3>1. OwnRound(d) = 0 /\ \A q \in 1..n : log.rounds[q] # d
      BY <2>1, <2>3, OwnRoundIs
    <3>2. \A q \in 1..n : \E j \in DOMAIN log.frozen : log.rounds[q] = log.frozen[j] /\ j # i
      BY <2>1, <3>1 DEF RoundsInOrder
    <3>3. CASE i = 1
      <4>1. log.pred[d] = 0 /\ Ranked[0] = 0
        <5>1. ~ \E j \in DOMAIN log.frozen : 0 = log.frozen[j]
          BY ChainFacts
        <5>2. QED
          BY <1>2, <3>3, <5>1, ChainFacts, Bounds DEF Ranked
      <4>2. ASSUME NEW q \in 1..n PROVE d < log.rounds[q]
        <5>1. PICK j \in DOMAIN log.frozen : log.rounds[q] = log.frozen[j] /\ j # i
          BY <3>2, <4>2
        <5>2. i < j
          BY <3>3, <5>1, ChainFacts
        <5>3. QED
          BY <1>2, <5>1, <5>2 DEF CandidatesInOrder
      <4>3. LastUpTo(d, 0)
        BY <2>1, <4>2 DEF LastUpTo
      <4>4. QED
        BY <2>1, <3>1, <4>1, <4>3, LatestIs
    <3>4. CASE i > 1
      <4> DEFINE p == log.frozen[i - 1]
      <4>1. i - 1 \in DOMAIN log.frozen /\ log.pred[d] = p /\ p \in 1..MaxCommits /\ p < d
        BY <1>2, <2>1, <3>4, ChainFacts DEF ChainLinked, CandidatesInOrder
      <4>2. Ranked[p] = Latest(p)
        BY <4>1, Bounds DEF Ranked
      <4>3. PICK r : LastUpTo(p, r)
        <5>1. CASE \A q \in 1..n : p < log.rounds[q]
          BY <2>1, <5>1 DEF LastUpTo
        <5>2. CASE \E q \in 1..n : ~(p < log.rounds[q])
          <6> DEFINE T == {q \in 1..n : log.rounds[q] <= p}
          <6>1. \A q \in 1..n : log.rounds[q] \in Nat
            BY <2>1, RecordedNumbers
          <6>2. T \in SUBSET (0..n) /\ T # {}
            <7>1. PICK q \in 1..n : ~(p < log.rounds[q])
              BY <5>2
            <7>2. log.rounds[q] <= p
              BY <4>1, <6>1, <7>1
            <7>3. QED
              BY <2>1, <7>1, <7>2
          <6>3. PICK r \in T : \A q \in T : q <= r
            BY <2>1, <6>2, GreatestNumber
          <6>4. \A q \in r + 1..n : p < log.rounds[q]
            BY <2>1, <4>1, <6>1, <6>3, Bounds
          <6>5. LastUpTo(p, r)
            BY <2>1, <6>3, <6>4 DEF LastUpTo
          <6>6. QED
            BY <6>5
        <5>3. QED
          BY <5>1, <5>2
      <4>4. ASSUME NEW q \in r + 1..n PROVE d < log.rounds[q]
        <5>1. q \in 1..n /\ p < log.rounds[q]
          BY <2>1, <4>3, <4>4 DEF LastUpTo
        <5>2. PICK j \in DOMAIN log.frozen : log.rounds[q] = log.frozen[j] /\ j # i
          BY <3>2, <5>1
        <5>3. ~(j <= i - 1)
          BY <4>1, <5>1, <5>2, ChainFacts, Bounds
        <5>4. i < j
          BY <2>1, <5>2, <5>3, ChainFacts
        <5>5. QED
          BY <1>2, <5>2, <5>4 DEF CandidatesInOrder
      <4>5. LastUpTo(d, r)
        <5>1. r \in 0..n /\ (r > 0 => log.rounds[r] <= p)
          BY <4>3 DEF LastUpTo
        <5>2. r > 0 => log.rounds[r] \in Nat
          BY <2>1, <5>1, RecordedNumbers
        <5>3. r > 0 => log.rounds[r] <= d
          BY <2>1, <4>1, <5>1, <5>2
        <5>4. QED
          BY <4>4, <5>1, <5>3 DEF LastUpTo
      <4>6. Latest(p) = r /\ Latest(d) = r
        BY <2>1, <4>1, <4>3, <4>5, LatestIs, Bounds
      <4>7. QED
        BY <3>1, <4>1, <4>2, <4>6
    <3>5. i >= 1
      BY <1>2, ChainFacts
    <3>6. QED
      BY <2>1, <3>3, <3>4, <3>5
  <2>4. QED
    BY <2>2, <2>3
<1>3. \A d \in 0..MaxCommits : Ranked[d] = (IF d = 0 THEN 0 ELSE own(d))
  <2>1. SUFFICES ASSUME NEW d \in 0..MaxCommits
                 PROVE  Ranked[d] = (IF d = 0 THEN 0 ELSE own(d))
    OBVIOUS
  <2>2. d = 0 \/ d \in 1..MaxCommits
    BY <2>1, Bounds
  <2>3. d = 0 => ~ \E i \in DOMAIN log.frozen : d = log.frozen[i]
    BY ChainFacts
  <2> HIDE DEF own
  <2>4. CASE \E i \in DOMAIN log.frozen : d = log.frozen[i]
    BY <1>2, <2>2, <2>3, <2>4 DEF Ranked
  <2>5. CASE ~ \E i \in DOMAIN log.frozen : d = log.frozen[i]
    BY <1>1, <2>2, <2>5 DEF Ranked
  <2>6. QED
    BY <2>4, <2>5
<1>4. QED
  BY <1>3, Zenon DEF Inherits, Ranked

\* Two functions that the chain hands down agree on the candidates.
LEMMA InheritsOnce ==
    ASSUME Typed, CandidatesInOrder, ChainLinked, RoundsInOrder,
           NEW f, NEW g, Inherits(f), Inherits(g)
    PROVE  \A i \in DOMAIN log.frozen : f[log.frozen[i]] = g[log.frozen[i]]
<1> DEFINE T == {i \in DOMAIN log.frozen : f[log.frozen[i]] # g[log.frozen[i]]}
<1>1. SUFFICES ASSUME T # {} PROVE FALSE
  OBVIOUS
<1>2. T \in SUBSET Nat
  BY ChainFacts
<1>3. PICK i \in T : \A j \in T : i <= j
  BY <1>1, <1>2, LeastNumber
<1> DEFINE d == log.frozen[i]
<1>4. i \in DOMAIN log.frozen /\ f[d] # g[d] /\ i \in Nat /\ i >= 1
  BY <1>3, ChainFacts
<1>5. d \in 0..MaxCommits /\ d # 0 /\ 0 \in 0..MaxCommits
  BY <1>4, ChainFacts, Bounds
<1>6. /\ f[d] = (IF OwnRound(d) > 0 THEN OwnRound(d) ELSE f[log.pred[d]])
      /\ g[d] = (IF OwnRound(d) > 0 THEN OwnRound(d) ELSE g[log.pred[d]])
      /\ f[0] = 0 /\ g[0] = 0
  BY <1>5, Zenon DEF Inherits
<1>7. CASE i = 1
  BY <1>4, <1>6, <1>7, ChainFacts
<1>8. CASE i > 1
  <2>1. log.pred[d] = log.frozen[i - 1] /\ i - 1 \in DOMAIN log.frozen /\ ~(i <= i - 1)
    BY <1>4, <1>8, ChainFacts DEF ChainLinked
  <2>2. i - 1 \in T
    BY <1>4, <1>6, <2>1
  <2>3. QED
    BY <1>3, <2>1, <2>2
<1>9. QED
  BY <1>4, <1>7, <1>8

\* The round of the candidate is the last one opened: every round is of a
\* candidate of the chain.
LEMMA RoundOfCandidate ==
    ASSUME Typed, CandidatesInOrder, ChainLinked, RoundsInOrder, Frozen
    PROVE  RoundOf(Candidate) = Len(log.rounds)
<1> DEFINE inherited == CHOOSE f : Inherits(f)
<1>1. Inherits(inherited)
  BY RankedInherits, Zenon
<1>2. RoundOf(Candidate) = inherited[Candidate]
  BY DEF RoundOf, Inherits
<1> HIDE DEF inherited
<1>3. PICK i \in DOMAIN log.frozen : Candidate = log.frozen[i]
  BY CandidateIsLast
<1>4. inherited[Candidate] = Ranked[Candidate]
  BY <1>1, <1>3, RankedInherits, InheritsOnce
<1>5. Ranked[Candidate] = Latest(Candidate)
  BY <1>3, ChainFacts, Bounds DEF Ranked
<1>6. LastUpTo(Candidate, Len(log.rounds))
  <2>1. ASSUME NEW r \in DOMAIN log.rounds PROVE log.rounds[r] <= Candidate
    BY CandidateIsLast DEF RoundsInOrder
  <2>2. QED
    BY <2>1, ChainFacts DEF LastUpTo
<1>7. QED
  BY <1>2, <1>4, <1>5, <1>6, LatestIs, CandidateIsLast, Bounds DEF Commits

-----------------------------------------------------------------------------
(* The history of the candidates.                                           *)

\* A fix commit marks the candidate that it replaces, and nothing else.
LEMMA RewalkHistory ==
    ASSUME IInv, FreezeRewalk
    PROVE  /\ log'.frozen = log.frozen /\ log'.pred = log.pred /\ log'.rounds = log.rounds
           /\ log'.staled = TRUE /\ log'.old = Candidate /\ tree' = tree
           /\ Frozen /\ Candidate' = Candidate
<1>1. Frozen /\ tree' = tree
  BY DEF FreezeRewalk, Drifted
<1>2. Candidate \in Commits /\ log.old = (IF log.staled THEN Candidate ELSE 0)
  BY <1>1, CandidateIsLast DEF IInv, ChainLinked
<1>3. QED
  BY <1>1, <1>2, RewalkEffect, SameCandidate DEF IInv

\* A freeze sets a later commit behind the candidates, and links it.
LEMMA MintHistory ==
    ASSUME IInv, Mint
    PROVE  /\ drv.sha \in Commits /\ drv.sha <= tree.head /\ tree' = tree
           /\ log'.frozen = Append(log.frozen, drv.sha)
           /\ DOMAIN log'.frozen = 1..Len(log.frozen) + 1 /\ Len(log.frozen) \in Nat
           /\ DOMAIN log.frozen = 1..Len(log.frozen)
           /\ \A i \in DOMAIN log.frozen : log'.frozen[i] = log.frozen[i]
                                           /\ log.frozen[i] \in Commits /\ log.frozen[i] < drv.sha
           /\ log'.frozen[Len(log.frozen) + 1] = drv.sha
           /\ log'.pred = [log.pred EXCEPT ![drv.sha] = Candidate]
           /\ log'.rounds = log.rounds /\ log'.staled = FALSE /\ log'.old = 0
           /\ Candidate' = drv.sha /\ Frozen'
<1>1. drv.at = "mint" /\ tree' = tree
  BY DEF Mint
<1>2. Typed /\ drv.sha \in Commits /\ drv.sha <= tree.head /\ log.frozen \in Seq(Commits)
  BY <1>1 DEF IInv, AboutToMint, Typed, LogTypes
<1>3. /\ DOMAIN log'.frozen = 1..Len(log.frozen) + 1 /\ Len(log.frozen) \in Nat
      /\ DOMAIN log.frozen = 1..Len(log.frozen)
      /\ \A i \in DOMAIN log.frozen : log'.frozen[i] = log.frozen[i] /\ log.frozen[i] \in Commits
      /\ log'.frozen[Len(log.frozen) + 1] = drv.sha
  <2>1. log'.frozen = Append(log.frozen, drv.sha)
    BY <1>2, MintEffect
  <2>2. QED
    BY <1>2, <2>1
<1>4. log.old = Candidate
  <2>1. CASE Frozen
    BY <1>1, <2>1 DEF IInv, AboutToMint, ChainLinked
  <2>2. CASE ~Frozen
    BY <2>2 DEF IInv, ChainLinked, Candidate
  <2>3. QED
    BY <2>1, <2>2
<1>5. ASSUME NEW i \in DOMAIN log.frozen PROVE log.frozen[i] < drv.sha
  <2>1. Frozen
    BY <1>2, <1>3, <1>5 DEF Frozen
  <2>2. Candidate < drv.sha /\ log.frozen[i] <= Candidate
    BY <1>1, <1>5, <2>1, CandidateIsLast DEF IInv, AboutToMint
  <2>3. log.frozen[i] \in Nat /\ Candidate \in Nat /\ drv.sha \in Nat
    BY <1>2, <1>3, <2>1, CandidateIsLast, Bounds DEF IInv, Commits
  <2>4. QED
    BY <2>2, <2>3
<1>6. QED
  BY <1>1, <1>2, <1>3, <1>4, <1>5, MintEffect, NewCandidate

\* A repair route opens at most one round, for the candidate.
LEMMA RouteHistory ==
    ASSUME IInv, RepairRoute
    PROVE  /\ log'.frozen = log.frozen /\ log'.pred = log.pred
           /\ log'.staled = log.staled /\ log'.old = log.old /\ tree' = tree
           /\ log'.rounds \in {log.rounds, Append(log.rounds, Candidate)}
           /\ Frozen /\ Candidate \in Commits /\ Candidate' = Candidate
           /\ drv'.at \in {"off", "check"}
<1>1. Frozen /\ Stop /\ tree' = tree
  BY DEF RepairRoute, IInv, OnTheCandidate, Ahead, AfterFreeze
<1>2. Candidate \in Commits
  BY <1>1, CandidateIsLast DEF IInv
<1>3. QED
  BY <1>1, <1>2, RouteEffect, StopEffect, SameCandidate DEF IInv

\* A commit leaves the candidates and the trailers of the past.
LEMMA CommitHistory ==
    ASSUME IInv, Commit
    PROVE  /\ UNCHANGED <<log, drv>> /\ tree'.head = tree.head + 1 /\ tree.head \in Nat
           /\ \A c \in Commits : c <= tree.head => tree'.trailer[c] = tree.trailer[c]
BY CommitEffect, Bounds DEF Commit, IInv, Typed, TreeTypes, Commits

\* Every step keeps the candidates in the order of the history.
LEMMA CandidatesStep ==
    ASSUME IInv, [Next]_vars
    PROVE  CandidatesInOrder'
<1>1. CandidatesInOrder
  BY DEF IInv
<1>2. CASE SameHistory
  BY <1>1, <1>2 DEF SameHistory, CandidatesInOrder
<1>3. CASE FreezeRewalk
  BY <1>1, <1>3, RewalkHistory DEF CandidatesInOrder
<1>4. CASE Mint
  <2>1. Len(log.frozen) + 1 <= drv.sha
    <3>1. CASE Frozen
      <4>1. Len(log.frozen) \in DOMAIN log.frozen
        BY <3>1, <1>4, MintHistory, CandidateIsLast DEF IInv
      <4>2. Len(log.frozen) <= log.frozen[Len(log.frozen)] /\ log.frozen[Len(log.frozen)] < drv.sha
        BY <1>1, <1>4, <4>1, MintHistory DEF CandidatesInOrder
      <4>3. log.frozen[Len(log.frozen)] \in Nat /\ drv.sha \in Nat /\ Len(log.frozen) \in Nat
        BY <1>4, <4>1, MintHistory, Bounds DEF Commits
      <4>4. QED
        BY <4>2, <4>3
    <3>2. CASE ~Frozen
      BY <1>4, <3>2, MintHistory, Bounds DEF Frozen, Commits
    <3>3. QED
      BY <3>1, <3>2
  <2>2. ASSUME NEW i \in DOMAIN log'.frozen
        PROVE  i <= log'.frozen[i] /\ log'.frozen[i] <= tree'.head
    BY <1>1, <1>4, <2>1, <2>2, MintHistory DEF CandidatesInOrder
  <2>3. ASSUME NEW i \in DOMAIN log'.frozen, NEW j \in DOMAIN log'.frozen, i < j
        PROVE  log'.frozen[i] < log'.frozen[j]
    BY <1>1, <1>4, <2>3, MintHistory DEF CandidatesInOrder
  <2>4. QED
    BY <2>2, <2>3 DEF CandidatesInOrder
<1>5. CASE RepairRoute
  BY <1>1, <1>5, RouteHistory DEF CandidatesInOrder
<1>6. CASE Commit
  <2>1. log' = log /\ tree'.head = tree.head + 1 /\ tree.head \in Nat
    BY <1>6, CommitHistory
  <2>2. \A i \in DOMAIN log.frozen : log.frozen[i] \in Nat
    BY RecordedNumbers DEF IInv
  <2>3. QED
    BY <1>1, <2>1, <2>2 DEF CandidatesInOrder
<1>7. QED
  BY <1>2, <1>3, <1>4, <1>5, <1>6, HistoryStep

\* Every step keeps the chain of the candidates linked.
LEMMA ChainStep ==
    ASSUME IInv, [Next]_vars
    PROVE  ChainLinked'
<1>1. ChainLinked
  BY DEF IInv
<1>2. CASE SameHistory
  BY <1>1, <1>2, SameCandidate DEF SameHistory, ChainLinked
<1>3. CASE FreezeRewalk
  <2>1. /\ log'.frozen = log.frozen /\ log'.pred = log.pred /\ log'.staled = TRUE
        /\ log'.old = Candidate /\ Candidate' = Candidate /\ Frozen'
    BY <1>3, RewalkHistory, SameCandidate
  <2>2. QED
    BY <1>1, <2>1 DEF ChainLinked
<1>4. CASE Mint
  <2>1. log.pred \in [Commits -> 0..MaxCommits]
    BY DEF IInv, Typed, LogTypes
  <2>2. ASSUME NEW c \in Commits, log'.pred[c] # 0
        PROVE  \E i \in DOMAIN log'.frozen : i > 1 /\ c = log'.frozen[i]
    <3>1. CASE c = drv.sha
      <4>1. Candidate # 0
        BY <1>4, <2>1, <2>2, <3>1, MintHistory
      <4>2. Len(log.frozen) # 0
        BY <4>1, <1>4, MintHistory, CandidateIsLast DEF IInv, Candidate
      <4>3. QED
        BY <1>4, <3>1, <4>2, MintHistory
    <3>2. CASE c # drv.sha
      <4>1. log.pred[c] # 0
        BY <1>4, <2>1, <2>2, <3>2, MintHistory
      <4>2. PICK i \in DOMAIN log.frozen : i > 1 /\ c = log.frozen[i]
        BY <1>1, <2>2, <4>1 DEF ChainLinked
      <4>3. QED
        BY <1>4, <4>2, MintHistory
    <3>3. QED
      BY <3>1, <3>2
  <2>3. ASSUME NEW i \in DOMAIN log'.frozen, i > 1
        PROVE  log'.pred[log'.frozen[i]] = log'.frozen[i - 1]
    <3>1. CASE i = Len(log.frozen) + 1
      <4>1. Frozen
        BY <1>4, <2>3, <3>1, MintHistory DEF Frozen
      <4>2. log'.frozen[i] = drv.sha /\ i - 1 \in DOMAIN log.frozen /\ i - 1 = Len(log.frozen)
        BY <1>4, <2>3, <3>1, MintHistory
      <4>3. log'.pred[drv.sha] = Candidate
        BY <1>4, <2>1, MintHistory
      <4>4. QED
        BY <1>4, <4>1, <4>2, <4>3, MintHistory DEF Candidate
    <3>2. CASE i # Len(log.frozen) + 1
      <4>1. i \in DOMAIN log.frozen /\ i - 1 \in DOMAIN log.frozen
        BY <1>4, <2>3, <3>2, MintHistory
      <4>2. log'.frozen[i] = log.frozen[i] /\ log'.frozen[i - 1] = log.frozen[i - 1]
                /\ log.frozen[i] \in Commits /\ log.frozen[i] # drv.sha
        BY <1>4, <4>1, MintHistory, Bounds DEF Commits
      <4>3. log'.pred[log.frozen[i]] = log.pred[log.frozen[i]]
        BY <1>4, <2>1, <4>2, MintHistory
      <4>4. QED
        BY <1>1, <2>3, <4>1, <4>2, <4>3 DEF ChainLinked
    <3>3. QED
      BY <3>1, <3>2
  <2>4. QED
    BY <1>4, <2>2, <2>3, MintHistory DEF ChainLinked
<1>5. CASE RepairRoute
  BY <1>1, <1>5, RouteHistory, SameCandidate DEF ChainLinked
<1>6. CASE Commit
  BY <1>1, <1>6, CommitHistory, SameCandidate DEF ChainLinked
<1>7. QED
  BY <1>2, <1>3, <1>4, <1>5, <1>6, HistoryStep

\* Every step keeps the rounds in the order of the candidates.
LEMMA RoundsStep ==
    ASSUME IInv, [Next]_vars
    PROVE  RoundsInOrder'
<1>1. RoundsInOrder
  BY DEF IInv
<1>2. CASE SameHistory
  BY <1>1, <1>2 DEF SameHistory, RoundsInOrder
<1>3. CASE FreezeRewalk
  BY <1>1, <1>3, RewalkHistory DEF RoundsInOrder
<1>4. CASE Mint
  BY <1>1, <1>4, MintHistory DEF RoundsInOrder
<1>5. CASE RepairRoute
  <2>1. CASE log'.rounds = log.rounds
    BY <1>1, <1>5, <2>1, RouteHistory DEF RoundsInOrder
  <2>2. CASE log'.rounds = Append(log.rounds, Candidate)
    <3>1. log.rounds \in Seq(Commits) /\ Candidate \in Commits /\ Frozen
      BY <1>5, RouteHistory DEF IInv, Typed, LogTypes
    <3>2. /\ Len(log.rounds) \in Nat /\ DOMAIN log.rounds = 1..Len(log.rounds)
          /\ DOMAIN log'.rounds = 1..Len(log.rounds) + 1
          /\ \A r \in DOMAIN log.rounds : log'.rounds[r] = log.rounds[r]
          /\ log'.rounds[Len(log.rounds) + 1] = Candidate
      BY <2>2, <3>1
    <3>3. PICK i \in DOMAIN log.frozen : Candidate = log.frozen[i]
      BY <3>1, CandidateIsLast DEF IInv
    <3>4. ASSUME NEW r \in DOMAIN log.rounds PROVE log.rounds[r] <= Candidate
      BY <1>1, <3>1, <3>4, CandidateIsLast DEF IInv, RoundsInOrder
    <3>5. ASSUME NEW r \in DOMAIN log'.rounds
          PROVE  \E j \in DOMAIN log'.frozen : log'.rounds[r] = log'.frozen[j]
      BY <1>1, <1>5, <3>2, <3>3, <3>5, RouteHistory DEF RoundsInOrder
    <3>6. Candidate <= Candidate
      BY <3>1, Bounds DEF Commits
    <3>7. ASSUME NEW r \in DOMAIN log'.rounds, NEW q \in DOMAIN log'.rounds, r <= q
          PROVE  log'.rounds[r] <= log'.rounds[q]
      BY <1>1, <3>2, <3>4, <3>6, <3>7 DEF RoundsInOrder
    <3>8. QED
      BY <3>5, <3>7 DEF RoundsInOrder
  <2>3. QED
    BY <1>5, <2>1, <2>2, RouteHistory
<1>6. CASE Commit
  BY <1>1, <1>6, CommitHistory DEF RoundsInOrder
<1>7. QED
  BY <1>2, <1>3, <1>4, <1>5, <1>6, HistoryStep

\* Every step keeps the commit about to be frozen the one a repair round made.
LEMMA MintStep ==
    ASSUME IInv, [Next]_vars
    PROVE  AboutToMint'
<1>1. Typed /\ AboutToMint
  BY DEF IInv
<1>2. /\ drv.next \in Commands /\ s.pending \in Commands \cup {"none"}
      /\ drv.green \in BOOLEAN
  BY <1>1 DEF Typed, DriverTypes, StateTypes
<1>3. ASSUME Drive
      PROVE  AboutToMint'
  BY <1>1, <1>2, <1>3, AtEffect
     DEF Drive, Places, Commands, Guarded, AboutToMint
<1>4. ASSUME ParkStaleLink
      PROVE  AboutToMint'
  BY <1>1, <1>2, <1>4, OffFields
     DEF ParkStaleLink, AboutToMint
<1>5. ASSUME Recover
      PROVE  AboutToMint'
  BY <1>1, <1>2, <1>5, RecoverEffect DEF AboutToMint, Commands, Guarded
<1>6. ASSUME ResumeReleaseChain
      PROVE  AboutToMint'
  BY <1>1, <1>6, ResumeEffect DEF AboutToMint
<1>7. ASSUME Issue
      PROVE  AboutToMint'
  BY <1>1, <1>2, <1>7, IssueEffect DEF AboutToMint, Commands, Guarded
<1>8. ASSUME FreezeReplayed
      PROVE  AboutToMint'
  BY <1>1, <1>2, <1>8, StopEffect
     DEF FreezeReplayed, AboutToMint
<1>9. ASSUME FreezeDirty
      PROVE  AboutToMint'
  BY <1>1, <1>2, <1>9, StopEffect
     DEF FreezeDirty, AboutToMint
<1>10. ASSUME FreezeStands
      PROVE  AboutToMint'
  BY <1>1, <1>2, <1>10, HandEffect
     DEF FreezeStands, Commands, Guarded, AboutToMint
<1>11. ASSUME FreezeDrift
      PROVE  AboutToMint'
  BY <1>1, <1>2, <1>11, AtEffect
     DEF FreezeDrift, Places, Commands, Guarded, AboutToMint
<1>12. ASSUME FreezeFirst
      PROVE  AboutToMint'
  <2>1. ~Frozen /\ UNCHANGED <<tree, log>> /\ drv'.sha = tree.head
    BY <1>1, <1>12, ToMintEffect DEF FreezeFirst
  <2>2. tree.head \in Commits /\ tree.head <= tree.head
    BY <1>1, Bounds DEF Typed, TreeTypes, Commits
  <2>3. QED
    BY <2>1, <2>2, SameCandidate DEF AboutToMint
<1>13. ASSUME FreezeRewalk
      PROVE  AboutToMint'
  <2>1. Drifted /\ RewalkAllowed /\ drv'.sha = tree.head
    BY <1>1, <1>13, ToMintEffect DEF FreezeRewalk
  <2>2. RoundOf(Candidate) = Len(log.rounds) /\ Len(log.rounds) \in Nat
    <3>1. Typed /\ CandidatesInOrder /\ ChainLinked /\ RoundsInOrder /\ Frozen
      BY <1>13, RewalkHistory DEF IInv
    <3>2. RoundOf(Candidate) = Len(log.rounds)
      BY <3>1, RoundOfCandidate
    <3>3. QED
      BY <3>1, <3>2 DEF Typed, LogTypes
  <2>3. tree.trailer[tree.head] = Len(log.rounds) /\ Len(log.rounds) > 0
    BY <2>1, <2>2 DEF RewalkAllowed
  <2>4. tree.head \in Commits /\ tree.head \in Nat
    BY <1>1, Bounds DEF Typed, TreeTypes, Commits
  <2>5. Candidate < tree.head
    BY <2>1, <2>4, CandidateIsLast, Bounds DEF IInv, Drifted, Commits
  <2>6. tree' = tree /\ log'.rounds = log.rounds /\ log'.staled = TRUE /\ Candidate' = Candidate
    BY <1>13, RewalkHistory
  <2>7. QED
    BY <2>1, <2>3, <2>4, <2>5, <2>6 DEF AboutToMint
<1>14. ASSUME Mint
      PROVE  AboutToMint'
  BY <1>1, <1>2, <1>14, HandEffect
     DEF Mint, Commands, Guarded, AboutToMint
<1>15. ASSUME JudgeReuse
      PROVE  AboutToMint'
  BY <1>1, <1>2, <1>15, HandEffect
     DEF JudgeReuse, Commands, Guarded, AboutToMint
<1>16. ASSUME JudgeRerun
      PROVE  AboutToMint'
  BY <1>1, <1>2, <1>16, AtEffect
     DEF JudgeRerun, Places, Commands, Guarded, AboutToMint
<1>17. ASSUME FullPasses
      PROVE  AboutToMint'
  BY <1>1, <1>2, <1>17, HandEffect
     DEF FullPasses, Commands, Guarded, AboutToMint
<1>18. ASSUME FullFails
      PROVE  AboutToMint'
  BY <1>1, <1>2, <1>18, StopEffect
     DEF FullFails, AboutToMint
<1>19. ASSUME ClosureExists
      PROVE  AboutToMint'
  BY <1>1, <1>2, <1>19, HandEffect
     DEF ClosureExists, Commands, Guarded, AboutToMint
<1>20. ASSUME ClosureDeclared
      PROVE  AboutToMint'
  BY <1>1, <1>2, <1>20, AtEffect
     DEF ClosureDeclared, Places, Commands, Guarded, AboutToMint
<1>21. ASSUME ClosureProduced
      PROVE  AboutToMint'
  BY <1>1, <1>2, <1>21, HandEffect
     DEF ClosureProduced, Commands, Guarded, AboutToMint
<1>22. ASSUME ClosureBlocked
      PROVE  AboutToMint'
  BY <1>1, <1>2, <1>22, StopEffect
     DEF ClosureBlocked, AboutToMint
<1>23. ASSUME GatesReused
      PROVE  AboutToMint'
  BY <1>1, <1>2, <1>23, HandEffect
     DEF GatesReused, Commands, Guarded, AboutToMint
<1>24. ASSUME GatesBegin
      PROVE  AboutToMint'
  BY <1>1, <1>2, <1>24, GatesBeginEffect
     DEF GatesBegin, AboutToMint
<1>25. ASSUME ContractInvalid
      PROVE  AboutToMint'
  BY <1>1, <1>2, <1>25, AtEffect
     DEF ContractInvalid, Places, Commands, Guarded, AboutToMint
<1>26. ASSUME GatePasses
      PROVE  AboutToMint'
  BY <1>1, <1>2, <1>26, AfterGateEffect DEF GatePasses, AboutToMint
<1>27. ASSUME GateFails
      PROVE  AboutToMint'
  BY <1>1, <1>2, <1>27, AfterGateEffect DEF GateFails, AboutToMint
<1>28. ASSUME GatesRefused
      PROVE  AboutToMint'
  BY <1>1, <1>2, <1>28, AtEffect
     DEF GatesRefused, Places, Commands, Guarded, AboutToMint
<1>29. ASSUME RepairRoute
      PROVE  AboutToMint'
  BY <1>29, RouteHistory DEF AboutToMint
<1>30. ASSUME CiRefused
      PROVE  AboutToMint'
  BY <1>1, <1>2, <1>30, StopEffect
     DEF CiRefused, AboutToMint
<1>31. ASSUME CiPending
      PROVE  AboutToMint'
  BY <1>1, <1>2, <1>31, AtEffect
     DEF CiPending, Places, Commands, Guarded, AboutToMint
<1>32. ASSUME CiPollsAgain
      PROVE  AboutToMint'
  BY <1>1, <1>2, <1>32, AtEffect
     DEF CiPollsAgain, Places, Commands, Guarded, AboutToMint
<1>33. ASSUME CiBound
      PROVE  AboutToMint'
  BY <1>1, <1>2, <1>33, HandEffect
     DEF CiBound, Commands, Guarded, AboutToMint
<1>34. ASSUME ReviewFails
      PROVE  AboutToMint'
  BY <1>1, <1>2, <1>34, StopEffect
     DEF ReviewFails, AboutToMint
<1>35. ASSUME ReviewRevises
      PROVE  AboutToMint'
  BY <1>1, <1>2, <1>35, StopEffect
     DEF ReviewRevises, AboutToMint
<1>36. ASSUME ReviewPasses
      PROVE  AboutToMint'
  BY <1>1, <1>2, <1>36, AtEffect
     DEF ReviewPasses, Places, Commands, Guarded, AboutToMint
<1>37. ASSUME ExitVerify
      PROVE  AboutToMint'
  BY <1>1, <1>2, <1>37, AtEffect
     DEF ExitVerify, Places, Commands, Guarded, AboutToMint
<1>38. ASSUME EnterSecurity
      PROVE  AboutToMint'
  BY <1>1, <1>2, <1>38, HandEffect
     DEF EnterSecurity, Commands, Guarded, AboutToMint
<1>39. ASSUME AssessFails
      PROVE  AboutToMint'
  BY <1>1, <1>2, <1>39, StopEffect
     DEF AssessFails, AboutToMint
<1>40. ASSUME AssessPasses
      PROVE  AboutToMint'
  BY <1>1, <1>2, <1>40, AtEffect
     DEF AssessPasses, Places, Commands, Guarded, AboutToMint
<1>41. ASSUME ExitSecurity
      PROVE  AboutToMint'
  BY <1>1, <1>2, <1>41, AtEffect
     DEF ExitSecurity, Places, Commands, Guarded, AboutToMint
<1>42. ASSUME EnterRelease
      PROVE  AboutToMint'
  BY <1>1, <1>2, <1>42, OffFields
     DEF EnterRelease, AboutToMint
<1>43. ASSUME Crash
      PROVE  AboutToMint'
  BY <1>1, <1>2, <1>43, OffFields
     DEF Crash, AboutToMint
<1>44. ASSUME Retry
      PROVE  AboutToMint'
  BY <1>1, <1>2, <1>44
     DEF Retry, HumanRetry, AboutToMint
<1>45. ASSUME RetryInWait
      PROVE  AboutToMint'
  BY <1>1, <1>2, <1>45, StopEffect
     DEF RetryInWait, HumanRetry, AboutToMint
<1>46. ASSUME Commit
      PROVE  AboutToMint'
  <2>1. UNCHANGED <<log, drv>> /\ tree'.head = tree.head + 1 /\ tree.head \in Nat
    BY <1>46, CommitHistory
  <2>2. \A c \in Commits : c <= tree.head => tree'.trailer[c] = tree.trailer[c] /\ c <= tree.head + 1
    BY <1>46, CommitHistory, Bounds DEF Commits
  <2>3. QED
    BY <1>1, <2>1, <2>2, SameCandidate DEF AboutToMint
<1>47. ASSUME Dirty
      PROVE  AboutToMint'
  BY <1>1, <1>47, EditEffect, SameCandidate DEF Dirty, AboutToMint
<1>48. ASSUME Clean
      PROVE  AboutToMint'
  BY <1>1, <1>48, EditEffect, SameCandidate DEF Clean, AboutToMint
<1>49. CASE UNCHANGED vars
  BY <1>1, <1>2, <1>49, SameCandidate DEF vars, AboutToMint
<1>50. QED
  BY <1>3, <1>4, <1>5, <1>6, <1>7, <1>8, <1>9, <1>10, <1>11, <1>12, <1>13,
     <1>14, <1>15, <1>16, <1>17, <1>18, <1>19, <1>20, <1>21, <1>22, <1>23,
     <1>24, <1>25, <1>26, <1>27, <1>28, <1>29, <1>30, <1>31, <1>32, <1>33,
     <1>34, <1>35, <1>36, <1>37, <1>38, <1>39, <1>40, <1>41, <1>42, <1>43,
     <1>44, <1>45, <1>46, <1>47, <1>48, <1>49
     DEF Next, Driver

\* The link of the chain at one candidate, with the rounds before it.
FixLink(frozen, pred, rounds, trailer, i) ==
    LET before == {frozen[j] : j \in 1..i - 1}
        earlier == {r \in DOMAIN rounds : rounds[r] \in before}
    IN  /\ pred[frozen[i]] = frozen[i - 1]
        /\ trailer[frozen[i]] \in earlier
        /\ \A r \in earlier : r <= trailer[frozen[i]]

\* The chain is its links.
LEMMA FixChainIs ==
    /\ FixChainUnbroken <=>
          \A i \in 2..Len(log.frozen) : FixLink(log.frozen, log.pred, log.rounds, tree.trailer, i)
    /\ FixChainUnbroken' <=>
          \A i \in 2..Len(log'.frozen) :
             FixLink(log'.frozen, log'.pred, log'.rounds, tree'.trailer, i)
BY DEF FixChainUnbroken, FixLink

\* A link stays when the candidates before it do, and the rounds opened for them.
LEMMA FixLinkKept ==
    ASSUME NEW frozen, NEW pred, NEW rounds, NEW trailer, NEW i \in Nat, i > 1,
           NEW frozen2, NEW pred2, NEW rounds2, NEW trailer2,
           FixLink(frozen, pred, rounds, trailer, i),
           \A j \in 1..i : frozen2[j] = frozen[j],
           pred2[frozen[i]] = pred[frozen[i]], trailer2[frozen[i]] = trailer[frozen[i]],
           DOMAIN rounds \subseteq DOMAIN rounds2,
           \A r \in DOMAIN rounds : rounds2[r] = rounds[r],
           \A r \in DOMAIN rounds2 \ DOMAIN rounds : \A j \in 1..i - 1 : rounds2[r] # frozen[j]
    PROVE  FixLink(frozen2, pred2, rounds2, trailer2, i)
<1> DEFINE before == {frozen[j] : j \in 1..i - 1}
           before2 == {frozen2[j] : j \in 1..i - 1}
           earlier == {r \in DOMAIN rounds : rounds[r] \in before}
           earlier2 == {r \in DOMAIN rounds2 : rounds2[r] \in before2}
<1>1. before2 = before
  <2>1. \A j \in 1..i - 1 : frozen2[j] = frozen[j]
    OBVIOUS
  <2>2. QED
    BY <2>1
<1>2. \A r \in DOMAIN rounds2 \ DOMAIN rounds : rounds2[r] \notin before
  OBVIOUS
<1>3. pred[frozen[i]] = frozen[i - 1] /\ trailer[frozen[i]] \in earlier
          /\ \A r \in earlier : r <= trailer[frozen[i]]
  BY DEF FixLink
<1>4. frozen2[i] = frozen[i] /\ frozen2[i - 1] = frozen[i - 1]
  OBVIOUS
<1> HIDE DEF before, before2
<1>5. earlier2 = earlier
  BY <1>1, <1>2
<1> HIDE DEF earlier, earlier2
<1>6. pred2[frozen2[i]] = frozen2[i - 1] /\ trailer2[frozen2[i]] \in earlier2
          /\ \A r \in earlier2 : r <= trailer2[frozen2[i]]
  BY <1>3, <1>4, <1>5
<1>7. QED
  BY <1>6 DEF FixLink, earlier2, before2

\* Every step keeps the fix chain unbroken.
LEMMA FixChainStep ==
    ASSUME IInv, [Next]_vars
    PROVE  FixChainUnbroken'
<1>1. /\ CandidatesInOrder
      /\ \A i \in DOMAIN log.frozen : log.frozen[i] \in Commits /\ log.frozen[i] <= tree.head
      /\ DOMAIN log.frozen = 1..Len(log.frozen) /\ Len(log.frozen) \in Nat
      /\ DOMAIN log.rounds = 1..Len(log.rounds) /\ Len(log.rounds) \in Nat
      /\ log.pred \in [Commits -> 0..MaxCommits] /\ log.frozen \in Seq(Commits)
      /\ log.rounds \in Seq(Commits)
  BY DEF IInv, Typed, LogTypes, CandidatesInOrder
<1>2. \A i \in 2..Len(log.frozen) : FixLink(log.frozen, log.pred, log.rounds, tree.trailer, i)
  BY FixChainIs DEF IInv
<1>3. CASE SameHistory
  BY <1>2, <1>3, FixChainIs DEF SameHistory
<1>4. CASE FreezeRewalk
  BY <1>2, <1>4, RewalkHistory, FixChainIs
<1>5. CASE Mint
  <2> DEFINE n == Len(log.frozen)
  <2>1. ASSUME NEW i \in 2..n
        PROVE  FixLink(log'.frozen, log'.pred, log'.rounds, tree'.trailer, i)
    <3>1. i \in DOMAIN log.frozen /\ i \in Nat /\ i > 1 /\ \A j \in 1..i : j \in DOMAIN log.frozen
      BY <1>1, <2>1
    <3>2. \A j \in 1..i : log'.frozen[j] = log.frozen[j]
      BY <1>5, <3>1, MintHistory
    <3>3. log.frozen[i] # drv.sha
      <4>1. log.frozen[i] < drv.sha
        BY <1>5, <3>1, MintHistory
      <4>2. log.frozen[i] \in Nat
        BY <3>1, RecordedNumbers DEF IInv
      <4>3. QED
        BY <4>1, <4>2
    <3>4. log'.pred[log.frozen[i]] = log.pred[log.frozen[i]]
      BY <1>1, <1>5, <3>1, <3>3, MintHistory
    <3>5. log'.rounds = log.rounds /\ tree' = tree
      BY <1>5, MintHistory
    <3>6. QED
      BY <1>2, <2>1, <3>1, <3>2, <3>4, <3>5, FixLinkKept
  <2>2. ASSUME n > 0
        PROVE  FixLink(log'.frozen, log'.pred, log'.rounds, tree'.trailer, n + 1)
    <3> DEFINE before == {log'.frozen[j] : j \in 1..n + 1 - 1}
               earlier == {r \in DOMAIN log'.rounds : log'.rounds[r] \in before}
    <3>1. Frozen /\ n \in DOMAIN log.frozen /\ n + 1 - 1 = n
      BY <1>1, <2>2 DEF Frozen
    <3>2. log'.frozen[n + 1] = drv.sha /\ log'.frozen[n + 1 - 1] = Candidate
      BY <1>1, <1>5, <3>1, MintHistory, CandidateIsLast DEF IInv
    <3>3. log'.pred[drv.sha] = Candidate
      BY <1>1, <1>5, MintHistory
    <3>4. tree'.trailer[drv.sha] = Len(log.rounds) /\ Len(log.rounds) > 0
              /\ log'.rounds = log.rounds
      BY <1>5, <3>1, MintHistory DEF Mint, IInv, AboutToMint
    <3>5. ASSUME NEW r \in DOMAIN log.rounds PROVE r \in earlier
      <4>1. PICK j \in DOMAIN log.frozen : log.rounds[r] = log.frozen[j]
        BY <3>5 DEF IInv, RoundsInOrder
      <4>2. j \in 1..n + 1 - 1 /\ log'.frozen[j] = log.frozen[j]
        BY <1>1, <1>5, <4>1, MintHistory
      <4>3. log.rounds[r] \in before
        BY <4>1, <4>2
      <4>4. QED
        BY <3>4, <4>3
    <3>6. /\ tree'.trailer[drv.sha] \in earlier
          /\ \A r \in earlier : r <= tree'.trailer[drv.sha]
      <4>1. Len(log.rounds) \in DOMAIN log.rounds
        BY <1>1, <3>4
      <4>2. Len(log.rounds) \in earlier
        BY <3>5, <4>1
      <4>3. \A r \in earlier : r \in 1..Len(log.rounds)
        BY <1>1, <3>4
      <4>4. QED
        BY <1>1, <3>4, <4>2, <4>3
    <3> HIDE DEF earlier, before
    <3>7. QED
      BY <3>2, <3>3, <3>6 DEF FixLink, earlier, before
  <2>3. Len(log'.frozen) = n + 1
    BY <1>1, <1>5, MintHistory
  <2>4. \A i \in 2..n + 1 : i \in 2..n \/ (i = n + 1 /\ n > 0)
    BY <1>1
  <2>5. QED
    BY <2>1, <2>2, <2>3, <2>4, FixChainIs
<1>6. CASE RepairRoute
  <2>1. CASE log'.rounds = log.rounds
    BY <1>2, <1>6, <2>1, RouteHistory, FixChainIs
  <2>2. CASE log'.rounds = Append(log.rounds, Candidate)
    <3>1. Candidate \in Commits /\ Frozen
      BY <1>6, RouteHistory
    <3>2. /\ DOMAIN log'.rounds = 1..Len(log.rounds) + 1
          /\ \A r \in DOMAIN log.rounds : log'.rounds[r] = log.rounds[r]
          /\ log'.rounds[Len(log.rounds) + 1] = Candidate
      BY <1>1, <2>2, <3>1
    <3>3. ASSUME NEW i \in 2..Len(log.frozen), NEW j \in 1..i - 1
          PROVE  log.frozen[j] # Candidate
      <4>1. j \in DOMAIN log.frozen /\ Len(log.frozen) \in DOMAIN log.frozen /\ j < Len(log.frozen)
        BY <1>1, <3>3
      <4>2. log.frozen[j] < log.frozen[Len(log.frozen)]
        BY <1>1, <4>1 DEF CandidatesInOrder
      <4>3. log.frozen[j] \in Nat
        BY <4>1, RecordedNumbers DEF IInv
      <4>4. Candidate = log.frozen[Len(log.frozen)]
        BY <3>1 DEF Candidate
      <4>5. QED
        BY <4>2, <4>3, <4>4
    <3>4. /\ DOMAIN log.rounds \subseteq DOMAIN log'.rounds
          /\ \A r \in DOMAIN log'.rounds \ DOMAIN log.rounds : log'.rounds[r] = Candidate
      BY <1>1, <3>2
    <3>5. ASSUME NEW i \in 2..Len(log.frozen)
          PROVE  FixLink(log.frozen, log.pred, log'.rounds, tree.trailer, i)
      <4>1. i \in Nat /\ i > 1
        BY <1>1, <3>5
      <4>2. FixLink(log.frozen, log.pred, log.rounds, tree.trailer, i)
        BY <1>2, <3>5
      <4>3. \A r \in DOMAIN log'.rounds \ DOMAIN log.rounds :
               \A j \in 1..i - 1 : log'.rounds[r] # log.frozen[j]
        BY <3>3, <3>4, <3>5
      <4>4. QED
        BY <3>2, <3>4, <4>1, <4>2, <4>3, FixLinkKept
    <3>6. QED
      BY <1>6, <3>5, RouteHistory, FixChainIs
  <2>3. QED
    BY <1>6, <2>1, <2>2, RouteHistory
<1>7. CASE Commit
  <2>1. log' = log /\ \A c \in Commits : c <= tree.head => tree'.trailer[c] = tree.trailer[c]
    BY <1>7, CommitHistory
  <2>2. ASSUME NEW i \in 2..Len(log.frozen)
        PROVE  FixLink(log.frozen, log.pred, log.rounds, tree'.trailer, i)
    <3>1. tree'.trailer[log.frozen[i]] = tree.trailer[log.frozen[i]]
      <4>1. i \in DOMAIN log.frozen
        BY <1>1, <2>2
      <4>2. QED
        BY <1>1, <2>1, <4>1
    <3>2. i \in Nat /\ i > 1
      BY <1>1, <2>2
    <3>3. QED
      BY <1>2, <2>2, <3>1, <3>2, FixLinkKept
  <2>3. QED
    BY <2>1, <2>2, FixChainIs
<1>8. QED
  BY <1>3, <1>4, <1>5, <1>6, <1>7, HistoryStep

-----------------------------------------------------------------------------
(* The theorems.                                                            *)

\* M-VERIFY is entered with no candidate and nothing ahead.
LEMMA InitHolds == Init => IInv
<1> SUFFICES ASSUME Init PROVE IInv
  OBVIOUS
<1>1. PICK full \in {[at |-> 0, is |-> "none"], [at |-> 1, is |-> "passed"]} :
          log = [frozen |-> <<>>, pred |-> [c \in Commits |-> 0], old |-> 0,
                 staled |-> FALSE, rounds |-> <<>>, issue |-> "none", full |-> full]
  BY DEF Init
<1>2. /\ tree = [head |-> 1, trailer |-> [c \in Commits |-> 0], dirty |-> FALSE]
      /\ s = [stage |-> "M-VERIFY", sub |-> "VERIFYING", exited |-> FALSE, pending |-> "none"]
      /\ ev = NoEvidence /\ attn = [a \in Areas |-> "none"] /\ drv = Off
      /\ left = [bad |-> MaxBad, crashes |-> MaxCrashes] /\ moved = FALSE
  BY DEF Init
<1>3. full \in FullTypes
  BY <1>1, Bounds DEF FullTypes
<1>4. log \in LogTypes /\ Len(log.rounds) = 0
  BY <1>1, <1>3, Bounds DEF LogTypes, Commits
<1>5. tree \in TreeTypes
  BY <1>2, Bounds DEF TreeTypes, Commits
<1>6. s \in StateTypes
  BY <1>2 DEF StateTypes
<1>7. ev \in EvidenceTypes
  BY <1>2, Bounds DEF NoEvidence, EvidenceTypes
<1>8. left \in [bad : 0..MaxBad, crashes : 0..MaxCrashes]
  BY <1>2, Bounds
<1>9. Typed
  <2>1. attn \in [Areas -> {"none", "open", "overtaken"}] /\ drv \in DriverTypes
            /\ moved \in BOOLEAN
    BY <1>2, OffFields
  <2>2. QED
    BY <1>4, <1>5, <1>6, <1>7, <1>8, <2>1, Bounds DEF Typed
<1>10. log.frozen = <<>> /\ log.rounds = <<>> /\ log.old = 0 /\ log.staled = FALSE
          /\ log.pred = [c \in Commits |-> 0]
  BY <1>1
<1>11. LinksPlaced /\ OnTheCandidate /\ EvidenceInOrder /\ ReplayAllowed /\ AboutToMint
  BY <1>2, OffFields
     DEF LinksPlaced, OnTheCandidate, EvidenceInOrder, ReplayAllowed,
     AboutToMint, Ahead, VerifyLinks, AfterFreeze, BeforeGates, ToGates
<1>12. CandidatesInOrder /\ ChainLinked /\ RoundsInOrder /\ FixChainUnbroken
  BY <1>10
     DEF CandidatesInOrder, ChainLinked, RoundsInOrder, FixChainUnbroken,
         Candidate, Frozen
<1>13. SecurityIsEarned
  BY <1>2 DEF SecurityIsEarned
<1>14. JudgedOnItsCommit
  BY <1>2 DEF JudgedOnItsCommit, NoEvidence
<1>15. QED
  BY <1>9, <1>11, <1>12, <1>13, <1>14 DEF IInv

\* What holds of the walk is kept by every step.
LEMMA IInvStep == IInv /\ [Next]_vars => IInv'
BY TypedStep, LinksStep, OnTheCandidateStep, EvidenceStep, ReplayStep,
   CandidatesStep, ChainStep,
   RoundsStep, MintStep, SecurityStep, JudgedStep, FixChainStep DEF IInv

\* It holds of every state of a walk.
THEOREM WalkInvariant == Spec => []IInv
BY InitHolds, IInvStep, PTL DEF Spec

\* TypeOK, for any bounds: in particular never more candidates frozen than there
\* are commits, nor more repair rounds than the budget allows.
THEOREM TypesHold == Spec => []TypeOK
<1>1. ASSUME IInv PROVE TypeOK
  <2>1. Typed /\ log \in LogTypes
    BY <1>1 DEF IInv, Typed
  <2>2. Len(log.frozen) <= MaxCommits
    <3>1. CASE log.frozen = <<>>
      BY <3>1, Bounds
    <3>2. CASE log.frozen # <<>>
      <4>1. /\ Len(log.frozen) \in DOMAIN log.frozen /\ Len(log.frozen) \in Nat
            /\ log.frozen[Len(log.frozen)] \in 1..MaxCommits
        BY <1>1, <3>2, CandidateIsLast DEF IInv, Frozen, Commits
      <4>2. QED
        BY <1>1, <4>1, Bounds DEF IInv, CandidatesInOrder
    <3>3. QED
      BY <3>1, <3>2
  <2>3. /\ log.frozen \in Seq(Commits) /\ log.rounds \in Seq(Commits)
        /\ log.pred \in [Commits -> 0..MaxCommits] /\ log.old \in 0..MaxCommits
        /\ log.staled \in BOOLEAN /\ log.issue \in {"none", "pending", "registered"}
        /\ log.full \in FullTypes
    BY <2>1 DEF LogTypes
  <2>4. QED
    BY <2>1, <2>2, <2>3
       DEF Typed, TypeOK, TreeTypes, StateTypes, FullTypes, EvidenceTypes,
       DriverTypes
<1>2. QED
  BY <1>1, WalkInvariant, PTL

\* What leaves M-VERIFY passed every gate, CI and the review as this candidate,
\* judged on its own commit, the last of an unbroken chain of fixes: for any
\* number of commits, gates, rounds, bad answers and dead drivers.
THEOREM SoundCandidates == Spec => []CandidateIsSound
<1>1. IInv => CandidateIsSound
  BY DEF IInv, CandidateIsSound
<1>2. QED
  BY <1>1, WalkInvariant, PTL

\* No replay of a stale link gets to run it.
LEMMA ReplayMovesOn ==
    ASSUME IInv, [Next]_vars, drv.replay, EvidenceMissing
    PROVE  drv'.at \notin {"full", "baseline", "gate"}
<1>1. Typed /\ drv.replay /\ EvidenceMissing /\ drv.at \notin BeforeGates
  BY DEF IInv, ReplayAllowed
<1>2. /\ drv.next \in Commands /\ s.pending \in Commands \cup {"none"}
      /\ drv.green \in BOOLEAN
  BY <1>1 DEF Typed, DriverTypes, StateTypes
<1>3. ASSUME Drive
      PROVE  drv'.at \notin {"full", "baseline", "gate"}
  BY <1>1, <1>2, <1>3, AtEffect
     DEF Drive, Places, Commands, Guarded, BeforeGates, ToGates
<1>4. ASSUME ParkStaleLink
      PROVE  drv'.at \notin {"full", "baseline", "gate"}
  BY <1>1, <1>2, <1>4, OffFields
     DEF ParkStaleLink, BeforeGates, ToGates
<1>5. ASSUME Recover
      PROVE  drv'.at \notin {"full", "baseline", "gate"}
  BY <1>1, <1>2, <1>5, RecoverEffect DEF Commands, Guarded
<1>6. ASSUME ResumeReleaseChain
      PROVE  drv'.at \notin {"full", "baseline", "gate"}
  BY <1>1, <1>6, ResumeEffect
<1>7. ASSUME Issue
      PROVE  drv'.at \notin {"full", "baseline", "gate"}
  BY <1>1, <1>2, <1>7, IssueEffect DEF Commands, Guarded
<1>8. ASSUME FreezeReplayed
      PROVE  drv'.at \notin {"full", "baseline", "gate"}
  BY <1>1, <1>2, <1>8, StopEffect
     DEF FreezeReplayed, BeforeGates, ToGates
<1>9. ASSUME FreezeDirty
      PROVE  drv'.at \notin {"full", "baseline", "gate"}
  BY <1>1, <1>2, <1>9, StopEffect
     DEF FreezeDirty, BeforeGates, ToGates
<1>10. ASSUME FreezeStands
      PROVE  drv'.at \notin {"full", "baseline", "gate"}
  BY <1>1, <1>2, <1>10, HandEffect
     DEF FreezeStands, Commands, Guarded, BeforeGates, ToGates
<1>11. ASSUME FreezeDrift
      PROVE  drv'.at \notin {"full", "baseline", "gate"}
  BY <1>1, <1>2, <1>11, AtEffect
     DEF FreezeDrift, Places, Commands, Guarded, BeforeGates, ToGates
<1>12. ASSUME FreezeFirst
      PROVE  drv'.at \notin {"full", "baseline", "gate"}
  BY <1>1, <1>2, <1>12, ToMintEffect
     DEF FreezeFirst, BeforeGates, ToGates
<1>13. ASSUME FreezeRewalk
      PROVE  drv'.at \notin {"full", "baseline", "gate"}
  BY <1>1, <1>2, <1>13, ToMintEffect
     DEF FreezeRewalk, BeforeGates, ToGates
<1>14. ASSUME Mint
      PROVE  drv'.at \notin {"full", "baseline", "gate"}
  BY <1>1, <1>2, <1>14, HandEffect
     DEF Mint, Commands, Guarded, BeforeGates, ToGates
<1>15. ASSUME JudgeReuse
      PROVE  drv'.at \notin {"full", "baseline", "gate"}
  BY <1>1, <1>2, <1>15, HandEffect
     DEF JudgeReuse, Commands, Guarded, BeforeGates, ToGates
<1>16. ASSUME JudgeRerun
      PROVE  drv'.at \notin {"full", "baseline", "gate"}
  BY <1>1, <1>2, <1>16, AtEffect
     DEF JudgeRerun, Places, Commands, Guarded, BeforeGates, ToGates
<1>17. ASSUME FullPasses
      PROVE  drv'.at \notin {"full", "baseline", "gate"}
  BY <1>1, <1>2, <1>17, HandEffect
     DEF FullPasses, Commands, Guarded, BeforeGates, ToGates
<1>18. ASSUME FullFails
      PROVE  drv'.at \notin {"full", "baseline", "gate"}
  BY <1>1, <1>2, <1>18, StopEffect
     DEF FullFails, BeforeGates, ToGates
<1>19. ASSUME ClosureExists
      PROVE  drv'.at \notin {"full", "baseline", "gate"}
  BY <1>1, <1>2, <1>19, HandEffect
     DEF ClosureExists, Commands, Guarded, BeforeGates, ToGates
<1>20. ASSUME ClosureDeclared
      PROVE  drv'.at \notin {"full", "baseline", "gate"}
  BY <1>1, <1>2, <1>20, AtEffect
     DEF ClosureDeclared, Places, Commands, Guarded, BeforeGates, ToGates
<1>21. ASSUME ClosureProduced
      PROVE  drv'.at \notin {"full", "baseline", "gate"}
  BY <1>1, <1>2, <1>21, HandEffect
     DEF ClosureProduced, Commands, Guarded, BeforeGates, ToGates
<1>22. ASSUME ClosureBlocked
      PROVE  drv'.at \notin {"full", "baseline", "gate"}
  BY <1>1, <1>2, <1>22, StopEffect
     DEF ClosureBlocked, BeforeGates, ToGates
<1>23. ASSUME GatesReused
      PROVE  drv'.at \notin {"full", "baseline", "gate"}
  BY <1>1, <1>2, <1>23, HandEffect
     DEF GatesReused, Commands, Guarded, BeforeGates, ToGates
<1>24. ASSUME GatesBegin
      PROVE  drv'.at \notin {"full", "baseline", "gate"}
  BY <1>1, <1>2, <1>24, GatesBeginEffect
     DEF GatesBegin, BeforeGates, ToGates
<1>25. ASSUME ContractInvalid
      PROVE  drv'.at \notin {"full", "baseline", "gate"}
  BY <1>1, <1>2, <1>25, AtEffect
     DEF ContractInvalid, Places, Commands, Guarded, BeforeGates, ToGates
<1>26. ASSUME GatePasses
      PROVE  drv'.at \notin {"full", "baseline", "gate"}
  BY <1>1, <1>2, <1>26, AfterGateEffect
     DEF GatePasses, BeforeGates, ToGates
<1>27. ASSUME GateFails
      PROVE  drv'.at \notin {"full", "baseline", "gate"}
  BY <1>1, <1>2, <1>27, AfterGateEffect
     DEF GateFails, BeforeGates, ToGates
<1>28. ASSUME GatesRefused
      PROVE  drv'.at \notin {"full", "baseline", "gate"}
  BY <1>1, <1>2, <1>28, AtEffect
     DEF GatesRefused, Places, Commands, Guarded, BeforeGates, ToGates
<1>29. ASSUME RepairRoute
      PROVE  drv'.at \notin {"full", "baseline", "gate"}
  BY <1>29, RouteHistory
<1>30. ASSUME CiRefused
      PROVE  drv'.at \notin {"full", "baseline", "gate"}
  BY <1>1, <1>2, <1>30, StopEffect
     DEF CiRefused, BeforeGates, ToGates
<1>31. ASSUME CiPending
      PROVE  drv'.at \notin {"full", "baseline", "gate"}
  BY <1>1, <1>2, <1>31, AtEffect
     DEF CiPending, Places, Commands, Guarded, BeforeGates, ToGates
<1>32. ASSUME CiPollsAgain
      PROVE  drv'.at \notin {"full", "baseline", "gate"}
  BY <1>1, <1>2, <1>32, AtEffect
     DEF CiPollsAgain, Places, Commands, Guarded, BeforeGates, ToGates
<1>33. ASSUME CiBound
      PROVE  drv'.at \notin {"full", "baseline", "gate"}
  BY <1>1, <1>2, <1>33, HandEffect
     DEF CiBound, Commands, Guarded, BeforeGates, ToGates
<1>34. ASSUME ReviewFails
      PROVE  drv'.at \notin {"full", "baseline", "gate"}
  BY <1>1, <1>2, <1>34, StopEffect
     DEF ReviewFails, BeforeGates, ToGates
<1>35. ASSUME ReviewRevises
      PROVE  drv'.at \notin {"full", "baseline", "gate"}
  BY <1>1, <1>2, <1>35, StopEffect
     DEF ReviewRevises, BeforeGates, ToGates
<1>36. ASSUME ReviewPasses
      PROVE  drv'.at \notin {"full", "baseline", "gate"}
  BY <1>1, <1>2, <1>36, AtEffect
     DEF ReviewPasses, Places, Commands, Guarded, BeforeGates, ToGates
<1>37. ASSUME ExitVerify
      PROVE  drv'.at \notin {"full", "baseline", "gate"}
  BY <1>1, <1>2, <1>37, AtEffect
     DEF ExitVerify, Places, Commands, Guarded, BeforeGates, ToGates
<1>38. ASSUME EnterSecurity
      PROVE  drv'.at \notin {"full", "baseline", "gate"}
  BY <1>1, <1>2, <1>38, HandEffect
     DEF EnterSecurity, Commands, Guarded, BeforeGates, ToGates
<1>39. ASSUME AssessFails
      PROVE  drv'.at \notin {"full", "baseline", "gate"}
  BY <1>1, <1>2, <1>39, StopEffect
     DEF AssessFails, BeforeGates, ToGates
<1>40. ASSUME AssessPasses
      PROVE  drv'.at \notin {"full", "baseline", "gate"}
  BY <1>1, <1>2, <1>40, AtEffect
     DEF AssessPasses, Places, Commands, Guarded, BeforeGates, ToGates
<1>41. ASSUME ExitSecurity
      PROVE  drv'.at \notin {"full", "baseline", "gate"}
  BY <1>1, <1>2, <1>41, AtEffect
     DEF ExitSecurity, Places, Commands, Guarded, BeforeGates, ToGates
<1>42. ASSUME EnterRelease
      PROVE  drv'.at \notin {"full", "baseline", "gate"}
  BY <1>1, <1>2, <1>42, OffFields
     DEF EnterRelease, BeforeGates, ToGates
<1>43. ASSUME Crash
      PROVE  drv'.at \notin {"full", "baseline", "gate"}
  BY <1>1, <1>2, <1>43, OffFields
     DEF Crash, BeforeGates, ToGates
<1>44. ASSUME Retry
      PROVE  drv'.at \notin {"full", "baseline", "gate"}
  BY <1>1, <1>2, <1>44
     DEF Retry, HumanRetry, BeforeGates, ToGates
<1>45. ASSUME RetryInWait
      PROVE  drv'.at \notin {"full", "baseline", "gate"}
  BY <1>1, <1>2, <1>45, StopEffect
     DEF RetryInWait, HumanRetry, BeforeGates, ToGates
<1>46. ASSUME Commit
      PROVE  drv'.at \notin {"full", "baseline", "gate"}
  BY <1>1, <1>2, <1>46
     DEF Commit, BeforeGates, ToGates
<1>47. ASSUME Dirty
      PROVE  drv'.at \notin {"full", "baseline", "gate"}
  BY <1>1, <1>2, <1>47
     DEF Dirty, BeforeGates, ToGates
<1>48. ASSUME Clean
      PROVE  drv'.at \notin {"full", "baseline", "gate"}
  BY <1>1, <1>2, <1>48
     DEF Clean, BeforeGates, ToGates
<1>49. CASE UNCHANGED vars
  BY <1>1, <1>2, <1>49 DEF vars, BeforeGates, ToGates
<1>50. QED
  BY <1>3, <1>4, <1>5, <1>6, <1>7, <1>8, <1>9, <1>10, <1>11, <1>12, <1>13,
     <1>14, <1>15, <1>16, <1>17, <1>18, <1>19, <1>20, <1>21, <1>22, <1>23,
     <1>24, <1>25, <1>26, <1>27, <1>28, <1>29, <1>30, <1>31, <1>32, <1>33,
     <1>34, <1>35, <1>36, <1>37, <1>38, <1>39, <1>40, <1>41, <1>42, <1>43,
     <1>44, <1>45, <1>46, <1>47, <1>48, <1>49
     DEF Next, Driver

\* The next drive never replays under the writer lock the FULL, closure or gate
\* link a dead driver left behind while the frozen HEAD has no gate evidence.
THEOREM StaleLinksStay == Spec => NoStaleReplay
<1>1. IInv /\ [Next]_vars =>
          [drv.replay /\ EvidenceMissing => drv'.at \notin {"full", "baseline", "gate"}]_vars
  BY ReplayMovesOn
<1>2. QED
  BY <1>1, WalkInvariant, PTL DEF Spec, NoStaleReplay
=============================================================================
