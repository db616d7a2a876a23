------------------------------- MODULE DocGap -------------------------------
(***************************************************************************)
(* The pause for a document gap (SM-02).  An author of M-TEST or M-IMPL    *)
(* whose turn opens a discussion in a design document is not judged: its   *)
(* record waits for Prism's adjudication, for a nested revision and review *)
(* when the design is at fault, and for the discussion to be resolved;     *)
(* then a new dispatch takes its place.  executor/doc_gap_runtime.py,      *)
(* doc_gap_face.py and doc_comment.py over kernel/machine_doc_gaps.py.     *)
(*                                                                         *)
(* The phases of the stage count from 1; phase 0 stands for the stages     *)
(* upstream, MaxPhase + 1 for what is left of this one.  A thread is named *)
(* by its place in the document, so the threads are a sequence.  A handler *)
(* that appends several events owes the later ones (`drv.owed'), and a     *)
(* crash loses them.                                                       *)
(*                                                                         *)
(* Whether the files an author left are held, restored or discarded is     *)
(* recorded and acted upon by nothing: RESTORED and DISCARDED are one      *)
(* state here.  Left out besides: what the agents write, the second        *)
(* document a discussion may lie in, the free retries of a broken machine, *)
(* and the steps between a human's return and its rollback.                *)
(***************************************************************************)
EXTENDS Naturals, FiniteSets, SequencesExt, FiniteSetsExt

CONSTANTS
    MaxPhase,       \* author phases of the stage
    AttemptLimit,   \* failed attempts before a human is asked
    NestedLimit,    \* nested revisions, and failed reviews, of one record
    MaxRecords,     \* bound: pauses of the run
    MaxMeddles,     \* bound: retries, spoilt markers, threads of others
    MaxCrashes      \* bound: deaths of the driver

ASSUME DocGapAssumption ==
    /\ {MaxPhase, AttemptLimit, NestedLimit, MaxRecords} \subseteq Nat \ {0}
    /\ {MaxMeddles, MaxCrashes} \subseteq Nat

VARIABLES
    s,          \* the projection of the run: where it is and what is in flight
    gaps,       \* State.doc_gaps, in the order the records were opened
    docs,       \* the threads of the design document, Prism's marker in each
    drv,        \* what the process holding the writer lock is doing
    damage,     \* history: a pause torn by a crash, or passed over by a human
    spent       \* bounds: meddles and crashes so far

vars == <<s, gaps, docs, drv, damage, spent>>

Records == 1..MaxRecords
Phases == 0..MaxPhase + 1
Routes == {"design_gap", "agent_correction"}
Waiting == {"DETECTED", "DESIGN_GAP", "AGENT_CORRECTION"}
Decisions == {"DECIDED", "RESUMED"}
Kinds == {"author", "revision", "review"}
NoCommand == [kind |-> "none", rec |-> 0, phase |-> 0]

Gap == [state : Waiting \cup Decisions, tid : 1..MaxRecords + MaxMeddles, origin : Phases,
        quarantined : BOOLEAN,
        revision : {"none", "archer_dispatched", "design_revised", "prism_dispatched",
                    "prism_reviewed", "design_failed"},
        designAttempts : 0..NestedLimit, reviewAttempts : 0..NestedLimit,
        nested : {"none", "unissued", "issued"}, next : {"none", "unissued", "issued"}]

Thread == [of : 0..MaxRecords, open : BOOLEAN]

SeqUpTo(q, n, S) == Len(q) <= n /\ \A i \in DOMAIN q : q[i] \in S

DocsOK(d) ==
    /\ SeqUpTo(d.threads, MaxRecords + MaxMeddles, Thread)
    /\ d.marker \in [Records -> Routes \cup {"none", "bad"}]

TypeOK ==
    /\ s \in [at : Phases, docDispatched : BOOLEAN, result : BOOLEAN,
              awaiting : {"none", "escalation"}, attempt : 0..AttemptLimit,
              pending : {NoCommand} \cup [kind : Kinds, rec : 0..MaxRecords, phase : Phases]]
    /\ SeqUpTo(gaps, MaxRecords, Gap)
    /\ DocsOK(docs) /\ DocsOK(drv.base)
    /\ drv.mode \in {"off", "loop", "append", "act"}
    /\ \A i \in DOMAIN drv.owed :
           drv.owed[i] \in [ev : {"quarantined", "resumed", "issue"}, cmd : Kinds, rec : Records]
    /\ (drv.mode = "append") = (drv.owed # <<>>)
    /\ damage \subseteq {"torn", "bypassed"}
    /\ spent \in [meddles : 0..MaxMeddles, crashes : 0..MaxCrashes]

NoDocs == [threads |-> <<>>, marker |-> [r \in Records |-> "none"]]
Off == [mode |-> "off", owed |-> <<>>, base |-> NoDocs]
Loop == [Off EXCEPT !.mode = "loop"]
Acting == [Off EXCEPT !.mode = "act"]

\* What is still to append; nothing more sends the driver back to its loop.
Owing(owed) == IF owed = <<>> THEN Loop ELSE [mode |-> "append", owed |-> owed, base |-> NoDocs]

Init ==
    /\ s = [at |-> 1, docDispatched |-> FALSE, result |-> FALSE, awaiting |-> "none",
            attempt |-> 0, pending |-> NoCommand]
    /\ gaps = <<>> /\ docs = NoDocs /\ drv = Off /\ damage = {}
    /\ spent = [meddles |-> 0, crashes |-> 0]
-----------------------------------------------------------------------------
(* The reducers.                                                           *)

Cleared == [s EXCEPT !.pending = NoCommand]

\* A failed or rejected author: the flag of the dispatch and one attempt.
OnFailed(t) ==
    [t EXCEPT !.docDispatched = FALSE,
              !.attempt = IF @ < AttemptLimit THEN @ + 1 ELSE @,
              !.awaiting = IF t.attempt + 1 >= AttemptLimit THEN "escalation" ELSE @]

NewGap(origin, tid) ==
    [state |-> "DETECTED", tid |-> tid, origin |-> origin, quarantined |-> FALSE,
     revision |-> "none", designAttempts |-> 0, reviewAttempts |-> 0,
     nested |-> "none", next |-> "none"]

OnDesignDispatched(g, kind) ==
    IF kind = "revision"
    THEN [g EXCEPT !.revision = "archer_dispatched", !.designAttempts = @ + 1,
                   !.nested = "unissued"]
    ELSE [g EXCEPT !.revision = "prism_dispatched", !.nested = "unissued"]

\* Mutant: a refused design is revised again without end.
RevisionAgainForEver(g) == [g EXCEPT !.revision = "none"]

RevisionAgain(g) ==
    [g EXCEPT !.revision = IF g.designAttempts < NestedLimit THEN "none" ELSE "design_failed"]

\* Mutant: a failed nested turn leaves the record at its dispatch.
OnDesignFailedParked(g, kind) ==
    IF kind = "review" THEN [g EXCEPT !.reviewAttempts = @ + 1] ELSE g

OnDesignFailed(g, kind) ==
    IF kind = "review"
    THEN [g EXCEPT !.reviewAttempts = @ + 1,
                   !.revision = IF g.reviewAttempts + 1 < NestedLimit THEN "design_revised"
                                ELSE "design_failed"]
    ELSE RevisionAgain(g)

OnDesignReviewed(g, verdict) ==
    IF verdict = "pass" THEN [g EXCEPT !.revision = "prism_reviewed"] ELSE RevisionAgain(g)
-----------------------------------------------------------------------------
(* What the documents say of a record, and whose turn it is in the loop.   *)

Active == s.awaiting = "none"
InStage == s.at # 0

OwnPlace(r) == CHOOSE i \in DOMAIN docs.threads : docs.threads[i].of = r
InPlace(r) == OwnPlace(r) = gaps[r].tid

\* match_adjudication_marker: the marker names this quarantine and lies in the
\* thread the record remembers.
Adjudicated(r) ==
    /\ gaps[r].state = "DETECTED" /\ gaps[r].quarantined
    /\ docs.marker[r] \in Routes /\ InPlace(r)

\* _threads_resolved_in_docs goes by the remembered place alone.
ResolvedInDocs(r) ==
    /\ gaps[r].tid \in DOMAIN docs.threads
    /\ ~docs.threads[gaps[r].tid].open

Designing == {r \in DOMAIN gaps : gaps[r].state = "DESIGN_GAP"}
First == Min(Designing)

\* Mutant: a nested dispatch the crash kept from the log is waited for.
NestedDueNoRecovery(g) == g.revision \in {"none", "design_revised"}

\* A record whose nested dispatch is announced and not in the log is due again.
NestedDue(g) ==
    \/ g.revision \in {"none", "design_revised"}
    \/ g.revision \in {"archer_dispatched", "prism_dispatched"} /\ g.nested # "issued"

Ready ==
    {r \in DOMAIN gaps :
        /\ \/ gaps[r].state = "AGENT_CORRECTION"
           \/ gaps[r].state = "DESIGN_GAP" /\ gaps[r].revision = "prism_reviewed"
        /\ ResolvedInDocs(r)}

\* Mutant: a decided record is dispatched without asking the log.
InterruptedUnchecked == {r \in DOMAIN gaps : gaps[r].state \in Decisions}

\* Decided records whose dispatch never reached the log.
Interrupted == {r \in DOMAIN gaps : gaps[r].state \in Decisions /\ gaps[r].next = "unissued"}

\* _sm02_pre_decide, then decide(): the first of these that is due.
Turn ==
    IF Active /\ \E r \in DOMAIN gaps : Adjudicated(r) THEN "ingest"
    ELSE IF Active /\ Designing # {} /\ NestedDue(gaps[First]) THEN "advance"
    ELSE IF Active /\ InStage /\ Ready # {} THEN "resume"
    ELSE IF Active /\ InStage /\ s.pending = NoCommand /\ Interrupted # {} THEN "reissue"
    ELSE IF s.result THEN "pipeline"
    ELSE IF Active /\ ~s.docDispatched /\ s.at <= MaxPhase THEN "dispatch"
    ELSE "halt"

Halted == drv.mode = "off" /\ s.pending = NoCommand /\ Turn = "halt"
-----------------------------------------------------------------------------
(* The loop.                                                               *)

Iterating(turn) == drv.mode = "loop" /\ Turn = turn

Ingest(r) ==
    /\ Iterating("ingest") /\ Adjudicated(r)
    /\ gaps' = [gaps EXCEPT ![r].state = IF docs.marker[r] = "design_gap" THEN "DESIGN_GAP"
                                         ELSE "AGENT_CORRECTION"]
    /\ UNCHANGED <<s, docs, drv, damage, spent>>

\* _advance_doc_gap_design_revision looks at the first design gap only; a
\* dispatch already announced is issued under its own id without a new event.
Advance ==
    /\ Iterating("advance")
    /\ LET g == gaps[First]
           kind == IF g.revision \in {"none", "archer_dispatched"} THEN "revision" ELSE "review"
       IN  /\ gaps' = IF g.nested = "unissued" THEN gaps
                      ELSE [gaps EXCEPT ![First] = OnDesignDispatched(g, kind)]
           /\ drv' = Owing(<<[ev |-> "issue", cmd |-> kind, rec |-> First]>>)
    /\ UNCHANGED <<s, docs, damage, spent>>

Successor(r) == [ev |-> "issue", cmd |-> "author", rec |-> r]
Resumed(r) == [ev |-> "resumed", cmd |-> "author", rec |-> r]

\* _resume_doc_gap_record: the decision, outcome.resumed and the dispatch.
Resume ==
    /\ Iterating("resume")
    /\ LET r == Min(Ready) IN
       /\ gaps' = [gaps EXCEPT ![r].state = "DECIDED", ![r].next = "unissued"]
       /\ drv' = Owing(<<Resumed(r), Successor(r)>>)
    /\ UNCHANGED <<s, docs, damage, spent>>

\* _resume_interrupted_dispatch.
Reissue ==
    /\ Iterating("reissue")
    /\ LET r == Min(Interrupted) IN
       drv' = Owing((IF gaps[r].state = "RESUMED" THEN <<>> ELSE <<Resumed(r)>>)
                        \o <<Successor(r)>>)
    /\ UNCHANGED <<s, gaps, docs, damage, spent>>

\* command.issued and the call of its handler, which reads the documents first.
Issued(kind, r, phase) ==
    /\ s' = [s EXCEPT !.pending = [kind |-> kind, rec |-> r, phase |-> phase],
                      !.docDispatched = TRUE]
    /\ drv' = [Acting EXCEPT !.base = IF kind = "author" THEN docs ELSE NoDocs]

Dispatch ==
    /\ Iterating("dispatch")
    /\ Issued("author", 0, s.at)
    /\ UNCHANGED <<gaps, docs, damage, spent>>

\* The pipeline of an ordinary result: it lands, or a check refuses it.
Land ==
    /\ Iterating("pipeline")
    /\ s' = [s EXCEPT !.result = FALSE, !.docDispatched = FALSE, !.attempt = 0,
                      !.at = IF @ <= MaxPhase THEN @ + 1 ELSE @]
    /\ UNCHANGED <<gaps, docs, drv, damage, spent>>

Refuse ==
    /\ Iterating("pipeline")
    /\ s' = OnFailed([s EXCEPT !.result = FALSE])
    /\ UNCHANGED <<gaps, docs, drv, damage, spent>>

Halt ==
    /\ Iterating("halt")
    /\ drv' = Off
    /\ UNCHANGED <<s, gaps, docs, damage, spent>>

\* The next event of a handler that appends several.
AppendOwed ==
    /\ drv.mode = "append"
    /\ LET e == Head(drv.owed) IN
       \/ /\ e.ev = "quarantined"
          /\ gaps' = [gaps EXCEPT ![e.rec].quarantined = TRUE]
          /\ drv' = Owing(Tail(drv.owed)) /\ UNCHANGED s
       \/ /\ e.ev = "resumed"
          /\ gaps' = [gaps EXCEPT ![e.rec].state = "RESUMED"]
          /\ drv' = Owing(Tail(drv.owed)) /\ UNCHANGED s
       \/ /\ e.ev = "issue" /\ e.cmd = "author"
          /\ gaps' = [gaps EXCEPT ![e.rec].next = "issued"]
          /\ Issued("author", e.rec, gaps[e.rec].origin)
       \/ /\ e.ev = "issue" /\ e.cmd # "author"
          /\ gaps' = [gaps EXCEPT ![e.rec].nested = "issued"]
          /\ Issued(e.cmd, e.rec, s.at)
    /\ UNCHANGED <<docs, damage, spent>>
-----------------------------------------------------------------------------
(* The outcome of a dispatch.                                              *)

Answering(kind) == drv.mode = "act" /\ s.pending.kind = kind

AuthorDone ==
    /\ Answering("author")
    /\ s' = [Cleared EXCEPT !.result = TRUE] /\ drv' = Loop
    /\ UNCHANGED <<gaps, docs, damage, spent>>

AuthorFails ==
    /\ Answering("author")
    /\ s' = OnFailed(Cleared) /\ drv' = Loop
    /\ UNCHANGED <<gaps, docs, damage, spent>>

\* legal_discussion: the pause.  The new thread may lie before older ones.
AuthorDiscusses ==
    /\ Answering("author") /\ s.pending.phase # 0 /\ Len(gaps) < MaxRecords
    /\ LET r == Len(gaps) + 1 IN
       \E i \in 1..Len(docs.threads) + 1 :
           /\ gaps' = Append(gaps, NewGap(s.pending.phase, i))
           /\ docs' = [docs EXCEPT !.threads = InsertAt(@, i, [of |-> r, open |-> TRUE])]
           /\ drv' = Owing(<<[ev |-> "quarantined", cmd |-> "author", rec |-> r]>>)
    /\ s' = Cleared
    /\ UNCHANGED <<damage, spent>>

\* illegal_body_edit: the documents get the bytes they had before the turn,
\* whoever wrote into them meanwhile.
AuthorOverReaches ==
    /\ Answering("author") /\ s.pending.phase # 0
    /\ docs' = drv.base
    /\ s' = OnFailed(Cleared) /\ drv' = Loop
    /\ UNCHANGED <<gaps, damage, spent>>

NestedEnds(g) ==
    /\ gaps' = [gaps EXCEPT ![s.pending.rec] = g]
    /\ s' = Cleared /\ drv' = Loop
    /\ UNCHANGED <<docs, damage, spent>>

Revise ==
    /\ Answering("revision")
    /\ NestedEnds([gaps[s.pending.rec] EXCEPT !.revision = "design_revised"])

NestedFails ==
    /\ Answering("revision") \/ Answering("review")
    /\ NestedEnds(OnDesignFailed(gaps[s.pending.rec], s.pending.kind))

Review ==
    /\ Answering("review")
    /\ \E verdict \in {"pass", "revise"} :
           NestedEnds(OnDesignReviewed(gaps[s.pending.rec], verdict))
-----------------------------------------------------------------------------
(* Starting and dying, the humans and Prism.                               *)

\* _recover runs a command left pending again, over the documents as they are.
Drive ==
    /\ drv.mode = "off" /\ ~Halted
    /\ drv' = CASE s.pending = NoCommand -> Loop
                [] s.pending.kind = "author" -> [Acting EXCEPT !.base = docs]
                [] OTHER -> Acting
    /\ UNCHANGED <<s, gaps, docs, damage, spent>>

Crash ==
    /\ drv.mode # "off" /\ spent.crashes < MaxCrashes
    /\ drv' = Off
    /\ damage' = IF drv.owed # <<>> /\ Head(drv.owed).ev = "quarantined"
                 THEN damage \cup {"torn"} ELSE damage
    /\ spent' = [spent EXCEPT !.crashes = @ + 1]
    /\ UNCHANGED <<s, gaps, docs>>

Meddle == spent.meddles < MaxMeddles /\ spent' = [spent EXCEPT !.meddles = @ + 1]

\* trac retry --clear-evidence, open at an escalation and on any active run.
Retry ==
    /\ drv.mode = "off"
    /\ s.docDispatched \/ s.pending # NoCommand \/ ~Active
    /\ Meddle
    /\ s' = [Cleared EXCEPT !.docDispatched = FALSE, !.awaiting = "none", !.attempt = 0]
    /\ damage' = IF \E r \in DOMAIN gaps : gaps[r].state \in Waiting
                 THEN damage \cup {"bypassed"} ELSE damage
    /\ UNCHANGED <<gaps, docs, drv>>

\* trac return and its rollback to a stage upstream; the records stay.
Return ==
    /\ drv.mode = "off" /\ ~Active /\ InStage
    /\ s' = [Cleared EXCEPT !.at = 0, !.docDispatched = FALSE, !.result = FALSE,
                            !.awaiting = "none", !.attempt = 0]
    /\ UNCHANGED <<gaps, docs, drv, damage, spent>>

\* Prism's reply in the thread.  It quotes the quarantine, which a torn pause
\* has none of, and the thread's number, which is wrong once the thread moved.
Adjudicate(r) ==
    /\ r \in DOMAIN gaps /\ gaps[r].state = "DETECTED" /\ gaps[r].quarantined /\ InPlace(r)
    /\ docs.marker[r] \notin Routes
    /\ \E route \in Routes : docs' = [docs EXCEPT !.marker[r] = route]
    /\ UNCHANGED <<s, gaps, drv, damage, spent>>

\* A marker no rule accepts: malformed, twice, or of the wrong role.
SpoilMarker(r) ==
    /\ r \in DOMAIN gaps /\ gaps[r].state = "DETECTED" /\ docs.marker[r] # "bad"
    /\ Meddle
    /\ docs' = [docs EXCEPT !.marker[r] = "bad"]
    /\ UNCHANGED <<s, gaps, drv, damage>>

\* Somebody resolves a thread.
ResolveThread(i) ==
    /\ i \in DOMAIN docs.threads /\ docs.threads[i].open
    /\ docs' = [docs EXCEPT !.threads[i].open = FALSE]
    /\ UNCHANGED <<s, gaps, drv, damage, spent>>

\* Anybody else opens a thread, before older ones or after them.
OpenThread ==
    /\ Meddle
    /\ \E i \in 1..Len(docs.threads) + 1 :
           docs' = [docs EXCEPT !.threads = InsertAt(@, i, [of |-> 0, open |-> TRUE])]
    /\ UNCHANGED <<s, gaps, drv, damage>>

Iterate ==
    \/ \E r \in DOMAIN gaps : Ingest(r)
    \/ Advance \/ Resume \/ Reissue \/ Land \/ Refuse \/ Dispatch \/ Halt

Driver ==
    \/ Iterate \/ AppendOwed
    \/ AuthorDone \/ AuthorFails \/ AuthorDiscusses \/ AuthorOverReaches
    \/ Revise \/ NestedFails \/ Review

Answer(r) == Adjudicate(r) \/ (r \in DOMAIN gaps /\ ResolveThread(OwnPlace(r)))

Next ==
    \/ Driver \/ Drive \/ Crash \/ Retry \/ Return \/ OpenThread
    \/ \E r \in Records : Adjudicate(r) \/ SpoilMarker(r)
    \/ \E i \in 1..MaxRecords + MaxMeddles : ResolveThread(i)

Spec == Init /\ [][Next]_vars

\* Drives keep coming and a driver that runs moves on; Prism and the owner of
\* a discussion answer.
FairSpec ==
    Spec /\ WF_vars(Driver) /\ WF_vars(Drive) /\ WF_vars(\E r \in Records : Answer(r))
-----------------------------------------------------------------------------
\* A run that stops of itself stops for somebody: for the human of an
\* escalation, for the marker or the discussion of a record it waits for, at a
\* design the nested agents gave up, or at the end of the phases.  Only a pause
\* torn by a crash, and what a human's retry passed over, stop it in silence
\* (_sm02_pre_decide before decide()).
AwaitsAnswer(r) ==
    \/ gaps[r].state = "DETECTED" /\ gaps[r].quarantined /\ ~Adjudicated(r)
    \/ gaps[r].state = "AGENT_CORRECTION" /\ ~ResolvedInDocs(r)
    \/ gaps[r].state = "DESIGN_GAP" /\ gaps[r].revision = "prism_reviewed" /\ ~ResolvedInDocs(r)

GaveUp(r) == gaps[r].state = "DESIGN_GAP" /\ gaps[r].revision = "design_failed"

HaltIsExplained ==
    Halted =>
        \/ ~Active \/ s.at > MaxPhase
        \/ \E r \in DOMAIN gaps :
               \/ AwaitsAnswer(r) \/ GaveUp(r)
               \/ "torn" \in damage /\ gaps[r].state = "DETECTED" /\ ~gaps[r].quarantined
        \/ "bypassed" \in damage

\* A record is decided only when its own discussion is resolved, or another
\* thread has taken its number, and after Prism passed the revision of a design
\* gap.  Whatever dies between the appends, its place is taken by one dispatch,
\* issued once, and at the phase the pause came from unless a human had moved
\* the run past it (_resume_doc_gap_if_ready, _resume_interrupted_dispatch).
Decides(r) == gaps[r].state \in Waiting /\ gaps'[r].state \in Decisions
Replaces(r) ==
    s'.pending # s.pending /\ s'.pending.kind = "author" /\ s'.pending.rec = r

ResumeIsSound ==
    [][\A r \in DOMAIN gaps :
          /\ Decides(r) =>
                /\ InPlace(r) => ~docs.threads[OwnPlace(r)].open
                /\ gaps[r].state = "DESIGN_GAP" => gaps[r].revision = "prism_reviewed"
          /\ Replaces(r) =>
                /\ gaps[r].state = "RESUMED" /\ gaps[r].next = "unissued"
                /\ s.at = gaps[r].origin \/ "bypassed" \in damage]_vars

\* With drives and answers that keep coming, a pause ends: the successor of the
\* author is dispatched, or the nested agents gave the design up, or a human is
\* asked, whichever step of it a crash interrupts; unless the crash tore the
\* pause itself, a human passed over it, or its thread lost its number.
Ended(r) ==
    /\ r \in DOMAIN gaps
    /\ \/ gaps[r].state = "RESUMED" /\ gaps[r].next = "issued"
       \/ GaveUp(r) \/ ~InPlace(r)

PauseEnds ==
    \A r \in Records :
        (r \in DOMAIN gaps) ~> (~Active \/ damage # {} \/ Ended(r))
=============================================================================
