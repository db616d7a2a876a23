---------------------------- MODULE DocGapProofs ----------------------------
(***************************************************************************)
(* What DocGap guarantees for any number of phases, attempts, nested       *)
(* revisions, pauses, meddles and crashes: a run that halts has someone to *)
(* wait for, and a record is decided and replaced only as its discussion   *)
(* and its review allow, once, and where its author came from.             *)
(***************************************************************************)
EXTENDS DocGap, SequenceTheorems, WellFoundedInduction, TLAPS

(***************************************************************************)
(* The types, the fields of the driver included, and how long a document   *)
(* grows: a thread is opened by a pause or by somebody else's meddling.    *)
(***************************************************************************)
States ==
    [at : Phases, docDispatched : BOOLEAN, result : BOOLEAN,
     awaiting : {"none", "escalation"}, attempt : 0..AttemptLimit,
     pending : {NoCommand} \cup [kind : Kinds, rec : 0..MaxRecords, phase : Phases]]

Documents ==
    [threads : Seq(Thread), marker : [Records -> Routes \cup {"none", "bad"}]]

Budget == [meddles : 0..MaxMeddles, crashes : 0..MaxCrashes]

RoomFor(d) == Len(d.threads) <= Len(gaps) + spent.meddles

Typed ==
    /\ s \in States
    /\ gaps \in Seq(Gap) /\ Len(gaps) <= MaxRecords
    /\ docs \in Documents /\ RoomFor(docs)
    /\ drv.base \in Documents /\ RoomFor(drv.base)
    /\ drv.mode \in {"off", "loop", "append", "act"}
    /\ damage \subseteq {"torn", "bypassed"}
    /\ spent \in Budget

(***************************************************************************)
(* A record for itself.  The counters of the nested revisions have room    *)
(* whenever the next count is due; the two dispatch fields follow the      *)
(* state.                                                                  *)
(***************************************************************************)
GapSound(g) ==
    /\ g.origin # 0
    /\ g.revision = "none" => g.designAttempts < NestedLimit
    /\ g.revision # "design_failed" => g.reviewAttempts < NestedLimit
    /\ g.revision \in {"archer_dispatched", "prism_dispatched"} => g.nested # "none"
    /\ g.revision \in {"none", "design_revised"} => g.nested # "unissued"
    /\ g.state = "DETECTED" => g.revision = "none"
    /\ g.state \in Decisions => g.next # "none"
    /\ g.next = "issued" => g.state = "RESUMED"

GapsSound == \A r \in DOMAIN gaps : GapSound(gaps[r])

(***************************************************************************)
(* What the handler that appends still owes, and what it has appended.     *)
(***************************************************************************)
Dispatched(kind) == IF kind = "revision" THEN "archer_dispatched" ELSE "prism_dispatched"

Nested == {"revision", "review"}

OwesQuarantine(r) ==
    drv.owed = <<[ev |-> "quarantined", cmd |-> "author", rec |-> r]>>

OwesNested(r) ==
    \E kind \in Nested :
        /\ drv.owed = <<[ev |-> "issue", cmd |-> kind, rec |-> r]>>
        /\ gaps[r].state = "DESIGN_GAP" /\ gaps[r].revision = Dispatched(kind)
        /\ gaps[r].nested = "unissued"

OwesResumed(r) ==
    /\ drv.owed = <<Resumed(r), Successor(r)>>
    /\ gaps[r].state = "DECIDED" /\ gaps[r].next = "unissued"

OwesSuccessor(r) ==
    /\ drv.owed = <<Successor(r)>>
    /\ gaps[r].state = "RESUMED" /\ gaps[r].next = "unissued"

OwedFits ==
    /\ drv.mode = "append" <=> drv.owed # <<>>
    /\ drv.owed # <<>> =>
          \E r \in DOMAIN gaps :
              OwesQuarantine(r) \/ OwesNested(r) \/ OwesResumed(r) \/ OwesSuccessor(r)

(***************************************************************************)
(* The command in flight: none while the driver loops or appends, and a    *)
(* nested one belongs to a record that waits for it.                       *)
(***************************************************************************)
PendingFits ==
    /\ drv.mode \in {"loop", "append"} => s.pending = NoCommand
    /\ drv.mode = "act" => s.pending # NoCommand
    /\ s.pending.kind \in Nested =>
          /\ s.pending.rec \in DOMAIN gaps
          /\ gaps[s.pending.rec].state = "DESIGN_GAP"
          /\ gaps[s.pending.rec].revision = Dispatched(s.pending.kind)
          /\ gaps[s.pending.rec].nested = "issued"

(***************************************************************************)
(* A pause without its quarantine is being written or was torn.            *)
(***************************************************************************)
TornIsKnown ==
    \A r \in DOMAIN gaps :
        gaps[r].state = "DETECTED" /\ ~gaps[r].quarantined =>
            "torn" \in damage \/ OwesQuarantine(r)

(***************************************************************************)
(* One pause at a time, unless a human passed over one: the run stands     *)
(* where the unfinished record came from, its author is not dispatched     *)
(* again, and no result waits; an author in flight works on no pause.      *)
(***************************************************************************)
Unfinished(r) ==
    \/ gaps[r].state \in Waiting
    \/ gaps[r].state \in Decisions /\ gaps[r].next = "unissued"

Holds(r) ==
    /\ Active /\ ~s.result /\ s.at = gaps[r].origin
    /\ s.pending.kind \in Nested \cup {"none"}
    /\ gaps[r].state \in Waiting => s.docDispatched
    /\ \A q \in DOMAIN gaps : Unfinished(q) => q = r

OnePause ==
    "bypassed" \notin damage => \A r \in DOMAIN gaps : Unfinished(r) => Holds(r)

AuthorAtWork ==
    "bypassed" \notin damage /\ s.pending.kind = "author" =>
        Active /\ ~s.result /\ s.docDispatched /\ s.pending.phase = s.at

(***************************************************************************)
(* A nested dispatch in the log is the one in flight.                      *)
(***************************************************************************)
NestedInFlight ==
    "bypassed" \notin damage =>
        \A r \in DOMAIN gaps :
            /\ gaps[r].state = "DESIGN_GAP" /\ gaps[r].nested = "issued"
            /\ gaps[r].revision \in {"archer_dispatched", "prism_dispatched"}
            => s.pending.kind \in Nested

(***************************************************************************)
(* An author that is out, with no command in flight and no result to       *)
(* judge, waits for an unfinished record.                                  *)
(***************************************************************************)
WaitsForRecord ==
    "bypassed" \notin damage /\ Active /\ s.docDispatched /\ ~s.result
      /\ s.pending = NoCommand =>
        \E r \in DOMAIN gaps : Unfinished(r)

IInv ==
    /\ Typed
    /\ GapsSound
    /\ OwedFits
    /\ PendingFits
    /\ TornIsKnown
    /\ OnePause
    /\ AuthorAtWork
    /\ NestedInFlight
    /\ WaitsForRecord
-----------------------------------------------------------------------------
(***************************************************************************)
(* The order of the naturals is well-founded: a set of them with a member  *)
(* has a least one, which is what Min chooses.                             *)
(***************************************************************************)
LessNat == {p \in Nat \X Nat : p[1] < p[2]}

\* The first record of some is one of them.
LEMMA MinIsFirst ==
    ASSUME NEW T \in SUBSET Nat, T # {}
    PROVE  Min(T) \in T
<1>1. OpToRel(<, Nat) = LessNat
  BY Zenon DEF OpToRel, LessNat
<1>2. IsWellFoundedOn(LessNat, Nat)
  BY <1>1, NatLessThanWellFounded, Zenon
<1>3. PICK x \in T : \A y \in T : ~(<<y, x>> \in LessNat)
  BY <1>2, WFMin
<1>4. \A y \in T : ~(y < x)
  BY <1>3 DEF LessNat
<1>5. \A y \in T : x =< y
  BY <1>4
<1> QED
  BY <1>5 DEF Min

(***************************************************************************)
(* A record rewritten, and a record opened at the end.                     *)
(***************************************************************************)
LEMMA Rewritten ==
    ASSUME NEW q \in Seq(Gap), NEW r \in DOMAIN q, NEW g \in Gap
    PROVE  LET f == [q EXCEPT ![r] = g] IN
           /\ f \in Seq(Gap) /\ DOMAIN f = DOMAIN q /\ Len(f) = Len(q)
           /\ f[r] = g
           /\ \A i \in DOMAIN q : i # r => f[i] = q[i]
<1> DEFINE f == [q EXCEPT ![r] = g]
<1>1. DOMAIN f = DOMAIN q /\ f[r] = g /\ \A i \in DOMAIN q : i # r => f[i] = q[i]
  OBVIOUS
<1>2. \A i \in DOMAIN q : q[i] \in Gap
  OBVIOUS
<1>3. f \in [1..Len(q) -> Gap]
  BY <1>2
<1>4. f \in Seq(Gap) /\ Len(f) = Len(q)
  BY <1>3
<1> QED
  BY <1>1, <1>4

\* A record opened at the end.
LEMMA Opened ==
    ASSUME NEW q \in Seq(Gap), NEW g \in Gap
    PROVE  LET f == Append(q, g) IN
           /\ f \in Seq(Gap) /\ Len(f) = Len(q) + 1
           /\ DOMAIN f = DOMAIN q \cup {Len(q) + 1} /\ Len(q) + 1 \notin DOMAIN q
           /\ f[Len(q) + 1] = g
           /\ \A i \in DOMAIN q : f[i] = q[i]
<1> DEFINE f == Append(q, g)
<1>1. f \in Seq(Gap) /\ Len(f) = Len(q) + 1
  OBVIOUS
<1>2. DOMAIN f = 1..Len(f) /\ DOMAIN q = 1..Len(q) /\ Len(q) \in Nat
  BY <1>1
<1>3. DOMAIN f = DOMAIN q \cup {Len(q) + 1} /\ Len(q) + 1 \notin DOMAIN q
  BY <1>1, <1>2
<1>4. f[Len(q) + 1] = g /\ \A i \in DOMAIN q : f[i] = q[i]
  BY <1>2
<1> QED
  BY <1>1, <1>3, <1>4

(***************************************************************************)
(* A thread put before, between or after the others.                       *)
(***************************************************************************)
LEMMA ThreadInserted ==
    ASSUME NEW q \in Seq(Thread), NEW i \in 1..Len(q) + 1, NEW t \in Thread
    PROVE  InsertAt(q, i, t) \in Seq(Thread) /\ Len(InsertAt(q, i, t)) = Len(q) + 1
<1>1. Len(q) \in Nat
  OBVIOUS
<1>2. SubSeq(q, 1, i - 1) \in Seq(Thread) /\ Len(SubSeq(q, 1, i - 1)) = i - 1
  <2>1. \A j \in 1..i - 1 : q[j] \in Thread
    BY <1>1
  <2>2. i - 1 \in Nat
    BY <1>1
  <2> QED
    BY <1>1, <2>1, <2>2
<1>3. SubSeq(q, i, Len(q)) \in Seq(Thread) /\ Len(SubSeq(q, i, Len(q))) = Len(q) - i + 1
  <2>1. \A j \in i..Len(q) : q[j] \in Thread
    BY <1>1
  <2>2. Len(SubSeq(q, i, Len(q))) = Len(q) - i + 1
    <3>1. CASE i = Len(q) + 1
      BY <1>1, <3>1
    <3>2. CASE i # Len(q) + 1
      BY <1>1, <3>2
    <3> QED
      BY <3>1, <3>2
  <2>3. SubSeq(q, i, Len(q)) \in Seq(Thread)
    BY <1>1, <2>1
  <2> QED
    BY <2>2, <2>3
<1>4. <<t>> \in Seq(Thread) /\ Len(<<t>>) = 1
  OBVIOUS
<1>5. SubSeq(q, 1, i - 1) \o <<t>> \in Seq(Thread) /\ Len(SubSeq(q, 1, i - 1) \o <<t>>) = i
  BY <1>1, <1>2, <1>4
<1> DEFINE A == SubSeq(q, 1, i - 1) \o <<t>>
           B == SubSeq(q, i, Len(q))
<1>6. A \in Seq(Thread) /\ Len(A) = i /\ B \in Seq(Thread) /\ Len(B) = Len(q) - i + 1
  BY <1>3, <1>5
<1>7. InsertAt(q, i, t) = A \o B
  BY DEF InsertAt
<1> HIDE DEF A, B
<1>8. A \o B \in Seq(Thread) /\ Len(A \o B) = Len(A) + Len(B)
  BY <1>6
<1> QED
  BY <1>1, <1>6, <1>7, <1>8

(***************************************************************************)
(* The bounds are numbers.                                                 *)
(***************************************************************************)
LEMMA Bounds ==
    /\ MaxPhase \in Nat /\ MaxPhase >= 1 /\ AttemptLimit \in Nat /\ AttemptLimit >= 1
    /\ NestedLimit \in Nat /\ NestedLimit >= 1 /\ MaxRecords \in Nat /\ MaxRecords >= 1
    /\ MaxMeddles \in Nat /\ MaxCrashes \in Nat
BY DocGapAssumption

(***************************************************************************)
(* The tuples a handler owes, and the driver they make.                    *)
(***************************************************************************)
LEMMA Tuples ==
    ASSUME NEW x, NEW y
    PROVE  /\ <<x>> # <<>> /\ Head(<<x>>) = x /\ Tail(<<x>>) = <<>>
           /\ <<x, y>> # <<>> /\ Head(<<x, y>>) = x /\ Tail(<<x, y>>) = <<y>>
           /\ <<x>> \o <<y>> = <<x, y>> /\ <<>> \o <<y>> = <<y>>
<1>1. <<x>> # <<>> /\ Head(<<x>>) = x /\ Tail(<<x>>) = <<>>
  OBVIOUS
<1>2. <<x, y>> # <<>> /\ Head(<<x, y>>) = x /\ Tail(<<x, y>>) = <<y>>
  OBVIOUS
<1>3. <<x>> \o <<y>> = <<x, y>> /\ <<>> \o <<y>> = <<y>>
  <2> DEFINE T == {x, y}
  <2>1. <<x>> \in Seq(T) /\ <<y>> \in Seq(T) /\ <<>> \in Seq(T) /\ <<x, y>> \in Seq(T)
        /\ Len(<<x>>) = 1 /\ Len(<<y>>) = 1 /\ Len(<<>>) = 0 /\ Len(<<x, y>>) = 2
    OBVIOUS
  <2> HIDE DEF T
  <2>2. <<x>> \o <<y>> \in Seq(T) /\ Len(<<x>> \o <<y>>) = 2
        /\ (<<x>> \o <<y>>)[1] = x /\ (<<x>> \o <<y>>)[2] = y
    BY <2>1
  <2>3. <<>> \o <<y>> \in Seq(T) /\ Len(<<>> \o <<y>>) = 1 /\ (<<>> \o <<y>>)[1] = y
    BY <2>1
  <2>4. <<x>> \o <<y>> = <<x, y>>
    <3>1. \A j \in 1..Len(<<x, y>>) : (<<x>> \o <<y>>)[j] = <<x, y>>[j]
      BY <2>1, <2>2
    <3> QED
      BY <2>1, <2>2, <3>1, SeqEqual
  <2>5. <<>> \o <<y>> = <<y>>
    BY <2>1, <2>3
  <2> QED
    BY <2>4, <2>5
<1> QED
  BY <1>1, <1>2, <1>3

\* The documents of a driver that has read none.
LEMMA NoDocuments ==
    NoDocs \in Documents /\ Len(NoDocs.threads) = 0
<1>1. [r \in Records |-> "none"] \in [Records -> Routes \cup {"none", "bad"}]
  OBVIOUS
<1>2. <<>> \in Seq(Thread) /\ Len(<<>>) = 0
  OBVIOUS
<1> QED
  BY <1>1, <1>2 DEF NoDocs, Documents

\* The driver off, in its loop, and at work over documents it has read.
LEMMA Drivers ==
    /\ Off.mode = "off" /\ Off.owed = <<>> /\ Off.base = NoDocs
    /\ Loop.mode = "loop" /\ Loop.owed = <<>> /\ Loop.base = NoDocs
    /\ Acting.mode = "act" /\ Acting.owed = <<>> /\ Acting.base = NoDocs
    /\ \A d : LET a == [Acting EXCEPT !.base = d] IN
              a.mode = "act" /\ a.owed = <<>> /\ a.base = d
BY DEF Off, Loop, Acting

\* The driver that owes something, and the one that owes nothing more.
LEMMA Owes ==
    /\ Owing(<<>>) = Loop
    /\ \A o : o # <<>> =>
          Owing(o).mode = "append" /\ Owing(o).owed = o /\ Owing(o).base = NoDocs
BY DEF Owing

(***************************************************************************)
(* The base of a driver without one has room.                              *)
(***************************************************************************)
LEMMA RoomForNone ==
    ASSUME Typed PROVE RoomFor(NoDocs)
<1>1. Len(gaps) \in Nat /\ spent.meddles \in Nat
  BY Bounds DEF Typed, Budget
<1> QED
  BY <1>1, NoDocuments DEF RoomFor

(***************************************************************************)
(* Who writes into a document alone changes nothing else.                  *)
(***************************************************************************)
LEMMA DocsMoved ==
    ASSUME IInv, UNCHANGED <<s, gaps, drv, damage>>,
           docs' \in Documents, RoomFor(docs)',
           spent' \in Budget, spent'.meddles >= spent.meddles
    PROVE  IInv'
<1>1. Typed'
  <2>1. RoomFor(drv.base)'
    <3>1. Len(gaps) \in Nat /\ spent.meddles \in Nat /\ spent'.meddles \in Nat
          /\ Len(drv.base.threads) \in Nat
      BY Bounds DEF IInv, Typed, Budget, Documents
    <3> QED
      BY <3>1 DEF IInv, Typed, RoomFor
  <2> QED
    BY <2>1 DEF IInv, Typed
<1>2. GapsSound'
  BY DEF IInv, GapsSound
<1>3. OwedFits'
  BY DEF IInv, OwedFits, OwesQuarantine, OwesNested, OwesResumed, OwesSuccessor
<1>4. PendingFits'
  BY DEF IInv, PendingFits
<1>5. TornIsKnown'
  BY DEF IInv, TornIsKnown, OwesQuarantine
<1>6. OnePause'
  BY DEF IInv, OnePause, Unfinished, Holds, Active
<1>7. AuthorAtWork'
  BY DEF IInv, AuthorAtWork, Active
<1>8. NestedInFlight'
  BY DEF IInv, NestedInFlight
<1>9. WaitsForRecord'
  BY DEF IInv, WaitsForRecord, Unfinished, Active
<1> QED
  BY <1>1, <1>2, <1>3, <1>4, <1>5, <1>6, <1>7, <1>8, <1>9 DEF IInv

\* Prism replies.
LEMMA AdjudicateKeeps ==
    ASSUME IInv, NEW r, Adjudicate(r) PROVE IInv'
<1>1. PICK route \in Routes : docs' = [docs EXCEPT !.marker[r] = route]
  BY DEF Adjudicate
<1>2. docs \in Documents /\ docs' \in Documents /\ docs'.threads = docs.threads
  BY <1>1 DEF IInv, Typed, Documents
<1>3. UNCHANGED <<s, gaps, drv, damage, spent>>
  BY DEF Adjudicate
<1>4. spent' \in Budget /\ spent'.meddles >= spent.meddles
  BY <1>3, Bounds DEF IInv, Typed, Budget
<1>5. RoomFor(docs)'
  BY <1>2, <1>3 DEF RoomFor, IInv, Typed
<1> QED
  BY <1>2, <1>3, <1>4, <1>5, DocsMoved

\* A meddling is counted once.
LEMMA Meddled ==
    ASSUME Typed, Meddle
    PROVE  spent' \in Budget /\ spent'.meddles = spent.meddles + 1
<1>1. spent \in Budget /\ spent.meddles < MaxMeddles
      /\ spent' = [spent EXCEPT !.meddles = @ + 1]
  BY DEF Typed, Meddle
<1>2. spent.meddles + 1 \in 0..MaxMeddles
  BY <1>1, Bounds DEF Budget
<1>3. spent'.meddles = spent.meddles + 1
  BY <1>1 DEF Budget
<1>4. spent' \in Budget
  BY <1>1, <1>2 DEF Budget
<1> QED
  BY <1>3, <1>4

\* A marker no rule accepts.
LEMMA SpoilMarkerKeeps ==
    ASSUME IInv, NEW r, SpoilMarker(r) PROVE IInv'
<1>1. docs' = [docs EXCEPT !.marker[r] = "bad"] /\ Meddle
  BY DEF SpoilMarker
<1>2. docs \in Documents /\ docs' \in Documents /\ docs'.threads = docs.threads
  BY <1>1 DEF IInv, Typed, Documents
<1>3. UNCHANGED <<s, gaps, drv, damage>>
  BY DEF SpoilMarker
<1>4. spent' \in Budget /\ spent'.meddles = spent.meddles + 1
  BY <1>1, Meddled DEF IInv
<1>5. spent.meddles \in Nat /\ Len(gaps) \in Nat /\ Len(docs.threads) \in Nat
  BY Bounds DEF IInv, Typed, Budget, Documents
<1>6. Len(docs.threads) <= Len(gaps) + spent.meddles
  BY DEF RoomFor, IInv, Typed
<1>7. RoomFor(docs)' /\ spent'.meddles >= spent.meddles
  BY <1>2, <1>3, <1>4, <1>5, <1>6 DEF RoomFor
<1> QED
  BY <1>2, <1>3, <1>4, <1>7, DocsMoved

\* Somebody resolves a thread.
LEMMA ResolveThreadKeeps ==
    ASSUME IInv, NEW i, ResolveThread(i) PROVE IInv'
<1>1. i \in DOMAIN docs.threads /\ docs' = [docs EXCEPT !.threads[i].open = FALSE]
  BY DEF ResolveThread
<1> DEFINE q == [docs.threads EXCEPT ![i].open = FALSE]
<1>2. docs \in Documents /\ docs.threads \in Seq(Thread)
  BY DEF IInv, Typed, Documents
<1>3. q \in Seq(Thread) /\ Len(q) = Len(docs.threads)
  <2>1. \A j \in DOMAIN docs.threads : docs.threads[j] \in Thread
    BY <1>2
  <2>2. [docs.threads[i] EXCEPT !.open = FALSE] \in Thread
    BY <1>1, <2>1 DEF Thread
  <2>3. q \in [1..Len(docs.threads) -> Thread]
    BY <1>1, <1>2, <2>1, <2>2
  <2> QED
    BY <1>2, <2>3
<1>4. docs' = [docs EXCEPT !.threads = q]
  BY <1>1, <1>2 DEF Documents
<1>5. docs' \in Documents /\ docs'.threads = q
  <2> HIDE DEF q
  <2> QED
    BY <1>2, <1>3, <1>4 DEF Documents
<1>6. UNCHANGED <<s, gaps, drv, damage, spent>>
  BY DEF ResolveThread
<1>7. spent' \in Budget /\ spent'.meddles >= spent.meddles
  BY <1>6, Bounds DEF IInv, Typed, Budget
<1>8. RoomFor(docs)'
  <2> HIDE DEF q
  <2> QED
    BY <1>3, <1>5, <1>6 DEF RoomFor, IInv, Typed
<1> QED
  BY <1>5, <1>6, <1>7, <1>8, DocsMoved

\* Somebody opens a thread, and the older ones move.
LEMMA OpenThreadKeeps ==
    ASSUME IInv, OpenThread PROVE IInv'
<1> DEFINE t == [of |-> 0, open |-> TRUE]
<1>1. PICK i \in 1..Len(docs.threads) + 1 :
          docs' = [docs EXCEPT !.threads = InsertAt(@, i, t)]
  BY DEF OpenThread
<1>2. docs \in Documents /\ docs.threads \in Seq(Thread) /\ t \in Thread
  BY Bounds DEF IInv, Typed, Documents, Thread
<1>3. InsertAt(docs.threads, i, t) \in Seq(Thread)
      /\ Len(InsertAt(docs.threads, i, t)) = Len(docs.threads) + 1
  BY <1>2, ThreadInserted
<1>4. docs' \in Documents /\ docs'.threads = InsertAt(docs.threads, i, t)
  BY <1>1, <1>2, <1>3 DEF Documents
<1>5. UNCHANGED <<s, gaps, drv, damage>> /\ Meddle
  BY DEF OpenThread
<1>6. spent' \in Budget /\ spent'.meddles = spent.meddles + 1
      /\ spent.meddles \in Nat /\ Len(gaps) \in Nat /\ Len(docs.threads) \in Nat
  BY <1>2, <1>5, Meddled, Bounds DEF IInv, Typed, Budget
<1>7. RoomFor(docs)' /\ spent'.meddles >= spent.meddles
  BY <1>3, <1>4, <1>5, <1>6 DEF RoomFor, IInv, Typed
<1> QED
  BY <1>4, <1>5, <1>6, <1>7, DocsMoved

(***************************************************************************)
(* What each turn of the loop says of the state.                           *)
(***************************************************************************)
LEMMA Turns ==
    /\ Turn = "advance" => Active /\ Designing # {} /\ NestedDue(gaps[First])
    /\ Turn = "resume" => Active /\ InStage /\ Ready # {}
    /\ Turn = "reissue" => Active /\ InStage /\ Interrupted # {}
    /\ Turn = "pipeline" => s.result
    /\ Turn = "dispatch" =>
          /\ Active /\ ~s.docDispatched /\ ~s.result /\ s.at <= MaxPhase
          /\ ~(InStage /\ s.pending = NoCommand /\ Interrupted # {})
    /\ Turn = "halt" =>
          /\ ~(Active /\ \E r \in DOMAIN gaps : Adjudicated(r))
          /\ ~(Active /\ Designing # {} /\ NestedDue(gaps[First]))
          /\ ~(Active /\ InStage /\ Ready # {})
          /\ ~(Active /\ InStage /\ s.pending = NoCommand /\ Interrupted # {})
          /\ ~s.result
          /\ ~(Active /\ ~s.docDispatched /\ s.at <= MaxPhase)
<1> DEFINE g1 == Active /\ \E r \in DOMAIN gaps : Adjudicated(r)
           g2 == Active /\ Designing # {} /\ NestedDue(gaps[First])
           g3 == Active /\ InStage /\ Ready # {}
           g4 == Active /\ InStage /\ s.pending = NoCommand /\ Interrupted # {}
           g5 == s.result
           g6 == Active /\ ~s.docDispatched /\ s.at <= MaxPhase
<1>1. Turn = IF g1 THEN "ingest" ELSE IF g2 THEN "advance" ELSE IF g3 THEN "resume"
             ELSE IF g4 THEN "reissue" ELSE IF g5 THEN "pipeline"
             ELSE IF g6 THEN "dispatch" ELSE "halt"
  BY Zenon DEF Turn
<1> HIDE DEF g1, g2, g3, g4, g5, g6
<1>2. /\ Turn = "advance" => g2
      /\ Turn = "resume" => g3
      /\ Turn = "reissue" => g4
      /\ Turn = "pipeline" => g5
      /\ Turn = "dispatch" => g6 /\ ~g5 /\ ~g4
      /\ Turn = "halt" => ~g1 /\ ~g2 /\ ~g3 /\ ~g4 /\ ~g5 /\ ~g6
  BY <1>1
<1> QED
  BY <1>2, Zenon DEF g1, g2, g3, g4, g5, g6

(***************************************************************************)
(* The records are numbered, so the first of some of them is one of them.  *)
(***************************************************************************)
LEMMA Numbered ==
    ASSUME Typed
    PROVE  /\ DOMAIN gaps = 1..Len(gaps) /\ DOMAIN gaps \subseteq Nat
           /\ DOMAIN gaps \subseteq Records
           /\ \A r \in DOMAIN gaps : gaps[r] \in Gap
           /\ Designing # {} => First \in Designing
           /\ Ready # {} => Min(Ready) \in Ready
           /\ Interrupted # {} => Min(Interrupted) \in Interrupted
<1>1. gaps \in Seq(Gap) /\ Len(gaps) \in Nat /\ Len(gaps) <= MaxRecords
  BY DEF Typed
<1>2. DOMAIN gaps = 1..Len(gaps) /\ DOMAIN gaps \subseteq Nat
      /\ DOMAIN gaps \subseteq Records
  BY <1>1, Bounds DEF Records
<1>3. \A r \in DOMAIN gaps : gaps[r] \in Gap
  BY <1>1
<1>4. /\ Designing \in SUBSET Nat
      /\ Ready \in SUBSET Nat
      /\ Interrupted \in SUBSET Nat
  BY <1>2 DEF Designing, Ready, Interrupted
<1>5. Designing # {} => First \in Designing
  BY <1>4, MinIsFirst DEF First
<1>6. Ready # {} => Min(Ready) \in Ready
  BY <1>4, MinIsFirst
<1>7. Interrupted # {} => Min(Interrupted) \in Interrupted
  BY <1>4, MinIsFirst
<1> QED
  BY <1>2, <1>3, <1>5, <1>6, <1>7

(***************************************************************************)
(* The driver stops, starts, or dies: the run and its records stay.        *)
(***************************************************************************)
LEMMA HaltKeeps ==
    ASSUME IInv, Halt PROVE IInv'
<1>1. drv' = Off /\ UNCHANGED <<s, gaps, docs, damage, spent>>
      /\ drv.mode = "loop" /\ Turn = "halt"
  BY DEF Halt, Iterating
<1>2. drv'.mode = "off" /\ drv'.owed = <<>> /\ drv'.base = NoDocs
  BY <1>1, Drivers
<1>3. Typed'
  <2>1. RoomFor(drv.base)'
    BY <1>1, <1>2, RoomForNone DEF IInv, RoomFor
  <2> QED
    BY <1>1, <1>2, <2>1, NoDocuments DEF IInv, Typed, RoomFor
<1>4. GapsSound'
  BY <1>1 DEF IInv, GapsSound
<1>5. OwedFits'
  BY <1>2 DEF OwedFits
<1>6. PendingFits'
  BY <1>1, <1>2 DEF IInv, PendingFits
<1>7. TornIsKnown'
  <2>1. \A r \in DOMAIN gaps : ~OwesQuarantine(r)
    BY <1>1, Tuples DEF IInv, OwedFits, OwesQuarantine
  <2> QED
    BY <1>1, <2>1 DEF IInv, TornIsKnown
<1>8. OnePause'
  BY <1>1 DEF IInv, OnePause, Unfinished, Holds, Active
<1>9. AuthorAtWork'
  BY <1>1 DEF IInv, AuthorAtWork, Active
<1>10. NestedInFlight'
  BY <1>1 DEF IInv, NestedInFlight
<1>11. WaitsForRecord'
  BY <1>1 DEF IInv, WaitsForRecord, Unfinished, Active
<1> QED
  BY <1>3, <1>4, <1>5, <1>6, <1>7, <1>8, <1>9, <1>10, <1>11 DEF IInv

\* A crash loses what was owed; a quarantine lost is remembered as torn.
LEMMA CrashKeeps ==
    ASSUME IInv, Crash PROVE IInv'
<1>1. drv' = Off /\ UNCHANGED <<s, gaps, docs>> /\ spent.crashes < MaxCrashes
      /\ spent' = [spent EXCEPT !.crashes = @ + 1]
      /\ damage' = IF drv.owed # <<>> /\ Head(drv.owed).ev = "quarantined"
                   THEN damage \cup {"torn"} ELSE damage
  BY DEF Crash
<1>2. drv'.mode = "off" /\ drv'.owed = <<>> /\ drv'.base = NoDocs
  BY <1>1, Drivers
<1>3. damage' \subseteq {"torn", "bypassed"} /\ damage \subseteq damage'
      /\ ("bypassed" \in damage <=> "bypassed" \in damage')
  BY <1>1 DEF IInv, Typed
<1>4. spent' \in Budget /\ spent'.meddles = spent.meddles
  BY <1>1, Bounds DEF IInv, Typed, Budget
<1>5. Typed'
  <2>1. RoomFor(drv.base)'
    BY <1>1, <1>2, <1>4, RoomForNone DEF IInv, RoomFor
  <2> QED
    BY <1>1, <1>2, <1>3, <1>4, <2>1, NoDocuments DEF IInv, Typed, RoomFor
<1>6. GapsSound'
  BY <1>1 DEF IInv, GapsSound
<1>7. OwedFits'
  BY <1>2 DEF OwedFits
<1>8. PendingFits'
  BY <1>1, <1>2 DEF IInv, PendingFits
<1>9. TornIsKnown'
  <2>1. ASSUME NEW r \in DOMAIN gaps, OwesQuarantine(r) PROVE "torn" \in damage'
    <3>1. drv.owed # <<>> /\ Head(drv.owed).ev = "quarantined"
      BY <2>1, Tuples DEF OwesQuarantine
    <3> QED
      BY <1>1, <3>1
  <2> QED
    BY <1>1, <1>3, <2>1 DEF IInv, TornIsKnown
<1>10. OnePause'
  BY <1>1, <1>3 DEF IInv, OnePause, Unfinished, Holds, Active
<1>11. AuthorAtWork'
  BY <1>1, <1>3 DEF IInv, AuthorAtWork, Active
<1>12. NestedInFlight'
  BY <1>1, <1>3 DEF IInv, NestedInFlight
<1>13. WaitsForRecord'
  BY <1>1, <1>3 DEF IInv, WaitsForRecord, Unfinished, Active
<1> QED
  BY <1>5, <1>6, <1>7, <1>8, <1>9, <1>10, <1>11, <1>12, <1>13 DEF IInv

\* A drive runs the pending command again, or loops.
LEMMA DriveKeeps ==
    ASSUME IInv, Drive PROVE IInv'
<1>1. UNCHANGED <<s, gaps, docs, damage, spent>> /\ drv.mode = "off"
      /\ drv' = CASE s.pending = NoCommand -> Loop
                  [] s.pending.kind = "author" -> [Acting EXCEPT !.base = docs]
                  [] OTHER -> Acting
  BY DEF Drive
<1>2. /\ s.pending = NoCommand => drv' = Loop
      /\ s.pending # NoCommand => drv' \in {[Acting EXCEPT !.base = docs], Acting}
  BY <1>1 DEF NoCommand
<1>3. /\ drv'.owed = <<>> /\ drv'.base \in {docs, NoDocs}
      /\ drv'.mode = IF s.pending = NoCommand THEN "loop" ELSE "act"
  <2>1. CASE s.pending = NoCommand
    BY <1>2, <2>1, Drivers
  <2>2. CASE s.pending # NoCommand
    BY <1>2, <2>2, Drivers
  <2> QED
    BY <2>1, <2>2
<1>4. Typed'
  <2>1. RoomFor(drv.base)'
    BY <1>1, <1>3, RoomForNone DEF IInv, RoomFor, Typed
  <2> QED
    BY <1>1, <1>3, <2>1, NoDocuments DEF IInv, Typed, RoomFor
<1>5. GapsSound'
  BY <1>1 DEF IInv, GapsSound
<1>6. OwedFits'
  BY <1>3 DEF OwedFits
<1>7. PendingFits'
  BY <1>1, <1>3 DEF IInv, PendingFits
<1>8. TornIsKnown'
  <2>1. \A r \in DOMAIN gaps : ~OwesQuarantine(r)
    BY <1>1, Tuples DEF IInv, OwedFits, OwesQuarantine
  <2> QED
    BY <1>1, <2>1 DEF IInv, TornIsKnown
<1>9. OnePause'
  BY <1>1 DEF IInv, OnePause, Unfinished, Holds, Active
<1>10. AuthorAtWork'
  BY <1>1 DEF IInv, AuthorAtWork, Active
<1>11. NestedInFlight'
  BY <1>1 DEF IInv, NestedInFlight
<1>12. WaitsForRecord'
  BY <1>1 DEF IInv, WaitsForRecord, Unfinished, Active
<1> QED
  BY <1>4, <1>5, <1>6, <1>7, <1>8, <1>9, <1>10, <1>11, <1>12 DEF IInv

(***************************************************************************)
(* A step that moves the projection alone: the driver goes on with an      *)
(* empty hand, at most a document is written.                              *)
(***************************************************************************)
Steps(mode) ==
    /\ UNCHANGED <<gaps, damage, spent>>
    /\ s' \in States
    /\ docs' \in Documents /\ RoomFor(docs')
    /\ drv'.mode = mode /\ drv'.owed = <<>>
    /\ drv'.base \in Documents /\ RoomFor(drv'.base)
    /\ \A r \in DOMAIN gaps : ~OwesQuarantine(r)

\* What such a step keeps whatever it does to the projection.
LEMMA StepKeeps ==
    ASSUME IInv, NEW mode \in {"loop", "act"}, Steps(mode)
    PROVE  Typed' /\ GapsSound' /\ OwedFits' /\ TornIsKnown'
<1>1. Typed'
  BY DEF IInv, Typed, Steps, RoomFor
<1>2. GapsSound'
  BY DEF IInv, GapsSound, Steps
<1>3. OwedFits'
  BY DEF OwedFits, Steps
<1>4. TornIsKnown'
  BY DEF IInv, TornIsKnown, Steps
<1> QED
  BY <1>1, <1>2, <1>3, <1>4

\* Who does not append owes no quarantine.
LEMMA EmptyHand ==
    ASSUME OwedFits, drv.mode # "append"
    PROVE  \A r \in DOMAIN gaps : ~OwesQuarantine(r)
BY Tuples DEF OwedFits, OwesQuarantine

(***************************************************************************)
(* The fields of the projection.                                           *)
(***************************************************************************)
LEMMA StateFields ==
    ASSUME Typed
    PROVE  /\ s.at \in Phases /\ s.at \in Nat /\ s.docDispatched \in BOOLEAN /\ s.result \in BOOLEAN
           /\ s.attempt \in 0..AttemptLimit
           /\ s.pending = NoCommand \/ s.pending.kind \in Kinds
           /\ s.pending.kind = "none" <=> s.pending = NoCommand
           /\ s.pending.rec \in 0..MaxRecords /\ s.pending.phase \in Phases
<1>1. s \in States
  BY DEF Typed
<1>2. s.at \in Phases /\ s.docDispatched \in BOOLEAN /\ s.result \in BOOLEAN
      /\ s.attempt \in 0..AttemptLimit
      /\ s.pending \in {NoCommand} \cup [kind : Kinds, rec : 0..MaxRecords, phase : Phases]
  BY <1>1 DEF States
<1>3. s.at \in Nat
  BY <1>2, Bounds DEF Phases
<1>4. CASE s.pending = NoCommand
  BY <1>2, <1>3, <1>4, Bounds DEF NoCommand, Phases
<1>5. CASE s.pending \in [kind : Kinds, rec : 0..MaxRecords, phase : Phases]
  BY <1>2, <1>3, <1>5 DEF NoCommand, Kinds
<1> QED
  BY <1>2, <1>4, <1>5

\* A result lands: no pause is open over it.
LEMMA LandKeeps ==
    ASSUME IInv, Land PROVE IInv'
<1>1. /\ s' = [s EXCEPT !.result = FALSE, !.docDispatched = FALSE, !.attempt = 0,
                        !.at = IF @ <= MaxPhase THEN @ + 1 ELSE @]
      /\ UNCHANGED <<gaps, docs, drv, damage, spent>>
      /\ drv.mode = "loop" /\ s.result
  BY Turns DEF Land, Iterating
<1>2. s \in States /\ s.pending = NoCommand
  BY <1>1 DEF IInv, Typed, PendingFits
<1> DEFINE a == IF s.at <= MaxPhase THEN s.at + 1 ELSE s.at
<1>3. a \in Phases /\ 0 \in 0..AttemptLimit
  BY <1>2, Bounds DEF States, Phases
<1>4. s' \in States /\ ~s'.result /\ ~s'.docDispatched /\ s'.pending = NoCommand
      /\ s'.awaiting = s.awaiting
  <2>1. s' = [s EXCEPT !.result = FALSE, !.docDispatched = FALSE, !.attempt = 0, !.at = a]
    BY <1>1
  <2> HIDE DEF a
  <2>2. s' \in States
    BY <1>2, <1>3, <2>1, ZenonT(40) DEF States
  <2> QED
    BY <1>2, <2>1, <2>2 DEF States
<1>5. Steps("loop")
  BY <1>1, <1>4, EmptyHand DEF Steps, IInv, Typed, OwedFits
<1>6. PendingFits'
  BY <1>1, <1>4 DEF PendingFits, NoCommand, Nested
<1>7. \A r \in DOMAIN gaps : Unfinished(r) => "bypassed" \in damage
  BY <1>1 DEF IInv, OnePause, Holds
<1>8. OnePause'
  BY <1>1, <1>7 DEF OnePause, Unfinished
<1>9. AuthorAtWork'
  BY <1>4 DEF AuthorAtWork, NoCommand
<1>10. NestedInFlight'
  BY <1>1, <1>7 DEF NestedInFlight, Unfinished, Waiting
<1>11. WaitsForRecord'
  BY <1>4 DEF WaitsForRecord
<1> QED
  BY <1>5, <1>6, <1>8, <1>9, <1>10, <1>11, StepKeeps DEF IInv

(***************************************************************************)
(* A failed author costs one attempt, and the last one asks a human.       *)
(***************************************************************************)
LEMMA FailedIs ==
    ASSUME NEW t \in States
    PROVE  /\ OnFailed(t) \in States
           /\ ~OnFailed(t).docDispatched
           /\ OnFailed(t).at = t.at /\ OnFailed(t).result = t.result
           /\ OnFailed(t).pending = t.pending
<1>1. (IF t.attempt < AttemptLimit THEN t.attempt + 1 ELSE t.attempt) \in 0..AttemptLimit
  BY Bounds DEF States
<1>2. (IF t.attempt + 1 >= AttemptLimit THEN "escalation" ELSE t.awaiting)
        \in {"none", "escalation"}
  BY DEF States
<1>3. OnFailed(t) \in States
  BY <1>1, <1>2, ZenonT(40) DEF OnFailed, States
<1> QED
  BY <1>3 DEF OnFailed, States

\* A check refuses a result.
LEMMA RefuseKeeps ==
    ASSUME IInv, Refuse PROVE IInv'
<1>1. /\ s' = OnFailed([s EXCEPT !.result = FALSE])
      /\ UNCHANGED <<gaps, docs, drv, damage, spent>>
      /\ drv.mode = "loop" /\ s.result
  BY Turns DEF Refuse, Iterating
<1>2. s \in States /\ s.pending = NoCommand
  BY <1>1 DEF IInv, Typed, PendingFits
<1>3. /\ [s EXCEPT !.result = FALSE] \in States
      /\ [s EXCEPT !.result = FALSE].pending = s.pending
      /\ ~[s EXCEPT !.result = FALSE].result
  BY <1>2 DEF States
<1>4. s' \in States /\ ~s'.result /\ ~s'.docDispatched /\ s'.pending = NoCommand
  BY <1>1, <1>2, <1>3, FailedIs
<1>5. Steps("loop")
  BY <1>1, <1>4, EmptyHand DEF Steps, IInv, Typed, OwedFits
<1>6. PendingFits'
  BY <1>1, <1>4 DEF PendingFits, NoCommand, Nested
<1>7. \A r \in DOMAIN gaps : Unfinished(r) => "bypassed" \in damage
  BY <1>1 DEF IInv, OnePause, Holds
<1>8. OnePause'
  BY <1>1, <1>7 DEF OnePause, Unfinished
<1>9. AuthorAtWork'
  BY <1>4 DEF AuthorAtWork, NoCommand
<1>10. NestedInFlight'
  BY <1>1, <1>7 DEF NestedInFlight, Unfinished, Waiting
<1>11. WaitsForRecord'
  BY <1>4 DEF WaitsForRecord
<1> QED
  BY <1>5, <1>6, <1>8, <1>9, <1>10, <1>11, StepKeeps DEF IInv

(***************************************************************************)
(* An ordinary dispatch: no record is unfinished, or it would be its turn. *)
(***************************************************************************)
LEMMA DispatchKeeps ==
    ASSUME IInv, Dispatch PROVE IInv'
<1> DEFINE c == [kind |-> "author", rec |-> 0, phase |-> s.at]
<1>1. /\ s' = [s EXCEPT !.pending = c, !.docDispatched = TRUE]
      /\ drv' = [Acting EXCEPT !.base = docs]
      /\ UNCHANGED <<gaps, docs, damage, spent>>
      /\ drv.mode = "loop" /\ Active /\ ~s.docDispatched /\ ~s.result
      /\ ~(InStage /\ s.pending = NoCommand /\ Interrupted # {})
  BY Turns DEF Dispatch, Iterating, Issued
<1>2. s \in States /\ s.pending = NoCommand /\ s.at \in Phases
  BY <1>1 DEF IInv, Typed, PendingFits, States
<1>3. c \in [kind : Kinds, rec : 0..MaxRecords, phase : Phases]
  BY <1>2, Bounds DEF Kinds
<1>4. s' \in States /\ ~s'.result /\ s'.docDispatched /\ s'.pending = c
      /\ s'.awaiting = s.awaiting /\ s'.at = s.at
  <2> HIDE DEF c
  <2> QED
    BY <1>1, <1>2, <1>3 DEF States
<1>5. drv'.mode = "act" /\ drv'.owed = <<>> /\ drv'.base = docs
  BY <1>1, Drivers
<1>6. Steps("act")
  <2>1. \A r \in DOMAIN gaps : ~OwesQuarantine(r)
    BY <1>1, EmptyHand DEF IInv
  <2> QED
    BY <1>1, <1>4, <1>5, <2>1 DEF Steps, IInv, Typed
<1>7. PendingFits'
  BY <1>4, <1>5 DEF PendingFits, NoCommand, Nested
<1>8. \A r \in DOMAIN gaps : Unfinished(r) => "bypassed" \in damage
  <2> SUFFICES ASSUME NEW r \in DOMAIN gaps, Unfinished(r), "bypassed" \notin damage
               PROVE  FALSE
    OBVIOUS
  <2>1. Holds(r)
    BY DEF IInv, OnePause
  <2>2. gaps[r].state \in Decisions /\ gaps[r].next = "unissued"
    BY <1>1, <2>1 DEF Unfinished, Holds
  <2>3. InStage
    BY <2>1 DEF Holds, InStage, IInv, GapsSound, GapSound
  <2> QED
    BY <1>1, <1>2, <2>2, <2>3 DEF Interrupted
<1>9. OnePause'
  BY <1>1, <1>8 DEF OnePause, Unfinished
<1>10. AuthorAtWork'
  BY <1>1, <1>4 DEF AuthorAtWork, Active
<1>11. NestedInFlight'
  BY <1>1, <1>8 DEF NestedInFlight, Unfinished, Waiting
<1>12. WaitsForRecord'
  BY <1>4 DEF WaitsForRecord, NoCommand
<1> QED
  BY <1>6, <1>7, <1>9, <1>10, <1>11, <1>12, StepKeeps DEF IInv

(***************************************************************************)
(* The command ends: nothing is pending and everything else of the         *)
(* projection stays.                                                       *)
(***************************************************************************)
LEMMA ClearedIs ==
    ASSUME Typed
    PROVE  /\ Cleared \in States /\ Cleared.pending = NoCommand
           /\ Cleared.at = s.at /\ Cleared.docDispatched = s.docDispatched
           /\ Cleared.result = s.result /\ Cleared.awaiting = s.awaiting
<1>1. s \in States
  BY DEF Typed
<1>2. NoCommand \in {NoCommand} \cup [kind : Kinds, rec : 0..MaxRecords, phase : Phases]
  OBVIOUS
<1>3. Cleared \in States
  BY <1>1, <1>2, ZenonT(40) DEF Cleared, States
<1> QED
  BY <1>1, <1>3 DEF Cleared, States

(***************************************************************************)
(* An author works on no pause.                                            *)
(***************************************************************************)
LEMMA AuthorAlone ==
    ASSUME IInv, s.pending.kind = "author"
    PROVE  \A r \in DOMAIN gaps : Unfinished(r) => "bypassed" \in damage
BY DEF IInv, OnePause, Holds, Nested

\* The author hands in a result.
LEMMA AuthorDoneKeeps ==
    ASSUME IInv, AuthorDone PROVE IInv'
<1>1. /\ s' = [Cleared EXCEPT !.result = TRUE] /\ drv' = Loop
      /\ UNCHANGED <<gaps, docs, damage, spent>>
      /\ drv.mode = "act" /\ s.pending.kind = "author"
  BY DEF AuthorDone, Answering
<1>2. Cleared \in States
  BY ClearedIs DEF IInv
<1>3. s' \in States /\ s'.result /\ s'.pending = NoCommand
  <2>1. s' \in States
    BY <1>1, <1>2, ZenonT(40) DEF States
  <2>2. s'.result /\ s'.pending = Cleared.pending
    BY <1>1, <1>2 DEF States
  <2> QED
    BY <2>1, <2>2, ClearedIs DEF IInv
<1>4. Steps("loop")
  <2>1. \A r \in DOMAIN gaps : ~OwesQuarantine(r)
    BY <1>1, EmptyHand DEF IInv
  <2>2. drv'.mode = "loop" /\ drv'.owed = <<>> /\ drv'.base \in Documents /\ RoomFor(drv'.base)
    BY <1>1, Drivers, NoDocuments, RoomForNone DEF IInv
  <2> QED
    BY <1>1, <1>3, <2>1, <2>2 DEF Steps, IInv, Typed
<1>5. PendingFits'
  BY <1>1, <1>3, Drivers DEF PendingFits, NoCommand, Nested
<1>6. OnePause'
  BY <1>1, AuthorAlone DEF OnePause, Unfinished
<1>7. AuthorAtWork'
  BY <1>3 DEF AuthorAtWork, NoCommand
<1>8. NestedInFlight'
  BY <1>1, AuthorAlone DEF NestedInFlight, Unfinished, Waiting
<1>9. WaitsForRecord'
  BY <1>3 DEF WaitsForRecord
<1> QED
  BY <1>4, <1>5, <1>6, <1>7, <1>8, <1>9, StepKeeps DEF IInv

\* The author fails, and the documents are as they were or restored.
LEMMA AuthorFailed ==
    ASSUME IInv, drv.mode = "act", s.pending.kind = "author",
           s' = OnFailed(Cleared), drv' = Loop, UNCHANGED <<gaps, damage, spent>>,
           docs' \in Documents, RoomFor(docs')
    PROVE  IInv'
<1>1. Cleared \in States
  BY ClearedIs DEF IInv
<1>2. s' \in States /\ ~s'.docDispatched /\ s'.pending = NoCommand
  BY <1>1, ClearedIs, FailedIs DEF IInv
<1>3. Steps("loop")
  <2>1. \A r \in DOMAIN gaps : ~OwesQuarantine(r)
    BY EmptyHand DEF IInv
  <2>2. drv'.mode = "loop" /\ drv'.owed = <<>> /\ drv'.base \in Documents /\ RoomFor(drv'.base)
    BY Drivers, NoDocuments, RoomForNone DEF IInv
  <2> QED
    BY <1>2, <2>1, <2>2 DEF Steps, IInv, Typed
<1>4. PendingFits'
  BY <1>2, Drivers DEF PendingFits, NoCommand, Nested
<1>5. OnePause'
  BY AuthorAlone DEF OnePause, Unfinished
<1>6. AuthorAtWork'
  BY <1>2 DEF AuthorAtWork, NoCommand
<1>7. NestedInFlight'
  BY AuthorAlone DEF NestedInFlight, Unfinished, Waiting
<1>8. WaitsForRecord'
  BY <1>2 DEF WaitsForRecord
<1> QED
  BY <1>3, <1>4, <1>5, <1>6, <1>7, <1>8, StepKeeps DEF IInv

\* The author fails.
LEMMA AuthorFailsKeeps ==
    ASSUME IInv, AuthorFails PROVE IInv'
<1>1. docs' \in Documents /\ RoomFor(docs')
  BY DEF AuthorFails, IInv, Typed
<1> QED
  BY <1>1, AuthorFailed DEF AuthorFails, Answering

\* The author changed more than a discussion may.
LEMMA AuthorOverReachesKeeps ==
    ASSUME IInv, AuthorOverReaches PROVE IInv'
<1>1. docs' \in Documents /\ RoomFor(docs')
  BY DEF AuthorOverReaches, IInv, Typed
<1> QED
  BY <1>1, AuthorFailed DEF AuthorOverReaches, Answering

(***************************************************************************)
(* A human's retry over a waiting record is remembered; a decided one goes *)
(* on to its dispatch.                                                     *)
(***************************************************************************)
LEMMA RetryKeeps ==
    ASSUME IInv, Retry PROVE IInv'
<1>1. /\ s' = [Cleared EXCEPT !.docDispatched = FALSE, !.awaiting = "none", !.attempt = 0]
      /\ damage' = IF \E r \in DOMAIN gaps : gaps[r].state \in Waiting
                   THEN damage \cup {"bypassed"} ELSE damage
      /\ UNCHANGED <<gaps, docs, drv>> /\ drv.mode = "off" /\ Meddle
  BY DEF Retry
<1>2. Cleared \in States /\ 0 \in 0..AttemptLimit
  BY ClearedIs, Bounds DEF IInv
<1>3. s' \in States /\ s'.pending = NoCommand /\ ~s'.docDispatched /\ s'.awaiting = "none"
      /\ s'.at = s.at /\ s'.result = s.result
  <2>1. s' \in States
    BY <1>1, <1>2, ZenonT(40) DEF States
  <2>2. ~s'.docDispatched /\ s'.awaiting = "none" /\ s'.pending = Cleared.pending
        /\ s'.at = Cleared.at /\ s'.result = Cleared.result
    BY <1>1, <1>2 DEF States
  <2> QED
    BY <2>1, <2>2, ClearedIs DEF IInv
<1>4. /\ spent' \in Budget /\ spent'.meddles = spent.meddles + 1
      /\ spent.meddles \in Nat /\ Len(gaps) \in Nat
      /\ Len(docs.threads) \in Nat /\ Len(drv.base.threads) \in Nat
  <2>1. spent' \in Budget /\ spent'.meddles = spent.meddles + 1
    BY <1>1, Meddled DEF IInv
  <2>2. spent.meddles \in Nat
    BY Bounds DEF IInv, Typed, Budget
  <2>3. Len(gaps) \in Nat /\ Len(docs.threads) \in Nat /\ Len(drv.base.threads) \in Nat
    BY DEF IInv, Typed, Documents
  <2> QED
    BY <2>1, <2>2, <2>3
<1>5. damage' \subseteq {"torn", "bypassed"} /\ damage \subseteq damage'
      /\ ("bypassed" \notin damage' =>
            /\ "bypassed" \notin damage
            /\ \A r \in DOMAIN gaps : gaps[r].state \notin Waiting)
  BY <1>1 DEF IInv, Typed
<1>6. Typed'
  <2>1. /\ Len(docs.threads) <= Len(gaps) + spent.meddles
        /\ Len(drv.base.threads) <= Len(gaps) + spent.meddles
    BY DEF IInv, Typed, RoomFor
  <2>2. RoomFor(docs)' /\ RoomFor(drv.base)'
    BY <1>1, <1>4, <2>1 DEF RoomFor
  <2> QED
    BY <1>1, <1>3, <1>4, <1>5, <2>2 DEF IInv, Typed
<1>7. GapsSound'
  BY <1>1 DEF IInv, GapsSound
<1>8. OwedFits'
  BY <1>1
     DEF IInv, OwedFits, OwesQuarantine, OwesNested, OwesResumed, OwesSuccessor
<1>9. PendingFits'
  BY <1>1, <1>3 DEF PendingFits, NoCommand, Nested
<1>10. TornIsKnown'
  <2>1. \A r \in DOMAIN gaps : OwesQuarantine(r)' <=> OwesQuarantine(r)
    BY <1>1 DEF OwesQuarantine
  <2> QED
    BY <1>1, <1>5, <2>1 DEF IInv, TornIsKnown
<1>11. OnePause'
  <2> SUFFICES ASSUME "bypassed" \notin damage', NEW r \in DOMAIN gaps, Unfinished(r)'
               PROVE  Holds(r)'
    BY <1>1 DEF OnePause
  <2>1. Unfinished(r) /\ gaps[r].state \notin Waiting
    BY <1>1, <1>5 DEF Unfinished
  <2>2. Holds(r)
    BY <1>5, <2>1 DEF IInv, OnePause
  <2> QED
    BY <1>1, <1>3, <2>1, <2>2 DEF Holds, Active, NoCommand, Unfinished
<1>12. AuthorAtWork'
  BY <1>3 DEF AuthorAtWork, NoCommand
<1>13. NestedInFlight'
  BY <1>1, <1>5 DEF NestedInFlight, Waiting
<1>14. WaitsForRecord'
  BY <1>3 DEF WaitsForRecord
<1> QED
  BY <1>6, <1>7, <1>8, <1>9, <1>10, <1>11, <1>12, <1>13, <1>14 DEF IInv

\* A human returns the run upstream: only from an escalation, so over no pause.
LEMMA ReturnKeeps ==
    ASSUME IInv, Return PROVE IInv'
<1>1. /\ s' = [Cleared EXCEPT !.at = 0, !.docDispatched = FALSE, !.result = FALSE,
                              !.awaiting = "none", !.attempt = 0]
      /\ UNCHANGED <<gaps, docs, drv, damage, spent>> /\ drv.mode = "off" /\ ~Active
  BY DEF Return
<1>2. Cleared \in States /\ 0 \in 0..AttemptLimit /\ 0 \in Phases
  BY ClearedIs, Bounds DEF IInv, Phases
<1>3. s' \in States /\ s'.pending = NoCommand /\ ~s'.docDispatched
  <2>1. s' \in States
    BY <1>1, <1>2, ZenonT(40) DEF States
  <2>2. ~s'.docDispatched /\ s'.pending = Cleared.pending
    BY <1>1, <1>2 DEF States
  <2> QED
    BY <2>1, <2>2, ClearedIs DEF IInv
<1>4. \A r \in DOMAIN gaps : Unfinished(r) => "bypassed" \in damage
  BY <1>1 DEF IInv, OnePause, Holds
<1>5. Typed'
  BY <1>1, <1>3 DEF IInv, Typed, RoomFor
<1>6. GapsSound'
  BY <1>1 DEF IInv, GapsSound
<1>7. OwedFits'
  BY <1>1
     DEF IInv, OwedFits, OwesQuarantine, OwesNested, OwesResumed, OwesSuccessor
<1>8. PendingFits'
  BY <1>1, <1>3 DEF PendingFits, NoCommand, Nested
<1>9. TornIsKnown'
  BY <1>1 DEF IInv, TornIsKnown, OwesQuarantine
<1>10. OnePause'
  BY <1>1, <1>4 DEF OnePause, Unfinished
<1>11. AuthorAtWork'
  BY <1>3 DEF AuthorAtWork, NoCommand
<1>12. NestedInFlight'
  BY <1>1, <1>4 DEF NestedInFlight, Unfinished, Waiting
<1>13. WaitsForRecord'
  BY <1>3 DEF WaitsForRecord
<1> QED
  BY <1>5, <1>6, <1>7, <1>8, <1>9, <1>10, <1>11, <1>12, <1>13 DEF IInv

(***************************************************************************)
(* A step that rewrites one record.                                        *)
(***************************************************************************)
Rewrites(r, g) ==
    /\ r \in DOMAIN gaps
    /\ gaps' \in Seq(Gap) /\ Len(gaps') = Len(gaps) /\ DOMAIN gaps' = DOMAIN gaps
    /\ gaps'[r] = g
    /\ \A q \in DOMAIN gaps : q # r => gaps'[q] = gaps[q]

\* An EXCEPT at one record is such a step.
LEMMA RecordRewritten ==
    ASSUME Typed, NEW r \in DOMAIN gaps, NEW g \in Gap, gaps' = [gaps EXCEPT ![r] = g]
    PROVE  Rewrites(r, g)
BY Rewritten DEF Typed, Rewrites

\* The types survive it, and the soundness of the records when the new one is.
LEMMA RewriteKeeps ==
    ASSUME IInv, NEW r \in DOMAIN gaps, NEW g, Rewrites(r, g), GapSound(g),
           s' \in States, UNCHANGED <<docs, damage, spent>>,
           drv'.base \in Documents, RoomFor(drv'.base),
           drv'.mode \in {"off", "loop", "append", "act"}
    PROVE  Typed' /\ GapsSound'
<1>1. Typed'
  BY DEF IInv, Typed, Rewrites, RoomFor
<1>2. GapsSound'
  BY DEF IInv, GapsSound, Rewrites
<1> QED
  BY <1>1, <1>2

(***************************************************************************)
(* The fields of a record.                                                 *)
(***************************************************************************)
LEMMA GapFields ==
    ASSUME NEW g \in Gap
    PROVE  /\ g.state \in Waiting \cup Decisions /\ g.origin \in Phases
           /\ g.tid \in 1..MaxRecords + MaxMeddles /\ g.quarantined \in BOOLEAN
           /\ g.revision \in {"none", "archer_dispatched", "design_revised",
                              "prism_dispatched", "prism_reviewed", "design_failed"}
           /\ g.designAttempts \in 0..NestedLimit /\ g.reviewAttempts \in 0..NestedLimit
           /\ g.nested \in {"none", "unissued", "issued"}
           /\ g.next \in {"none", "unissued", "issued"}
BY DEF Gap

\* The driver that owes something is a driver.
LEMMA OwingFits ==
    ASSUME Typed, NEW o, o # <<>>, drv' = Owing(o), spent' = spent, Len(gaps) <= Len(gaps'),
           Len(gaps') \in Nat
    PROVE  /\ drv'.mode = "append" /\ drv'.owed = o /\ drv'.base \in Documents
           /\ RoomFor(drv.base)'
<1>1. drv'.mode = "append" /\ drv'.owed = o /\ drv'.base = NoDocs
  BY Owes
<1>2. spent.meddles \in Nat
  BY Bounds DEF Typed, Budget
<1> QED
  BY <1>1, <1>2, NoDocuments DEF RoomFor

(***************************************************************************)
(* Prism's marker is taken into the record.                                *)
(***************************************************************************)
LEMMA IngestKeeps ==
    ASSUME IInv, NEW r \in DOMAIN gaps, Ingest(r) PROVE IInv'
<1> DEFINE v == IF docs.marker[r] = "design_gap" THEN "DESIGN_GAP" ELSE "AGENT_CORRECTION"
           g == [gaps[r] EXCEPT !.state = v]
<1>1. gaps' = [gaps EXCEPT ![r].state = v] /\ UNCHANGED <<s, docs, drv, damage, spent>>
      /\ drv.mode = "loop" /\ gaps[r].state = "DETECTED"
  BY DEF Ingest, Adjudicated, Iterating
<1>2. gaps[r] \in Gap /\ r \in DOMAIN gaps /\ GapSound(gaps[r])
  BY Numbered DEF IInv, GapsSound
<1>3. v \in {"DESIGN_GAP", "AGENT_CORRECTION"}
  OBVIOUS
<1> HIDE DEF v
<1>4. g \in Gap /\ g.state = v /\ g.revision = "none" /\ g.next = gaps[r].next
      /\ g.origin = gaps[r].origin
  <2>1. v \in Waiting \cup Decisions
    BY <1>3 DEF Waiting
  <2>2. g \in Gap
    BY <1>2, <2>1, ZenonT(40) DEF Gap
  <2> QED
    BY <1>1, <1>2, <2>2 DEF Gap, GapSound
<1>5. GapSound(g)
  BY <1>1, <1>2, <1>3, <1>4 DEF GapSound, Decisions, Gap
<1>6. gaps' = [gaps EXCEPT ![r] = g]
  BY <1>1
<1> HIDE DEF g
<1>7. Rewrites(r, g)
  BY <1>2, <1>4, <1>6, RecordRewritten DEF IInv
<1>8. Typed' /\ GapsSound'
  <2>1. s' \in States /\ drv'.base \in Documents /\ RoomFor(drv'.base)
        /\ drv'.mode \in {"off", "loop", "append", "act"}
    BY <1>1 DEF IInv, Typed
  <2> QED
    BY <1>1, <1>2, <1>5, <1>7, <2>1, RewriteKeeps
<1>9. drv.owed = <<>>
  BY <1>1 DEF IInv, OwedFits
<1>10. OwedFits'
  BY <1>1, <1>9 DEF OwedFits, IInv
<1>11. PendingFits'
  <2>1. s.pending = NoCommand
    BY <1>1 DEF IInv, PendingFits
  <2> QED
    BY <1>1, <2>1 DEF PendingFits, NoCommand, Nested
<1>12. TornIsKnown'
  <2>1. \A q \in DOMAIN gaps : ~OwesQuarantine(q)
    BY <1>1, EmptyHand DEF IInv
  <2>2. gaps'[r].state # "DETECTED"
    BY <1>3, <1>4, <1>7 DEF Rewrites
  <2> QED
    BY <1>1, <1>7, <2>1, <2>2 DEF IInv, TornIsKnown, Rewrites
<1>13. \A q \in DOMAIN gaps : Unfinished(q)' <=> Unfinished(q)
  <2>1. Unfinished(r) /\ Unfinished(r)'
    BY <1>1, <1>3, <1>4, <1>7 DEF Unfinished, Waiting, Rewrites
  <2> QED
    BY <1>7, <2>1 DEF Rewrites, Unfinished
<1>14. OnePause'
  <2> SUFFICES ASSUME "bypassed" \notin damage, NEW q \in DOMAIN gaps, Unfinished(q)
               PROVE  Holds(q)'
    BY <1>1, <1>7, <1>13 DEF OnePause, Rewrites
  <2>1. Holds(q)
    BY DEF IInv, OnePause
  <2>2. gaps'[q].origin = gaps[q].origin
    BY <1>4, <1>7 DEF Rewrites
  <2>3. s.docDispatched
    <3>1. Unfinished(r)
      BY <1>1 DEF Unfinished, Waiting
    <3>2. Holds(r)
      BY <3>1 DEF IInv, OnePause
    <3> QED
      BY <1>1, <3>2 DEF Holds, Waiting
  <2>4. \A p \in DOMAIN gaps' : Unfinished(p)' => p = q
    BY <1>7, <1>13, <2>1 DEF Rewrites, Holds
  <2> QED
    BY <1>1, <2>1, <2>2, <2>3, <2>4 DEF Holds, Active
<1>15. AuthorAtWork'
  BY <1>1 DEF IInv, AuthorAtWork, Active
<1>16. NestedInFlight'
  BY <1>1, <1>4, <1>7 DEF IInv, NestedInFlight, Rewrites
<1>17. WaitsForRecord'
  BY <1>1, <1>7, <1>13 DEF IInv, WaitsForRecord, Active, Rewrites
<1> QED
  BY <1>8, <1>10, <1>11, <1>12, <1>14, <1>15, <1>16, <1>17 DEF IInv

(***************************************************************************)
(* The pause: the author's command ends and a record waits in its place.   *)
(***************************************************************************)
LEMMA AuthorDiscussesKeeps ==
    ASSUME IInv, AuthorDiscusses PROVE IInv'
<1>0. PICK r \in Nat : r = Len(gaps) + 1
  BY DEF IInv, Typed
<1> DEFINE t == [of |-> r, open |-> TRUE]
           o == <<[ev |-> "quarantined", cmd |-> "author", rec |-> r]>>
<1>1. PICK i \in 1..Len(docs.threads) + 1 :
          /\ gaps' = Append(gaps, NewGap(s.pending.phase, i))
          /\ docs' = [docs EXCEPT !.threads = InsertAt(@, i, t)]
          /\ drv' = Owing(o)
  BY <1>0 DEF AuthorDiscusses
<1>2. /\ drv.mode = "act" /\ s.pending.kind = "author"
      /\ s.pending.phase # 0 /\ Len(gaps) < MaxRecords
      /\ s' = Cleared /\ UNCHANGED <<damage, spent>>
  BY DEF AuthorDiscusses, Answering
<1> DEFINE g == NewGap(s.pending.phase, i)
<1>3. /\ gaps \in Seq(Gap) /\ Len(gaps) \in Nat /\ docs \in Documents
      /\ docs.threads \in Seq(Thread) /\ Len(docs.threads) \in Nat
      /\ spent.meddles \in 0..MaxMeddles /\ Len(docs.threads) <= Len(gaps) + spent.meddles
  BY DEF IInv, Typed, RoomFor, Documents, Budget
<1>4. r \in 1..MaxRecords /\ i \in 1..MaxRecords + MaxMeddles /\ s.pending.phase \in Phases
  BY <1>0, <1>2, <1>3, Bounds, StateFields DEF IInv
<1>5. g \in Gap
  <2>1. 0 \in 0..NestedLimit
    BY Bounds
  <2> QED
    BY <1>4, <2>1, ZenonT(40) DEF NewGap, Gap, Waiting
<1>6. GapSound(g)
  BY <1>2, Bounds DEF NewGap, GapSound, Decisions
<1>7. g.state = "DETECTED" /\ ~g.quarantined /\ g.origin = s.pending.phase /\ g.next = "none"
      /\ g.nested = "none"
  BY DEF NewGap
<1>8. t \in Thread
  BY <1>4, Bounds DEF Thread
<1>9. InsertAt(docs.threads, i, t) \in Seq(Thread)
      /\ Len(InsertAt(docs.threads, i, t)) = Len(docs.threads) + 1
  BY <1>3, <1>8, ThreadInserted
<1>10. docs' \in Documents /\ docs'.threads = InsertAt(docs.threads, i, t)
  <2> HIDE DEF t
  <2> QED
    BY <1>1, <1>3, <1>9 DEF Documents
<1> HIDE DEF g
<1>11. /\ gaps' \in Seq(Gap) /\ Len(gaps') = r
       /\ DOMAIN gaps' = DOMAIN gaps \cup {r} /\ r \notin DOMAIN gaps
       /\ gaps'[r] = g
       /\ \A q \in DOMAIN gaps : gaps'[q] = gaps[q]
  BY <1>0, <1>1, <1>3, <1>5, Opened DEF g
<1>12. drv'.mode = "append" /\ drv'.owed = o /\ drv'.base \in Documents
       /\ RoomFor(drv.base)'
  <2>1. o # <<>>
    BY Tuples
  <2>2. Len(gaps) <= Len(gaps') /\ Len(gaps') \in Nat
    BY <1>3, <1>11
  <2> HIDE DEF o
  <2> QED
    BY <1>1, <1>2, <2>1, <2>2, OwingFits DEF IInv
<1>13. s' \in States /\ s'.pending = NoCommand
       /\ s'.at = s.at /\ s'.docDispatched = s.docDispatched
       /\ s'.result = s.result /\ s'.awaiting = s.awaiting
  BY <1>2, ClearedIs DEF IInv
<1>14. Typed'
  <2>1. RoomFor(docs)'
    BY <1>0, <1>2, <1>3, <1>9, <1>10, <1>11 DEF RoomFor
  <2>2. RoomFor(drv.base)'
    BY <1>12 DEF RoomFor
  <2>3. Len(gaps') <= MaxRecords
    BY <1>4, <1>11
  <2> QED
    BY <1>2, <1>10, <1>11, <1>12, <1>13, <2>1, <2>2, <2>3 DEF IInv, Typed
<1>15. GapsSound'
  BY <1>6, <1>11 DEF IInv, GapsSound
<1>16. OwesQuarantine(r)' /\ r \in DOMAIN gaps'
  BY <1>11, <1>12 DEF OwesQuarantine
<1>17. OwedFits'
  <2>1. drv'.owed # <<>>
    BY <1>12, Tuples
  <2> QED
    BY <1>12, <1>16, <2>1 DEF OwedFits
<1>18. PendingFits'
  BY <1>12, <1>13 DEF PendingFits, NoCommand, Nested
<1>19. TornIsKnown'
  <2>1. \A q \in DOMAIN gaps : ~OwesQuarantine(q)
    BY <1>2, EmptyHand DEF IInv
  <2> QED
    BY <1>2, <1>11, <1>16, <2>1 DEF IInv, TornIsKnown
<1>20. \A q \in DOMAIN gaps : Unfinished(q)' <=> Unfinished(q)
  BY <1>11 DEF Unfinished
<1>21. Unfinished(r)'
  BY <1>7, <1>11 DEF Unfinished, Waiting
<1>22. OnePause'
  <2> SUFFICES ASSUME "bypassed" \notin damage, NEW q \in DOMAIN gaps', Unfinished(q)'
               PROVE  Holds(q)'
    BY <1>2 DEF OnePause
  <2>1. \A p \in DOMAIN gaps : ~Unfinished(p)
    BY <1>2, AuthorAlone
  <2>2. \A p \in DOMAIN gaps' : Unfinished(p)' => p = r
    BY <1>11, <1>20, <2>1
  <2>3. Active /\ ~s.result /\ s.docDispatched /\ s.pending.phase = s.at
    BY <1>2 DEF IInv, AuthorAtWork
  <2>4. gaps'[q].origin = s'.at
    BY <1>7, <1>11, <1>13, <2>2, <2>3
  <2> QED
    BY <1>13, <2>2, <2>3, <2>4 DEF Holds, Active, NoCommand
<1>23. AuthorAtWork'
  BY <1>13 DEF AuthorAtWork, NoCommand
<1>24. NestedInFlight'
  <2> SUFFICES ASSUME "bypassed" \notin damage, NEW q \in DOMAIN gaps',
                      gaps'[q].state = "DESIGN_GAP"
               PROVE  FALSE
    BY <1>2 DEF NestedInFlight
  <2>1. q \in DOMAIN gaps /\ Unfinished(q)
    BY <1>7, <1>11 DEF Unfinished, Waiting
  <2> QED
    BY <1>2, <2>1, AuthorAlone
<1>25. WaitsForRecord'
  BY <1>16, <1>21 DEF WaitsForRecord
<1> QED
  BY <1>14, <1>15, <1>17, <1>18, <1>19, <1>22, <1>23, <1>24, <1>25 DEF IInv

(***************************************************************************)
(* The loop announces a nested revision or review, or finds one announced  *)
(* whose dispatch is missing.                                              *)
(***************************************************************************)
LEMMA DispatchAnnounced ==
    ASSUME NEW g \in Gap, GapSound(g), g.state = "DESIGN_GAP", NEW kind \in Nested,
           g.revision = IF kind = "revision" THEN "none" ELSE "design_revised"
    PROVE  LET f == OnDesignDispatched(g, kind) IN
           /\ f \in Gap /\ GapSound(f)
           /\ f.state = g.state /\ f.next = g.next /\ f.origin = g.origin
           /\ f.revision = Dispatched(kind) /\ f.nested = "unissued"
<1>1. g.designAttempts \in 0..NestedLimit /\ g.next \in {"none", "unissued", "issued"}
      /\ g.reviewAttempts < NestedLimit
  BY GapFields DEF GapSound
<1>2. CASE kind = "revision"
  <2> DEFINE n == g.designAttempts + 1
  <2>1. n \in 0..NestedLimit
    BY <1>1, <1>2, Bounds DEF GapSound
  <2>2. OnDesignDispatched(g, kind) =
          [g EXCEPT !.revision = "archer_dispatched", !.designAttempts = n,
                    !.nested = "unissued"]
    BY <1>2 DEF OnDesignDispatched
  <2> HIDE DEF n
  <2>3. OnDesignDispatched(g, kind) \in Gap
    BY <2>1, <2>2, ZenonT(40) DEF Gap
  <2>4. LET f == OnDesignDispatched(g, kind) IN
        /\ f.state = g.state /\ f.next = g.next /\ f.origin = g.origin
        /\ f.revision = "archer_dispatched" /\ f.nested = "unissued"
        /\ f.reviewAttempts = g.reviewAttempts
    BY <2>2 DEF Gap
  <2> QED
    BY <1>1, <1>2, <2>3, <2>4 DEF GapSound, Dispatched, Decisions
<1>3. CASE kind = "review"
  <2>1. OnDesignDispatched(g, kind) =
          [g EXCEPT !.revision = "prism_dispatched", !.nested = "unissued"]
    BY <1>3 DEF OnDesignDispatched
  <2>2. OnDesignDispatched(g, kind) \in Gap
    BY <2>1, ZenonT(40) DEF Gap
  <2>3. LET f == OnDesignDispatched(g, kind) IN
        /\ f.state = g.state /\ f.next = g.next /\ f.origin = g.origin
        /\ f.revision = "prism_dispatched" /\ f.nested = "unissued"
        /\ f.reviewAttempts = g.reviewAttempts
    BY <2>1 DEF Gap
  <2> QED
    BY <1>1, <1>3, <2>2, <2>3 DEF GapSound, Dispatched, Decisions
<1> QED
  BY <1>2, <1>3 DEF Nested

\* What the turn does: one record of a design gap owes its nested dispatch.
LEMMA AdvanceIs ==
    ASSUME IInv, Advance
    PROVE  /\ drv.mode = "loop" /\ UNCHANGED <<s, docs, damage, spent>>
           /\ \E r \in DOMAIN gaps, kind \in Nested, g \in Gap :
                 /\ Rewrites(r, g) /\ GapSound(g)
                 /\ gaps[r].state = "DESIGN_GAP"
                 /\ g.state = "DESIGN_GAP" /\ g.next = gaps[r].next
                 /\ g.origin = gaps[r].origin
                 /\ g.revision = Dispatched(kind) /\ g.nested = "unissued"
                 /\ drv' = Owing(<<[ev |-> "issue", cmd |-> kind, rec |-> r]>>)
<1> DEFINE r == First
           d == gaps[First]
           kind == IF d.revision \in {"none", "archer_dispatched"} THEN "revision" ELSE "review"
<1>1. /\ gaps' = IF d.nested = "unissued" THEN gaps
                 ELSE [gaps EXCEPT ![First] = OnDesignDispatched(d, kind)]
      /\ drv' = Owing(<<[ev |-> "issue", cmd |-> kind, rec |-> First]>>)
      /\ UNCHANGED <<s, docs, damage, spent>> /\ drv.mode = "loop"
      /\ Designing # {} /\ NestedDue(d)
  BY Turns DEF Advance, Iterating
<1>2. r \in DOMAIN gaps /\ d.state = "DESIGN_GAP" /\ d \in Gap /\ GapSound(d)
  BY <1>1, Numbered DEF Designing, IInv, GapsSound
<1>3. kind \in Nested
  BY DEF Nested
<1>4. CASE d.nested = "unissued"
  <2>1. d.revision = Dispatched(kind)
    BY <1>1, <1>2, <1>4 DEF NestedDue, GapSound, Dispatched
  <2>2. Rewrites(r, d)
    BY <1>1, <1>2, <1>4 DEF Rewrites, IInv, Typed
  <2> QED
    BY <1>1, <1>2, <1>3, <1>4, <2>1, <2>2
<1>5. CASE d.nested # "unissued"
  <2>1. d.revision = IF kind = "revision" THEN "none" ELSE "design_revised"
    <3>1. d.nested \in {"none", "unissued", "issued"}
      BY <1>2, GapFields
    <3> QED
      BY <1>1, <1>2, <1>5, <3>1 DEF NestedDue, GapSound
  <2> DEFINE g == OnDesignDispatched(d, kind)
  <2>2. gaps' = [gaps EXCEPT ![r] = g]
    BY <1>1, <1>5
  <2> HIDE DEF kind, d
  <2>3. /\ g \in Gap /\ GapSound(g)
        /\ g.state = d.state /\ g.next = d.next /\ g.origin = d.origin
        /\ g.revision = Dispatched(kind) /\ g.nested = "unissued"
    BY <1>2, <1>3, <2>1, DispatchAnnounced
  <2> HIDE DEF g, r
  <2>4. Rewrites(r, g)
    BY <1>2, <2>2, <2>3, RecordRewritten DEF IInv
  <2> QED
    BY <1>1, <1>2, <1>3, <2>3, <2>4 DEF d, r
<1> QED
  BY <1>1, <1>4, <1>5

\* The turn of a nested dispatch.
LEMMA AdvanceKeeps ==
    ASSUME IInv, Advance PROVE IInv'
<1>1. drv.mode = "loop" /\ UNCHANGED <<s, docs, damage, spent>>
  BY AdvanceIs
<1>2. PICK r \in DOMAIN gaps, kind \in Nested, g \in Gap :
         /\ Rewrites(r, g) /\ GapSound(g)
         /\ gaps[r].state = "DESIGN_GAP"
         /\ g.state = "DESIGN_GAP" /\ g.next = gaps[r].next
         /\ g.origin = gaps[r].origin
         /\ g.revision = Dispatched(kind) /\ g.nested = "unissued"
         /\ drv' = Owing(<<[ev |-> "issue", cmd |-> kind, rec |-> r]>>)
  BY AdvanceIs
<1> DEFINE o == <<[ev |-> "issue", cmd |-> kind, rec |-> r]>>
<1>3. drv'.mode = "append" /\ drv'.owed = o /\ drv'.base \in Documents
       /\ RoomFor(drv.base)'
  <2>1. o # <<>>
    BY Tuples
  <2>2. Len(gaps) <= Len(gaps') /\ Len(gaps') \in Nat
    BY <1>2 DEF Rewrites, IInv, Typed
  <2>3. drv' = Owing(o)
    BY <1>2
  <2> HIDE DEF o
  <2> QED
    BY <1>1, <2>1, <2>2, <2>3, OwingFits DEF IInv
<1>4. Typed'
  BY <1>1, <1>2, <1>3 DEF IInv, Typed, Rewrites, RoomFor
<1>5. GapsSound'
  BY <1>2 DEF IInv, GapsSound, Rewrites
<1>6. OwesNested(r)' /\ drv'.owed # <<>>
  BY <1>2, <1>3, Tuples DEF OwesNested, Rewrites
<1>7. OwedFits'
  BY <1>2, <1>3, <1>6 DEF OwedFits, Rewrites
<1>8. s.pending = NoCommand
  BY <1>1 DEF IInv, PendingFits
<1>9. PendingFits'
  BY <1>1, <1>3, <1>8 DEF PendingFits, NoCommand, Nested
<1>10. TornIsKnown'
  <2>1. \A q \in DOMAIN gaps : ~OwesQuarantine(q)
    BY <1>1, EmptyHand DEF IInv
  <2> QED
    BY <1>1, <1>2, <2>1 DEF IInv, TornIsKnown, Rewrites
<1>11. \A q \in DOMAIN gaps : /\ Unfinished(q)' <=> Unfinished(q)
                              /\ gaps'[q].origin = gaps[q].origin
                              /\ gaps'[q].state = gaps[q].state
  BY <1>2 DEF Unfinished, Rewrites
<1>12. OnePause'
  BY <1>1, <1>2, <1>11 DEF IInv, OnePause, Holds, Active, Rewrites
<1>13. AuthorAtWork'
  BY <1>1 DEF IInv, AuthorAtWork, Active
<1>14. NestedInFlight'
  BY <1>1, <1>2 DEF IInv, NestedInFlight, Rewrites
<1>15. WaitsForRecord'
  BY <1>1, <1>2, <1>11 DEF IInv, WaitsForRecord, Active, Rewrites
<1> QED
  BY <1>4, <1>5, <1>7, <1>9, <1>10, <1>12, <1>13, <1>14, <1>15 DEF IInv

(***************************************************************************)
(* A record is decided.                                                    *)
(***************************************************************************)
LEMMA ResumeIs ==
    ASSUME IInv, Resume
    PROVE  /\ drv.mode = "loop" /\ UNCHANGED <<s, docs, damage, spent>>
           /\ \E r \in Ready, g \in Gap :
                 /\ Rewrites(r, g) /\ GapSound(g)
                 /\ g.state = "DECIDED" /\ g.next = "unissued" /\ g.origin = gaps[r].origin
                 /\ drv' = Owing(<<Resumed(r), Successor(r)>>)
<1> DEFINE r == Min(Ready)
           g == [gaps[r] EXCEPT !.state = "DECIDED", !.next = "unissued"]
<1>1. /\ gaps' = [gaps EXCEPT ![r].state = "DECIDED", ![r].next = "unissued"]
      /\ drv' = Owing(<<Resumed(r), Successor(r)>>)
      /\ UNCHANGED <<s, docs, damage, spent>> /\ drv.mode = "loop" /\ Ready # {}
  BY Turns DEF Resume, Iterating
<1>2. r \in Ready /\ r \in DOMAIN gaps /\ gaps[r] \in Gap /\ GapSound(gaps[r])
      /\ gaps[r].state \in {"AGENT_CORRECTION", "DESIGN_GAP"}
  <2>1. r \in Ready
    BY <1>1, Numbered DEF IInv
  <2> QED
    BY <2>1, Numbered DEF Ready, IInv, GapsSound
<1> HIDE DEF r
<1>3. g \in Gap /\ g.state = "DECIDED" /\ g.next = "unissued" /\ g.origin = gaps[r].origin
      /\ g.revision = gaps[r].revision /\ g.designAttempts = gaps[r].designAttempts
      /\ g.reviewAttempts = gaps[r].reviewAttempts /\ g.nested = gaps[r].nested
  <2>1. "DECIDED" \in Waiting \cup Decisions
    BY DEF Decisions
  <2>2. g \in Gap
    BY <1>2, <2>1, ZenonT(40) DEF Gap
  <2> QED
    BY <1>2, <2>2 DEF Gap
<1>4. gaps' = [gaps EXCEPT ![r] = g]
  BY <1>1, <1>2 DEF Gap, IInv, Typed
<1> HIDE DEF g
<1>5. GapSound(g)
  BY <1>2, <1>3 DEF GapSound
<1>6. Rewrites(r, g)
  BY <1>2, <1>3, <1>4, RecordRewritten DEF IInv
<1> QED
  BY <1>1, <1>2, <1>3, <1>5, <1>6

\* The turn of a decision.
LEMMA ResumeKeeps ==
    ASSUME IInv, Resume PROVE IInv'
<1>1. drv.mode = "loop" /\ UNCHANGED <<s, docs, damage, spent>>
  BY ResumeIs
<1>2. PICK r \in Ready, g \in Gap :
         /\ Rewrites(r, g) /\ GapSound(g)
         /\ g.state = "DECIDED" /\ g.next = "unissued" /\ g.origin = gaps[r].origin
         /\ drv' = Owing(<<Resumed(r), Successor(r)>>)
  BY ResumeIs
<1> DEFINE o == <<Resumed(r), Successor(r)>>
<1>3. drv'.mode = "append" /\ drv'.owed = o /\ drv'.base \in Documents
       /\ RoomFor(drv.base)'
  <2>1. o # <<>>
    BY Tuples
  <2>2. Len(gaps) <= Len(gaps') /\ Len(gaps') \in Nat
    BY <1>2 DEF Rewrites, IInv, Typed
  <2>3. drv' = Owing(o)
    BY <1>2
  <2> HIDE DEF o
  <2> QED
    BY <1>1, <2>1, <2>2, <2>3, OwingFits DEF IInv
<1>4. Typed'
  BY <1>1, <1>2, <1>3 DEF IInv, Typed, Rewrites, RoomFor
<1>5. GapsSound'
  BY <1>2 DEF IInv, GapsSound, Rewrites
<1>6. OwesResumed(r)' /\ drv'.owed # <<>>
  BY <1>2, <1>3, Tuples DEF OwesResumed, Rewrites, Resumed, Successor
<1>7. OwedFits'
  BY <1>2, <1>3, <1>6 DEF OwedFits, Rewrites
<1>8. s.pending = NoCommand
  BY <1>1 DEF IInv, PendingFits
<1>9. PendingFits'
  BY <1>1, <1>3, <1>8 DEF PendingFits, NoCommand, Nested
<1>10. TornIsKnown'
  <2>1. \A q \in DOMAIN gaps : ~OwesQuarantine(q)
    BY <1>1, EmptyHand DEF IInv
  <2> QED
    BY <1>1, <1>2, <2>1 DEF IInv, TornIsKnown, Rewrites
<1>11. r \in DOMAIN gaps /\ gaps[r].state \in {"AGENT_CORRECTION", "DESIGN_GAP"}
  BY <1>2 DEF Ready
<1>12. \A q \in DOMAIN gaps : /\ Unfinished(q)' <=> Unfinished(q)
                              /\ gaps'[q].origin = gaps[q].origin
                              /\ gaps'[q].state \in Waiting => gaps[q].state \in Waiting
  <2>1. Unfinished(r) /\ Unfinished(r)' /\ gaps'[r].state \notin Waiting
    BY <1>2, <1>11 DEF Unfinished, Waiting, Decisions, Rewrites
  <2> QED
    BY <1>2, <2>1 DEF Unfinished, Rewrites
<1>13. OnePause'
  BY <1>1, <1>2, <1>12 DEF IInv, OnePause, Holds, Active, Rewrites
<1>14. AuthorAtWork'
  BY <1>1 DEF IInv, AuthorAtWork, Active
<1>15. NestedInFlight'
  BY <1>1, <1>2 DEF IInv, NestedInFlight, Rewrites
<1>16. WaitsForRecord'
  BY <1>1, <1>2, <1>12 DEF IInv, WaitsForRecord, Active, Rewrites
<1> QED
  BY <1>4, <1>5, <1>7, <1>9, <1>10, <1>13, <1>14, <1>15, <1>16 DEF IInv

(***************************************************************************)
(* What is missing of a decided record is owed again.                      *)
(***************************************************************************)
LEMMA ReissueKeeps ==
    ASSUME IInv, Reissue PROVE IInv'
<1> DEFINE r == Min(Interrupted)
           o == (IF gaps[r].state = "RESUMED" THEN <<>> ELSE <<Resumed(r)>>) \o <<Successor(r)>>
<1>1. drv' = Owing(o) /\ UNCHANGED <<s, gaps, docs, damage, spent>>
      /\ drv.mode = "loop" /\ Interrupted # {}
  BY Turns DEF Reissue, Iterating
<1>2. r \in Interrupted
  BY <1>1, Numbered DEF IInv
<1>3. r \in DOMAIN gaps /\ gaps[r].state \in Decisions /\ gaps[r].next = "unissued"
  BY <1>2 DEF Interrupted
<1>4. o = IF gaps[r].state = "RESUMED" THEN <<Successor(r)>>
          ELSE <<Resumed(r), Successor(r)>>
  BY Tuples
<1>5. o # <<>>
  BY <1>4, Tuples
<1> HIDE DEF o, r
<1>6. drv'.mode = "append" /\ drv'.owed = o /\ drv'.base \in Documents
       /\ RoomFor(drv.base)'
  <2>1. Len(gaps) <= Len(gaps') /\ Len(gaps') \in Nat
    BY <1>1 DEF IInv, Typed
  <2> QED
    BY <1>1, <1>5, <2>1, OwingFits DEF IInv
<1>7. Typed'
  BY <1>1, <1>6 DEF IInv, Typed, RoomFor
<1>8. GapsSound'
  BY <1>1 DEF IInv, GapsSound
<1>9. OwedFits'
  <2> SUFFICES \E q \in DOMAIN gaps' : OwesResumed(q)' \/ OwesSuccessor(q)'
    BY <1>5, <1>6 DEF OwedFits
  <2>1. PICK q \in DOMAIN gaps : q = r
    BY <1>3
  <2>2. CASE gaps[q].state = "RESUMED"
    <3>1. OwesSuccessor(q)'
      BY <1>1, <1>3, <1>4, <1>6, <2>1, <2>2 DEF OwesSuccessor, Successor
    <3> QED
      BY <1>1, <2>1, <3>1
  <2>3. CASE gaps[q].state = "DECIDED"
    <3>1. OwesResumed(q)'
      BY <1>1, <1>3, <1>4, <1>6, <2>1, <2>3 DEF OwesResumed, Successor, Resumed
    <3> QED
      BY <1>1, <2>1, <3>1
  <2> QED
    BY <1>3, <2>1, <2>2, <2>3 DEF Decisions
<1>10. s.pending = NoCommand
  BY <1>1 DEF IInv, PendingFits
<1>11. PendingFits'
  BY <1>1, <1>6, <1>10 DEF PendingFits, NoCommand, Nested
<1>12. TornIsKnown'
  <2>1. \A q \in DOMAIN gaps : ~OwesQuarantine(q)
    BY <1>1, EmptyHand DEF IInv
  <2> QED
    BY <1>1, <2>1 DEF IInv, TornIsKnown
<1>13. OnePause'
  BY <1>1 DEF IInv, OnePause, Unfinished, Holds, Active
<1>14. AuthorAtWork'
  BY <1>1 DEF IInv, AuthorAtWork, Active
<1>15. NestedInFlight'
  BY <1>1 DEF IInv, NestedInFlight
<1>16. WaitsForRecord'
  BY <1>1 DEF IInv, WaitsForRecord, Unfinished, Active
<1> QED
  BY <1>7, <1>8, <1>9, <1>11, <1>12, <1>13, <1>14, <1>15, <1>16 DEF IInv

(***************************************************************************)
(* The owed events, one by one: the quarantine of a pause.                 *)
(***************************************************************************)
LEMMA QuarantineKeeps ==
    ASSUME IInv, AppendOwed, NEW r \in DOMAIN gaps, OwesQuarantine(r)
    PROVE  IInv'
<1> DEFINE e == [ev |-> "quarantined", cmd |-> "author", rec |-> r]
           g == [gaps[r] EXCEPT !.quarantined = TRUE]
<1>1. drv.mode = "append" /\ drv.owed = <<e>> /\ Head(drv.owed) = e /\ Tail(drv.owed) = <<>>
  BY Tuples DEF AppendOwed, OwesQuarantine
<1>2. e.ev = "quarantined" /\ e.rec = r
  OBVIOUS
<1>3. /\ gaps' = [gaps EXCEPT ![r].quarantined = TRUE]
      /\ drv' = Owing(<<>>) /\ UNCHANGED <<s, docs, damage, spent>>
  BY <1>1, <1>2 DEF AppendOwed
<1>4. gaps[r] \in Gap /\ GapSound(gaps[r])
  BY Numbered DEF IInv, GapsSound
<1>5. g \in Gap /\ g.quarantined /\ g.state = gaps[r].state /\ g.next = gaps[r].next
      /\ g.origin = gaps[r].origin /\ g.revision = gaps[r].revision
      /\ g.nested = gaps[r].nested /\ g.designAttempts = gaps[r].designAttempts
      /\ g.reviewAttempts = gaps[r].reviewAttempts
  <2>1. g \in Gap
    BY <1>4, ZenonT(40) DEF Gap
  <2> QED
    BY <1>4, <2>1 DEF Gap
<1>6. gaps' = [gaps EXCEPT ![r] = g]
  BY <1>3
<1> HIDE DEF g, e
<1>7. GapSound(g)
  BY <1>4, <1>5 DEF GapSound
<1>8. Rewrites(r, g)
  BY <1>5, <1>6, RecordRewritten DEF IInv
<1>9. drv'.mode = "loop" /\ drv'.owed = <<>> /\ drv'.base = NoDocs
  BY <1>3, Owes, Drivers
<1>10. Typed'
  <2>1. RoomFor(drv'.base)
    BY <1>9, RoomForNone DEF IInv
  <2> QED
    BY <1>3, <1>8, <1>9, <2>1, NoDocuments DEF IInv, Typed, Rewrites, RoomFor
<1>11. GapsSound'
  BY <1>7, <1>8 DEF IInv, GapsSound, Rewrites
<1>12. OwedFits'
  BY <1>9 DEF OwedFits
<1>13. s.pending = NoCommand
  BY <1>1 DEF IInv, PendingFits
<1>14. PendingFits'
  BY <1>3, <1>9, <1>13 DEF PendingFits, NoCommand, Nested
<1>15. TornIsKnown'
  <2>1. \A q \in DOMAIN gaps : q # r => ~OwesQuarantine(q)
    <3> SUFFICES ASSUME NEW q \in DOMAIN gaps, OwesQuarantine(q) PROVE q = r
      OBVIOUS
    <3>1. Head(drv.owed) = [ev |-> "quarantined", cmd |-> "author", rec |-> q]
      BY Tuples DEF OwesQuarantine
    <3> QED
      BY <1>1, <3>1 DEF e
  <2> QED
    BY <1>3, <1>5, <1>8, <2>1 DEF IInv, TornIsKnown, Rewrites
<1>16. \A q \in DOMAIN gaps : /\ Unfinished(q)' <=> Unfinished(q)
                              /\ gaps'[q].origin = gaps[q].origin
                              /\ gaps'[q].state = gaps[q].state
  BY <1>5, <1>8 DEF Unfinished, Rewrites
<1>17. OnePause'
  BY <1>3, <1>8, <1>16 DEF IInv, OnePause, Holds, Active, Rewrites
<1>18. AuthorAtWork'
  BY <1>3 DEF IInv, AuthorAtWork, Active
<1>19. NestedInFlight'
  BY <1>3, <1>5, <1>8 DEF IInv, NestedInFlight, Rewrites
<1>20. WaitsForRecord'
  BY <1>3, <1>8, <1>16 DEF IInv, WaitsForRecord, Active, Rewrites
<1> QED
  BY <1>10, <1>11, <1>12, <1>14, <1>15, <1>17, <1>18, <1>19, <1>20 DEF IInv

(***************************************************************************)
(* outcome.resumed of a decided record.                                    *)
(***************************************************************************)
LEMMA ResumedKeeps ==
    ASSUME IInv, AppendOwed, NEW r \in DOMAIN gaps, OwesResumed(r)
    PROVE  IInv'
<1> DEFINE g == [gaps[r] EXCEPT !.state = "RESUMED"]
           o == <<Successor(r)>>
<1>1. drv.mode = "append" /\ Head(drv.owed) = Resumed(r) /\ Tail(drv.owed) = o
      /\ gaps[r].state = "DECIDED" /\ gaps[r].next = "unissued"
  BY Tuples DEF AppendOwed, OwesResumed
<1>2. Resumed(r).ev = "resumed" /\ Resumed(r).rec = r
  BY DEF Resumed
<1>3. /\ gaps' = [gaps EXCEPT ![r].state = "RESUMED"]
      /\ drv' = Owing(o) /\ UNCHANGED <<s, docs, damage, spent>>
  BY <1>1, <1>2 DEF AppendOwed
<1>4. gaps[r] \in Gap /\ GapSound(gaps[r])
  BY Numbered DEF IInv, GapsSound
<1>5. g \in Gap /\ g.state = "RESUMED" /\ g.next = gaps[r].next
      /\ g.origin = gaps[r].origin /\ g.revision = gaps[r].revision
      /\ g.nested = gaps[r].nested /\ g.designAttempts = gaps[r].designAttempts
      /\ g.reviewAttempts = gaps[r].reviewAttempts
  <2>1. "RESUMED" \in Waiting \cup Decisions
    BY DEF Decisions
  <2>2. g \in Gap
    BY <1>4, <2>1, ZenonT(40) DEF Gap
  <2> QED
    BY <1>4, <2>2 DEF Gap
<1>6. gaps' = [gaps EXCEPT ![r] = g]
  BY <1>3
<1> HIDE DEF g
<1>7. GapSound(g)
  BY <1>1, <1>4, <1>5 DEF GapSound
<1>8. Rewrites(r, g)
  BY <1>5, <1>6, RecordRewritten DEF IInv
<1>9. drv'.mode = "append" /\ drv'.owed = o /\ drv'.base \in Documents
       /\ RoomFor(drv.base)'
  <2>1. o # <<>>
    BY Tuples
  <2>2. Len(gaps) <= Len(gaps') /\ Len(gaps') \in Nat
    BY <1>8 DEF Rewrites, IInv, Typed
  <2> HIDE DEF o
  <2> QED
    BY <1>3, <2>1, <2>2, OwingFits DEF IInv
<1>10. Typed'
  BY <1>3, <1>8, <1>9 DEF IInv, Typed, Rewrites, RoomFor
<1>11. GapsSound'
  BY <1>7, <1>8 DEF IInv, GapsSound, Rewrites
<1>12. OwesSuccessor(r)' /\ drv'.owed # <<>>
  BY <1>1, <1>5, <1>8, <1>9, Tuples DEF OwesSuccessor, Rewrites, Successor
<1>13. OwedFits'
  BY <1>8, <1>9, <1>12 DEF OwedFits, Rewrites
<1>14. s.pending = NoCommand
  BY <1>1 DEF IInv, PendingFits
<1>15. PendingFits'
  BY <1>3, <1>9, <1>14 DEF PendingFits, NoCommand, Nested
<1>16. TornIsKnown'
  <2>1. \A q \in DOMAIN gaps : ~OwesQuarantine(q)
    <3> SUFFICES ASSUME NEW q \in DOMAIN gaps, OwesQuarantine(q) PROVE FALSE
      OBVIOUS
    <3>1. Head(drv.owed).ev = "quarantined"
      BY Tuples DEF OwesQuarantine
    <3> QED
      BY <1>1, <1>2, <3>1
  <2> QED
    BY <1>3, <1>5, <1>8, <2>1 DEF IInv, TornIsKnown, Rewrites
<1>17. \A q \in DOMAIN gaps : /\ Unfinished(q)' <=> Unfinished(q)
                              /\ gaps'[q].origin = gaps[q].origin
                              /\ gaps'[q].state \in Waiting => gaps[q].state \in Waiting
  <2>1. Unfinished(r) /\ Unfinished(r)' /\ gaps'[r].state \notin Waiting
    BY <1>1, <1>5, <1>8 DEF Unfinished, Waiting, Decisions, Rewrites
  <2> QED
    BY <1>5, <1>8, <2>1 DEF Unfinished, Rewrites
<1>18. OnePause'
  BY <1>3, <1>8, <1>17 DEF IInv, OnePause, Holds, Active, Rewrites
<1>19. AuthorAtWork'
  BY <1>3 DEF IInv, AuthorAtWork, Active
<1>20. NestedInFlight'
  BY <1>3, <1>5, <1>8 DEF IInv, NestedInFlight, Rewrites
<1>21. WaitsForRecord'
  BY <1>3, <1>8, <1>17 DEF IInv, WaitsForRecord, Active, Rewrites
<1> QED
  BY <1>10, <1>11, <1>13, <1>15, <1>16, <1>18, <1>19, <1>20, <1>21 DEF IInv

(***************************************************************************)
(* A dispatch enters the log and is at work.                               *)
(***************************************************************************)
LEMMA IssuedIs ==
    ASSUME Typed, NEW kind \in Kinds, NEW r \in DOMAIN gaps, NEW phase \in Phases,
           Issued(kind, r, phase)
    PROVE  /\ s' \in States /\ s'.docDispatched
           /\ s'.pending.kind = kind /\ s'.pending.rec = r /\ s'.pending.phase = phase
           /\ s'.pending # NoCommand
           /\ s'.at = s.at /\ s'.result = s.result /\ s'.awaiting = s.awaiting
           /\ drv'.mode = "act" /\ drv'.owed = <<>>
           /\ drv'.base = IF kind = "author" THEN docs ELSE NoDocs
<1> DEFINE c == [kind |-> kind, rec |-> r, phase |-> phase]
           b == IF kind = "author" THEN docs ELSE NoDocs
<1>1. s' = [s EXCEPT !.pending = c, !.docDispatched = TRUE]
      /\ drv' = [Acting EXCEPT !.base = b]
  BY DEF Issued
<1>2. r \in 0..MaxRecords
  BY Numbered, Bounds DEF Records
<1>3. c \in [kind : Kinds, rec : 0..MaxRecords, phase : Phases]
      /\ c.kind = kind /\ c.rec = r /\ c.phase = phase /\ c # NoCommand
  BY <1>2 DEF Kinds, NoCommand
<1> HIDE DEF c, b
<1>4. s \in States
  BY DEF Typed
<1>5. s' \in States
  <2>1. c \in {NoCommand} \cup [kind : Kinds, rec : 0..MaxRecords, phase : Phases]
    BY <1>3
  <2> QED
    BY <1>1, <1>4, <2>1, ZenonT(40) DEF States
<1>6. s'.docDispatched /\ s'.pending = c /\ s'.at = s.at /\ s'.result = s.result
      /\ s'.awaiting = s.awaiting
  BY <1>1, <1>4 DEF States
<1>7. drv'.mode = "act" /\ drv'.owed = <<>> /\ drv'.base = b
  BY <1>1, Drivers
<1> QED
  BY <1>3, <1>5, <1>6, <1>7 DEF b

\* A nested dispatch enters the log.
LEMMA IssueNestedKeeps ==
    ASSUME IInv, AppendOwed, NEW r \in DOMAIN gaps, OwesNested(r)
    PROVE  IInv'
<1>1. PICK kind \in Nested :
        /\ drv.owed = <<[ev |-> "issue", cmd |-> kind, rec |-> r]>>
        /\ gaps[r].state = "DESIGN_GAP" /\ gaps[r].revision = Dispatched(kind)
        /\ gaps[r].nested = "unissued"
  BY DEF OwesNested
<1> DEFINE e == [ev |-> "issue", cmd |-> kind, rec |-> r]
           g == [gaps[r] EXCEPT !.nested = "issued"]
<1>2. drv.mode = "append" /\ Head(drv.owed) = e
  BY <1>1, Tuples DEF AppendOwed
<1>3. e.ev = "issue" /\ e.cmd = kind /\ e.rec = r /\ kind # "author" /\ kind \in Kinds
  BY DEF Nested, Kinds
<1>4. /\ gaps' = [gaps EXCEPT ![r].nested = "issued"]
      /\ Issued(kind, r, s.at) /\ UNCHANGED <<docs, damage, spent>>
  BY <1>2, <1>3 DEF AppendOwed
<1>5. gaps[r] \in Gap /\ GapSound(gaps[r])
  BY Numbered DEF IInv, GapsSound
<1>6. g \in Gap /\ g.nested = "issued" /\ g.state = gaps[r].state /\ g.next = gaps[r].next
      /\ g.origin = gaps[r].origin /\ g.revision = gaps[r].revision
      /\ g.quarantined = gaps[r].quarantined /\ g.designAttempts = gaps[r].designAttempts
      /\ g.reviewAttempts = gaps[r].reviewAttempts
  <2>1. g \in Gap
    BY <1>5, ZenonT(40) DEF Gap
  <2> QED
    BY <1>5, <2>1 DEF Gap
<1>7. gaps' = [gaps EXCEPT ![r] = g]
  BY <1>4
<1> HIDE DEF g, e
<1>8. GapSound(g)
  BY <1>5, <1>6 DEF GapSound
<1>9. Rewrites(r, g)
  BY <1>6, <1>7, RecordRewritten DEF IInv
<1>10. /\ s' \in States /\ s'.docDispatched
       /\ s'.pending.kind = kind /\ s'.pending.rec = r
       /\ s'.pending # NoCommand
       /\ s'.at = s.at /\ s'.result = s.result /\ s'.awaiting = s.awaiting
       /\ drv'.mode = "act" /\ drv'.owed = <<>> /\ drv'.base = NoDocs
  <2>1. s.at \in Phases
    BY StateFields DEF IInv
  <2> QED
    BY <1>3, <1>4, <2>1, IssuedIs DEF IInv
<1>11. Typed'
  <2>1. RoomFor(drv'.base)
    BY <1>10, RoomForNone DEF IInv
  <2> QED
    BY <1>4, <1>9, <1>10, <2>1, NoDocuments DEF IInv, Typed, Rewrites, RoomFor
<1>12. GapsSound'
  BY <1>8, <1>9 DEF IInv, GapsSound, Rewrites
<1>13. OwedFits'
  BY <1>10 DEF OwedFits
<1>14. PendingFits'
  BY <1>1, <1>6, <1>9, <1>10 DEF PendingFits, Rewrites
<1>15. TornIsKnown'
  <2>1. \A q \in DOMAIN gaps : ~OwesQuarantine(q)
    <3> SUFFICES ASSUME NEW q \in DOMAIN gaps, OwesQuarantine(q) PROVE FALSE
      OBVIOUS
    <3>1. Head(drv.owed).ev = "quarantined"
      BY Tuples DEF OwesQuarantine
    <3> QED
      BY <1>2, <1>3, <3>1
  <2> QED
    BY <1>4, <1>6, <1>9, <2>1 DEF IInv, TornIsKnown, Rewrites
<1>16. \A q \in DOMAIN gaps : /\ Unfinished(q)' <=> Unfinished(q)
                              /\ gaps'[q].origin = gaps[q].origin
                              /\ gaps'[q].state = gaps[q].state
  BY <1>6, <1>9 DEF Unfinished, Rewrites
<1>17. OnePause'
  BY <1>4, <1>9, <1>10, <1>16 DEF IInv, OnePause, Holds, Active, Rewrites
<1>18. AuthorAtWork'
  BY <1>3, <1>10 DEF AuthorAtWork
<1>19. NestedInFlight'
  BY <1>10 DEF NestedInFlight
<1>20. WaitsForRecord'
  BY <1>10 DEF WaitsForRecord
<1> QED
  BY <1>11, <1>12, <1>13, <1>14, <1>15, <1>17, <1>18, <1>19, <1>20 DEF IInv

(***************************************************************************)
(* The successor of the author is dispatched: the record is finished.      *)
(***************************************************************************)
LEMMA IssueSuccessorKeeps ==
    ASSUME IInv, AppendOwed, NEW r \in DOMAIN gaps, OwesSuccessor(r)
    PROVE  IInv'
<1> DEFINE g == [gaps[r] EXCEPT !.next = "issued"]
<1>1. drv.mode = "append" /\ Head(drv.owed) = Successor(r)
      /\ gaps[r].state = "RESUMED" /\ gaps[r].next = "unissued"
  BY Tuples DEF AppendOwed, OwesSuccessor
<1>2. Successor(r).ev = "issue" /\ Successor(r).cmd = "author" /\ Successor(r).rec = r
  BY DEF Successor
<1>3. /\ gaps' = [gaps EXCEPT ![r].next = "issued"]
      /\ Issued("author", r, gaps[r].origin) /\ UNCHANGED <<docs, damage, spent>>
  BY <1>1, <1>2 DEF AppendOwed
<1>4. gaps[r] \in Gap /\ GapSound(gaps[r])
  BY Numbered DEF IInv, GapsSound
<1>5. g \in Gap /\ g.next = "issued" /\ g.state = "RESUMED"
      /\ g.origin = gaps[r].origin /\ g.revision = gaps[r].revision
      /\ g.nested = gaps[r].nested /\ g.designAttempts = gaps[r].designAttempts
      /\ g.reviewAttempts = gaps[r].reviewAttempts
  <2>1. g \in Gap
    BY <1>4, ZenonT(40) DEF Gap
  <2> QED
    BY <1>1, <1>4, <2>1 DEF Gap
<1>6. gaps' = [gaps EXCEPT ![r] = g]
  BY <1>3
<1> HIDE DEF g
<1>7. GapSound(g)
  BY <1>4, <1>5 DEF GapSound
<1>8. Rewrites(r, g)
  BY <1>5, <1>6, RecordRewritten DEF IInv
<1>9. /\ s' \in States /\ s'.docDispatched
      /\ s'.pending.kind = "author" /\ s'.pending.phase = gaps[r].origin
      /\ s'.pending # NoCommand
      /\ s'.at = s.at /\ s'.result = s.result /\ s'.awaiting = s.awaiting
      /\ drv'.mode = "act" /\ drv'.owed = <<>> /\ drv'.base = docs
  <2>1. gaps[r].origin \in Phases /\ "author" \in Kinds
    BY <1>4, GapFields DEF Kinds
  <2> QED
    BY <1>3, <2>1, IssuedIs DEF IInv
<1>10. Typed'
  BY <1>3, <1>8, <1>9 DEF IInv, Typed, Rewrites, RoomFor
<1>11. GapsSound'
  BY <1>7, <1>8 DEF IInv, GapsSound, Rewrites
<1>12. OwedFits'
  BY <1>9 DEF OwedFits
<1>13. PendingFits'
  BY <1>9 DEF PendingFits, Nested
<1>14. TornIsKnown'
  <2>1. \A q \in DOMAIN gaps : ~OwesQuarantine(q)
    <3> SUFFICES ASSUME NEW q \in DOMAIN gaps, OwesQuarantine(q) PROVE FALSE
      OBVIOUS
    <3>1. Head(drv.owed).ev = "quarantined"
      BY Tuples DEF OwesQuarantine
    <3> QED
      BY <1>1, <1>2, <3>1
  <2> QED
    BY <1>3, <1>5, <1>8, <2>1 DEF IInv, TornIsKnown, Rewrites
<1>15. \A q \in DOMAIN gaps : Unfinished(q)' <=> Unfinished(q) /\ q # r
  BY <1>5, <1>8 DEF Unfinished, Rewrites, Waiting
<1>16. Unfinished(r)
  BY <1>1 DEF Unfinished, Decisions
<1>17. OnePause'
  BY <1>3, <1>8, <1>15, <1>16 DEF IInv, OnePause, Holds, Rewrites
<1>18. AuthorAtWork'
  <2> SUFFICES ASSUME "bypassed" \notin damage
               PROVE  Active' /\ ~s'.result /\ s'.docDispatched /\ s'.pending.phase = s'.at
    BY <1>3 DEF AuthorAtWork
  <2>1. Holds(r)
    BY <1>16 DEF IInv, OnePause
  <2> QED
    BY <1>9, <2>1 DEF Holds, Active
<1>19. NestedInFlight'
  <2> SUFFICES ASSUME "bypassed" \notin damage, NEW q \in DOMAIN gaps',
                      gaps'[q].state = "DESIGN_GAP"
               PROVE  FALSE
    BY <1>3 DEF NestedInFlight
  <2>1. q \in DOMAIN gaps /\ q # r /\ gaps[q].state = "DESIGN_GAP"
    BY <1>5, <1>8 DEF Rewrites
  <2>2. Unfinished(q)
    BY <2>1 DEF Unfinished, Waiting
  <2> QED
    BY <1>16, <2>1, <2>2 DEF IInv, OnePause, Holds
<1>20. WaitsForRecord'
  BY <1>9 DEF WaitsForRecord
<1> QED
  BY <1>10, <1>11, <1>12, <1>13, <1>14, <1>17, <1>18, <1>19, <1>20 DEF IInv

\* Whatever is owed next.
LEMMA AppendOwedKeeps ==
    ASSUME IInv, AppendOwed PROVE IInv'
<1>1. \E r \in DOMAIN gaps :
          OwesQuarantine(r) \/ OwesNested(r) \/ OwesResumed(r) \/ OwesSuccessor(r)
  BY DEF AppendOwed, IInv, OwedFits
<1> QED
  BY <1>1, QuarantineKeeps, IssueNestedKeeps, ResumedKeeps, IssueSuccessorKeeps

(***************************************************************************)
(* The nested agent answers: its record leaves the dispatch.               *)
(***************************************************************************)
LEMMA NestedEnded ==
    ASSUME IInv, drv.mode = "act", s.pending.kind \in Nested,
           NEW g \in Gap, NestedEnds(g), GapSound(g),
           g.state = "DESIGN_GAP", g.origin = gaps[s.pending.rec].origin,
           g.next = gaps[s.pending.rec].next,
           g.revision \notin {"archer_dispatched", "prism_dispatched"}
    PROVE  IInv'
<1>1. PICK r \in DOMAIN gaps : r = s.pending.rec /\ gaps[r].state = "DESIGN_GAP"
  BY DEF IInv, PendingFits
<1>2. /\ gaps' = [gaps EXCEPT ![r] = g] /\ s' = Cleared /\ drv' = Loop
      /\ UNCHANGED <<docs, damage, spent>>
  BY <1>1 DEF NestedEnds
<1>3. Rewrites(r, g)
  BY <1>2, RecordRewritten DEF IInv
<1>4. s' \in States /\ s'.pending = NoCommand
      /\ s'.at = s.at /\ s'.docDispatched = s.docDispatched
      /\ s'.result = s.result /\ s'.awaiting = s.awaiting
  BY <1>2, ClearedIs DEF IInv
<1>5. drv'.mode = "loop" /\ drv'.owed = <<>> /\ drv'.base = NoDocs
  BY <1>2, Drivers
<1>6. Typed'
  <2>1. RoomFor(drv'.base)
    BY <1>5, RoomForNone DEF IInv
  <2> QED
    BY <1>2, <1>3, <1>4, <1>5, <2>1, NoDocuments
       DEF IInv, Typed, Rewrites, RoomFor
<1>7. GapsSound'
  BY <1>3 DEF IInv, GapsSound, Rewrites
<1>8. OwedFits'
  BY <1>5 DEF OwedFits
<1>9. PendingFits'
  BY <1>4, <1>5 DEF PendingFits, NoCommand, Nested
<1>10. TornIsKnown'
  <2>1. \A q \in DOMAIN gaps : ~OwesQuarantine(q)
    BY EmptyHand DEF IInv
  <2> QED
    BY <1>2, <1>3, <2>1 DEF IInv, TornIsKnown, Rewrites
<1>11. \A q \in DOMAIN gaps : /\ Unfinished(q)' <=> Unfinished(q)
                              /\ gaps'[q].origin = gaps[q].origin
                              /\ gaps'[q].state = gaps[q].state
  BY <1>1, <1>3 DEF Unfinished, Rewrites
<1>12. OnePause'
  BY <1>2, <1>3, <1>4, <1>11
     DEF IInv, OnePause, Holds, Active, Rewrites, NoCommand
<1>13. AuthorAtWork'
  BY <1>4 DEF AuthorAtWork, NoCommand
<1>14. NestedInFlight'
  <2> SUFFICES ASSUME "bypassed" \notin damage, NEW q \in DOMAIN gaps',
                      gaps'[q].state = "DESIGN_GAP", q # r
               PROVE  FALSE
    BY <1>2, <1>3 DEF NestedInFlight, Rewrites
  <2>1. q \in DOMAIN gaps /\ Unfinished(q) /\ Unfinished(r)
    BY <1>1, <1>3 DEF Unfinished, Waiting, Rewrites
  <2> QED
    BY <2>1 DEF IInv, OnePause, Holds
<1>15. WaitsForRecord'
  <2>1. Unfinished(r)' /\ r \in DOMAIN gaps'
    BY <1>1, <1>3, <1>11 DEF Unfinished, Waiting, Rewrites
  <2> QED
    BY <2>1 DEF WaitsForRecord
<1> QED
  BY <1>6, <1>7, <1>8, <1>9, <1>10, <1>12, <1>13, <1>14, <1>15 DEF IInv

(***************************************************************************)
(* What the reducers make of the record a nested agent worked on.          *)
(***************************************************************************)
LEMMA RevisionOnly ==
    ASSUME NEW g \in Gap, GapSound(g), g.state = "DESIGN_GAP", g.nested = "issued",
           NEW v \in {"none", "design_revised", "prism_reviewed", "design_failed"},
           v = "none" => g.designAttempts < NestedLimit,
           g.reviewAttempts < NestedLimit,
           NEW f, f = [g EXCEPT !.revision = v]
    PROVE  /\ f \in Gap /\ GapSound(f) /\ f.state = "DESIGN_GAP"
           /\ f.origin = g.origin /\ f.next = g.next
           /\ f.revision = v
<1>1. f \in Gap
  BY ZenonT(40) DEF Gap
<1>2. /\ f.state = g.state /\ f.origin = g.origin /\ f.next = g.next /\ f.revision = v
      /\ f.reviewAttempts = g.reviewAttempts /\ f.designAttempts = g.designAttempts
      /\ f.nested = g.nested
  BY DEF Gap
<1>3. GapSound(f)
  BY <1>2 DEF GapSound, Decisions
<1> QED
  BY <1>1, <1>2, <1>3

\* The record a nested agent answers for.
LEMMA AnsweringIs ==
    ASSUME IInv, NEW kind \in Nested, Answering(kind)
    PROVE  /\ drv.mode = "act" /\ s.pending.kind = kind /\ s.pending.kind \in Nested
           /\ gaps[s.pending.rec] \in Gap /\ GapSound(gaps[s.pending.rec])
           /\ gaps[s.pending.rec].state = "DESIGN_GAP"
           /\ gaps[s.pending.rec].nested = "issued"
           /\ gaps[s.pending.rec].reviewAttempts < NestedLimit
           /\ gaps[s.pending.rec].reviewAttempts \in 0..NestedLimit
<1>1. drv.mode = "act" /\ s.pending.kind = kind
  BY DEF Answering
<1>2. /\ s.pending.rec \in DOMAIN gaps
      /\ gaps[s.pending.rec].state = "DESIGN_GAP"
      /\ gaps[s.pending.rec].revision \in {"archer_dispatched", "prism_dispatched"}
      /\ gaps[s.pending.rec].nested = "issued"
  BY <1>1 DEF IInv, PendingFits, Dispatched
<1>3. gaps[s.pending.rec] \in Gap /\ GapSound(gaps[s.pending.rec])
  BY <1>2, Numbered DEF IInv, GapsSound
<1> QED
  BY <1>1, <1>2, <1>3, GapFields DEF GapSound

\* A refused design is revised again, or given up at the limit.
LEMMA AgainIs ==
    ASSUME NEW g \in Gap, GapSound(g), g.state = "DESIGN_GAP", g.nested = "issued",
           g.reviewAttempts < NestedLimit, g.reviewAttempts \in 0..NestedLimit
    PROVE  LET f == RevisionAgain(g) IN
           /\ f \in Gap /\ GapSound(f) /\ f.state = "DESIGN_GAP"
           /\ f.origin = g.origin /\ f.next = g.next
           /\ f.revision \notin {"archer_dispatched", "prism_dispatched"}
<1> DEFINE v == IF g.designAttempts < NestedLimit THEN "none" ELSE "design_failed"
<1>1. v \in {"none", "design_revised", "prism_reviewed", "design_failed"}
      /\ (v = "none" => g.designAttempts < NestedLimit)
      /\ v \notin {"archer_dispatched", "prism_dispatched"}
  OBVIOUS
<1>2. RevisionAgain(g) = [g EXCEPT !.revision = v]
  BY DEF RevisionAgain
<1> HIDE DEF v
<1> QED
  BY <1>1, <1>2, RevisionOnly

\* A failed review is repeated, or the design given up at the limit.
LEMMA ReviewFailed ==
    ASSUME NEW g \in Gap, GapSound(g), g.state = "DESIGN_GAP", g.nested = "issued",
           g.reviewAttempts < NestedLimit, g.reviewAttempts \in 0..NestedLimit
    PROVE  LET f == OnDesignFailed(g, "review") IN
           /\ f \in Gap /\ GapSound(f) /\ f.state = "DESIGN_GAP"
           /\ f.origin = g.origin /\ f.next = g.next
           /\ f.revision \notin {"archer_dispatched", "prism_dispatched"}
<1> DEFINE f == OnDesignFailed(g, "review")
           n == g.reviewAttempts + 1
           v == IF n < NestedLimit THEN "design_revised" ELSE "design_failed"
<1>1. n \in 0..NestedLimit
  BY Bounds
<1>2. f = [g EXCEPT !.reviewAttempts = n, !.revision = v]
  BY DEF OnDesignFailed
<1>3. v \in {"design_revised", "design_failed"} /\ (v # "design_failed" => n < NestedLimit)
  OBVIOUS
<1> HIDE DEF n, v, f
<1>4. f \in Gap
  BY <1>1, <1>2, <1>3, ZenonT(40) DEF Gap
<1>5. /\ f.state = g.state /\ f.origin = g.origin /\ f.next = g.next /\ f.revision = v
      /\ f.reviewAttempts = n /\ f.designAttempts = g.designAttempts /\ f.nested = g.nested
  BY <1>2 DEF Gap
<1>6. GapSound(f)
  BY <1>3, <1>5 DEF GapSound, Decisions
<1> QED
  BY <1>3, <1>4, <1>5, <1>6 DEF f

\* The revision is there.
LEMMA ReviseKeeps ==
    ASSUME IInv, Revise PROVE IInv'
<1> DEFINE g == gaps[s.pending.rec]
           f == [g EXCEPT !.revision = "design_revised"]
<1>1. Answering("revision") /\ NestedEnds(f)
  BY DEF Revise
<1>2. "revision" \in Nested
  BY DEF Nested
<1>3. /\ drv.mode = "act" /\ s.pending.kind \in Nested
      /\ g \in Gap /\ GapSound(g) /\ g.state = "DESIGN_GAP" /\ g.nested = "issued"
      /\ g.reviewAttempts < NestedLimit /\ g.reviewAttempts \in 0..NestedLimit
  BY <1>1, <1>2, AnsweringIs
<1>4. /\ f \in Gap /\ GapSound(f) /\ f.state = "DESIGN_GAP"
      /\ f.origin = g.origin /\ f.next = g.next /\ f.revision = "design_revised"
  <2> HIDE DEF g
  <2> QED
    BY <1>3, RevisionOnly
<1> HIDE DEF f
<1> QED
  BY <1>1, <1>3, <1>4, NestedEnded

\* A nested agent fails.
LEMMA NestedFailsKeeps ==
    ASSUME IInv, NestedFails PROVE IInv'
<1> DEFINE g == gaps[s.pending.rec]
           f == OnDesignFailed(g, s.pending.kind)
<1>1. PICK kind \in Nested : Answering(kind)
  BY DEF NestedFails, Nested
<1>2. NestedEnds(f)
  BY DEF NestedFails
<1>3. /\ drv.mode = "act" /\ s.pending.kind \in Nested
      /\ g \in Gap /\ GapSound(g) /\ g.state = "DESIGN_GAP" /\ g.nested = "issued"
      /\ g.reviewAttempts < NestedLimit /\ g.reviewAttempts \in 0..NestedLimit
  BY <1>1, AnsweringIs
<1> HIDE DEF g
<1>4. /\ f \in Gap /\ GapSound(f) /\ f.state = "DESIGN_GAP"
      /\ f.origin = g.origin /\ f.next = g.next
      /\ f.revision \notin {"archer_dispatched", "prism_dispatched"}
  <2>1. CASE s.pending.kind = "review"
    <3>1. f = OnDesignFailed(g, "review")
      BY <2>1
    <3> HIDE DEF f
    <3> QED
      BY <1>3, <3>1, ReviewFailed
  <2>2. CASE s.pending.kind # "review"
    <3>1. f = RevisionAgain(g)
      BY <2>2 DEF OnDesignFailed
    <3> HIDE DEF f
    <3> QED
      BY <1>3, <3>1, AgainIs
  <2> QED
    BY <2>1, <2>2
<1> HIDE DEF f
<1> QED
  BY <1>2, <1>3, <1>4, NestedEnded DEF g

\* Prism reviews the revision.
LEMMA ReviewKeeps ==
    ASSUME IInv, Review PROVE IInv'
<1> DEFINE g == gaps[s.pending.rec]
<1>1. PICK verdict \in {"pass", "revise"} : NestedEnds(OnDesignReviewed(g, verdict))
  BY DEF Review
<1> DEFINE f == OnDesignReviewed(g, verdict)
<1>2. Answering("review") /\ "review" \in Nested
  BY DEF Review, Nested
<1>3. /\ drv.mode = "act" /\ s.pending.kind \in Nested
      /\ g \in Gap /\ GapSound(g) /\ g.state = "DESIGN_GAP" /\ g.nested = "issued"
      /\ g.reviewAttempts < NestedLimit /\ g.reviewAttempts \in 0..NestedLimit
  BY <1>2, AnsweringIs
<1>4. NestedEnds(f)
  BY <1>1
<1> HIDE DEF g
<1>5. /\ f \in Gap /\ GapSound(f) /\ f.state = "DESIGN_GAP"
      /\ f.origin = g.origin /\ f.next = g.next
      /\ f.revision \notin {"archer_dispatched", "prism_dispatched"}
  <2>1. CASE verdict = "pass"
    <3>1. f = [g EXCEPT !.revision = "prism_reviewed"]
      BY <2>1 DEF OnDesignReviewed
    <3> HIDE DEF f
    <3> QED
      BY <1>3, <3>1, RevisionOnly
  <2>2. CASE verdict # "pass"
    <3>1. f = RevisionAgain(g)
      BY <2>2 DEF OnDesignReviewed
    <3> HIDE DEF f
    <3> QED
      BY <1>3, <3>1, AgainIs
  <2> QED
    BY <2>1, <2>2
<1> HIDE DEF f
<1> QED
  BY <1>3, <1>4, <1>5, NestedEnded DEF g

-----------------------------------------------------------------------------
\* The run starts without a record.
LEMMA InitIsSound == Init => IInv
<1> SUFFICES ASSUME Init PROVE IInv
  OBVIOUS
<1> USE DEF Init
<1>1. /\ s.at = 1 /\ ~s.docDispatched /\ ~s.result /\ s.awaiting = "none" /\ s.attempt = 0
      /\ s.pending = NoCommand /\ gaps = <<>> /\ docs = NoDocs /\ drv = Off
      /\ damage = {} /\ spent.meddles = 0 /\ spent.crashes = 0
  OBVIOUS
<1>2. gaps \in Seq(Gap) /\ Len(gaps) = 0 /\ DOMAIN gaps = {}
  OBVIOUS
<1>3. drv.mode = "off" /\ drv.owed = <<>> /\ drv.base = NoDocs
  BY Drivers
<1>4. s \in States
  BY Bounds DEF States, Phases
<1>5. spent \in Budget
  BY Bounds DEF Budget
<1>6. Typed
  <2>1. RoomFor(NoDocs)
    BY <1>1, <1>2, NoDocuments DEF RoomFor
  <2> QED
    BY <1>1, <1>2, <1>3, <1>4, <1>5, <2>1, NoDocuments, Bounds DEF Typed
<1>7. GapsSound /\ TornIsKnown /\ OnePause /\ NestedInFlight
  BY <1>2 DEF GapsSound, TornIsKnown, OnePause, NestedInFlight
<1>8. OwedFits
  BY <1>3 DEF OwedFits
<1>9. PendingFits
  BY <1>1, <1>3 DEF PendingFits, NoCommand, Nested
<1>10. AuthorAtWork /\ WaitsForRecord
  BY <1>1 DEF AuthorAtWork, WaitsForRecord, NoCommand
<1> QED
  BY <1>6, <1>7, <1>8, <1>9, <1>10 DEF IInv

\* Every step keeps the inductive invariant.
LEMMA NextKeeps == IInv /\ [Next]_vars => IInv'
<1> SUFFICES ASSUME IInv, [Next]_vars PROVE IInv'
  OBVIOUS
<1>1. CASE UNCHANGED vars
  <2>1. UNCHANGED <<s, gaps, docs, drv, damage, spent>>
    BY <1>1 DEF vars
  <2>2. docs' \in Documents /\ RoomFor(docs)' /\ spent' \in Budget
        /\ spent'.meddles >= spent.meddles
    BY <2>1, Bounds DEF IInv, Typed, RoomFor, Budget
  <2> QED
    BY <2>1, <2>2, DocsMoved
<1>2. CASE Next
  <2>1. ASSUME NEW r \in DOMAIN gaps, Ingest(r) PROVE IInv'
    BY <2>1, IngestKeeps
  <2>2. CASE Advance \/ Resume \/ Reissue \/ Land \/ Refuse \/ Dispatch \/ Halt
    BY <2>2, AdvanceKeeps, ResumeKeeps, ReissueKeeps, LandKeeps, RefuseKeeps,
       DispatchKeeps, HaltKeeps
  <2>3. CASE AppendOwed \/ AuthorDone \/ AuthorFails \/ AuthorDiscusses \/ AuthorOverReaches
    BY <2>3, AppendOwedKeeps, AuthorDoneKeeps, AuthorFailsKeeps,
       AuthorDiscussesKeeps,
       AuthorOverReachesKeeps
  <2>4. CASE Revise \/ NestedFails \/ Review
    BY <2>4, ReviseKeeps, NestedFailsKeeps, ReviewKeeps
  <2>5. CASE Drive \/ Crash \/ Retry \/ Return \/ OpenThread
    BY <2>5, DriveKeeps, CrashKeeps, RetryKeeps, ReturnKeeps, OpenThreadKeeps
  <2>6. ASSUME NEW r \in Records, Adjudicate(r) \/ SpoilMarker(r) PROVE IInv'
    BY <2>6, AdjudicateKeeps, SpoilMarkerKeeps
  <2>7. ASSUME NEW i \in 1..MaxRecords + MaxMeddles, ResolveThread(i)
        PROVE  IInv'
    BY <2>7, ResolveThreadKeeps
  <2> QED
    BY <1>2, <2>1, <2>2, <2>3, <2>4, <2>5, <2>6, <2>7 DEF Next, Driver, Iterate
<1> QED
  BY <1>1, <1>2

(***************************************************************************)
(* The inductive invariant holds in every reachable state: types, what is  *)
(* owed and pending, and one pause at a time.                              *)
(***************************************************************************)
THEOREM GapInvariant == Spec => []IInv
BY InitIsSound, NextKeeps, PTL DEF Spec

(***************************************************************************)
(* The types, the limits of the counters among them, follow.               *)
(***************************************************************************)
LEMMA InvariantTypes == IInv => TypeOK
<1> SUFFICES ASSUME IInv PROVE TypeOK
  OBVIOUS
<1>1. SeqUpTo(gaps, MaxRecords, Gap)
  BY DEF IInv, Typed, SeqUpTo
<1>2. ASSUME NEW d \in Documents, RoomFor(d) PROVE DocsOK(d)
  <2>1. Len(d.threads) <= MaxRecords + MaxMeddles
    BY <1>2, Bounds DEF RoomFor, IInv, Typed, Budget, Documents
  <2> QED
    BY <2>1 DEF DocsOK, SeqUpTo, Documents
<1>3. DocsOK(docs) /\ DocsOK(drv.base)
  BY <1>2 DEF IInv, Typed
<1>4. \A i \in DOMAIN drv.owed :
          drv.owed[i] \in [ev : {"quarantined", "resumed", "issue"}, cmd : Kinds, rec : Records]
  <2> DEFINE E == [ev : {"quarantined", "resumed", "issue"}, cmd : Kinds, rec : Records]
  <2> SUFFICES \A i \in DOMAIN drv.owed : drv.owed[i] \in E
    OBVIOUS
  <2>1. CASE drv.owed = <<>>
    BY <2>1
  <2>2. CASE drv.owed # <<>>
    <3>1. PICK r \in DOMAIN gaps :
            OwesQuarantine(r) \/ OwesNested(r) \/ OwesResumed(r) \/ OwesSuccessor(r)
      BY <2>2 DEF IInv, OwedFits
    <3>2. r \in Records
      BY Numbered DEF IInv
    <3>3. /\ \A kind \in Nested : [ev |-> "issue", cmd |-> kind, rec |-> r] \in E
          /\ [ev |-> "quarantined", cmd |-> "author", rec |-> r] \in E
      BY <3>2 DEF Kinds, Nested
    <3>4. Resumed(r) \in E /\ Successor(r) \in E
      BY <3>2 DEF Resumed, Successor, Kinds
    <3> HIDE DEF E
    <3>5. \A e \in E : drv.owed = <<e>> => \A i \in DOMAIN drv.owed : drv.owed[i] \in E
      OBVIOUS
    <3>6. \A e \in E, f \in E :
              drv.owed = <<e, f>> => \A i \in DOMAIN drv.owed : drv.owed[i] \in E
      OBVIOUS
    <3>7. CASE OwesQuarantine(r)
      BY <3>3, <3>5, <3>7 DEF OwesQuarantine
    <3>8. CASE OwesNested(r)
      BY <3>3, <3>5, <3>8 DEF OwesNested
    <3>9. CASE OwesResumed(r)
      BY <3>4, <3>6, <3>9 DEF OwesResumed
    <3>10. CASE OwesSuccessor(r)
      BY <3>4, <3>5, <3>10 DEF OwesSuccessor
    <3> QED
      BY <3>1, <3>7, <3>8, <3>9, <3>10
  <2> QED
    BY <2>1, <2>2
<1>5. (drv.mode = "append") = (drv.owed # <<>>)
  BY DEF IInv, OwedFits
<1> QED
  BY <1>1, <1>3, <1>4, <1>5 DEF IInv, Typed, TypeOK, States, Budget

\* Every field keeps its type; the counters of attempts and of nested
\* revisions never pass their limits (machine_doc_gaps.py).
THEOREM GapTypes == Spec => []TypeOK
BY GapInvariant, InvariantTypes, PTL

(***************************************************************************)
(* So does the explanation of every halt: the author that is out waits for *)
(* an unfinished record, and each of its states waits for somebody or was  *)
(* left by a crash or a human.                                             *)
(***************************************************************************)
LEMMA InvariantExplains == IInv => HaltIsExplained
<1> SUFFICES ASSUME IInv, Halted, Active, ~(s.at > MaxPhase), "bypassed" \notin damage
             PROVE  \E r \in DOMAIN gaps :
                       \/ AwaitsAnswer(r) \/ GaveUp(r)
                       \/ "torn" \in damage /\ gaps[r].state = "DETECTED" /\ ~gaps[r].quarantined
  BY DEF HaltIsExplained
<1>1. drv.mode = "off" /\ s.pending = NoCommand /\ Turn = "halt"
  BY DEF Halted
<1>2. /\ \A r \in DOMAIN gaps : ~Adjudicated(r)
      /\ Designing # {} => ~NestedDue(gaps[First])
      /\ InStage => Ready = {}
      /\ InStage => Interrupted = {}
      /\ ~s.result
      /\ s.docDispatched
  <2>1. s.at <= MaxPhase
    BY Bounds, StateFields DEF IInv
  <2> QED
    BY <1>1, <2>1, Turns
<1>3. PICK r \in DOMAIN gaps : Unfinished(r)
  BY <1>1, <1>2 DEF IInv, WaitsForRecord
<1>4. Holds(r)
  BY <1>3 DEF IInv, OnePause
<1>5. InStage
  BY <1>4 DEF Holds, InStage, IInv, GapsSound, GapSound
<1>6. gaps[r] \in Gap /\ GapSound(gaps[r])
  BY Numbered DEF IInv, GapsSound
<1>7. gaps[r].state \in Waiting
  BY <1>2, <1>3, <1>5 DEF Unfinished, Interrupted
<1>8. CASE gaps[r].state = "DETECTED"
  <2>1. CASE gaps[r].quarantined
    BY <1>2, <1>8, <2>1 DEF AwaitsAnswer
  <2>2. CASE ~gaps[r].quarantined
    <3>1. ~OwesQuarantine(r)
      BY <1>1, EmptyHand DEF IInv
    <3>2. "torn" \in damage
      BY <1>8, <2>2, <3>1 DEF IInv, TornIsKnown
    <3> QED
      BY <1>8, <2>2, <3>2
  <2> QED
    BY <2>1, <2>2
<1>9. CASE gaps[r].state = "AGENT_CORRECTION"
  <2>1. r \notin Ready
    BY <1>2, <1>5
  <2>2. ~ResolvedInDocs(r)
    BY <1>9, <2>1 DEF Ready
  <2> QED
    BY <1>9, <2>2 DEF AwaitsAnswer
<1>10. CASE gaps[r].state = "DESIGN_GAP"
  <2>1. Designing = {r}
    <3>1. r \in Designing
      BY <1>10 DEF Designing
    <3>2. ASSUME NEW q \in Designing PROVE q = r
      <4>1. q \in DOMAIN gaps /\ Unfinished(q)
        BY DEF Designing, Unfinished, Waiting
      <4> QED
        BY <1>4, <4>1 DEF Holds
    <3> QED
      BY <3>1, <3>2
  <2>2. First = r
    BY <2>1, Numbered DEF IInv
  <2>3. ~NestedDue(gaps[r])
    BY <1>2, <2>1, <2>2
  <2>4. gaps[r].revision \in {"prism_reviewed", "design_failed"}
    <3>1. ASSUME gaps[r].revision \in {"archer_dispatched", "prism_dispatched"}
          PROVE  FALSE
      <4>1. gaps[r].nested = "issued"
        BY <2>3, <3>1 DEF NestedDue
      <4>2. s.pending.kind \in Nested
        BY <1>10, <3>1, <4>1 DEF IInv, NestedInFlight
      <4> QED
        BY <1>1, <4>2 DEF NoCommand, Nested
    <3> QED
      BY <1>6, <2>3, <3>1, GapFields DEF NestedDue
  <2>5. CASE gaps[r].revision = "design_failed"
    BY <1>10, <2>5 DEF GaveUp
  <2>6. CASE gaps[r].revision = "prism_reviewed"
    <3>1. ~ResolvedInDocs(r)
      BY <1>2, <1>5, <1>10, <2>6 DEF Ready
    <3> QED
      BY <1>10, <2>6, <3>1 DEF AwaitsAnswer
  <2> QED
    BY <2>4, <2>5, <2>6
<1> QED
  BY <1>7, <1>8, <1>9, <1>10 DEF Waiting

\* A run that halts of itself halts for somebody (_sm02_pre_decide before
\* decide()).
THEOREM GapHaltsExplained == Spec => []HaltIsExplained
BY GapInvariant, InvariantExplains, PTL

-----------------------------------------------------------------------------
(***************************************************************************)
(* The action property, a record at a time.                                *)
(***************************************************************************)
DecidesSoundly(r) ==
    Decides(r) =>
        /\ InPlace(r) => ~docs.threads[OwnPlace(r)].open
        /\ gaps[r].state = "DESIGN_GAP" => gaps[r].revision = "prism_reviewed"

ReplacesSoundly(r) ==
    Replaces(r) =>
        /\ gaps[r].state = "RESUMED" /\ gaps[r].next = "unissued"
        /\ s.at = gaps[r].origin \/ "bypassed" \in damage

(***************************************************************************)
(* Only the loop's turn decides a record, and only an owed dispatch        *)
(* replaces its author.                                                    *)
(***************************************************************************)
LEMMA KeptRecord ==
    ASSUME NEW r, gaps'[r].state \in Decisions => gaps[r].state \in Decisions
    PROVE  DecidesSoundly(r)
BY DEF DecidesSoundly, Decides, Waiting, Decisions

\* The turn of a decision finds the discussion resolved and the review passed.
LEMMA ResumeDecidesSoundly ==
    ASSUME IInv, Resume, NEW r \in DOMAIN gaps PROVE DecidesSoundly(r)
<1>1. PICK q \in Ready, g \in Gap : Rewrites(q, g)
  BY ResumeIs
<1>2. CASE r = q
  <2>1. ResolvedInDocs(r) /\ (gaps[r].state = "DESIGN_GAP" => gaps[r].revision = "prism_reviewed")
    BY <1>2 DEF Ready
  <2> QED
    BY <2>1 DEF DecidesSoundly, InPlace, ResolvedInDocs
<1>3. CASE r # q
  BY <1>1, <1>3, KeptRecord DEF Rewrites
<1> QED
  BY <1>2, <1>3

\* A nested outcome moves the revision and not the state.
LEMMA AgainKeepsState ==
    ASSUME NEW g \in Gap PROVE RevisionAgain(g).state = g.state
BY DEF RevisionAgain, Gap

\* So a nested outcome decides nothing.
LEMMA NestedKeepsState ==
    ASSUME IInv, Revise \/ NestedFails \/ Review, NEW r \in DOMAIN gaps
    PROVE  gaps'[r].state = gaps[r].state
<1> DEFINE q == s.pending.rec
<1>1. PICK kind \in Nested : Answering(kind)
  BY DEF Revise, NestedFails, Review, Nested
<1>2. gaps[q] \in Gap
  BY <1>1, AnsweringIs
<1>3. ASSUME NEW g, NestedEnds(g), g.state = gaps[q].state
      PROVE  gaps'[r].state = gaps[r].state
  BY <1>3 DEF NestedEnds
<1>4. CASE Revise
  <2>1. [gaps[q] EXCEPT !.revision = "design_revised"].state = gaps[q].state
    BY <1>2 DEF Gap
  <2> QED
    BY <1>3, <1>4, <2>1 DEF Revise
<1>5. CASE NestedFails
  <2>1. OnDesignFailed(gaps[q], s.pending.kind).state = gaps[q].state
    <3>1. CASE s.pending.kind = "review"
      BY <1>2, <3>1 DEF OnDesignFailed, Gap
    <3>2. CASE s.pending.kind # "review"
      BY <1>2, <3>2, AgainKeepsState DEF OnDesignFailed
    <3> QED
      BY <3>1, <3>2
  <2> QED
    BY <1>3, <1>5, <2>1 DEF NestedFails
<1>6. CASE Review
  <2>1. PICK verdict \in {"pass", "revise"} : NestedEnds(OnDesignReviewed(gaps[q], verdict))
    BY <1>6 DEF Review
  <2>2. OnDesignReviewed(gaps[q], verdict).state = gaps[q].state
    <3>1. CASE verdict = "pass"
      BY <1>2, <3>1 DEF OnDesignReviewed, Gap
    <3>2. CASE verdict # "pass"
      BY <1>2, <3>2, AgainKeepsState DEF OnDesignReviewed
    <3> QED
      BY <3>1, <3>2
  <2> QED
    BY <1>3, <2>1, <2>2
<1> QED
  BY <1>4, <1>5, <1>6

\* outcome.resumed follows a decision already in the log.
LEMMA AppendKeepsDecided ==
    ASSUME IInv, AppendOwed, NEW r \in DOMAIN gaps
    PROVE  DecidesSoundly(r)
<1>1. PICK q \in DOMAIN gaps :
          OwesQuarantine(q) \/ OwesNested(q) \/ OwesResumed(q) \/ OwesSuccessor(q)
  BY DEF AppendOwed, IInv, OwedFits
<1>2. gaps[q] \in Gap
  BY Numbered DEF IInv
<1>3. CASE OwesResumed(q)
  <2>1. Head(drv.owed) = Resumed(q) /\ Resumed(q).ev = "resumed" /\ Resumed(q).rec = q
    BY <1>3, Tuples DEF OwesResumed, Resumed
  <2>2. gaps' = [gaps EXCEPT ![q].state = "RESUMED"]
    BY <2>1 DEF AppendOwed
  <2>3. gaps[q].state \in Decisions
    BY <1>3 DEF OwesResumed, Decisions
  <2>4. r # q => gaps'[r] = gaps[r]
    BY <2>2
  <2>5. gaps'[r].state \in Decisions => gaps[r].state \in Decisions
    BY <2>3, <2>4
  <2> QED
    BY <2>5, KeptRecord
<1>4. CASE ~OwesResumed(q)
  <2>1. Head(drv.owed).ev # "resumed" /\ Head(drv.owed).rec = q
    <3>1. CASE OwesQuarantine(q)
      BY <3>1, Tuples DEF OwesQuarantine
    <3>2. CASE OwesNested(q)
      BY <3>2, Tuples DEF OwesNested
    <3>3. CASE OwesSuccessor(q)
      BY <3>3, Tuples DEF OwesSuccessor, Successor
    <3> QED
      BY <1>1, <1>4, <3>1, <3>2, <3>3
  <2>2. \/ gaps' = [gaps EXCEPT ![q].quarantined = TRUE]
        \/ gaps' = [gaps EXCEPT ![q].next = "issued"]
        \/ gaps' = [gaps EXCEPT ![q].nested = "issued"]
    BY <2>1 DEF AppendOwed
  <2>3. gaps'[r].state = gaps[r].state
    BY <1>2, <2>2 DEF Gap
  <2> QED
    BY <2>3, KeptRecord
<1> QED
  BY <1>3, <1>4

\* Every step decides soundly.
LEMMA StepDecidesSoundly ==
    ASSUME IInv, [Next]_vars, NEW r \in DOMAIN gaps PROVE DecidesSoundly(r)
<1>1. CASE UNCHANGED gaps
  BY <1>1, KeptRecord
<1>2. ASSUME NEW q \in DOMAIN gaps, Ingest(q) PROVE DecidesSoundly(r)
  <2> DEFINE v == IF docs.marker[q] = "design_gap" THEN "DESIGN_GAP" ELSE "AGENT_CORRECTION"
  <2>1. gaps' = [gaps EXCEPT ![q].state = v] /\ gaps[q] \in Gap
    BY <1>2, Numbered DEF Ingest, IInv
  <2>2. v \notin Decisions
    BY DEF Decisions
  <2> HIDE DEF v
  <2>3. gaps'[r].state \in Decisions => gaps[r].state \in Decisions
    BY <2>1, <2>2 DEF Gap
  <2> QED
    BY <2>3, KeptRecord
<1>3. CASE Advance
  <2>1. gaps'[r].state = gaps[r].state
    BY <1>3, AdvanceIs DEF Rewrites
  <2> QED
    BY <2>1, KeptRecord
<1>4. CASE Resume
  BY <1>4, ResumeDecidesSoundly
<1>5. CASE AppendOwed
  BY <1>5, AppendKeepsDecided
<1>6. CASE AuthorDiscusses
  <2>1. gaps'[r] = gaps[r]
    <3>1. gaps \in Seq(Gap)
      BY DEF IInv, Typed
    <3>2. \E g : gaps' = Append(gaps, g)
      BY <1>6 DEF AuthorDiscusses
    <3> QED
      BY <3>1, <3>2
  <2> QED
    BY <2>1, KeptRecord
<1>7. CASE Revise \/ NestedFails \/ Review
  BY <1>7, NestedKeepsState, KeptRecord
<1>8. CASE Reissue \/ Land \/ Refuse \/ Dispatch \/ Halt \/ AuthorDone \/ AuthorFails
           \/ AuthorOverReaches \/ Drive \/ Crash \/ Retry \/ Return \/ OpenThread
  <2>1. UNCHANGED gaps
    BY <1>8 DEF Reissue, Land, Refuse, Dispatch, Halt, AuthorDone, AuthorFails,
       AuthorOverReaches, Drive, Crash, Retry, Return, OpenThread
  <2> QED
    BY <1>1, <2>1
<1>9. ASSUME NEW q \in Records, Adjudicate(q) \/ SpoilMarker(q)
      PROVE  DecidesSoundly(r)
  <2>1. UNCHANGED gaps
    BY <1>9 DEF Adjudicate, SpoilMarker
  <2> QED
    BY <1>1, <2>1
<1>10. ASSUME NEW i \in 1..MaxRecords + MaxMeddles, ResolveThread(i)
       PROVE  DecidesSoundly(r)
  <2>1. UNCHANGED gaps
    BY <1>10 DEF ResolveThread
  <2> QED
    BY <1>1, <2>1
<1>11. CASE UNCHANGED vars
  BY <1>1, <1>11 DEF vars
<1> QED
  BY <1>2, <1>3, <1>4, <1>5, <1>6, <1>7, <1>8, <1>9, <1>10, <1>11
  DEF Next, Driver, Iterate

(***************************************************************************)
(* The author of a record is replaced as its handler owes.                 *)
(***************************************************************************)
LEMMA NoSuccessor ==
    ASSUME NEW r, \/ s'.pending = s.pending
                  \/ s'.pending.kind # "author"
                  \/ s'.pending.rec # r
    PROVE  ReplacesSoundly(r)
BY DEF ReplacesSoundly, Replaces

\* The successor is owed by a resumed record at the phase it came from.
LEMMA AppendReplacesSoundly ==
    ASSUME IInv, AppendOwed, NEW r \in DOMAIN gaps
    PROVE  ReplacesSoundly(r)
<1>1. PICK q \in DOMAIN gaps :
          OwesQuarantine(q) \/ OwesNested(q) \/ OwesResumed(q) \/ OwesSuccessor(q)
  BY DEF AppendOwed, IInv, OwedFits
<1>2. CASE OwesSuccessor(q)
  <2>1. Head(drv.owed) = Successor(q) /\ Successor(q).ev = "issue"
        /\ Successor(q).cmd = "author" /\ Successor(q).rec = q
    BY <1>2, Tuples DEF OwesSuccessor, Successor
  <2>2. Issued("author", q, gaps[q].origin)
    BY <2>1 DEF AppendOwed
  <2>3. s'.pending.rec = q
    <3>1. gaps[q].origin \in Phases /\ "author" \in Kinds
      BY Numbered, GapFields DEF Kinds, IInv
    <3> QED
      BY <2>2, <3>1, IssuedIs DEF IInv
  <2>4. CASE r # q
    BY <2>3, <2>4, NoSuccessor
  <2>5. CASE r = q
    <3>1. gaps[r].state = "RESUMED" /\ gaps[r].next = "unissued"
      BY <1>2, <2>5 DEF OwesSuccessor
    <3>2. Unfinished(r)
      BY <3>1 DEF Unfinished, Decisions
    <3>3. "bypassed" \notin damage => s.at = gaps[r].origin
      BY <3>2 DEF IInv, OnePause, Holds
    <3> QED
      BY <3>1, <3>3 DEF ReplacesSoundly
  <2> QED
    BY <2>4, <2>5
<1>3. CASE OwesNested(q)
  <2>1. PICK kind \in Nested : Head(drv.owed) = [ev |-> "issue", cmd |-> kind, rec |-> q]
    BY <1>3, Tuples DEF OwesNested
  <2>2. kind # "author" /\ kind \in Kinds
    BY DEF Nested, Kinds
  <2>3. Issued(kind, q, s.at)
    <3>1. Head(drv.owed).ev = "issue" /\ Head(drv.owed).cmd = kind /\ Head(drv.owed).rec = q
      BY <2>1
    <3> QED
      BY <2>2, <3>1 DEF AppendOwed
  <2>4. s'.pending.kind = kind
    <3>1. s.at \in Phases
      BY StateFields DEF IInv
    <3> QED
      BY <2>2, <2>3, <3>1, IssuedIs DEF IInv
  <2> QED
    BY <2>2, <2>4, NoSuccessor
<1>4. CASE OwesQuarantine(q) \/ OwesResumed(q)
  <2>1. Head(drv.owed).ev # "issue"
    BY <1>4, Tuples DEF OwesQuarantine, OwesResumed, Resumed
  <2>2. UNCHANGED s
    BY <2>1 DEF AppendOwed
  <2> QED
    BY <2>2, NoSuccessor
<1> QED
  BY <1>1, <1>2, <1>3, <1>4

\* Every step replaces soundly.
LEMMA StepReplacesSoundly ==
    ASSUME IInv, [Next]_vars, NEW r \in DOMAIN gaps PROVE ReplacesSoundly(r)
<1> s \in States
  BY DEF IInv, Typed
<1>1. CASE UNCHANGED s
  BY <1>1, NoSuccessor
<1>2. ASSUME s'.pending = NoCommand PROVE ReplacesSoundly(r)
  <2>1. s'.pending.kind # "author"
    BY <1>2 DEF NoCommand
  <2> QED
    BY <2>1, NoSuccessor
<1>3. Cleared \in States /\ Cleared.pending = NoCommand
  BY ClearedIs DEF IInv
<1>4. CASE Land
  <2>1. s'.pending = s.pending
    BY <1>4 DEF Land, States
  <2> QED
    BY <2>1, NoSuccessor
<1>5. CASE Refuse
  <2>1. [s EXCEPT !.result = FALSE] \in States
        /\ [s EXCEPT !.result = FALSE].pending = s.pending
    BY DEF States
  <2>2. s'.pending = s.pending
    BY <1>5, <2>1, FailedIs DEF Refuse
  <2> QED
    BY <2>2, NoSuccessor
<1>6. CASE Dispatch
  <2>1. s'.pending = [kind |-> "author", rec |-> 0, phase |-> s.at]
    BY <1>6 DEF Dispatch, Issued, States
  <2>2. r # 0
    BY Numbered DEF IInv
  <2> QED
    BY <2>1, <2>2, NoSuccessor
<1>7. CASE AuthorDone
  <2>1. s'.pending = NoCommand
    BY <1>3, <1>7 DEF AuthorDone, States
  <2> QED
    BY <1>2, <2>1
<1>8. CASE AuthorFails \/ AuthorOverReaches
  <2>1. s'.pending = NoCommand
    BY <1>3, <1>8, FailedIs DEF AuthorFails, AuthorOverReaches
  <2> QED
    BY <1>2, <2>1
<1>9. CASE AuthorDiscusses \/ Revise \/ NestedFails \/ Review
  <2>1. s'.pending = NoCommand
    BY <1>3, <1>9 DEF AuthorDiscusses, Revise, NestedFails, Review, NestedEnds
  <2> QED
    BY <1>2, <2>1
<1>10. CASE Retry \/ Return
  <2>1. s'.pending = NoCommand
    BY <1>3, <1>10 DEF Retry, Return, States
  <2> QED
    BY <1>2, <2>1
<1>11. CASE AppendOwed
  BY <1>11, AppendReplacesSoundly
<1>12. CASE Advance \/ Resume \/ Reissue \/ Halt \/ Drive \/ Crash \/ OpenThread
  <2>1. UNCHANGED s
    BY <1>12 DEF Advance, Resume, Reissue, Halt, Drive, Crash, OpenThread
  <2> QED
    BY <1>1, <2>1
<1>13. ASSUME NEW q \in DOMAIN gaps, Ingest(q) PROVE ReplacesSoundly(r)
  BY <1>1, <1>13 DEF Ingest
<1>14. ASSUME NEW q \in Records, Adjudicate(q) \/ SpoilMarker(q)
       PROVE  ReplacesSoundly(r)
  <2>1. UNCHANGED s
    BY <1>14 DEF Adjudicate, SpoilMarker
  <2> QED
    BY <1>1, <2>1
<1>15. ASSUME NEW i \in 1..MaxRecords + MaxMeddles, ResolveThread(i)
       PROVE  ReplacesSoundly(r)
  BY <1>1, <1>15 DEF ResolveThread
<1>16. CASE UNCHANGED vars
  BY <1>1, <1>16 DEF vars
<1> QED
  BY <1>4, <1>5, <1>6, <1>7, <1>8, <1>9, <1>10, <1>11, <1>12, <1>13, <1>14,
     <1>15, <1>16
  DEF Next, Driver, Iterate

(***************************************************************************)
(* A record is decided only over a resolved discussion and a passed        *)
(* review, and its author replaced by one dispatch where it came from.     *)
(***************************************************************************)
THEOREM GapResumeSound == Spec => ResumeIsSound
<1>1. IInv /\ [Next]_vars =>
        [\A r \in DOMAIN gaps :
          /\ Decides(r) =>
                /\ InPlace(r) => ~docs.threads[OwnPlace(r)].open
                /\ gaps[r].state = "DESIGN_GAP" => gaps[r].revision = "prism_reviewed"
          /\ Replaces(r) =>
                /\ gaps[r].state = "RESUMED" /\ gaps[r].next = "unissued"
                /\ s.at = gaps[r].origin \/ "bypassed" \in damage]_vars
  BY StepDecidesSoundly, StepReplacesSoundly DEF DecidesSoundly, ReplacesSoundly
<1> QED
  BY <1>1, GapInvariant, PTL DEF Spec, ResumeIsSound
=============================================================================
