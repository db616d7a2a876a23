------------------------ MODULE LockAndScheduleProofs ------------------------
(***************************************************************************)
(* What is proved of the two pieces of state that a run's writers share    *)
(* and no transaction protects: the lock file between processes, for any   *)
(* set of them, and the schedule row between the threads of the service,   *)
(* for any number of runs, requests and crashes.                           *)
(***************************************************************************)
EXTENDS WriterLock, Schedule, FiniteSetTheorems, SequenceTheorems,
        WellFoundedInduction, TLAPS

(* The writer lock.                                                        *)

(***************************************************************************)
(* The state of the lock has the types the code gives it.                  *)
(***************************************************************************)
THEOREM LockTypes == LockSpec => []LockTypeOK
<1>1. LockInit => LockTypeOK
  BY NobodyAssumption DEF LockInit, LockTypeOK, Files, NoFile, PCs
<1>2. LockTypeOK /\ [LockNext]_lockVars => LockTypeOK'
  <2> SUFFICES ASSUME LockTypeOK, [LockNext]_lockVars PROVE LockTypeOK'
    OBVIOUS
  <2> USE DEF LockTypeOK, PCs, Goto
  <2>1. ASSUME NEW p \in Proc, Acquire(p) PROVE LockTypeOK'
    BY <2>1 DEF Acquire
  <2>2. ASSUME NEW p \in Proc, TryOpen(p) PROVE LockTypeOK'
    <3>1. CASE ~PathExists
      <4>1. [owner |-> p, written |-> FALSE] \in Files
        BY DEF Files
      <4> QED BY <2>2, <3>1, <4>1 DEF TryOpen
    <3>2. CASE PathExists
      BY <2>2, <3>2 DEF TryOpen
    <3> QED BY <3>1, <3>2
  <2>3. ASSUME NEW p \in Proc, WritePid(p) PROVE LockTypeOK'
    <3>1. file.owner = p => [file EXCEPT !.written = TRUE] \in Files
      <4>1. file.owner = p => file \in [owner : Proc, written : BOOLEAN]
        BY NobodyAssumption DEF Files, NoFile
      <4> QED BY <4>1 DEF Files
    <3> QED BY <2>3, <3>1 DEF WritePid
  <2>4. ASSUME NEW p \in Proc, ReadHolder(p) PROVE LockTypeOK'
    <3>1. file.owner \in Proc \cup {Nobody}
      BY DEF Files, NoFile
    <3> QED BY <2>4, <3>1 DEF ReadHolder
  <2>5. ASSUME NEW p \in Proc, Reclaim(p) PROVE LockTypeOK'
    <3>1. NoFile \in Files
      BY DEF Files, NoFile
    <3> QED BY <2>5, <3>1 DEF Reclaim
  <2>6. ASSUME NEW p \in Proc, WaitError(p) PROVE LockTypeOK'
    BY <2>6 DEF WaitError
  <2>7. ASSUME NEW p \in Proc, Release(p) \/ Suspend(p) PROVE LockTypeOK'
    <3>1. NoFile \in Files
      BY DEF Files, NoFile
    <3> QED BY <2>7, <3>1 DEF Release, Suspend
  <2>8. ASSUME NEW p \in Proc, Resume(p) PROVE LockTypeOK'
    BY <2>8 DEF Resume
  <2>9. ASSUME NEW p \in Proc, Exit(p) \/ Kill(p) PROVE LockTypeOK'
    BY <2>9 DEF Exit, Kill
  <2>10. CASE UNCHANGED lockVars
    BY <2>10 DEF lockVars
  <2> QED
    BY <2>1, <2>2, <2>3, <2>4, <2>5, <2>6, <2>7, <2>8, <2>9, <2>10
    DEF LockNext, LockStep
<1> QED
  BY <1>1, <1>2, PTL DEF LockSpec

(***************************************************************************)
(* The strengthening: as long as every process lives, a process that has   *)
(* created the file or holds the lock is the creator of the file the path  *)
(* names.                                                                  *)
(***************************************************************************)
OwnerInv ==
    NobodyGone => \A p \in Proc : pc[p] \in {"created", "held"} => file.owner = p

(***************************************************************************)
(* Two processes are never both between acquire and release as long as no  *)
(* process that used the lock has ended (cli/common.py, WriterLock).       *)
(***************************************************************************)
THEOREM LockExclusion == LockSpec => []SingleWriterWhileAllLive
<1>1. LockInit => OwnerInv
  BY DEF LockInit, OwnerInv
<1>2. LockTypeOK /\ OwnerInv /\ [LockNext]_lockVars => OwnerInv'
  <2> SUFFICES ASSUME LockTypeOK, OwnerInv, [LockNext]_lockVars, NobodyGone',
                      NEW q \in Proc, pc'[q] \in {"created", "held"}
               PROVE  file'.owner = q
    BY DEF OwnerInv
  <2> USE DEF LockTypeOK, Files, PCs, Goto, NoFile, PathExists, PidAlive
  <2>0. NobodyGone
    <3>1. ASSUME NEW p \in Proc, pc[p] = "gone" PROVE pc'[p] = "gone"
      BY <3>1 DEF LockNext, lockVars, LockStep, Acquire, TryOpen, WritePid, ReadHolder,
         Reclaim, WaitError, Release, Suspend, Resume, Exit, Kill
    <3> QED BY <3>1 DEF NobodyGone
  <2>a. \A p \in Proc : pc[p] \in {"created", "held"} => file.owner = p
    BY <2>0 DEF OwnerInv
  <2>1. ASSUME NEW p \in Proc, Acquire(p) \/ Resume(p) PROVE file'.owner = q
    BY <2>1, <2>a DEF Acquire, Resume
  <2>2. ASSUME NEW p \in Proc, TryOpen(p) PROVE file'.owner = q
    BY <2>2, <2>a, NobodyAssumption DEF TryOpen
  <2>3. ASSUME NEW p \in Proc, WritePid(p) PROVE file'.owner = q
    BY <2>3, <2>a DEF WritePid
  <2>4. ASSUME NEW p \in Proc, ReadHolder(p) \/ WaitError(p)
        PROVE file'.owner = q
    BY <2>4, <2>a DEF ReadHolder, WaitError
  <2>5. ASSUME NEW p \in Proc, Reclaim(p) PROVE file'.owner = q
    BY <2>5, <2>a, <2>0 DEF Reclaim, NobodyGone
  <2>6. ASSUME NEW p \in Proc, Release(p) \/ Suspend(p) PROVE file'.owner = q
    BY <2>6, <2>a DEF Release, Suspend
  <2>7. ASSUME NEW p \in Proc, Exit(p) \/ Kill(p) PROVE file'.owner = q
    BY <2>7 DEF Exit, Kill, NobodyGone
  <2>8. CASE UNCHANGED lockVars
    BY <2>8, <2>a DEF lockVars
  <2> QED
    BY <2>1, <2>2, <2>3, <2>4, <2>5, <2>6, <2>7, <2>8 DEF LockNext, LockStep
<1>3. OwnerInv => SingleWriterWhileAllLive
  BY DEF OwnerInv, SingleWriterWhileAllLive
<1> QED
  BY <1>1, <1>2, <1>3, LockTypes, PTL DEF LockSpec

-----------------------------------------------------------------------------
(* The schedule: the types, an empty queue behind a free slot, and as long  *)
(* as the two threads do not meet on the row every created run, with the   *)
(* pause of each swap where a resume will undo it.                         *)

(***************************************************************************)
(* What each thread holds, in every state: a row to write names a run, or  *)
(* no run and an empty queue.                                              *)
(***************************************************************************)
ThreadsHold ==
    /\ hpc # "idle" => hrun \in Run
    /\ hpc \in {"pause", "swap", "write"} => hrow.active \in Run
    /\ hpc \in {"pause", "swap"} => hrow.queue # <<>>
    /\ spc # "idle" => srun \in Run
    /\ spc = "resume" => srow.active \in Run
    /\ srow.active = NoRun => srow.queue = <<>>

PausesLogged == \A r \in Run : Paused(r) => r \in everPaused

KInv == TypeOK /\ ThreadsHold /\ PausesLogged /\ FreeSlotEmptyQueue

(***************************************************************************)
(* No run is in a row twice.                                               *)
(***************************************************************************)
Distinct(a, q) ==
    /\ \A i, j \in 1..Len(q) : q[i] = q[j] => i = j
    /\ \A i \in 1..Len(q) : q[i] # a

(***************************************************************************)
(* A run paused by a swap waits right behind a run that took the slot by   *)
(* preemption, whose end will resume it.                                   *)
(***************************************************************************)
Ahead(a, q, i) == IF i = 1 THEN a ELSE q[i - 1]

Chained(a, q, preempted, held) ==
    /\ Distinct(a, q)
    /\ \A r \in held :
          \E i \in 1..Len(q) : q[i] = r /\ Ahead(a, q, i) \in preempted

Swapped == {r \in Run : pausedBy[r] = "swap"}

InRow(a, q, r) == a = r \/ Contains(q, r)
Open == created \ terminal

(***************************************************************************)
(* The run of a request is in the row once the request has written it.     *)
(***************************************************************************)
NoneLost ==
    /\ \A r \in Open :
          \/ InRow(active, queue, r)
          \/ hpc \in {"created", "pause", "swap", "write"} /\ r = hrun
    /\ hpc \in {"pause", "swap", "write"} =>
          \A r \in Open : InRow(hrow.active, hrow.queue, r)
    /\ spc \in {"resume", "write"} =>
          \A r \in Open : \/ InRow(srow.active, srow.queue, r)
                          \/ hpc = "created" /\ r = hrun

(***************************************************************************)
(* The chain of preemptions, in the row and in what is about to be it.     *)
(***************************************************************************)
HttpChained ==
    /\ hpc \in {"idle", "register", "created", "pause", "write"} =>
          Chained(active, queue, preemptions, Swapped)
    /\ hpc = "pause" =>
          /\ active \in Run /\ hrow = [active |-> hrun, queue |-> <<active>> \o queue]
          /\ ~InRow(active, queue, hrun)
    /\ hpc = "swap" =>
          /\ hrow.active = hrun
          /\ Chained(hrow.active, hrow.queue, preemptions \cup {hrun}, Swapped)
    /\ hpc = "write" => Chained(hrow.active, hrow.queue, preemptions, Swapped)
    /\ hpc = "log" => Chained(active, queue, preemptions \cup {hrun}, Swapped)

SupChained ==
    /\ spc # "idle" => srun = active /\ srun \in terminal
    /\ spc = "resume" =>
          /\ queue # <<>> /\ srow = [active |-> Head(queue), queue |-> Tail(queue)]
          /\ active \in preemptions
    /\ spc = "write" => Chained(srow.active, srow.queue, preemptions, Swapped)

Serial == ~Overlap /\ NoneLost /\ HttpChained /\ SupChained

SInv == ~disturbed => Serial
-----------------------------------------------------------------------------
(* Facts about the row's queue.                                            *)

(***************************************************************************)
(* Every set of naturals that has an element has a least one.              *)
(***************************************************************************)
LEMMA LeastNat ==
    ASSUME NEW T, T \subseteq Nat, T # {}
    PROVE  \E m \in T : \A k \in T : m <= k
<1>1. PICK m \in T : \A k \in T : <<k, m>> \notin OpToRel(<, Nat)
  BY NatLessThanWellFounded, WFMin
<1>2. \A k \in T : ~(k < m)
  BY <1>1 DEF OpToRel
<1> QED
  BY <1>2

(***************************************************************************)
(* Of a set of positions, as many as there are can be counted: the k-th    *)
(* one, which Without chooses, exists.                                     *)
(***************************************************************************)
LEMMA NthExists ==
    ASSUME NEW n \in Nat, NEW K, K \subseteq 1..n, NEW k \in 1..Cardinality(K)
    PROVE  \E i \in K : Cardinality({j \in K : j <= i}) = k
<1> DEFINE UpTo(i) == {j \in K : j <= i}
           T == {m \in 0..n : k <= Cardinality(UpTo(m))}
<1>1. IsFiniteSet(K) /\ Cardinality(K) \in Nat
  <2>1. IsFiniteSet(1..n)
    BY FS_Interval
  <2> QED
    BY <2>1, FS_Subset, FS_CardinalityType
<1>2. ASSUME NEW m \in Nat
      PROVE  IsFiniteSet(UpTo(m)) /\ Cardinality(UpTo(m)) \in Nat
  BY <1>1, FS_Subset, FS_CardinalityType
<1>3. UpTo(n) = K /\ UpTo(0) = {}
  <2>1. \A j \in K : j \in Nat /\ j <= n /\ ~(j <= 0)
    OBVIOUS
  <2> QED
    BY <2>1
<1> HIDE DEF UpTo
<1>4. T \subseteq Nat /\ T # {}
  BY <1>3
<1> HIDE DEF T
<1>5. PICK m \in T : \A j \in T : m <= j
  BY <1>4, LeastNat
<1> USE DEF T
<1>6. m \in 0..n /\ k <= Cardinality(UpTo(m))
  BY <1>5
<1>7. m # 0
  BY <1>3, <1>6, FS_EmptySet
<1>8. m - 1 \in 0..n /\ ~(k <= Cardinality(UpTo(m - 1)))
  <2>1. m - 1 \in 0..n /\ ~(m <= m - 1)
    BY <1>6, <1>7
  <2>2. m - 1 \notin T
    BY <1>5, <2>1
  <2> QED
    BY <2>1, <2>2
<1>9. UpTo(m) = IF m \in K THEN UpTo(m - 1) \cup {m} ELSE UpTo(m - 1)
  <2>1. \A j \in K : j \in Nat /\ (j <= m <=> j <= m - 1 \/ j = m)
    BY <1>6, <1>7
  <2> QED
    BY <2>1 DEF UpTo
<1>10. m \in K /\ UpTo(m) = UpTo(m - 1) \cup {m}
  BY <1>6, <1>8, <1>9
<1>11. Cardinality(UpTo(m)) = k
  <2>1. IsFiniteSet(UpTo(m - 1)) /\ Cardinality(UpTo(m - 1)) \in Nat
    BY <1>2, <1>8
  <2>2. Cardinality(UpTo(m)) <= Cardinality(UpTo(m - 1)) + 1
    <3> DEFINE U == UpTo(m - 1)
    <3>1. IsFiniteSet(U) /\ Cardinality(U) \in Nat
      BY <2>1
    <3> HIDE DEF U, T
    <3>2. Cardinality(U \cup {m}) =
            IF m \in U THEN Cardinality(U) ELSE Cardinality(U) + 1
      BY <3>1, FS_AddElement
    <3>3. Cardinality(U \cup {m}) <= Cardinality(U) + 1
      BY <3>1, <3>2
    <3> QED
      BY <1>10, <3>3 DEF U
  <2>3. Cardinality(UpTo(m)) \in Nat /\ k \in Nat
    BY <1>2, <1>6
  <2> QED
    BY <1>6, <1>8, <2>1, <2>2, <2>3
<1> QED
  BY <1>10, <1>11 DEF UpTo

(***************************************************************************)
(* A queue without one of its runs is a queue of runs.                     *)
(***************************************************************************)
LEMMA WithoutType ==
    ASSUME NEW S, NEW q \in Seq(S), NEW r
    PROVE  Without(q, r) \in Seq(S)
<1> DEFINE K == {i \in 1..Len(q) : q[i] # r}
           Nth(k) == CHOOSE i \in K : Cardinality({j \in K : j <= i}) = k
<1>1. K \subseteq 1..Len(q) /\ Len(q) \in Nat
  OBVIOUS
<1>2. Cardinality(K) \in Nat
  <2>1. IsFiniteSet(1..Len(q))
    BY <1>1, FS_Interval
  <2> QED
    BY <1>1, <2>1, FS_Subset, FS_CardinalityType
<1> HIDE DEF K
<1>3. \A k \in 1..Cardinality(K) : Nth(k) \in 1..Len(q)
  <2>1. ASSUME NEW k \in 1..Cardinality(K) PROVE Nth(k) \in K
    BY <1>1, NthExists
  <2> QED
    BY <1>1, <2>1
<1> HIDE DEF Nth
<1>4. [k \in 1..Cardinality(K) |-> q[Nth(k)]] \in [1..Cardinality(K) -> S]
  BY <1>3
<1>5. [k \in 1..Cardinality(K) |-> q[Nth(k)]] \in Seq(S)
  BY <1>2, <1>4
<1> QED
  BY <1>5 DEF Without, K, Nth

(***************************************************************************)
(* A run put in front of the queue, and the queue's head taken from it,    *)
(* position by position.                                                   *)
(***************************************************************************)
LEMMA PutFirst ==
    ASSUME NEW S, NEW a \in S, NEW q \in Seq(S)
    PROVE  /\ <<a>> \o q \in Seq(S) /\ Len(<<a>> \o q) = Len(q) + 1
           /\ <<a>> \o q # <<>>
           /\ (<<a>> \o q)[1] = a /\ Head(<<a>> \o q) = a
           /\ \A i \in 1..Len(q) : (<<a>> \o q)[i + 1] = q[i]
<1> DEFINE s == <<a>> \o q
<1>1. <<a>> \in Seq(S) /\ Len(<<a>>) = 1 /\ <<a>>[1] = a
  OBVIOUS
<1>2. /\ s \in Seq(S) /\ Len(s) = 1 + Len(q)
      /\ \A i \in 1..(1 + Len(q)) : s[i] = IF i <= 1 THEN <<a>>[i] ELSE q[i - 1]
  BY <1>1, ConcatProperties
<1>3. Len(q) \in Nat
  OBVIOUS
<1> HIDE DEF s
<1>4. s[1] = a /\ s # <<>> /\ \A i \in 1..Len(q) : s[i + 1] = q[i]
  BY <1>1, <1>2, <1>3
<1>5. Head(s) = a
  BY <1>2, <1>4
<1> QED
  BY <1>2, <1>3, <1>4, <1>5 DEF s

LEMMA TakeFirst ==
    ASSUME NEW S, NEW q \in Seq(S), q # <<>>
    PROVE  /\ Head(q) \in S /\ Head(q) = q[1] /\ Tail(q) \in Seq(S)
           /\ Len(q) \in Nat \ {0} /\ Len(Tail(q)) = Len(q) - 1
           /\ \A i \in 1..Len(Tail(q)) : Tail(q)[i] = q[i + 1]
<1>1. Len(q) \in Nat \ {0}
  BY EmptySeq
<1> QED
  BY <1>1, HeadTailProperties

(***************************************************************************)
(* Who is in a row after the three ways the row changes.                   *)
(***************************************************************************)
LEMMA InRowFront ==
    ASSUME NEW a \in Run, NEW q \in Seq(Run), NEW b, NEW r
    PROVE  InRow(b, <<a>> \o q, r) <=> b = r \/ InRow(a, q, r)
<1> DEFINE s == <<a>> \o q
<1>1. /\ Len(s) = Len(q) + 1 /\ Len(q) \in Nat /\ s[1] = a
      /\ \A i \in 1..Len(q) : s[i + 1] = q[i]
  BY PutFirst
<1> HIDE DEF s
<1>2. ASSUME InRow(a, q, r) PROVE Contains(s, r)
  <2>1. CASE a = r
    BY <1>1, <2>1 DEF Contains
  <2>2. CASE Contains(q, r)
    <3>1. PICK i \in 1..Len(q) : q[i] = r
      BY <2>2 DEF Contains
    <3>2. i + 1 \in 1..Len(s) /\ s[i + 1] = r
      BY <1>1, <3>1
    <3> QED
      BY <3>2 DEF Contains
  <2> QED
    BY <1>2, <2>1, <2>2 DEF InRow
<1>3. ASSUME Contains(s, r) PROVE InRow(a, q, r)
  <2>1. PICK i \in 1..Len(s) : s[i] = r
    BY <1>3 DEF Contains
  <2>2. CASE i = 1
    BY <1>1, <2>1, <2>2 DEF InRow
  <2>3. CASE i # 1
    <3>1. i - 1 \in 1..Len(q) /\ q[i - 1] = r
      BY <1>1, <2>1, <2>3
    <3> QED
      BY <3>1 DEF InRow, Contains
  <2> QED
    BY <2>2, <2>3
<1> QED
  BY <1>2, <1>3 DEF InRow, s

LEMMA InRowAppend ==
    ASSUME NEW q \in Seq(Run), NEW b \in Run, NEW a, NEW r
    PROVE  InRow(a, Append(q, b), r) <=> b = r \/ InRow(a, q, r)
<1> DEFINE s == Append(q, b)
<1>1. /\ Len(s) = Len(q) + 1 /\ Len(q) \in Nat /\ s[Len(q) + 1] = b
      /\ \A i \in 1..Len(q) : s[i] = q[i]
  BY AppendProperties
<1> HIDE DEF s
<1>2. Contains(s, r) <=> b = r \/ Contains(q, r)
  BY <1>1 DEF Contains
<1> QED
  BY <1>2 DEF InRow, s

LEMMA InRowRest ==
    ASSUME NEW q \in Seq(Run), q # <<>>, NEW a, NEW r, InRow(a, q, r)
    PROVE  a = r \/ InRow(Head(q), Tail(q), r)
<1>1. /\ Head(q) = q[1] /\ Len(q) \in Nat /\ Len(Tail(q)) = Len(q) - 1
      /\ \A i \in 1..Len(Tail(q)) : Tail(q)[i] = q[i + 1]
  BY TakeFirst
<1>2. ASSUME Contains(q, r) PROVE InRow(Head(q), Tail(q), r)
  <2>1. PICK i \in 1..Len(q) : q[i] = r
    BY <1>2 DEF Contains
  <2>2. CASE i = 1
    BY <1>1, <2>1, <2>2 DEF InRow
  <2>3. CASE i # 1
    <3>1. i - 1 \in 1..Len(Tail(q)) /\ Tail(q)[i - 1] = r
      BY <1>1, <2>1, <2>3
    <3> QED
      BY <3>1 DEF InRow, Contains
  <2> QED
    BY <2>2, <2>3
<1> QED
  BY <1>2 DEF InRow

(***************************************************************************)
(* A chained row stays chained: for fewer runs paused and more             *)
(* preemptions; without a run in it, for whichever takes the slot; with a  *)
(* new run at the end; when its active run is swapped out; and when the    *)
(* head of its queue is promoted and its pause undone, or never made.      *)
(***************************************************************************)
LEMMA ChainedWeaken ==
    ASSUME NEW a, NEW q, NEW P, NEW H, Chained(a, q, P, H),
           NEW P2, NEW H2, P \subseteq P2, H2 \subseteq H
    PROVE  Chained(a, q, P2, H2)
BY DEF Chained

LEMMA ChainedEmpty ==
    ASSUME NEW a, NEW P, NEW H, Chained(a, <<>>, P, H), NEW b
    PROVE  Chained(b, <<>>, P, H)
BY DEF Chained, Distinct

LEMMA ChainedAppend ==
    ASSUME NEW a, NEW q \in Seq(Run), NEW P, NEW H, Chained(a, q, P, H),
           NEW b \in Run, ~InRow(a, q, b)
    PROVE  Chained(a, Append(q, b), P, H)
<1> DEFINE s == Append(q, b)
<1>1. /\ Len(s) = Len(q) + 1 /\ Len(q) \in Nat /\ s[Len(q) + 1] = b
      /\ \A i \in 1..Len(q) : s[i] = q[i]
  BY AppendProperties
<1> HIDE DEF s
<1>2. a # b /\ \A i \in 1..Len(q) : q[i] # b
  BY DEF InRow, Contains
<1>3. Distinct(a, s)
  <2>1. \A i \in 1..Len(s) : i \in 1..Len(q) \/ i = Len(q) + 1
    BY <1>1
  <2> QED
    BY <1>1, <1>2, <2>1 DEF Chained, Distinct
<1>4. ASSUME NEW r \in H
      PROVE  \E i \in 1..Len(s) : s[i] = r /\ Ahead(a, s, i) \in P
  <2>1. PICK i \in 1..Len(q) : q[i] = r /\ Ahead(a, q, i) \in P
    BY DEF Chained
  <2>2. i \in 1..Len(s) /\ s[i] = r /\ (i # 1 => i - 1 \in 1..Len(q))
    BY <1>1, <2>1
  <2> QED
    BY <1>1, <2>1, <2>2 DEF Ahead
<1> QED
  BY <1>3, <1>4 DEF Chained, s

LEMMA ChainedFront ==
    ASSUME NEW a \in Run, NEW q \in Seq(Run), NEW P, NEW H, Chained(a, q, P, H),
           NEW b, ~InRow(a, q, b)
    PROVE  Chained(b, <<a>> \o q, P \cup {b}, H \cup {a})
<1> DEFINE s == <<a>> \o q
<1>1. /\ Len(s) = Len(q) + 1 /\ Len(q) \in Nat /\ s[1] = a
      /\ \A i \in 1..Len(q) : s[i + 1] = q[i]
  BY PutFirst
<1> HIDE DEF s
<1>2. a # b /\ \A i \in 1..Len(q) : q[i] # b
  BY DEF InRow, Contains
<1>3. \A i \in 1..Len(s) : i = 1 \/ (i - 1 \in 1..Len(q) /\ s[i] = q[i - 1])
  BY <1>1
<1>4. Distinct(b, s)
  <2>1. \A i \in 1..Len(s) : s[i] # b
    BY <1>1, <1>2, <1>3
  <2>2. ASSUME NEW i \in 1..Len(s), NEW j \in 1..Len(s), s[i] = s[j]
        PROVE  i = j
    <3>1. CASE i = 1 \/ j = 1
      BY <1>1, <1>3, <2>2, <3>1 DEF Chained, Distinct
    <3>2. CASE i # 1 /\ j # 1
      <4>1. i - 1 = j - 1
        BY <1>3, <2>2, <3>2 DEF Chained, Distinct
      <4> QED
        BY <4>1, <1>1
    <3> QED
      BY <3>1, <3>2
  <2> QED
    BY <2>1, <2>2 DEF Distinct
<1>5. ASSUME NEW r \in H \cup {a}
      PROVE  \E i \in 1..Len(s) : s[i] = r /\ Ahead(b, s, i) \in P \cup {b}
  <2>1. CASE r = a
    BY <1>1, <2>1 DEF Ahead
  <2>2. CASE r \in H
    <3>1. PICK i \in 1..Len(q) : q[i] = r /\ Ahead(a, q, i) \in P
      BY <2>2 DEF Chained
    <3>2. i + 1 \in 1..Len(s) /\ s[i + 1] = r /\ i + 1 # 1 /\ (i + 1) - 1 = i
      BY <1>1, <3>1
    <3>3. s[i] = Ahead(a, q, i)
      <4>1. i \in 1..Len(s)
        BY <1>1
      <4> QED
        BY <1>1, <1>3, <4>1 DEF Ahead
    <3>4. Ahead(b, s, i + 1) = s[i]
      BY <3>2 DEF Ahead
    <3> QED
      BY <3>1, <3>2, <3>3, <3>4
  <2> QED
    BY <2>1, <2>2
<1> QED
  BY <1>4, <1>5 DEF Chained, s

LEMMA ChainedRest ==
    ASSUME NEW a, NEW q \in Seq(Run), q # <<>>, NEW P, NEW H, Chained(a, q, P, H)
    PROVE  /\ Chained(Head(q), Tail(q), P, H \ {Head(q)})
           /\ a \notin P => Head(q) \notin H
<1>1. /\ Head(q) = q[1] /\ Len(q) \in Nat \ {0} /\ Len(Tail(q)) = Len(q) - 1
      /\ \A i \in 1..Len(Tail(q)) : Tail(q)[i] = q[i + 1]
  BY TakeFirst
<1>2. Distinct(Head(q), Tail(q))
  <2>1. \A i \in 1..Len(Tail(q)) : i + 1 \in 1..Len(q) /\ i + 1 # 1
    BY <1>1
  <2>2. \A i, j \in 1..Len(Tail(q)) : i + 1 = j + 1 => i = j
    BY <1>1
  <2>3. 1 \in 1..Len(q)
    BY <1>1
  <2> QED
    BY <1>1, <2>1, <2>2, <2>3 DEF Chained, Distinct
<1>3. ASSUME NEW r \in H \ {Head(q)}
      PROVE  \E i \in 1..Len(Tail(q)) :
                Tail(q)[i] = r /\ Ahead(Head(q), Tail(q), i) \in P
  <2>1. PICK i \in 1..Len(q) : q[i] = r /\ Ahead(a, q, i) \in P
    BY DEF Chained
  <2>2. i # 1
    BY <1>1, <2>1
  <2>3. /\ i - 1 \in 1..Len(Tail(q)) /\ Tail(q)[i - 1] = r
        /\ i - 1 # 1 => /\ i - 2 \in 1..Len(Tail(q)) /\ (i - 1) - 1 = i - 2
                        /\ Tail(q)[i - 2] = q[i - 1]
    BY <1>1, <2>1, <2>2
  <2>4. Ahead(Head(q), Tail(q), i - 1) = Ahead(a, q, i)
    BY <1>1, <2>2, <2>3 DEF Ahead
  <2> QED
    BY <2>1, <2>3, <2>4
<1>4. ASSUME Head(q) \in H PROVE a \in P
  <2>1. PICK i \in 1..Len(q) : q[i] = Head(q) /\ Ahead(a, q, i) \in P
    BY <1>4 DEF Chained
  <2>2. i = 1
    <3>1. 1 \in 1..Len(q)
      BY <1>1
    <3> QED
      BY <1>1, <2>1, <3>1 DEF Chained, Distinct
  <2> QED
    BY <2>1, <2>2 DEF Ahead
<1> QED
  BY <1>2, <1>3, <1>4 DEF Chained
-----------------------------------------------------------------------------
(* One step, each part of the invariant.                                   *)

(***************************************************************************)
(* Every step keeps the types.                                             *)
(***************************************************************************)
LEMMA TypesStep ==
    ASSUME TypeOK, ThreadsHold, [Next]_vars
    PROVE  TypeOK'
<1> USE ScheduleAssumption DEF TypeOK, Row, ThreadsHold
<1>1. ASSUME NEW r \in Run, PreflightCreateRun(r), Note PROVE TypeOK'
  BY <1>1 DEF PreflightCreateRun, row, log, http, sup, Note
<1>2. ASSUME RegisterRun, Note PROVE TypeOK'
  BY <1>2 DEF RegisterRun, row, log, http, sup, Note
<1>3. ASSUME OnRunCreated, Note PROVE TypeOK'
  <2>1. hrow' \in Row
    <3>1. \/ hrow' = hrow
          \/ hrow' = EmptyRow
          \/ hrow' = [active |-> hrun, queue |-> queue]
          \/ active \in Run /\ hrow' = [active |-> hrun, queue |-> <<active>> \o queue]
          \/ hrow' = [active |-> active, queue |-> Append(queue, hrun)]
      BY <1>3 DEF OnRunCreated, HttpDone
    <3>2. hrun \in Run
      BY <1>3 DEF OnRunCreated
    <3>3. Append(queue, hrun) \in Seq(Run)
      BY <3>2, AppendProperties
    <3>4. active \in Run => <<active>> \o queue \in Seq(Run)
      BY PutFirst
    <3>5. /\ EmptyRow \in Row /\ [active |-> hrun, queue |-> queue] \in Row
          /\ [active |-> active, queue |-> Append(queue, hrun)] \in Row
      BY <3>2, <3>3 DEF EmptyRow
    <3>6. active \in Run => [active |-> hrun, queue |-> <<active>> \o queue] \in Row
      BY <3>2, <3>4
    <3>7. hrow \in Row
      OBVIOUS
    <3> HIDE DEF TypeOK, Row, ThreadsHold
    <3> QED
      BY <3>1, <3>5, <3>6, <3>7
  <2>2. /\ hpc' \in {"idle", "register", "created", "pause", "swap", "write", "log"}
        /\ hrun' \in Run \cup {NoRun}
        /\ UNCHANGED <<row, log, created, terminal, sup, crashes>>
    BY <1>3 DEF OnRunCreated, HttpDone
  <2>3. disturbed' \in BOOLEAN
    BY <1>3 DEF Note
  <2> QED
    BY <2>1, <2>2, <2>3 DEF row, log, sup
<1>4. ASSUME PauseActive, Note PROVE TypeOK'
  BY <1>4 DEF PauseActive, row, log, http, sup, Note
<1>5. ASSUME HttpWrite, Note PROVE TypeOK'
  <2>1. active' \in Run \cup {NoRun} /\ queue' \in Seq(Run)
    BY <1>5 DEF HttpWrite
  <2>2. /\ hpc' \in {"idle", "log"} /\ hrun' \in Run \cup {NoRun}
        /\ hrow' \in {hrow, EmptyRow}
        /\ UNCHANGED <<log, created, terminal, sup, crashes>>
    BY <1>5 DEF HttpWrite, HttpDone
  <2>4. hrow' \in Row
    <3>1. hrow \in Row /\ EmptyRow \in Row
      BY DEF EmptyRow
    <3> HIDE DEF Row
    <3> QED
      BY <2>2, <3>1
  <2>3. disturbed' \in BOOLEAN
    BY <1>5 DEF Note
  <2> QED
    BY <2>1, <2>2, <2>3, <2>4 DEF log, sup
<1>6. ASSUME LogPreemption, Note PROVE TypeOK'
  BY <1>6 DEF LogPreemption, row, log, http, sup, HttpDone, EmptyRow, Note
<1>7. ASSUME ReconcileTerminalDrive, Note PROVE TypeOK'
  BY <1>7 DEF ReconcileTerminalDrive, row, log, http, sup, Note
<1>8. ASSUME OnRunTerminal, Note PROVE TypeOK'
  <2>1. srow' \in Row
    <3>1. \/ srow' = EmptyRow
          \/ queue # <<>> /\ srow' = [active |-> Head(queue), queue |-> Tail(queue)]
          \/ srow' = [active |-> active, queue |-> Without(queue, srun)]
      BY <1>8 DEF OnRunTerminal, SupDone
    <3>2. Without(queue, srun) \in Seq(Run)
      BY WithoutType
    <3>3. queue # <<>> => Head(queue) \in Run /\ Tail(queue) \in Seq(Run)
      BY TakeFirst
    <3>4. /\ EmptyRow \in Row
          /\ [active |-> active, queue |-> Without(queue, srun)] \in Row
      BY <3>2 DEF EmptyRow
    <3>5. queue # <<>> => [active |-> Head(queue), queue |-> Tail(queue)] \in Row
      BY <3>3
    <3> HIDE DEF TypeOK, Row, ThreadsHold
    <3> QED
      BY <3>1, <3>4, <3>5
  <2>2. /\ spc' \in {"idle", "resume", "write"} /\ srun' \in Run \cup {NoRun}
        /\ UNCHANGED <<row, log, created, terminal, http, crashes>>
    BY <1>8 DEF OnRunTerminal, SupDone
  <2>3. disturbed' \in BOOLEAN
    BY <1>8 DEF Note
  <2> QED
    BY <2>1, <2>2, <2>3 DEF row, log, http
<1>9. ASSUME ResumePreempted, Note PROVE TypeOK'
  BY <1>9 DEF ResumePreempted, row, log, http, sup, Note
<1>10. ASSUME SupWrite, Note PROVE TypeOK'
  BY <1>10 DEF SupWrite, row, log, http, sup, SupDone, EmptyRow, Note
<1>11. ASSUME NEW r \in Run, Finish(r), Note PROVE TypeOK'
  BY <1>11 DEF Finish, row, log, http, sup, Note
<1>12. ASSUME NEW r \in Run, OperatorPause(r), Note PROVE TypeOK'
  BY <1>12 DEF OperatorPause, row, log, http, sup, Note
<1>13. ASSUME NEW r \in Run, OperatorResume(r), Note PROVE TypeOK'
  BY <1>13 DEF OperatorResume, row, log, http, sup, Note
<1>14. ASSUME Crash, Note PROVE TypeOK'
  BY <1>14 DEF Crash, row, log, http, sup, HttpDone, SupDone, EmptyRow, Note
<1>15. CASE UNCHANGED vars
  BY <1>15 DEF vars, state, row, log, http, sup
<1> HIDE DEF TypeOK, Row, ThreadsHold
<1> QED
  BY <1>1, <1>2, <1>3, <1>4, <1>5, <1>6, <1>7, <1>8, <1>9, <1>10, <1>11, <1>12,
     <1>13, <1>14, <1>15
     DEF Next

(***************************************************************************)
(* Every step keeps what the threads hold.                                 *)
(***************************************************************************)
LEMMA ThreadsStep ==
    ASSUME TypeOK, ThreadsHold, FreeSlotEmptyQueue, [Next]_vars
    PROVE  ThreadsHold'
<1> USE ScheduleAssumption DEF TypeOK, Row, ThreadsHold, FreeSlotEmptyQueue
<1>1. ASSUME NEW r \in Run, PreflightCreateRun(r), Note PROVE ThreadsHold'
  BY <1>1 DEF PreflightCreateRun, row, log, http, sup
<1>2. ASSUME RegisterRun, Note PROVE ThreadsHold'
  BY <1>2 DEF RegisterRun, row, log, http, sup
<1>3. ASSUME OnRunCreated, Note PROVE ThreadsHold'
  BY <1>3 DEF OnRunCreated, row, log, http, sup, HttpDone, EmptyRow
<1>4. ASSUME PauseActive, Note PROVE ThreadsHold'
  BY <1>4 DEF PauseActive, row, log, http, sup
<1>5. ASSUME HttpWrite, Note PROVE ThreadsHold'
  BY <1>5 DEF HttpWrite, row, log, http, sup, HttpDone, EmptyRow
<1>6. ASSUME LogPreemption, Note PROVE ThreadsHold'
  BY <1>6 DEF LogPreemption, row, log, http, sup, HttpDone, EmptyRow
<1>7. ASSUME ReconcileTerminalDrive, Note PROVE ThreadsHold'
  BY <1>7 DEF ReconcileTerminalDrive, row, log, http, sup
<1>8. ASSUME OnRunTerminal, Note PROVE ThreadsHold'
  <2>1. hpc' = hpc /\ hrun' = hrun /\ hrow' = hrow
    BY <1>8 DEF OnRunTerminal, http
  <2>2. CASE srun = active /\ queue = <<>>
    BY <1>8, <2>1, <2>2 DEF OnRunTerminal, EmptyRow, SupDone
  <2>3. CASE srun = active /\ queue # <<>>
    <3>1. Head(queue) \in Run
      BY <2>3, TakeFirst
    <3>2. srow'.active = Head(queue) /\ srun' = srun /\ spc' # "idle" /\ spc # "idle"
      BY <1>8, <2>3 DEF OnRunTerminal
    <3> QED
      BY <2>1, <3>1, <3>2
  <2>4. CASE srun # active /\ Contains(queue, srun)
    <3>1. queue # <<>>
      BY <2>4, EmptySeq DEF Contains
    <3>2. /\ srow'.active = active /\ active # NoRun
          /\ spc' = "write" /\ srun' = srun /\ spc # "idle"
      BY <1>8, <2>4, <3>1 DEF OnRunTerminal
    <3> QED
      BY <2>1, <3>2
  <2>5. CASE srun # active /\ ~Contains(queue, srun)
    BY <1>8, <2>1, <2>5 DEF OnRunTerminal, SupDone, EmptyRow
  <2> QED
    BY <2>2, <2>3, <2>4, <2>5
<1>9. ASSUME ResumePreempted, Note PROVE ThreadsHold'
  BY <1>9 DEF ResumePreempted, row, log, http, sup
<1>10. ASSUME SupWrite, Note PROVE ThreadsHold'
  BY <1>10 DEF SupWrite, row, log, http, sup, SupDone, EmptyRow
<1>11. ASSUME NEW r \in Run, Finish(r), Note PROVE ThreadsHold'
  BY <1>11 DEF Finish, row, log, http, sup
<1>12. ASSUME NEW r \in Run, OperatorPause(r), Note PROVE ThreadsHold'
  BY <1>12 DEF OperatorPause, row, log, http, sup
<1>13. ASSUME NEW r \in Run, OperatorResume(r), Note PROVE ThreadsHold'
  BY <1>13 DEF OperatorResume, row, log, http, sup
<1>14. ASSUME Crash, Note PROVE ThreadsHold'
  BY <1>14 DEF Crash, row, log, http, sup, HttpDone, SupDone, EmptyRow
<1>15. CASE UNCHANGED vars
  BY <1>15 DEF vars, state, row, log, http, sup
<1> HIDE DEF TypeOK, Row, ThreadsHold, FreeSlotEmptyQueue
<1> QED
  BY <1>1, <1>2, <1>3, <1>4, <1>5, <1>6, <1>7, <1>8, <1>9, <1>10, <1>11, <1>12,
     <1>13, <1>14, <1>15
     DEF Next

(***************************************************************************)
(* Every paused run has a logged pause, and keeps it.                      *)
(***************************************************************************)
LEMMA PausesStep ==
    ASSUME TypeOK, ThreadsHold, PausesLogged, [Next]_vars
    PROVE  PausesLogged'
<1> USE DEF TypeOK, Row, ThreadsHold, PausesLogged, Paused
<1>1. ASSUME NEW r \in Run, PreflightCreateRun(r), Note PROVE PausesLogged'
  BY <1>1 DEF PreflightCreateRun, row, log, http, sup
<1>2. ASSUME RegisterRun, Note PROVE PausesLogged'
  BY <1>2 DEF RegisterRun, row, log, http, sup
<1>3. ASSUME OnRunCreated, Note PROVE PausesLogged'
  BY <1>3 DEF OnRunCreated, row, log, http, sup, HttpDone, EmptyRow
<1>4. ASSUME PauseActive, Note PROVE PausesLogged'
  BY <1>4 DEF PauseActive, row, log, http, sup
<1>5. ASSUME HttpWrite, Note PROVE PausesLogged'
  BY <1>5 DEF HttpWrite, row, log, http, sup, HttpDone, EmptyRow
<1>6. ASSUME LogPreemption, Note PROVE PausesLogged'
  BY <1>6 DEF LogPreemption, row, log, http, sup, HttpDone, EmptyRow
<1>7. ASSUME ReconcileTerminalDrive, Note PROVE PausesLogged'
  BY <1>7 DEF ReconcileTerminalDrive, row, log, http, sup
<1>8. ASSUME OnRunTerminal, Note PROVE PausesLogged'
  BY <1>8 DEF OnRunTerminal, row, log, http, sup, SupDone, EmptyRow
<1>9. ASSUME ResumePreempted, Note PROVE PausesLogged'
  BY <1>9 DEF ResumePreempted, row, log, http, sup
<1>10. ASSUME SupWrite, Note PROVE PausesLogged'
  BY <1>10 DEF SupWrite, row, log, http, sup, SupDone, EmptyRow
<1>11. ASSUME NEW r \in Run, Finish(r), Note PROVE PausesLogged'
  BY <1>11 DEF Finish, row, log, http, sup
<1>12. ASSUME NEW r \in Run, OperatorPause(r), Note PROVE PausesLogged'
  BY <1>12 DEF OperatorPause, row, log, http, sup
<1>13. ASSUME NEW r \in Run, OperatorResume(r), Note PROVE PausesLogged'
  BY <1>13 DEF OperatorResume, row, log, http, sup
<1>14. ASSUME Crash, Note PROVE PausesLogged'
  BY <1>14 DEF Crash, row, log, http, sup, HttpDone, SupDone, EmptyRow
<1>15. CASE UNCHANGED vars
  BY <1>15 DEF vars, state, row, log, http, sup
<1> HIDE DEF TypeOK, Row, ThreadsHold, PausesLogged, Paused
<1> QED
  BY <1>1, <1>2, <1>3, <1>4, <1>5, <1>6, <1>7, <1>8, <1>9, <1>10, <1>11, <1>12,
     <1>13, <1>14, <1>15
     DEF Next

(***************************************************************************)
(* A slot that becomes free has an empty queue behind it.                  *)
(***************************************************************************)
LEMMA FreeSlotStep ==
    ASSUME TypeOK, ThreadsHold, FreeSlotEmptyQueue, [Next]_vars
    PROVE  FreeSlotEmptyQueue'
<1> USE ScheduleAssumption DEF TypeOK, Row, ThreadsHold, FreeSlotEmptyQueue
<1>1. ASSUME NEW r \in Run, PreflightCreateRun(r), Note
      PROVE  FreeSlotEmptyQueue'
  BY <1>1 DEF PreflightCreateRun, row, log, http, sup
<1>2. ASSUME RegisterRun, Note PROVE FreeSlotEmptyQueue'
  BY <1>2 DEF RegisterRun, row, log, http, sup
<1>3. ASSUME OnRunCreated, Note PROVE FreeSlotEmptyQueue'
  BY <1>3 DEF OnRunCreated, row, log, http, sup, HttpDone, EmptyRow
<1>4. ASSUME PauseActive, Note PROVE FreeSlotEmptyQueue'
  BY <1>4 DEF PauseActive, row, log, http, sup
<1>5. ASSUME HttpWrite, Note PROVE FreeSlotEmptyQueue'
  BY <1>5 DEF HttpWrite, row, log, http, sup, HttpDone, EmptyRow
<1>6. ASSUME LogPreemption, Note PROVE FreeSlotEmptyQueue'
  BY <1>6 DEF LogPreemption, row, log, http, sup, HttpDone, EmptyRow
<1>7. ASSUME ReconcileTerminalDrive, Note PROVE FreeSlotEmptyQueue'
  BY <1>7 DEF ReconcileTerminalDrive, row, log, http, sup
<1>8. ASSUME OnRunTerminal, Note PROVE FreeSlotEmptyQueue'
  BY <1>8 DEF OnRunTerminal, row, log, http, sup, SupDone, EmptyRow
<1>9. ASSUME ResumePreempted, Note PROVE FreeSlotEmptyQueue'
  BY <1>9 DEF ResumePreempted, row, log, http, sup
<1>10. ASSUME SupWrite, Note PROVE FreeSlotEmptyQueue'
  BY <1>10 DEF SupWrite, row, log, http, sup, SupDone, EmptyRow
<1>11. ASSUME NEW r \in Run, Finish(r), Note PROVE FreeSlotEmptyQueue'
  BY <1>11 DEF Finish, row, log, http, sup
<1>12. ASSUME NEW r \in Run, OperatorPause(r), Note PROVE FreeSlotEmptyQueue'
  BY <1>12 DEF OperatorPause, row, log, http, sup
<1>13. ASSUME NEW r \in Run, OperatorResume(r), Note PROVE FreeSlotEmptyQueue'
  BY <1>13 DEF OperatorResume, row, log, http, sup
<1>14. ASSUME Crash, Note PROVE FreeSlotEmptyQueue'
  BY <1>14 DEF Crash, row, log, http, sup, HttpDone, SupDone, EmptyRow
<1>15. CASE UNCHANGED vars
  BY <1>15 DEF vars, state, row, log, http, sup
<1> HIDE DEF TypeOK, Row, ThreadsHold, FreeSlotEmptyQueue
<1> QED
  BY <1>1, <1>2, <1>3, <1>4, <1>5, <1>6, <1>7, <1>8, <1>9, <1>10, <1>11, <1>12,
     <1>13, <1>14, <1>15
     DEF Next

(***************************************************************************)
(* Undisturbed, no step loses an open run.                                 *)
(***************************************************************************)
LEMMA NoneLostStep ==
    ASSUME TypeOK, ThreadsHold, PausesLogged, FreeSlotEmptyQueue, Serial, [Next]_vars,
           ~disturbed'
    PROVE  NoneLost'
<1> USE DEF TypeOK, Row, ThreadsHold, Serial, NoneLost, Open
<1>1. ASSUME NEW r \in Run, PreflightCreateRun(r), Note PROVE NoneLost'
  BY <1>1 DEF PreflightCreateRun, row, log, http, sup
<1>2. ASSUME RegisterRun, Note PROVE NoneLost'
  BY <1>2 DEF RegisterRun, row, log, http, sup
<1>3. ASSUME OnRunCreated, Note PROVE NoneLost'
  <2>1. /\ hpc = "created" /\ hrun \in Run
        /\ UNCHANGED <<active, queue, created, terminal, spc, srun, srow>>
    BY <1>3 DEF OnRunCreated, row, sup
  <2>2. CASE hrun = active /\ HttpDone
    <3>1. InRow(active, queue, hrun)
      BY <2>2 DEF InRow
    <3>2. spc # "idle" => hrun \in terminal
      BY <2>2 DEF SupChained
    <3> QED
      BY <2>1, <2>2, <3>1, <3>2 DEF HttpDone
  <2>3. CASE hrun # active
    <3>1. hpc' \in {"pause", "write"} /\ hrun' = hrun
      BY <1>3, <2>3 DEF OnRunCreated, HttpDone
    <3>2. spc' = "idle"
      BY <1>3, <3>1 DEF Note, Overlap
    <3>3. ASSUME NEW r \in Open PROVE InRow(hrow'.active, hrow'.queue, r)
      <4>1. InRow(active, queue, r) \/ r = hrun
        BY <2>1
      <4>2. CASE active = NoRun /\ hrow' = [active |-> hrun, queue |-> queue]
        BY <4>1, <4>2, <3>3, ScheduleAssumption DEF InRow, Open
      <4>3. CASE active \in Run /\ hrow' = [active |-> hrun, queue |-> <<active>> \o queue]
        BY <4>1, <4>3, InRowFront
      <4>4. CASE hrow' = [active |-> active, queue |-> Append(queue, hrun)]
        BY <2>1, <4>1, <4>4, InRowAppend
      <4> QED
        BY <1>3, <2>3, <4>2, <4>3, <4>4 DEF OnRunCreated
    <3> QED
      BY <2>1, <3>1, <3>2, <3>3
  <2> QED
    BY <1>3, <2>1, <2>2, <2>3, ScheduleAssumption DEF OnRunCreated
<1>4. ASSUME PauseActive, Note PROVE NoneLost'
  BY <1>4 DEF PauseActive, row, log, http, sup
<1>5. ASSUME HttpWrite, Note PROVE NoneLost'
  BY <1>5 DEF HttpWrite, row, log, http, sup, HttpDone, EmptyRow, Overlap
<1>6. ASSUME LogPreemption, Note PROVE NoneLost'
  BY <1>6 DEF LogPreemption, row, log, http, sup, HttpDone, EmptyRow
<1>7. ASSUME ReconcileTerminalDrive, Note PROVE NoneLost'
  BY <1>7 DEF ReconcileTerminalDrive, row, log, http, sup, Note, Overlap
<1>8. ASSUME OnRunTerminal, Note PROVE NoneLost'
  <2>1. /\ UNCHANGED <<active, queue, created, terminal, hpc, hrun, hrow>>
        /\ srun = active /\ srun \in terminal
    BY <1>8 DEF OnRunTerminal, row, http, SupChained
  <2>2. ASSUME NEW r \in Open
        PROVE  \/ InRow(srow'.active, srow'.queue, r)
               \/ hpc = "created" /\ r = hrun
    <3>1. InRow(active, queue, r) \/ (hpc = "created" /\ r = hrun)
      BY <1>8 DEF OnRunTerminal, Overlap
    <3>2. r # active
      BY <2>1, <2>2
    <3>3. CASE queue = <<>>
      <4>1. ~InRow(active, queue, r)
        BY <3>2, <3>3 DEF InRow, Contains
      <4> QED
        BY <3>1, <4>1
    <3>4. CASE queue # <<>>
      <4>1. srow' = [active |-> Head(queue), queue |-> Tail(queue)]
        BY <1>8, <2>1, <3>4 DEF OnRunTerminal
      <4>2. InRow(active, queue, r) => InRow(Head(queue), Tail(queue), r)
        BY <3>2, <3>4, InRowRest
      <4> QED
        BY <3>1, <4>1, <4>2
    <3> QED
      BY <3>3, <3>4
  <2> QED
    BY <2>1, <2>2
<1>9. ASSUME ResumePreempted, Note PROVE NoneLost'
  BY <1>9 DEF ResumePreempted, row, log, http, sup, Overlap
<1>10. ASSUME SupWrite, Note PROVE NoneLost'
  BY <1>10 DEF SupWrite, row, log, http, sup, SupDone, EmptyRow, Overlap
<1>11. ASSUME NEW r \in Run, Finish(r), Note PROVE NoneLost'
  BY <1>11 DEF Finish, row, log, http, sup
<1>12. ASSUME NEW r \in Run, OperatorPause(r), Note PROVE NoneLost'
  BY <1>12 DEF OperatorPause, row, log, http, sup
<1>13. ASSUME NEW r \in Run, OperatorResume(r), Note PROVE NoneLost'
  BY <1>13 DEF OperatorResume, row, log, http, sup
<1>14. ASSUME Crash, Note PROVE NoneLost'
  <2>1. crashes' # crashes
    BY <1>14 DEF Crash
  <2> QED
    BY <1>14, <2>1 DEF Note
<1>15. CASE UNCHANGED vars
  BY <1>15 DEF vars, state, row, log, http, sup
<1> HIDE DEF TypeOK, Row, ThreadsHold, Serial, NoneLost, Open
<1> QED
  BY <1>1, <1>2, <1>3, <1>4, <1>5, <1>6, <1>7, <1>8, <1>9, <1>10, <1>11, <1>12,
     <1>13, <1>14, <1>15
     DEF Next

(***************************************************************************)
(* Undisturbed, the chain of preemptions survives what the HTTP thread does*)
(* to the row, and finds what the supervisor thread writes.                *)
(***************************************************************************)
LEMMA HttpChainedStep ==
    ASSUME TypeOK, ThreadsHold, PausesLogged, FreeSlotEmptyQueue, Serial, [Next]_vars,
           ~disturbed'
    PROVE  HttpChained'
<1> USE DEF TypeOK, Row, ThreadsHold, Serial, HttpChained
<1>1. ASSUME NEW r \in Run, PreflightCreateRun(r), Note PROVE HttpChained'
  BY <1>1 DEF PreflightCreateRun, row, log, http, sup, Swapped
<1>2. ASSUME RegisterRun, Note PROVE HttpChained'
  BY <1>2 DEF RegisterRun, row, log, http, sup, Swapped
<1>3. ASSUME OnRunCreated, Note PROVE HttpChained'
  <2>1. /\ hpc = "created" /\ hrun \in Run /\ Swapped' = Swapped
        /\ UNCHANGED <<active, queue, preemptions>>
        /\ Chained(active, queue, preemptions, Swapped)
    BY <1>3 DEF OnRunCreated, row, log, Swapped
  <2>2. CASE hrun = active /\ HttpDone
    BY <2>1, <2>2 DEF HttpDone
  <2>3. CASE hrun # active
    <3>1. hpc' \in {"pause", "write"} /\ hrun' = hrun
      BY <1>3, <2>3 DEF OnRunCreated, HttpDone
    <3>2. ~InRow(active, queue, hrun)
      BY <1>3, <2>1, <2>3, <3>1 DEF Note, CreatedAgain, InRow
    <3>3. CASE active = NoRun
      <4>1. hpc' = "write" /\ hrow' = [active |-> hrun, queue |-> queue]
        BY <1>3, <2>3, <3>3 DEF OnRunCreated
      <4>2. queue = <<>>
        BY <3>3 DEF FreeSlotEmptyQueue
      <4>3. Chained(hrun, queue, preemptions, Swapped)
        BY <2>1, <4>2, ChainedEmpty
      <4> QED
        BY <2>1, <4>1, <4>3
    <3>4. CASE active # NoRun /\ hrun \in Preempting
      <4>1. /\ hpc' = "pause" /\ active \in Run
            /\ hrow' = [active |-> hrun, queue |-> <<active>> \o queue]
        BY <1>3, <2>3, <3>4 DEF OnRunCreated
      <4> QED
        BY <2>1, <3>1, <3>2, <4>1
    <3>5. CASE active # NoRun /\ hrun \notin Preempting
      <4>1. hpc' = "write" /\ hrow' = [active |-> active, queue |-> Append(queue, hrun)]
        BY <1>3, <2>3, <3>5 DEF OnRunCreated
      <4>2. Chained(active, Append(queue, hrun), preemptions, Swapped)
        BY <2>1, <3>2, ChainedAppend
      <4> QED
        BY <2>1, <4>1, <4>2
    <3> QED
      BY <3>3, <3>4, <3>5
  <2> QED
    BY <1>3, <2>1, <2>2, <2>3, ScheduleAssumption DEF OnRunCreated
<1>4. ASSUME PauseActive, Note PROVE HttpChained'
  <2>1. /\ active \in Run /\ hrun \in Run /\ ~InRow(active, queue, hrun)
        /\ hrow = [active |-> hrun, queue |-> <<active>> \o queue]
        /\ Chained(active, queue, preemptions, Swapped)
        /\ hpc' = "swap" /\ UNCHANGED <<preemptions, hrun, hrow>>
        /\ pausedBy' = [pausedBy EXCEPT ![Head(hrow.queue)] = "swap"]
    BY <1>4 DEF PauseActive
  <2>2. Head(hrow.queue) = active
    BY <2>1, PutFirst
  <2>3. Swapped' \subseteq Swapped \cup {active}
    BY <2>1, <2>2 DEF Swapped
  <2>4. Chained(hrun, <<active>> \o queue, preemptions \cup {hrun}, Swapped \cup {active})
    BY <2>1, ChainedFront
  <2>5. Chained(hrun, <<active>> \o queue, preemptions \cup {hrun}, Swapped')
    BY <2>3, <2>4, ChainedWeaken
  <2> QED
    BY <2>1, <2>5
<1>5. ASSUME HttpWrite, Note PROVE HttpChained'
  BY <1>5 DEF HttpWrite, row, log, http, sup, HttpDone, EmptyRow, Swapped
<1>6. ASSUME LogPreemption, Note PROVE HttpChained'
  BY <1>6 DEF LogPreemption, row, log, http, sup, HttpDone, EmptyRow, Swapped
<1>7. ASSUME ReconcileTerminalDrive, Note PROVE HttpChained'
  BY <1>7 DEF ReconcileTerminalDrive, row, log, http, sup, Swapped
<1>8. ASSUME OnRunTerminal, Note PROVE HttpChained'
  BY <1>8 DEF OnRunTerminal, row, log, http, sup, SupDone, EmptyRow, Swapped
<1>9. ASSUME ResumePreempted, Note PROVE HttpChained'
  <2>1. Swapped' \subseteq Swapped /\ UNCHANGED <<active, queue, preemptions, hpc, hrun, hrow>>
    BY <1>9 DEF ResumePreempted, row, http, Swapped, Paused
  <2>2. hpc \in {"idle", "register", "created"}
    BY <1>9 DEF ResumePreempted, Overlap
  <2>3. Chained(active, queue, preemptions, Swapped')
    BY <2>1, <2>2, ChainedWeaken
  <2> QED
    BY <2>1, <2>2, <2>3
<1>10. ASSUME SupWrite, Note PROVE HttpChained'
  <2>1. /\ active' = srow.active /\ queue' = srow.queue /\ Swapped' = Swapped
        /\ UNCHANGED <<preemptions, hpc, hrun, hrow>>
        /\ spc = "write" /\ Chained(srow.active, srow.queue, preemptions, Swapped)
    BY <1>10 DEF SupWrite, log, http, Swapped, SupChained
  <2>2. hpc \in {"idle", "register", "created"}
    BY <2>1 DEF Overlap
  <2> QED
    BY <2>1, <2>2
<1>11. ASSUME NEW r \in Run, Finish(r), Note PROVE HttpChained'
  BY <1>11 DEF Finish, row, log, http, sup, Swapped
<1>12. ASSUME NEW r \in Run, OperatorPause(r), Note PROVE HttpChained'
  <2>1. Swapped' \subseteq Swapped /\ UNCHANGED <<active, queue, preemptions, hpc, hrun, hrow>>
    BY <1>12 DEF OperatorPause, row, http, Swapped, Paused
  <2>2. hpc \in {"idle", "register", "created"}
    BY <1>12 DEF OperatorPause, Overlap
  <2>3. Chained(active, queue, preemptions, Swapped')
    BY <2>1, <2>2, ChainedWeaken
  <2> QED
    BY <2>1, <2>2, <2>3
<1>13. ASSUME NEW r \in Run, OperatorResume(r), Note PROVE HttpChained'
  <2>1. Swapped' \subseteq Swapped /\ UNCHANGED <<active, queue, preemptions, hpc, hrun, hrow>>
    BY <1>13 DEF OperatorResume, row, http, Swapped, Paused
  <2>2. hpc \in {"idle", "register", "created"}
    BY <1>13 DEF OperatorResume, Overlap
  <2>3. Chained(active, queue, preemptions, Swapped')
    BY <2>1, <2>2, ChainedWeaken
  <2> QED
    BY <2>1, <2>2, <2>3
<1>14. ASSUME Crash, Note PROVE HttpChained'
  <2>1. crashes' # crashes
    BY <1>14 DEF Crash
  <2> QED
    BY <1>14, <2>1 DEF Note
<1>15. CASE UNCHANGED vars
  BY <1>15 DEF vars, state, row, log, http, sup, Swapped
<1> HIDE DEF TypeOK, Row, ThreadsHold, Serial, HttpChained
<1> QED
  BY <1>1, <1>2, <1>3, <1>4, <1>5, <1>6, <1>7, <1>8, <1>9, <1>10, <1>11, <1>12,
     <1>13, <1>14, <1>15
     DEF Next

(***************************************************************************)
(* Undisturbed, the row the supervisor thread is about to write continues  *)
(* the chain: the run it promotes has been resumed, or was never paused.   *)
(***************************************************************************)
LEMMA SupChainedStep ==
    ASSUME TypeOK, ThreadsHold, PausesLogged, FreeSlotEmptyQueue, Serial, [Next]_vars,
           ~disturbed'
    PROVE  SupChained'
<1> USE DEF TypeOK, Row, ThreadsHold, Serial, SupChained
<1>1. ASSUME NEW r \in Run, PreflightCreateRun(r), Note PROVE SupChained'
  BY <1>1 DEF PreflightCreateRun, row, log, http, sup, Swapped
<1>2. ASSUME RegisterRun, Note PROVE SupChained'
  BY <1>2 DEF RegisterRun, row, log, http, sup, Swapped
<1>3. ASSUME OnRunCreated, Note PROVE SupChained'
  BY <1>3
     DEF OnRunCreated, row, log, http, sup, HttpDone, EmptyRow, Swapped, Note,
         Overlap
<1>4. ASSUME PauseActive, Note PROVE SupChained'
  BY <1>4 DEF PauseActive, row, log, http, sup, Swapped, Overlap
<1>5. ASSUME HttpWrite, Note PROVE SupChained'
  BY <1>5
     DEF HttpWrite, row, log, http, sup, HttpDone, EmptyRow, Swapped, Overlap
<1>6. ASSUME LogPreemption, Note PROVE SupChained'
  BY <1>6
     DEF LogPreemption, row, log, http, sup, HttpDone, EmptyRow, Swapped,
         Overlap
<1>7. ASSUME ReconcileTerminalDrive, Note PROVE SupChained'
  BY <1>7 DEF ReconcileTerminalDrive, row, log, http, sup, Swapped
<1>8. ASSUME OnRunTerminal, Note PROVE SupChained'
  <2>1. /\ srun = active /\ srun \in terminal /\ Swapped' = Swapped
        /\ UNCHANGED <<active, queue, preemptions, terminal>> /\ srun' = srun
    BY <1>8 DEF OnRunTerminal, row, log, Swapped
  <2>2. Chained(active, queue, preemptions, Swapped)
    BY <1>8 DEF OnRunTerminal, Overlap, HttpChained
  <2>3. CASE queue = <<>>
    <3>1. spc' = "write" /\ srow' = [active |-> NoRun, queue |-> <<>>]
      BY <1>8, <2>1, <2>3 DEF OnRunTerminal, EmptyRow
    <3>2. Chained(NoRun, <<>>, preemptions, Swapped)
      BY <2>2, <2>3, ChainedEmpty
    <3> QED
      BY <2>1, <3>1, <3>2
  <2>4. CASE queue # <<>>
    <3>1. /\ srow' = [active |-> Head(queue), queue |-> Tail(queue)]
          /\ spc' = IF srun \in preemptions THEN "resume" ELSE "write"
      BY <1>8, <2>1, <2>4 DEF OnRunTerminal
    <3>2. /\ Chained(Head(queue), Tail(queue), preemptions, Swapped \ {Head(queue)})
          /\ active \notin preemptions => Head(queue) \notin Swapped
      BY <2>2, <2>4, ChainedRest
    <3>3. active \notin preemptions =>
            Chained(Head(queue), Tail(queue), preemptions, Swapped)
      <4>1. Head(queue) \notin Swapped => Swapped \ {Head(queue)} = Swapped
        OBVIOUS
      <4> QED
        BY <3>2, <4>1
    <3> QED
      BY <2>1, <2>4, <3>1, <3>3
  <2> QED
    BY <2>3, <2>4
<1>9. ASSUME ResumePreempted, Note PROVE SupChained'
  <2>1. /\ srun = active /\ srun \in terminal /\ spc' = "write"
        /\ queue # <<>> /\ srow = [active |-> Head(queue), queue |-> Tail(queue)]
        /\ UNCHANGED <<active, queue, preemptions, terminal, srun, srow>>
    BY <1>9 DEF ResumePreempted, row
  <2>2. Chained(active, queue, preemptions, Swapped)
    BY <1>9 DEF ResumePreempted, Overlap, HttpChained
  <2>3. Swapped' \subseteq Swapped \ {Head(queue)}
    <3>1. Head(queue) \in Run
      BY <2>1, TakeFirst
    <3> QED
      BY <1>9, <2>1, <3>1 DEF ResumePreempted, Swapped, PausesLogged, Paused
  <2>4. Chained(Head(queue), Tail(queue), preemptions, Swapped \ {Head(queue)})
    BY <2>1, <2>2, ChainedRest
  <2>5. Chained(Head(queue), Tail(queue), preemptions, Swapped')
    BY <2>3, <2>4, ChainedWeaken
  <2> QED
    BY <2>1, <2>5
<1>10. ASSUME SupWrite, Note PROVE SupChained'
  BY <1>10 DEF SupWrite, row, log, http, sup, SupDone, EmptyRow, Swapped
<1>11. ASSUME NEW r \in Run, Finish(r), Note PROVE SupChained'
  BY <1>11 DEF Finish, row, log, http, sup, Swapped
<1>12. ASSUME NEW r \in Run, OperatorPause(r), Note PROVE SupChained'
  <2>1. /\ Swapped' \subseteq Swapped
        /\ UNCHANGED <<active, queue, preemptions, terminal, spc, srun, srow>>
    BY <1>12 DEF OperatorPause, row, sup, Swapped, Paused
  <2>2. spc = "write" => Chained(srow.active, srow.queue, preemptions, Swapped')
    BY <2>1, ChainedWeaken
  <2> QED
    BY <2>1, <2>2
<1>13. ASSUME NEW r \in Run, OperatorResume(r), Note PROVE SupChained'
  <2>1. /\ Swapped' \subseteq Swapped
        /\ UNCHANGED <<active, queue, preemptions, terminal, spc, srun, srow>>
    BY <1>13 DEF OperatorResume, row, sup, Swapped, Paused
  <2>2. spc = "write" => Chained(srow.active, srow.queue, preemptions, Swapped')
    BY <2>1, ChainedWeaken
  <2> QED
    BY <2>1, <2>2
<1>14. ASSUME Crash, Note PROVE SupChained'
  <2>1. crashes' # crashes
    BY <1>14 DEF Crash
  <2> QED
    BY <1>14, <2>1 DEF Note
<1>15. CASE UNCHANGED vars
  BY <1>15 DEF vars, state, row, log, http, sup, Swapped
<1> HIDE DEF TypeOK, Row, ThreadsHold, Serial, SupChained
<1> QED
  BY <1>1, <1>2, <1>3, <1>4, <1>5, <1>6, <1>7, <1>8, <1>9, <1>10, <1>11, <1>12,
     <1>13, <1>14, <1>15
     DEF Next
-----------------------------------------------------------------------------
(* The invariants of the specification.                                    *)

(***************************************************************************)
(* The first state satisfies the whole invariant: nothing is scheduled.    *)
(***************************************************************************)
LEMMA Starts == Init => KInv /\ SInv
<1> SUFFICES ASSUME Init PROVE KInv /\ SInv
  OBVIOUS
<1>1. TypeOK
  <2>1. <<>> \in Seq(Run)
    BY EmptySeq
  <2>2. EmptyRow \in Row
    BY <2>1 DEF Row, EmptyRow
  <2>3. crashes \in 0..MaxCrash
    BY ScheduleAssumption DEF Init
  <2>4. pausedBy \in [Run -> {"nobody", "swap", "operator"}]
    BY DEF Init
  <2> QED
    BY <2>1, <2>2, <2>3, <2>4 DEF Init, TypeOK
<1>2. ThreadsHold /\ PausesLogged /\ FreeSlotEmptyQueue
  BY DEF Init, ThreadsHold, PausesLogged, Paused, FreeSlotEmptyQueue, EmptyRow
<1>3. Chained(active, queue, preemptions, Swapped)
  BY DEF Init, Chained, Distinct, Swapped
<1>4. Serial
  BY <1>3 DEF Init, Serial, Overlap, NoneLost, Open, HttpChained, SupChained
<1> QED
  BY <1>1, <1>2, <1>4 DEF KInv, SInv

(***************************************************************************)
(* Every step keeps it.  Once disturbed, always disturbed: what holds only *)
(* undisturbed has to be shown from an undisturbed state.                  *)
(***************************************************************************)
LEMMA Steps == KInv /\ SInv /\ [Next]_vars => KInv' /\ SInv'
<1> SUFFICES ASSUME KInv, SInv, [Next]_vars PROVE KInv' /\ SInv'
  OBVIOUS
<1> USE DEF KInv
<1>1. KInv'
  BY TypesStep, ThreadsStep, PausesStep, FreeSlotStep
<1>2. ASSUME ~disturbed' PROVE Serial'
  <2>1. ~disturbed /\ ~Overlap'
    <3>1. CASE UNCHANGED vars
      <4>1. disturbed' = disturbed /\ hpc' = hpc /\ spc' = spc
        BY <3>1 DEF vars, state, http, sup
      <4>2. Serial
        BY <1>2, <4>1 DEF SInv
      <4> QED
        BY <1>2, <4>1, <4>2 DEF Serial, Overlap
    <3>2. CASE Next
      BY <1>2, <3>2 DEF Next, Note
    <3> QED
      BY <3>1, <3>2
  <2>2. Serial
    BY <2>1 DEF SInv
  <2> QED
    BY <1>2, <2>1, <2>2, NoneLostStep, HttpChainedStep, SupChainedStep
       DEF Serial
<1> QED
  BY <1>1, <1>2 DEF SInv

(* The invariant of the schedule: types and held values, and the account.  *)
LEMMA ScheduleInvariance == Spec => [](KInv /\ SInv)
<1>1. Init => KInv /\ SInv
  BY Starts
<1>2. KInv /\ SInv /\ [Next]_vars => (KInv /\ SInv)'
  BY Steps
<1> QED
  BY <1>1, <1>2, PTL DEF Spec

(***************************************************************************)
(* The row, the threads and the logs have their types.                     *)
(***************************************************************************)
THEOREM ScheduleTypes == Spec => []TypeOK
<1>1. KInv /\ SInv => TypeOK
  BY DEF KInv
<1> QED
  BY <1>1, ScheduleInvariance, PTL

(***************************************************************************)
(* What the scheduler's sequential algorithm keeps, for every set of runs  *)
(* and whatever the threads do: no free slot over a queue; and undisturbed *)
(* no created run lost, none active under the pause of a swap.             *)
(***************************************************************************)
THEOREM ScheduleSound == Spec => []SerialIsSound
<1>1. KInv /\ SInv => SerialIsSound
  <2> SUFFICES ASSUME KInv, SInv PROVE SerialIsSound
    OBVIOUS
  <2>1. FreeSlotEmptyQueue
    BY DEF KInv
  <2>2. SerialKeepsRuns
    <3> SUFFICES ASSUME Undisturbed, NEW r \in created \ terminal PROVE Scheduled(r)
      BY DEF SerialKeepsRuns
    <3>1. InRow(active, queue, r)
      BY DEF Undisturbed, Quiet, SInv, Serial, NoneLost, Open
    <3> QED
      BY <3>1 DEF InRow, Scheduled
  <2>3. SerialUndoesSwap
    <3> SUFFICES ASSUME Undisturbed, active # NoRun, pausedBy[active] = "swap"
                 PROVE  FALSE
      BY DEF SerialUndoesSwap
    <3>1. Chained(active, queue, preemptions, Swapped)
      BY DEF Undisturbed, Quiet, SInv, Serial, HttpChained
    <3>2. active \in Swapped
      BY DEF KInv, TypeOK, Swapped
    <3> QED
      BY <3>1, <3>2 DEF Chained, Distinct
  <2> QED
    BY <2>1, <2>2, <2>3 DEF SerialIsSound
<1> QED
  BY <1>1, ScheduleInvariance, PTL
=============================================================================
