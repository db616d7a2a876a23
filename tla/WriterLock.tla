----------------------------- MODULE WriterLock -----------------------------
(***************************************************************************)
(* The run-plane single-writer lock of tracks/cli/common.py: a PID file    *)
(* taken with O_CREAT|O_EXCL.  Every mutating subcommand, and the driver   *)
(* of a run, holds one WriterLock object while it touches the event store. *)
(*                                                                         *)
(* One element of Proc is one process (one pid, never reused).  Every file *)
(* system call of the lock is one step: creating the file and writing the  *)
(* pid into it are two steps, and so are reading the holder and unlinking  *)
(* a dead holder's file.  What a process does between acquire and release  *)
(* is not modelled here: "held" is the critical section.                   *)
(***************************************************************************)
EXTENDS Naturals, FiniteSets

CONSTANTS
    Proc,       \* the processes that use the lock
    Nobody      \* the holder that was read when there was none with a pid

ASSUME NobodyAssumption == Nobody \notin Proc

VARIABLES
    file,       \* the lock file: NoFile, or who created it and whether the
                \* pid has been written into it
    pc,         \* where each process is
    seen,       \* _try_open's local `holder`; Nobody for "unknown"
    wait        \* acquire's `wait` argument

lockVars == <<file, pc, seen, wait>>

NoFile == [owner |-> Nobody, written |-> FALSE]

Files == {NoFile} \cup [owner : Proc, written : BOOLEAN]

PCs == {"idle", "open", "created", "holder", "reclaim", "wait_error",
        "held", "suspended", "refused", "gone"}

LockTypeOK ==
    /\ file \in Files
    /\ pc \in [Proc -> PCs]
    /\ seen \in [Proc -> Proc \cup {Nobody}]
    /\ wait \in [Proc -> BOOLEAN]

LockInit ==
    /\ file = NoFile
    /\ pc = [p \in Proc |-> "idle"]
    /\ seen = [p \in Proc |-> Nobody]
    /\ wait = [p \in Proc |-> FALSE]

Goto(p, where) == pc' = [pc EXCEPT ![p] = where]

PathExists == file # NoFile

(***************************************************************************)
(* _pid_alive: os.kill(pid, 0) fails only for a process that has ended.    *)
(***************************************************************************)
PidAlive(p) == pc[p] # "gone"

(***************************************************************************)
(* __enter__: acquire() with wait=False.                                   *)
(***************************************************************************)
Acquire(p) ==
    /\ pc[p] = "idle"
    /\ wait' = [wait EXCEPT ![p] = FALSE]
    /\ Goto(p, "open")
    /\ UNCHANGED <<file, seen>>

(***************************************************************************)
(* _try_open's os.open(O_CREAT | O_EXCL): creates the file, or finds it.   *)
(***************************************************************************)
TryOpen(p) ==
    /\ pc[p] = "open"
    /\ \/ /\ ~PathExists
          /\ file' = [owner |-> p, written |-> FALSE]
          /\ Goto(p, "created")
       \/ /\ PathExists
          /\ Goto(p, "holder")
          /\ UNCHANGED file
    /\ UNCHANGED <<seen, wait>>

\* Mutant: the pid is written through the path, not the descriptor.
WritePidByPath(p) ==
    /\ pc[p] = "created"
    /\ file' = [file EXCEPT !.written = TRUE]
    /\ Goto(p, "held")
    /\ UNCHANGED <<seen, wait>>

(***************************************************************************)
(* os.write(fd, pid): through the descriptor, so it reaches the lock path  *)
(* only while that path still names the file this process created.         *)
(***************************************************************************)
WritePid(p) ==
    /\ pc[p] = "created"
    /\ file' = IF file.owner = p THEN [file EXCEPT !.written = TRUE] ELSE file
    /\ Goto(p, "held")
    /\ UNCHANGED <<seen, wait>>

(***************************************************************************)
(* holder = self._holder(): None when the file is gone, "unknown" while it *)
(* is still empty, the holder's pid otherwise.                             *)
(***************************************************************************)
ReadHolder(p) ==
    /\ pc[p] = "holder"
    /\ \/ ~PathExists /\ Goto(p, "wait_error") /\ UNCHANGED seen
       \/ /\ PathExists
          /\ seen' = [seen EXCEPT ![p] = IF file.written THEN file.owner
                                                         ELSE Nobody]
          /\ Goto(p, "reclaim")
    /\ UNCHANGED <<file, wait>>

\* Mutants: the pid is not checked; a dead holder's file is left in place.
ReclaimUnchecked(p) ==
    /\ pc[p] = "reclaim"
    /\ file' = NoFile
    /\ seen' = [seen EXCEPT ![p] = Nobody]
    /\ Goto(p, "wait_error")
    /\ UNCHANGED wait

ReclaimNever(p) ==
    /\ pc[p] = "reclaim"
    /\ seen' = [seen EXCEPT ![p] = Nobody]
    /\ Goto(p, "wait_error")
    /\ UNCHANGED <<file, wait>>

(***************************************************************************)
(* _reclaim(holder): unlinks the PATH when the pid read EARLIER is dead.   *)
(***************************************************************************)
Reclaim(p) ==
    /\ pc[p] = "reclaim"
    /\ file' = IF seen[p] \in Proc /\ ~PidAlive(seen[p]) THEN NoFile ELSE file
    /\ seen' = [seen EXCEPT ![p] = Nobody]
    /\ Goto(p, "wait_error")
    /\ UNCHANGED wait

(***************************************************************************)
(* _wait_error: retry when the file is gone; otherwise LockHeld unless the *)
(* caller waits and its deadline has not passed.  The deadline may pass at *)
(* any time.                                                               *)
(***************************************************************************)
WaitError(p) ==
    /\ pc[p] = "wait_error"
    /\ \/ (~PathExists \/ wait[p]) /\ Goto(p, "open")
       \/ PathExists /\ Goto(p, "refused")
    /\ UNCHANGED <<file, seen, wait>>

(***************************************************************************)
(* release(): unlinks the path whatever file it names by now.              *)
(***************************************************************************)
Release(p) ==
    /\ pc[p] = "held"
    /\ file' = NoFile
    /\ Goto(p, "idle")
    /\ UNCHANGED <<seen, wait>>

(***************************************************************************)
(* suspended(): release for a bounded wait ...                             *)
(***************************************************************************)
Suspend(p) ==
    /\ pc[p] = "held"
    /\ file' = NoFile
    /\ Goto(p, "suspended")
    /\ UNCHANGED <<seen, wait>>

(***************************************************************************)
(* ... then acquire(wait=True, timeout_s=600).                             *)
(***************************************************************************)
Resume(p) ==
    /\ pc[p] = "suspended"
    /\ wait' = [wait EXCEPT ![p] = TRUE]
    /\ Goto(p, "open")
    /\ UNCHANGED <<file, seen>>

(***************************************************************************)
(* A command that is done, or that was refused, ends its process ...       *)
(***************************************************************************)
Exit(p) ==
    /\ pc[p] \in {"idle", "refused"}
    /\ Goto(p, "gone")
    /\ UNCHANGED <<file, seen, wait>>

(***************************************************************************)
(* ... and kill -9 or a host restart ends it anywhere, its lock file left. *)
(***************************************************************************)
Kill(p) ==
    /\ pc[p] \notin {"idle", "refused", "gone"}
    /\ Goto(p, "gone")
    /\ UNCHANGED <<file, seen, wait>>

LockStep(p) ==
    \/ TryOpen(p) \/ WritePid(p) \/ ReadHolder(p) \/ Reclaim(p) \/ WaitError(p)

LockNext ==
    \E p \in Proc :
        \/ Acquire(p) \/ LockStep(p) \/ Release(p) \/ Suspend(p) \/ Resume(p)
        \/ Exit(p) \/ Kill(p)

LockSpec == LockInit /\ [][LockNext]_lockVars

(***************************************************************************)
(* acquire's loop runs to its end in a process that lives.  Nothing makes  *)
(* a command start, release early, or die.                                 *)
(***************************************************************************)
LockFairSpec == LockSpec /\ \A p \in Proc : WF_lockVars(LockStep(p))
-----------------------------------------------------------------------------
Holders == {p \in Proc : pc[p] = "held"}

NobodyGone == \A p \in Proc : PidAlive(p)

(***************************************************************************)
(* At most one process is between acquire and release at a time.           *)
(***************************************************************************)
SingleWriter == Cardinality(Holders) <= 1

(***************************************************************************)
(* While no process that used the lock has ended, O_EXCL alone keeps the   *)
(* writers apart, through every suspend/resume and every refused attempt:  *)
(* a second holder needs a _reclaim, and a _reclaim needs a dead pid.      *)
(***************************************************************************)
SingleWriterWhileAllLive ==
    NobodyGone => \A p, q \in Proc : pc[p] = "held" /\ pc[q] = "held" => p = q

(***************************************************************************)
(* A process that tries to acquire while the file holds the pid of a dead  *)
(* process gets that file out of the way (it, or another one, unlinks it), *)
(* unless it is killed first: a crashed writer does not block the run.     *)
(***************************************************************************)
StaleLock(d) == file = [owner |-> d, written |-> TRUE] /\ pc[d] = "gone"

StaleLockReclaimed ==
    \A p, d \in Proc :
        (pc[p] = "open" /\ StaleLock(d)) ~> (~StaleLock(d) \/ pc[p] = "gone")

=============================================================================
