------------------------------ MODULE Schedule ------------------------------
(***************************************************************************)
(* The single active slot of the service plane: supervisor/scheduler.py    *)
(* and the two callers in supervisor/service.py that change the schedule   *)
(* row.                                                                    *)
(*                                                                         *)
(* Two threads of the serve process use it at the same time: the HTTP      *)
(* event loop, which accepts create_run (one request at a time), and the   *)
(* supervisor thread, whose drive_run acceptance releases the slot of a    *)
(* terminal run.  Reading the row, accepting the pause or resume step,     *)
(* writing the row and appending schedule.changed are transactions of      *)
(* their own, and each is a step here.                                     *)
(***************************************************************************)
EXTENDS Naturals, Sequences, FiniteSets, SequencesExt

CONSTANTS
    Run, NoRun,
    Preempting,     \* the runs created with preempt=true (it is part of the
                    \* parameters the run identity is derived from)
    MaxQueue,       \* bound on the queue a create_run is accepted with
    MaxCrash        \* bound on crashes of the serve process

ASSUME ScheduleAssumption ==
    /\ NoRun \notin Run
    /\ Preempting \subseteq Run
    /\ MaxQueue \in Nat /\ MaxCrash \in Nat

VARIABLES
    active, queue,          \* the schedule row
    pausedBy,               \* the latest pause event of each run, and whose
                            \* it is: the swap's own step or the operator's
    everPaused,             \* runs with a run.pause_requested event
    preemptions,            \* active_run of the logged hotfix_preemption switches
    created,                \* runs with an accepted create_run command
    terminal,               \* runs whose run plane reached a terminal state
    hpc, hrun, hrow,        \* the HTTP thread: where, for which run, row to write
    spc, srun, srow,        \* the supervisor thread, likewise
    crashes,
    disturbed               \* history: a crash, both threads between reading the
                            \* row and writing it, or a queued run created again

row == <<active, queue>>
log == <<pausedBy, everPaused, preemptions>>
http == <<hpc, hrun, hrow>>
sup == <<spc, srun, srow>>
state == <<row, log, created, terminal, http, sup, crashes>>
vars == <<state, disturbed>>

Row == [active : Run \cup {NoRun}, queue : Seq(Run)]
EmptyRow == [active |-> NoRun, queue |-> <<>>]

TypeOK ==
    /\ active \in Run \cup {NoRun} /\ queue \in Seq(Run)
    /\ pausedBy \in [Run -> {"nobody", "swap", "operator"}]
    /\ everPaused \subseteq Run
    /\ preemptions \subseteq Run /\ created \subseteq Run /\ terminal \subseteq Run
    /\ hpc \in {"idle", "register", "created", "pause", "swap", "write", "log"}
    /\ hrun \in Run \cup {NoRun} /\ hrow \in Row
    /\ spc \in {"idle", "terminal", "resume", "write"}
    /\ srun \in Run \cup {NoRun} /\ srow \in Row
    /\ crashes \in 0..MaxCrash
    /\ disturbed \in BOOLEAN

Init ==
    /\ active = NoRun /\ queue = <<>>
    /\ pausedBy = [r \in Run |-> "nobody"] /\ everPaused = {} /\ preemptions = {}
    /\ created = {} /\ terminal = {}
    /\ hpc = "idle" /\ hrun = NoRun /\ hrow = EmptyRow
    /\ spc = "idle" /\ srun = NoRun /\ srow = EmptyRow
    /\ crashes = 0 /\ disturbed = FALSE

Paused(r) == pausedBy[r] # "nobody"
-----------------------------------------------------------------------------
(* create_run on the HTTP thread.                                          *)

HttpDone ==
    /\ hpc' = "idle" /\ hrun' = NoRun /\ hrow' = EmptyRow

(***************************************************************************)
(* _preflight_create_run: active_run_exists unless the slot is free, held  *)
(* by this very run, or the run preempts.                                  *)
(***************************************************************************)
PreflightCreateRun(r) ==
    /\ hpc = "idle"
    /\ active \in {NoRun, r} \/ r \in Preempting
    /\ Len(queue) <= MaxQueue
    /\ hpc' = "register" /\ hrun' = r
    /\ UNCHANGED <<row, log, created, terminal, hrow, sup, crashes>>

(***************************************************************************)
(* The command row and its acceptance are persisted first ...              *)
(***************************************************************************)
RegisterRun ==
    /\ hpc = "register"
    /\ created' = created \cup {hrun}
    /\ hpc' = "created"
    /\ UNCHANGED <<row, log, terminal, hrun, hrow, sup, crashes>>

\* Mutants: preempt=true swaps even a free slot; the swap forgets the runs
\* that were queued already.
OnRunCreatedSwapsNobody ==
    /\ hpc = "created"
    /\ \/ hrun = active /\ HttpDone
       \/ /\ hrun # active /\ hrun \in Preempting
          /\ hrow' = [active |-> hrun, queue |-> <<active>> \o queue]
          /\ hpc' = IF active = NoRun THEN "write" ELSE "pause"
          /\ UNCHANGED hrun
       \/ /\ active = NoRun /\ hrun \notin Preempting
          /\ hrow' = [active |-> hrun, queue |-> queue]
          /\ hpc' = "write"
          /\ UNCHANGED hrun
    /\ UNCHANGED <<row, log, created, terminal, sup, crashes>>

OnRunCreatedForgetsQueue ==
    /\ hpc = "created"
    /\ \/ hrun = active /\ HttpDone
       \/ /\ active = NoRun
          /\ hrow' = [active |-> hrun, queue |-> queue]
          /\ hpc' = "write"
          /\ UNCHANGED hrun
       \/ /\ active \notin {NoRun, hrun} /\ hrun \in Preempting
          /\ hrow' = [active |-> hrun, queue |-> <<active>>]
          /\ hpc' = "pause"
          /\ UNCHANGED hrun
    /\ UNCHANGED <<row, log, created, terminal, sup, crashes>>

(***************************************************************************)
(* ... then on_run_created reads the schedule and decides on the new row.  *)
(***************************************************************************)
OnRunCreated ==
    /\ hpc = "created"
    /\ \/ hrun = active /\ HttpDone
       \/ /\ active = NoRun
          /\ hrow' = [active |-> hrun, queue |-> queue]
          /\ hpc' = "write"
          /\ UNCHANGED hrun
       \/ /\ active \notin {NoRun, hrun} /\ hrun \in Preempting
          /\ hrow' = [active |-> hrun, queue |-> <<active>> \o queue]
          /\ hpc' = "pause"
          /\ UNCHANGED hrun
       \/ /\ active \notin {NoRun, hrun} /\ hrun \notin Preempting
          /\ hrow' = [active |-> active, queue |-> Append(queue, hrun)]
          /\ hpc' = "write"
          /\ UNCHANGED hrun
    /\ UNCHANGED <<row, log, created, terminal, sup, crashes>>

(***************************************************************************)
(* The swap's pause_run for the run that was active when the row was read. *)
(***************************************************************************)
PauseActive ==
    /\ hpc = "pause"
    /\ pausedBy' = [pausedBy EXCEPT ![Head(hrow.queue)] = "swap"]
    /\ everPaused' = everPaused \cup {Head(hrow.queue)}
    /\ hpc' = "swap"
    /\ UNCHANGED <<row, preemptions, created, terminal, hrun, hrow, sup, crashes>>

(***************************************************************************)
(* The row is written: a queue edit (_write), a run that takes the free    *)
(* slot, or the swap (_switch), whose schedule.changed is read again when  *)
(* the run ends and so matters.                                            *)
(***************************************************************************)
HttpWrite ==
    /\ hpc \in {"write", "swap"}
    /\ active' = hrow.active /\ queue' = hrow.queue
    /\ \/ hpc = "write" /\ HttpDone
       \/ hpc = "swap" /\ hpc' = "log" /\ UNCHANGED <<hrun, hrow>>
    /\ UNCHANGED <<log, created, terminal, sup, crashes>>

(***************************************************************************)
(* schedule.changed with reason hotfix_preemption.                         *)
(***************************************************************************)
LogPreemption ==
    /\ hpc = "log"
    /\ preemptions' = preemptions \cup {hrun}
    /\ HttpDone
    /\ UNCHANGED <<row, pausedBy, everPaused, created, terminal, sup, crashes>>
-----------------------------------------------------------------------------
(* drive_run acceptance on the supervisor thread.                          *)

SupDone ==
    /\ spc' = "idle" /\ srun' = NoRun /\ srow' = EmptyRow

(***************************************************************************)
(* next_runnable hands out the active run unless it is paused; accepting   *)
(* its drive_run finds it terminal (_reconcile_terminal_drive).            *)
(***************************************************************************)
ReconcileTerminalDrive ==
    /\ spc = "idle"
    /\ active # NoRun /\ ~Paused(active) /\ active \in terminal
    /\ spc' = "terminal" /\ srun' = active
    /\ UNCHANGED <<row, log, created, terminal, http, srow, crashes>>

(***************************************************************************)
(* A queue without a run, the others in their order: by position, as a     *)
(* proof can follow (MCSchedule compares it with SelectSeq).               *)
(***************************************************************************)
Without(q, r) ==
    LET kept == {i \in 1..Len(q) : q[i] # r}
        Nth(k) == CHOOSE i \in kept : Cardinality({j \in kept : j <= i}) = k
    IN  [k \in 1..Cardinality(kept) |-> q[Nth(k)]]

\* Mutant: nothing is written when no run is queued.
OnRunTerminalEmptyQueueKept ==
    /\ spc = "terminal"
    /\ \/ /\ srun = active /\ queue # <<>>
          /\ srow' = [active |-> Head(queue), queue |-> Tail(queue)]
          /\ spc' = IF srun \in preemptions THEN "resume" ELSE "write"
          /\ UNCHANGED srun
       \/ (srun # active \/ queue = <<>>) /\ SupDone
    /\ UNCHANGED <<row, log, created, terminal, http, crashes>>

(***************************************************************************)
(* on_run_terminal: promote the head of the queue, resuming it first when  *)
(* the run that ends took the slot by preemption; a queued run is dropped  *)
(* from the queue.                                                         *)
(***************************************************************************)
OnRunTerminal ==
    /\ spc = "terminal"
    /\ \/ /\ srun = active /\ queue = <<>>
          /\ srow' = EmptyRow
          /\ spc' = "write"
          /\ UNCHANGED srun
       \/ /\ srun = active /\ queue # <<>>
          /\ srow' = [active |-> Head(queue), queue |-> Tail(queue)]
          /\ spc' = IF srun \in preemptions THEN "resume" ELSE "write"
          /\ UNCHANGED srun
       \/ /\ srun # active /\ Contains(queue, srun)
          /\ srow' = [active |-> active,
                      queue |-> Without(queue, srun)]
          /\ spc' = "write"
          /\ UNCHANGED srun
       \/ srun # active /\ ~Contains(queue, srun) /\ SupDone
    /\ UNCHANGED <<row, log, created, terminal, http, crashes>>

(***************************************************************************)
(* _resume_preempted: resume_run under the identity of the pause request;  *)
(* nothing when the run was never paused.                                  *)
(***************************************************************************)
ResumePreempted ==
    /\ spc = "resume"
    /\ pausedBy' = IF srow.active \in everPaused
                   THEN [pausedBy EXCEPT ![srow.active] = "nobody"]
                   ELSE pausedBy
    /\ spc' = "write"
    /\ UNCHANGED <<row, everPaused, preemptions, created, terminal, http, srun,
                   srow, crashes>>

SupWrite ==
    /\ spc = "write"
    /\ active' = srow.active /\ queue' = srow.queue
    /\ SupDone
    /\ UNCHANGED <<log, created, terminal, http, crashes>>
-----------------------------------------------------------------------------
(* The rest of the system.                                                 *)

(***************************************************************************)
(* A run of the schedule ends: driven there, or abandoned by its operator. *)
(***************************************************************************)
Finish(r) ==
    /\ r \in created \ terminal
    /\ terminal' = terminal \cup {r}
    /\ UNCHANGED <<row, log, created, http, sup, crashes>>

(***************************************************************************)
(* The operator's own pause_run and resume_run, on the HTTP thread.        *)
(***************************************************************************)
OperatorPause(r) ==
    /\ hpc = "idle" /\ r \in created
    /\ pausedBy' = [pausedBy EXCEPT ![r] = "operator"]
    /\ everPaused' = everPaused \cup {r}
    /\ UNCHANGED <<row, preemptions, created, terminal, http, sup, crashes>>

OperatorResume(r) ==
    /\ hpc = "idle" /\ Paused(r)
    /\ pausedBy' = [pausedBy EXCEPT ![r] = "nobody"]
    /\ UNCHANGED <<row, everPaused, preemptions, created, terminal, http, sup,
                   crashes>>

(***************************************************************************)
(* The serve process dies and is started again: both threads are lost.     *)
(***************************************************************************)
Crash ==
    /\ crashes < MaxCrash
    /\ crashes' = crashes + 1
    /\ HttpDone /\ SupDone
    /\ UNCHANGED <<row, log, created, terminal>>

HttpStep ==
    RegisterRun \/ OnRunCreated \/ PauseActive \/ HttpWrite \/ LogPreemption

SupStep ==
    ReconcileTerminalDrive \/ OnRunTerminal \/ ResumePreempted \/ SupWrite

(***************************************************************************)
(* What disturbs the schedule: a crash, both threads at work on the row,   *)
(* or create_run accepted again for a run that waits in the queue.         *)
(***************************************************************************)
Overlap == hpc \notin {"idle", "register", "created"} /\ spc # "idle"

CreatedAgain == hpc = "created" /\ hpc' # hpc /\ Contains(queue, hrun)

Note ==
    disturbed' = (disturbed \/ Overlap' \/ CreatedAgain \/ crashes' # crashes)

Next ==
    \/ \E r \in Run : PreflightCreateRun(r) /\ Note
    \/ RegisterRun /\ Note
    \/ OnRunCreated /\ Note
    \/ PauseActive /\ Note
    \/ HttpWrite /\ Note
    \/ LogPreemption /\ Note
    \/ ReconcileTerminalDrive /\ Note
    \/ OnRunTerminal /\ Note
    \/ ResumePreempted /\ Note
    \/ SupWrite /\ Note
    \/ \E r \in Run : Finish(r) /\ Note
    \/ \E r \in Run : OperatorPause(r) /\ Note
    \/ \E r \in Run : OperatorResume(r) /\ Note
    \/ Crash /\ Note

Spec == Init /\ [][Next]_vars

(***************************************************************************)
(* Both threads of a serve process run; nobody has to create, finish,      *)
(* pause or resume anything.                                               *)
(***************************************************************************)
FairSpec == Spec /\ WF_state(HttpStep) /\ WF_state(SupStep)
-----------------------------------------------------------------------------
Quiet == hpc = "idle" /\ spc = "idle"
Scheduled(r) == active = r \/ Contains(queue, r)

(***************************************************************************)
(* A free slot has an empty queue, whatever the two threads do to the row: *)
(* nothing promotes a queued run but the end of an active one.             *)
(***************************************************************************)
FreeSlotEmptyQueue == active = NoRun => queue = <<>>

(***************************************************************************)
(* The slot does not stay with a run that is over, unless that run is      *)
(* paused: a terminal active run is replaced by another run or by none, or *)
(* its drive is blocked by a pause.                                        *)
(***************************************************************************)
TerminalLeavesSlot ==
    \A r \in Run :
        (active = r /\ r \in terminal) ~> (active # r \/ Paused(r))

(***************************************************************************)
(* When the two threads never work on the row at the same time, no queued  *)
(* run is created again and the service does not crash, no created run is  *)
(* lost, however creations, swaps, ends and pauses are ordered.            *)
(***************************************************************************)
Undisturbed == Quiet /\ ~disturbed

SerialKeepsRuns ==
    Undisturbed => \A r \in created \ terminal : Scheduled(r)

(***************************************************************************)
(* Likewise the run that holds the slot is then never left under the pause *)
(* of a swap: the pause goes with losing the slot, the resume with         *)
(* regaining it.                                                           *)
(***************************************************************************)
SerialUndoesSwap ==
    Undisturbed /\ active # NoRun => pausedBy[active] # "swap"

(***************************************************************************)
(* Together, what the scheduler's sequential algorithm keeps: the slot is  *)
(* never free over a queue, and undisturbed no run is lost and none is     *)
(* active but paused by a swap (on_run_created, on_run_terminal).          *)
(***************************************************************************)
SerialIsSound == FreeSlotEmptyQueue /\ SerialKeepsRuns /\ SerialUndoesSwap
-----------------------------------------------------------------------------
(* What the repository says of the schedule, and the code does not do.     *)

(***************************************************************************)
(* scheduler.py: the row carries the active run and the ordered queue of   *)
(* accepted runs -- with no request under way and no crash, an accepted    *)
(* run that is not over is in it.                                          *)
(***************************************************************************)
AcceptedIsScheduled ==
    Quiet => \A r \in created \ terminal : Scheduled(r)
=============================================================================
