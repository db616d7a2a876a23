---------------------------- MODULE CommandPlane ----------------------------
(***************************************************************************)
(* The command/lease/worker machinery of `trac serve`: the command rows of *)
(* supervisor/db.py, the lease generations of supervisor/lease.py, the     *)
(* supervisor tick of cli/serve_cmd.py with supervisor/worker.py, the      *)
(* worker subprocess of supervisor/worker_main.py and supervisor/          *)
(* gate_exec.py, and startup recovery (supervisor/recover.py).             *)
(*                                                                         *)
(* One element of Server is one `trac serve` process; a restart is a new   *)
(* element.  Worker <<c, g>> is the subprocess spawned for command c with  *)
(* lease generation g.  Every database transaction, Popen and run-plane    *)
(* read or write is a step; workers are not children that die with their   *)
(* server, so a worker may outlive it.                                     *)
(*                                                                         *)
(* Of a run only what drives and gates look at is kept: whether the run    *)
(* plane is active, awaiting a human, or terminal, and the number of the   *)
(* gate it awaits.  Which run holds the active slot is the environment's   *)
(* choice here; module Schedule models it.                                 *)
(***************************************************************************)
EXTENDS Naturals, FiniteSets

CONSTANTS
    Run, NoRun,
    DriveCmd,       \* identities for drive_run commands
    GateCmd,        \* identities for record_review commands
    NoCmd,
    Server,
    MaxUp,          \* how many serve processes share the home at a time
    MaxGen,         \* bound on lease generations
    MaxGate,        \* bound on the gates a run reaches
    MaxSteps,       \* _MAX_DRIVE_STEPS
    MaxFaults       \* bound on ticks aborted by an exception

ASSUME CommandPlaneAssumption ==
    /\ DriveCmd \cap GateCmd = {}
    /\ NoCmd \notin DriveCmd \cup GateCmd
    /\ NoRun \notin Run
    /\ MaxUp \in Nat /\ MaxGen \in Nat /\ MaxGate \in Nat
    /\ MaxSteps \in Nat /\ MaxFaults \in Nat

VARIABLES
    \* service.db
    status, claimGen, runOf,    \* the commands table
    lease,                      \* leases.generation (0: no row)
    paused,                     \* the latest pause event blocks driving
    active,                     \* schedule.active_run
    \* the serve processes
    pc, phase, todo, cur, gen, finished, runnable,  \* the tick and its locals
    inFlight, gateInFlight, tracked,        \* _DriveState and _workers
    faults,
    \* the worker processes
    wpc, wgen, wstep,
    \* the run plane
    plane, gateNo,
    appliedAt                   \* history: the gates a decision was recorded on

rows == <<status, claimGen, runOf>>
service == <<lease, paused, active>>
tick == <<pc, phase, todo, cur, gen, finished, runnable>>
mem == <<inFlight, gateInFlight, tracked>>
workers == <<wpc, wgen, wstep>>
runs == <<plane, gateNo>>
vars == <<rows, service, tick, mem, faults, workers, runs, appliedAt>>

Cmd == DriveCmd \cup GateCmd
Gens == 0..MaxGen
Worker == Cmd \X (1..MaxGen)

Decided == {"completed", "failed"}
Statuses == {"none", "accepted", "claimed"} \cup Decided
ServerPCs == {"off", "poll", "drive", "fresh", "gate", "lease", "claim",
              "popen", "dead"}
Phases == {"drive", "fresh", "gate"}
WorkerPCs == {"none", "starting", "check", "window", "state", "gate",
              "commit_ok", "commit_fail"}

StoreTypes ==
    /\ status \in [Cmd -> Statuses]
    /\ claimGen \in [Cmd -> Gens]
    /\ runOf \in [Cmd -> Run \cup {NoRun}]
    /\ lease \in [Run -> Gens]
    /\ paused \in [Run -> BOOLEAN]
    /\ active \in Run \cup {NoRun}

TickTypes ==
    /\ pc \in [Server -> ServerPCs]
    /\ phase \in [Server -> Phases]
    /\ todo \in [Server -> SUBSET Cmd]
    /\ cur \in [Server -> Cmd \cup {NoCmd}]
    /\ gen \in [Server -> Gens]
    /\ finished \in [Server -> SUBSET Cmd]
    /\ runnable \in [Server -> Run \cup {NoRun}]

MemTypes ==
    /\ inFlight \in [Server -> SUBSET (Run \cup {NoRun})]
    /\ gateInFlight \in [Server -> SUBSET Cmd]
    /\ tracked \in [Server -> [Cmd -> Gens]]
    /\ faults \in 0..MaxFaults

WorkerTypes ==
    /\ wpc \in [Worker -> WorkerPCs]
    /\ wgen \in [Worker -> Gens]
    /\ wstep \in [Worker -> 0..MaxSteps]

RunTypes ==
    /\ plane \in [Run -> {"active", "awaiting", "terminal"}]
    /\ gateNo \in [Run -> 0..MaxGate]
    /\ appliedAt \in [GateCmd -> SUBSET (0..MaxGate)]

TypeOK ==
    StoreTypes /\ TickTypes /\ MemTypes /\ WorkerTypes /\ RunTypes

Init ==
    /\ status = [c \in Cmd |-> "none"]
    /\ claimGen = [c \in Cmd |-> 0]
    /\ runOf = [c \in Cmd |-> NoRun]
    /\ lease = [r \in Run |-> 0]
    /\ paused = [r \in Run |-> FALSE]
    /\ active = NoRun
    /\ pc = [s \in Server |-> "off"]
    /\ phase = [s \in Server |-> "drive"]
    /\ todo = [s \in Server |-> {}]
    /\ cur = [s \in Server |-> NoCmd]
    /\ gen = [s \in Server |-> 0]
    /\ finished = [s \in Server |-> {}]
    /\ runnable = [s \in Server |-> NoRun]
    /\ inFlight = [s \in Server |-> {}]
    /\ gateInFlight = [s \in Server |-> {}]
    /\ tracked = [s \in Server |-> [c \in Cmd |-> 0]]
    /\ faults = 0
    /\ wpc = [w \in Worker |-> "none"]
    /\ wgen = [w \in Worker |-> 0]
    /\ wstep = [w \in Worker |-> 0]
    /\ plane = [r \in Run |-> "active"]
    /\ gateNo = [r \in Run |-> 0]
    /\ appliedAt = [c \in GateCmd |-> {}]

Up(s) == pc[s] \notin {"off", "dead"}
Accepted(S) == {c \in S : status[c] = "accepted"}
-----------------------------------------------------------------------------
(* The command service: accepts that persist a row or a pause event.       *)

(***************************************************************************)
(* register_command: the row is inserted with status=accepted, no claim.   *)
(***************************************************************************)
RegisterCommand(c, r) ==
    /\ status[c] = "none"
    /\ status' = [status EXCEPT ![c] = "accepted"]
    /\ runOf' = [runOf EXCEPT ![c] = r]
    /\ UNCHANGED claimGen

(***************************************************************************)
(* accept(record_review): _preflight_gate_command admits it only while the *)
(* run awaits review; no command of a stopped server is accepted.          *)
(***************************************************************************)
AcceptGate(c, r) ==
    /\ \E s \in Server : Up(s)
    /\ plane[r] = "awaiting"
    /\ RegisterCommand(c, r)
    /\ UNCHANGED <<service, tick, mem, faults, workers, runs, appliedAt>>

(***************************************************************************)
(* accept(pause_run) appends run.pause_requested, accept(resume_run)       *)
(* run.resumed; the latest of the two decides _pause_blocks.               *)
(***************************************************************************)
AcceptPauseResume(r) ==
    /\ \E s \in Server : Up(s)
    /\ paused' = [paused EXCEPT ![r] = ~@]
    /\ UNCHANGED <<rows, lease, active, tick, mem, faults, workers, runs, appliedAt>>

(***************************************************************************)
(* The schedule hands the active slot to a run that is not terminal.       *)
(***************************************************************************)
SwitchActive(r) ==
    /\ \E s \in Server : Up(s)
    /\ r # active
    /\ plane[r] # "terminal"
    /\ active' = r
    /\ UNCHANGED <<rows, lease, paused, tick, mem, faults, workers, runs, appliedAt>>
-----------------------------------------------------------------------------
(* The serve process.                                                      *)

\* Mutant: recovery forgets to put claimed commands back.
RequeueNothing == UNCHANGED rows

(***************************************************************************)
(* requeue_claimed: one transaction, every claimed row back to accepted.   *)
(***************************************************************************)
RequeueClaimed ==
    /\ status' = [c \in Cmd |-> IF status[c] = "claimed" THEN "accepted"
                                                          ELSE status[c]]
    /\ claimGen' = [c \in Cmd |-> IF status[c] = "claimed" THEN 0
                                                            ELSE claimGen[c]]
    /\ UNCHANGED runOf

(***************************************************************************)
(* _serve: recover_on_startup, then the supervisor thread starts with an   *)
(* empty _DriveState and no tracked worker.  Lapsed leases are only        *)
(* reported: the lease row is the fencing floor and is kept.               *)
(***************************************************************************)
StartServe(s) ==
    /\ pc[s] = "off"
    /\ Cardinality({t \in Server : Up(t)}) < MaxUp
    /\ RequeueClaimed
    /\ pc' = [pc EXCEPT ![s] = "poll"]
    /\ UNCHANGED <<service, phase, todo, cur, gen, finished, runnable, mem,
                   faults, workers, runs, appliedAt>>

(***************************************************************************)
(* A stop signal, a bind failure or a crash: the process is gone and its   *)
(* workers run on.                                                         *)
(***************************************************************************)
StopServe(s) ==
    /\ Up(s)
    /\ pc' = [pc EXCEPT ![s] = "dead"]
    /\ phase' = [phase EXCEPT ![s] = "drive"]
    /\ todo' = [todo EXCEPT ![s] = {}]
    /\ cur' = [cur EXCEPT ![s] = NoCmd]
    /\ gen' = [gen EXCEPT ![s] = 0]
    /\ finished' = [finished EXCEPT ![s] = {}]
    /\ runnable' = [runnable EXCEPT ![s] = NoRun]
    /\ inFlight' = [inFlight EXCEPT ![s] = {}]
    /\ gateInFlight' = [gateInFlight EXCEPT ![s] = {}]
    /\ tracked' = [tracked EXCEPT ![s] = [c \in Cmd |-> 0]]
    /\ UNCHANGED <<rows, service, faults, workers, runs, appliedAt>>

\* Mutant of complete_command: the status is not compared.
CompleteAnyStatus(c, g, outcome) ==
    IF claimGen[c] = g
    THEN status' = [status EXCEPT ![c] = outcome]
    ELSE UNCHANGED status

(***************************************************************************)
(* complete_command: CAS on status=claimed and claim_generation=g.  A      *)
(* rejected outcome is only audited (worker.late_result).                  *)
(***************************************************************************)
CompleteCommand(c, g, outcome) ==
    IF status[c] = "claimed" /\ claimGen[c] = g
    THEN status' = [status EXCEPT ![c] = outcome]
    ELSE UNCHANGED status

ExitedTracked(s) ==
    {c \in Cmd : tracked[s][c] # 0 /\ wpc[<<c, tracked[s][c]>>] = "none"}

\* Mutant: a worker that died without an outcome is tried again.
ReapAndRetry(s, c) ==
    /\ pc[s] = "poll"
    /\ c \in ExitedTracked(s)
    /\ status' = [status EXCEPT ![c] = IF @ = "claimed" THEN "accepted" ELSE @]
    /\ tracked' = [tracked EXCEPT ![s][c] = 0]
    /\ finished' = [finished EXCEPT ![s] = @ \cup {c}]
    /\ UNCHANGED <<claimGen, runOf, service, pc, phase, todo, cur, gen, runnable,
                   inFlight, gateInFlight, faults, workers, runs, appliedAt>>

(***************************************************************************)
(* poll/_reap of one finished worker: it is no longer tracked, and a row   *)
(* it left claimed fails under the generation it was spawned with.         *)
(***************************************************************************)
Reap(s, c) ==
    /\ pc[s] = "poll"
    /\ c \in ExitedTracked(s)
    /\ CompleteCommand(c, tracked[s][c], "failed")
    /\ tracked' = [tracked EXCEPT ![s][c] = 0]
    /\ finished' = [finished EXCEPT ![s] = @ \cup {c}]
    /\ UNCHANGED <<claimGen, runOf, service, pc, phase, todo, cur, gen, runnable,
                   inFlight, gateInFlight, faults, workers, runs, appliedAt>>

(***************************************************************************)
(* The rest of poll's caller: EVERY finished worker, drive or gate, takes  *)
(* its run out of in_flight; then _drive_accepted reads the accepted       *)
(* drive_run rows.                                                         *)
(***************************************************************************)
PollDone(s) ==
    /\ pc[s] = "poll"
    /\ ExitedTracked(s) = {}
    /\ inFlight' = [inFlight EXCEPT ![s] = @ \ {runOf[c] : c \in finished[s]}]
    /\ gateInFlight' = [gateInFlight EXCEPT ![s] = @ \ finished[s]]
    /\ finished' = [finished EXCEPT ![s] = {}]
    /\ todo' = [todo EXCEPT ![s] = Accepted(DriveCmd)]
    /\ pc' = [pc EXCEPT ![s] = "drive"]
    /\ UNCHANGED <<rows, service, phase, cur, gen, runnable, tracked, faults,
                   workers, runs, appliedAt>>

(***************************************************************************)
(* One row of the loops of _drive_accepted and _claim_accepted_gates: a    *)
(* row that is in flight is skipped, any other is handed to spawn.         *)
(***************************************************************************)
TakeRow(s, c) ==
    /\ pc[s] \in {"drive", "gate"}
    /\ c \in todo[s]
    /\ todo' = [todo EXCEPT ![s] = @ \ {c}]
    /\ \/ /\ runOf[c] \in inFlight[s] \/ pc[s] # "drive"
          /\ c \in gateInFlight[s] \/ pc[s] # "gate"
          /\ UNCHANGED <<pc, phase, cur>>
       \/ /\ runOf[c] \notin inFlight[s] \/ pc[s] # "drive"
          /\ c \notin gateInFlight[s] \/ pc[s] # "gate"
          /\ phase' = [phase EXCEPT ![s] = pc[s]]
          /\ cur' = [cur EXCEPT ![s] = c]
          /\ pc' = [pc EXCEPT ![s] = "lease"]
    /\ UNCHANGED <<rows, service, gen, finished, runnable, mem, faults, workers,
                   runs, appliedAt>>

(***************************************************************************)
(* next_runnable: the active run unless a pause blocks it, and only when   *)
(* it is not in flight already.                                            *)
(***************************************************************************)
Runnable(s) ==
    /\ active # NoRun
    /\ ~paused[active]
    /\ active \notin inFlight[s]

NextRunnable(s) ==
    /\ pc[s] = "drive"
    /\ todo[s] = {}
    /\ \/ /\ Runnable(s)
          /\ runnable' = [runnable EXCEPT ![s] = active]
          /\ pc' = [pc EXCEPT ![s] = "fresh"]
          /\ UNCHANGED todo
       \/ /\ ~Runnable(s)
          /\ todo' = [todo EXCEPT ![s] = Accepted(GateCmd)]
          /\ pc' = [pc EXCEPT ![s] = "gate"]
          /\ UNCHANGED runnable
    /\ UNCHANGED <<rows, service, phase, cur, gen, finished, mem, faults,
                   workers, runs, appliedAt>>

FreshCmds == {c \in DriveCmd : status[c] = "none"}

(***************************************************************************)
(* _accept_fresh_drive on the run that was runnable: nothing while it      *)
(* awaits a human (or, a bound, when DriveCmd is used up); a terminal run  *)
(* that holds the slot loses it and the Rejection ends the tick; otherwise *)
(* a new drive_run row is accepted.                                        *)
(***************************************************************************)
AcceptFreshDrive(s) ==
    LET r == runnable[s]
        Terminal == plane[r] = "terminal" /\ active = r
    IN
    /\ pc[s] = "fresh"
    /\ runnable' = [runnable EXCEPT ![s] = NoRun]
    /\ \/ /\ plane[r] = "awaiting" \/ (~Terminal /\ FreshCmds = {})
          /\ todo' = [todo EXCEPT ![s] = Accepted(GateCmd)]
          /\ pc' = [pc EXCEPT ![s] = "gate"]
          /\ UNCHANGED <<rows, active, phase, cur>>
       \/ /\ Terminal
          /\ active' = NoRun
          /\ pc' = [pc EXCEPT ![s] = "poll"]
          /\ UNCHANGED <<rows, phase, todo, cur>>
       \/ /\ plane[r] # "awaiting" /\ ~Terminal
          /\ \E c \in FreshCmds :
                /\ RegisterCommand(c, r)
                /\ cur' = [cur EXCEPT ![s] = c]
          /\ phase' = [phase EXCEPT ![s] = "fresh"]
          /\ pc' = [pc EXCEPT ![s] = "lease"]
          /\ UNCHANGED <<active, todo>>
    /\ UNCHANGED <<lease, paused, gen, finished, mem, faults, workers, runs,
                   appliedAt>>

\* Mutant: the generation starts over from the row it finds.
AcquireLeaseSame(s) ==
    LET r == runOf[cur[s]] IN
    /\ pc[s] = "lease"
    /\ lease[r] < MaxGen
    /\ lease' = [lease EXCEPT ![r] = IF @ = 0 THEN 1 ELSE @]
    /\ gen' = [gen EXCEPT ![s] = lease'[r]]
    /\ pc' = [pc EXCEPT ![s] = "claim"]
    /\ UNCHANGED <<rows, paused, active, phase, todo, cur, finished, runnable,
                   mem, faults, workers, runs, appliedAt>>

(***************************************************************************)
(* acquire_lease: previous generation + 1 in one immediate transaction.    *)
(***************************************************************************)
AcquireLease(s) ==
    LET r == runOf[cur[s]] IN
    /\ pc[s] = "lease"
    /\ lease[r] < MaxGen
    /\ lease' = [lease EXCEPT ![r] = @ + 1]
    /\ gen' = [gen EXCEPT ![s] = lease[r] + 1]
    /\ pc' = [pc EXCEPT ![s] = "claim"]
    /\ UNCHANGED <<rows, paused, active, phase, todo, cur, finished, runnable,
                   mem, faults, workers, runs, appliedAt>>

(***************************************************************************)
(* Where the tick goes on after spawn: the loop it came from, or, after a  *)
(* fresh drive, the gate claims.                                           *)
(***************************************************************************)
AfterSpawn(s) ==
    /\ cur' = [cur EXCEPT ![s] = NoCmd]
    /\ gen' = [gen EXCEPT ![s] = 0]
    /\ phase' = [phase EXCEPT ![s] = "drive"]
    /\ IF phase[s] = "fresh"
       THEN /\ pc' = [pc EXCEPT ![s] = "gate"]
            /\ todo' = [todo EXCEPT ![s] = Accepted(GateCmd)]
       ELSE /\ pc' = [pc EXCEPT ![s] = phase[s]]
            /\ UNCHANGED todo

(***************************************************************************)
(* claim_command: CAS accepted -> claimed under the generation; a miss     *)
(* spawns nothing.                                                         *)
(***************************************************************************)
Claim(s) ==
    LET c == cur[s] IN
    /\ pc[s] = "claim"
    /\ \/ /\ status[c] = "accepted"
          /\ status' = [status EXCEPT ![c] = "claimed"]
          /\ claimGen' = [claimGen EXCEPT ![c] = gen[s]]
          /\ pc' = [pc EXCEPT ![s] = "popen"]
          /\ UNCHANGED <<phase, todo, cur, gen>>
       \/ /\ status[c] # "accepted"
          /\ AfterSpawn(s)
          /\ UNCHANGED <<status, claimGen>>
    /\ UNCHANGED <<runOf, service, finished, runnable, mem, faults, workers,
                   runs, appliedAt>>

\* Mutant: the worker is started but never put into _workers.
PopenUntracked(s) ==
    LET c == cur[s] IN
    /\ pc[s] = "popen"
    /\ wpc' = [wpc EXCEPT ![<<c, gen[s]>>] = "starting"]
    /\ IF phase[s] = "gate"
       THEN /\ gateInFlight' = [gateInFlight EXCEPT ![s] = @ \cup {c}]
            /\ UNCHANGED inFlight
       ELSE /\ inFlight' = [inFlight EXCEPT ![s] = @ \cup {runOf[c]}]
            /\ UNCHANGED gateInFlight
    /\ AfterSpawn(s)
    /\ UNCHANGED <<rows, service, finished, runnable, tracked, faults, wgen,
                   wstep, runs, appliedAt>>

\* Mutant: one in-flight set for runs and gate commands.
PopenGateByRun(s) ==
    LET c == cur[s] IN
    /\ pc[s] = "popen"
    /\ wpc' = [wpc EXCEPT ![<<c, gen[s]>>] = "starting"]
    /\ tracked' = [tracked EXCEPT ![s][c] = gen[s]]
    /\ gateInFlight' = [gateInFlight EXCEPT ![s] = @ \cup {runOf[c]}]
    /\ AfterSpawn(s)
    /\ UNCHANGED <<rows, service, finished, runnable, inFlight, faults, wgen,
                   wstep, runs, appliedAt>>

(***************************************************************************)
(* Popen of the worker, its _workers entry, and the caller's in-flight     *)
(* mark: the run for a drive, the command for a gate.                      *)
(***************************************************************************)
Popen(s) ==
    LET c == cur[s] IN
    /\ pc[s] = "popen"
    /\ wpc' = [wpc EXCEPT ![<<c, gen[s]>>] = "starting"]
    /\ tracked' = [tracked EXCEPT ![s][c] = gen[s]]
    /\ IF phase[s] = "gate"
       THEN /\ gateInFlight' = [gateInFlight EXCEPT ![s] = @ \cup {c}]
            /\ UNCHANGED inFlight
       ELSE /\ inFlight' = [inFlight EXCEPT ![s] = @ \cup {runOf[c]}]
            /\ UNCHANGED gateInFlight
    /\ AfterSpawn(s)
    /\ UNCHANGED <<rows, service, finished, runnable, faults, wgen, wstep, runs,
                   appliedAt>>

GatesDone(s) ==
    /\ pc[s] = "gate"
    /\ todo[s] = {}
    /\ pc' = [pc EXCEPT ![s] = "poll"]
    /\ UNCHANGED <<rows, service, phase, todo, cur, gen, finished, runnable, mem,
                   faults, workers, runs, appliedAt>>

(***************************************************************************)
(* "one bad tick must not kill the service": an exception (sqlite busy, a  *)
(* Popen that fails, ...) drops the tick where it stands ...               *)
(***************************************************************************)
AbandonTick(s) ==
    /\ faults < MaxFaults
    /\ faults' = faults + 1
    /\ pc' = [pc EXCEPT ![s] = "poll"]
    /\ phase' = [phase EXCEPT ![s] = "drive"]
    /\ todo' = [todo EXCEPT ![s] = {}]
    /\ cur' = [cur EXCEPT ![s] = NoCmd]
    /\ gen' = [gen EXCEPT ![s] = 0]
    /\ finished' = [finished EXCEPT ![s] = {}]
    /\ runnable' = [runnable EXCEPT ![s] = NoRun]

TickFails(s) ==
    /\ Up(s) /\ pc[s] # "poll"
    /\ AbandonTick(s)
    /\ UNCHANGED <<rows, service, mem, workers, runs, appliedAt>>

(***************************************************************************)
(* ... and in _reap it does so after the worker left _workers and before   *)
(* any finished worker was taken out of the in-flight sets.                *)
(***************************************************************************)
ReapFails(s, c) ==
    /\ pc[s] = "poll"
    /\ c \in ExitedTracked(s)
    /\ AbandonTick(s)
    /\ tracked' = [tracked EXCEPT ![s][c] = 0]
    /\ UNCHANGED <<rows, service, inFlight, gateInFlight, workers, runs, appliedAt>>
-----------------------------------------------------------------------------
(* The worker process.                                                     *)

Goto(w, where) == wpc' = [wpc EXCEPT ![w] = where]

\* A process that has exited has no locals; it may still have to be reaped.
Exit(w) ==
    /\ wpc' = [wpc EXCEPT ![w] = "none"]
    /\ wgen' = [wgen EXCEPT ![w] = 0]
    /\ wstep' = [wstep EXCEPT ![w] = 0]

(***************************************************************************)
(* main: reads the row; the generation it works under is the one the row   *)
(* carries NOW (0 for none), whatever it was spawned with.                 *)
(***************************************************************************)
WorkerStart(w) ==
    /\ wpc[w] = "starting"
    /\ wgen' = [wgen EXCEPT ![w] = claimGen[w[1]]]
    /\ Goto(w, IF w[1] \in DriveCmd THEN "check" ELSE "gate")
    /\ UNCHANGED <<rows, service, tick, mem, faults, wstep, runs, appliedAt>>

(***************************************************************************)
(* drive_once up to the window: a durable boundary is reported at once.    *)
(***************************************************************************)
DriveCheck(w) ==
    /\ wpc[w] = "check"
    /\ Goto(w, IF plane[runOf[w[1]]] = "active" THEN "window" ELSE "commit_ok")
    /\ UNCHANGED <<rows, service, tick, mem, faults, wgen, wstep, runs, appliedAt>>

(***************************************************************************)
(* The run_loop window: it advances the run, reaches the next gate, ends   *)
(* the run, or raises.  A run parked by somebody else is left alone.       *)
(***************************************************************************)
DriveWindow(w) ==
    LET r == runOf[w[1]] IN
    /\ wpc[w] = "window"
    /\ \/ Goto(w, "state") /\ UNCHANGED runs
       \/ /\ plane[r] = "active" /\ gateNo[r] < MaxGate
          /\ plane' = [plane EXCEPT ![r] = "awaiting"]
          /\ gateNo' = [gateNo EXCEPT ![r] = @ + 1]
          /\ Goto(w, "state")
       \/ /\ plane[r] = "active"
          /\ plane' = [plane EXCEPT ![r] = "terminal"]
          /\ Goto(w, "state")
          /\ UNCHANGED gateNo
       \/ Goto(w, "commit_fail") /\ UNCHANGED runs
    /\ UNCHANGED <<rows, service, tick, mem, faults, wgen, wstep, appliedAt>>

(***************************************************************************)
(* The state read after the window: a boundary (or an unresolved           *)
(* attention) completes the command, no progress or a spent step budget    *)
(* fails it, anything else is "continue" and drive_once is called again.   *)
(***************************************************************************)
DriveState(w) ==
    /\ wpc[w] = "state"
    /\ \/ Goto(w, "commit_ok") /\ UNCHANGED wstep
       \/ /\ plane[runOf[w[1]]] = "active"
          /\ Goto(w, "commit_fail")
          /\ UNCHANGED wstep
       \/ /\ plane[runOf[w[1]]] = "active"
          /\ wstep[w] < MaxSteps
          /\ wstep' = [wstep EXCEPT ![w] = @ + 1]
          /\ Goto(w, "check")
    /\ UNCHANGED <<rows, service, tick, mem, faults, wgen, runs, appliedAt>>

(***************************************************************************)
(* _execute_review under the run's writer lock: it records the decision on *)
(* the gate the run awaits NOW, or is rejected; a held lock raises.        *)
(***************************************************************************)
GateExecute(w) ==
    LET r == runOf[w[1]] IN
    /\ wpc[w] = "gate"
    /\ \/ /\ plane[r] = "awaiting"
          /\ plane' = [plane EXCEPT ![r] = "active"]
          /\ appliedAt' = [appliedAt EXCEPT ![w[1]] = @ \cup {gateNo[r]}]
          /\ Goto(w, "commit_ok")
          /\ UNCHANGED <<wgen, wstep>>
       \/ Goto(w, "commit_fail") /\ UNCHANGED <<plane, appliedAt, wgen, wstep>>
       \/ Exit(w) /\ UNCHANGED <<plane, appliedAt>>
    /\ UNCHANGED <<rows, service, tick, mem, faults, gateNo>>

(***************************************************************************)
(* The worker's own complete_command, then its exit.                       *)
(***************************************************************************)
Commit(w) ==
    /\ wpc[w] \in {"commit_ok", "commit_fail"}
    /\ CompleteCommand(w[1], wgen[w],
                       IF wpc[w] = "commit_ok" THEN "completed" ELSE "failed")
    /\ Exit(w)
    /\ UNCHANGED <<claimGen, runOf, service, tick, mem, faults, runs, appliedAt>>

KillWorker(w) ==
    /\ wpc[w] # "none"
    /\ Exit(w)
    /\ UNCHANGED <<rows, service, tick, mem, faults, runs, appliedAt>>
-----------------------------------------------------------------------------
Tick(s) ==
    \/ \E c \in Cmd : Reap(s, c) \/ TakeRow(s, c)
    \/ PollDone(s) \/ NextRunnable(s) \/ AcceptFreshDrive(s)
    \/ AcquireLease(s) \/ Claim(s) \/ Popen(s) \/ GatesDone(s)

WorkerStep(w) ==
    \/ WorkerStart(w) \/ DriveCheck(w) \/ DriveWindow(w) \/ DriveState(w)
    \/ GateExecute(w) \/ Commit(w)

Next ==
    \/ \E r \in Run :
          \/ \E c \in GateCmd : AcceptGate(c, r)
          \/ AcceptPauseResume(r) \/ SwitchActive(r)
    \/ \E s \in Server :
          \/ StartServe(s) \/ StopServe(s) \/ Tick(s) \/ TickFails(s)
          \/ \E c \in Cmd : ReapFails(s, c)
    \/ \E w \in Worker : WorkerStep(w) \/ KillWorker(w)

Spec == Init /\ [][Next]_vars

(***************************************************************************)
(* A supervisor thread keeps ticking while its process is up, and a worker *)
(* process runs to its exit.  Nothing makes a server start, or a run or    *)
(* a human move.                                                           *)
(***************************************************************************)
FairSpec ==
    /\ Spec
    /\ \A s \in Server : WF_vars(Tick(s))
    /\ \A w \in Worker : WF_vars(WorkerStep(w))
-----------------------------------------------------------------------------
AnyUp == \E s \in Server : Up(s)
Restarted == \E s, t \in Server : s # t /\ pc[s] # "off" /\ pc[t] # "off"
Pending(c) == status[c] \in {"accepted", "claimed"}

(***************************************************************************)
(* Two commands of one run are never claimed under the same generation,    *)
(* across ticks, aborted ticks, restarts and two servers on one home: the  *)
(* generation names one claim, which is what the completion CAS relies on. *)
(***************************************************************************)
ClaimGenerationsDistinct ==
    \A c, d \in Cmd :
        /\ status[c] = "claimed" /\ status[d] = "claimed"
        /\ c # d /\ runOf[c] = runOf[d]
        => claimGen[c] # claimGen[d]

(***************************************************************************)
(* While the supervisor of a single serve process has not dropped a tick,  *)
(* a claimed command is always one it is about to start a worker for or    *)
(* whose worker it watches, so that the outcome of a worker that dies is   *)
(* recorded: with no server up, the next startup requeues it.              *)
(***************************************************************************)
Watched(s, c) ==
    \/ tracked[s][c] # 0 /\ tracked[s][c] = claimGen[c]
    \/ pc[s] = "popen" /\ cur[s] = c

ClaimedIsWatched ==
    \A c \in Cmd :
        status[c] = "claimed" /\ AnyUp /\ faults = 0
            => \E s \in Server : Up(s) /\ Watched(s, c)

(***************************************************************************)
(* A run in a server's in_flight set has a drive worker that the server    *)
(* still watches or has just reaped: the mark is never left behind, which  *)
(* would keep the run from being driven until the next restart.            *)
(***************************************************************************)
InFlightIsWatched ==
    \A s \in Server : \A r \in inFlight[s] :
        faults = 0 => \E c \in DriveCmd :
                         /\ runOf[c] = r
                         /\ tracked[s][c] # 0 \/ c \in finished[s]

(***************************************************************************)
(* Both: neither the store nor the memory of a supervisor counts on a      *)
(* worker nobody waits for (recover.py, WorkerManager.poll).               *)
(***************************************************************************)
NothingIsUnwatched == ClaimedIsWatched /\ InFlightIsWatched

(***************************************************************************)
(* Without a restart the human's decision is applied to one gate at most,  *)
(* however the worker ends: a reaped command is failed, never claimed      *)
(* again.                                                                  *)
(***************************************************************************)
AppliedOnceWithoutRestart ==
    ~Restarted => \A c \in GateCmd : Cardinality(appliedAt[c]) <= 1

(***************************************************************************)
(* An accepted command gets its outcome while a server stays up and no     *)
(* tick is dropped: worker crashes, a run in flight and a spent drive      *)
(* budget included.                                                        *)
(***************************************************************************)
EveryCommandDecided ==
    \A c \in Cmd :
        Pending(c) /\ AnyUp ~> (status[c] \in Decided \/ ~AnyUp \/ faults > 0)

(***************************************************************************)
(* Each command implements the lifecycle of CommandLifecycle: claiming,    *)
(* working, crashing and requeueing keep it open, and its one outcome is   *)
(* final.                                                                  *)
(***************************************************************************)
Outcome ==
    [c \in Cmd |-> IF Pending(c) THEN "open" ELSE status[c]]

Lifecycle == INSTANCE CommandLifecycle WITH outcome <- Outcome

ImplementsLifecycle == Lifecycle!Spec
-----------------------------------------------------------------------------
(* What the repository says of this machinery, and the code does not do.   *)

Driving(r) == {w \in Worker : /\ w[1] \in DriveCmd /\ runOf[w[1]] = r
                              /\ wpc[w] \in {"check", "window", "state"}}

(***************************************************************************)
(* lease.py: one run has at most one effective executor at any moment.     *)
(***************************************************************************)
SingleDriver == \A r \in Run : Cardinality(Driving(r)) <= 1

(***************************************************************************)
(* lease.py: outcomes arriving from a stale generation are quarantined --  *)
(* a worker decides its command only while the row carries the generation  *)
(* it was spawned under.                                                   *)
(***************************************************************************)
StaleWorkerFenced ==
    [][\A w \in Worker :
          Commit(w) /\ status'[w[1]] # status[w[1]] => claimGen[w[1]] = w[2]]_vars

(***************************************************************************)
(* recover.py: no loss, no duplicate side effects -- one decision of a     *)
(* human is recorded on one gate.                                          *)
(***************************************************************************)
AppliedOnce == \A c \in GateCmd : Cardinality(appliedAt[c]) <= 1
=============================================================================
