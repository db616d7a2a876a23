------------------------- MODULE CommandPlaneProofs -------------------------
(***************************************************************************)
(* What CommandPlane guarantees for any number of runs, commands, servers  *)
(* and generations.                                                        *)
(***************************************************************************)
EXTENDS CommandPlane, FiniteSetTheorems, TLAPS

(***************************************************************************)
(* A generation is granted to one pending claim, which passes it on to one *)
(* row.  The strengthening of ClaimGenerationsDistinct says where granted  *)
(* generations are, and that none exceeds the lease.                       *)
(***************************************************************************)
Registered(c) == status[c] # "none"

RowsWellFormed ==
    \A c \in Cmd :
        /\ Registered(c) => runOf[c] \in Run
        /\ status[c] = "claimed" =>
              claimGen[c] \in 1..lease[runOf[c]]

TicksWellFormed ==
    \A s \in Server :
        /\ pc[s] = "fresh" => runnable[s] \in Run
        /\ \A c \in todo[s] : Registered(c)
        /\ pc[s] \in {"lease", "claim", "popen"} =>
              cur[s] \in Cmd /\ Registered(cur[s])
        /\ pc[s] = "claim" => gen[s] \in 1..lease[runOf[cur[s]]]

WorkersWellFormed ==
    \A w \in Worker : wpc[w] # "none" => Registered(w[1])

Holds(s, r, g) == pc[s] = "claim" /\ runOf[cur[s]] = r /\ gen[s] = g

GenerationOwned ==
    \A s \in Server :
        pc[s] = "claim" =>
            /\ \A t \in Server \ {s} : ~Holds(t, runOf[cur[s]], gen[s])
            /\ \A c \in Cmd : status[c] = "claimed" /\ runOf[c] = runOf[cur[s]]
                                 => claimGen[c] # gen[s]

IInv ==
    /\ TypeOK
    /\ RowsWellFormed
    /\ TicksWellFormed
    /\ WorkersWellFormed
    /\ GenerationOwned
    /\ ClaimGenerationsDistinct
-----------------------------------------------------------------------------
(* A command is of one run and of one kind.                                *)
LEMMA CmdFacts ==
    /\ DriveCmd \subseteq Cmd
    /\ GateCmd \subseteq Cmd
    /\ NoCmd \notin Cmd
    /\ \A w \in Worker : w[1] \in Cmd
BY CommandPlaneAssumption DEF Cmd, Worker

(***************************************************************************)
(* Every step keeps the types.  An action leaves most groups of variables  *)
(* alone; a step is named for each group it changes.                       *)
(***************************************************************************)
LEMMA TypeStep == IInv /\ [Next]_vars => TypeOK'
<1> SUFFICES ASSUME IInv, [Next]_vars PROVE TypeOK'
  OBVIOUS
<1> USE CommandPlaneAssumption, CmdFacts
        DEF Gens, rows, service, tick, mem, workers, runs, IInv, TypeOK
<1>1. ASSUME NEW c \in GateCmd, NEW r \in Run, AcceptGate(c, r) PROVE TypeOK'
  <2>1. StoreTypes'
    BY <1>1 DEF AcceptGate, StoreTypes, RegisterCommand, Statuses, Decided
  <2>2. TickTypes'
    BY <1>1 DEF AcceptGate, TickTypes
  <2>3. MemTypes'
    BY <1>1 DEF AcceptGate, MemTypes
  <2>4. WorkerTypes'
    BY <1>1 DEF AcceptGate, WorkerTypes
  <2>5. RunTypes'
    BY <1>1 DEF AcceptGate, RunTypes
  <2> QED
    BY <2>1, <2>2, <2>3, <2>4, <2>5
<1>2. ASSUME NEW r \in Run, AcceptPauseResume(r) PROVE TypeOK'
  <2>1. StoreTypes'
    BY <1>2 DEF AcceptPauseResume, StoreTypes
  <2>2. TickTypes'
    BY <1>2 DEF AcceptPauseResume, TickTypes
  <2>3. MemTypes'
    BY <1>2 DEF AcceptPauseResume, MemTypes
  <2>4. WorkerTypes'
    BY <1>2 DEF AcceptPauseResume, WorkerTypes
  <2>5. RunTypes'
    BY <1>2 DEF AcceptPauseResume, RunTypes
  <2> QED
    BY <2>1, <2>2, <2>3, <2>4, <2>5
<1>3. ASSUME NEW r \in Run, SwitchActive(r) PROVE TypeOK'
  <2>1. StoreTypes'
    BY <1>3 DEF SwitchActive, StoreTypes
  <2>2. TickTypes'
    BY <1>3 DEF SwitchActive, TickTypes
  <2>3. MemTypes'
    BY <1>3 DEF SwitchActive, MemTypes
  <2>4. WorkerTypes'
    BY <1>3 DEF SwitchActive, WorkerTypes
  <2>5. RunTypes'
    BY <1>3 DEF SwitchActive, RunTypes
  <2> QED
    BY <2>1, <2>2, <2>3, <2>4, <2>5
<1>4. ASSUME NEW s \in Server, StartServe(s) PROVE TypeOK'
  <2>1. StoreTypes'
    BY <1>4
       DEF StartServe, StoreTypes, RequeueClaimed, ServerPCs, Statuses, Decided,
           TickTypes
  <2>2. TickTypes'
    BY <1>4 DEF StartServe, TickTypes, RequeueClaimed, ServerPCs, StoreTypes
  <2>3. MemTypes'
    BY <1>4 DEF StartServe, MemTypes
  <2>4. WorkerTypes'
    BY <1>4 DEF StartServe, WorkerTypes
  <2>5. RunTypes'
    BY <1>4 DEF StartServe, RunTypes
  <2> QED
    BY <2>1, <2>2, <2>3, <2>4, <2>5
<1>5. ASSUME NEW s \in Server, StopServe(s) PROVE TypeOK'
  <2>1. StoreTypes'
    BY <1>5 DEF StopServe, StoreTypes
  <2>2. TickTypes'
    BY <1>5 DEF StopServe, TickTypes, ServerPCs, Phases, StoreTypes
  <2>3. MemTypes'
    BY <1>5 DEF StopServe, MemTypes, ServerPCs, Phases, StoreTypes, TickTypes
  <2>4. WorkerTypes'
    BY <1>5 DEF StopServe, WorkerTypes
  <2>5. RunTypes'
    BY <1>5 DEF StopServe, RunTypes
  <2> QED
    BY <2>1, <2>2, <2>3, <2>4, <2>5
<1>6. ASSUME NEW s \in Server, NEW c \in Cmd, Reap(s, c) PROVE TypeOK'
  <2>1. StoreTypes'
    BY <1>6
       DEF Reap, StoreTypes, CompleteCommand, Statuses, Decided, TickTypes,
           MemTypes
  <2>2. TickTypes'
    BY <1>6 DEF Reap, TickTypes, CompleteCommand, StoreTypes, MemTypes
  <2>3. MemTypes'
    BY <1>6 DEF Reap, MemTypes, CompleteCommand, StoreTypes, TickTypes
  <2>4. WorkerTypes'
    BY <1>6 DEF Reap, WorkerTypes
  <2>5. RunTypes'
    BY <1>6 DEF Reap, RunTypes
  <2> QED
    BY <2>1, <2>2, <2>3, <2>4, <2>5
<1>7. ASSUME NEW s \in Server, PollDone(s) PROVE TypeOK'
  <2>1. StoreTypes'
    BY <1>7 DEF PollDone, StoreTypes
  <2>2. TickTypes'
    BY <1>7 DEF PollDone, TickTypes, Accepted, ServerPCs, StoreTypes
  <2>3. MemTypes'
    BY <1>7 DEF PollDone, MemTypes, Accepted, ServerPCs, StoreTypes, TickTypes
  <2>4. WorkerTypes'
    BY <1>7 DEF PollDone, WorkerTypes
  <2>5. RunTypes'
    BY <1>7 DEF PollDone, RunTypes
  <2> QED
    BY <2>1, <2>2, <2>3, <2>4, <2>5
<1>8. ASSUME NEW s \in Server, NEW c \in Cmd, TakeRow(s, c) PROVE TypeOK'
  <2>1. StoreTypes'
    BY <1>8 DEF TakeRow, StoreTypes
  <2>2. TickTypes'
    BY <1>8 DEF TakeRow, TickTypes, ServerPCs, Phases, StoreTypes
  <2>3. MemTypes'
    BY <1>8 DEF TakeRow, MemTypes
  <2>4. WorkerTypes'
    BY <1>8 DEF TakeRow, WorkerTypes
  <2>5. RunTypes'
    BY <1>8 DEF TakeRow, RunTypes
  <2> QED
    BY <2>1, <2>2, <2>3, <2>4, <2>5
<1>9. ASSUME NEW s \in Server, NextRunnable(s) PROVE TypeOK'
  <2>1. StoreTypes'
    BY <1>9 DEF NextRunnable, StoreTypes
  <2>2. TickTypes'
    BY <1>9
       DEF NextRunnable, TickTypes, Accepted, ServerPCs, Runnable, StoreTypes
  <2>3. MemTypes'
    BY <1>9 DEF NextRunnable, MemTypes
  <2>4. WorkerTypes'
    BY <1>9 DEF NextRunnable, WorkerTypes
  <2>5. RunTypes'
    BY <1>9 DEF NextRunnable, RunTypes
  <2> QED
    BY <2>1, <2>2, <2>3, <2>4, <2>5
<1>10. ASSUME NEW s \in Server, AcceptFreshDrive(s) PROVE TypeOK'
  <2>1. StoreTypes'
    BY <1>10
       DEF AcceptFreshDrive, StoreTypes, RegisterCommand, Accepted, FreshCmds,
           ServerPCs, Phases, Statuses, Decided, TickTypes
  <2>2. TickTypes'
    BY <1>10
       DEF AcceptFreshDrive, TickTypes, RegisterCommand, Accepted, FreshCmds,
           ServerPCs, Phases, StoreTypes
  <2>3. MemTypes'
    BY <1>10 DEF AcceptFreshDrive, MemTypes
  <2>4. WorkerTypes'
    BY <1>10 DEF AcceptFreshDrive, WorkerTypes
  <2>5. RunTypes'
    BY <1>10 DEF AcceptFreshDrive, RunTypes
  <2> QED
    BY <2>1, <2>2, <2>3, <2>4, <2>5
<1>11. ASSUME NEW s \in Server, AcquireLease(s) PROVE TypeOK'
  <2>1. StoreTypes'
    BY <1>11
       DEF AcquireLease, StoreTypes, ServerPCs, TicksWellFormed, RowsWellFormed,
           Registered, TickTypes
  <2>2. TickTypes'
    BY <1>11
       DEF AcquireLease, TickTypes, ServerPCs, TicksWellFormed, RowsWellFormed,
           Registered, StoreTypes
  <2>3. MemTypes'
    BY <1>11 DEF AcquireLease, MemTypes
  <2>4. WorkerTypes'
    BY <1>11 DEF AcquireLease, WorkerTypes
  <2>5. RunTypes'
    BY <1>11 DEF AcquireLease, RunTypes
  <2> QED
    BY <2>1, <2>2, <2>3, <2>4, <2>5
<1>12. ASSUME NEW s \in Server, Claim(s) PROVE TypeOK'
  <2>1. StoreTypes'
    BY <1>12
       DEF Claim, StoreTypes, AfterSpawn, ServerPCs, Phases, Accepted,
           TicksWellFormed, Statuses, Decided, TickTypes
  <2>2. TickTypes'
    BY <1>12
       DEF Claim, TickTypes, AfterSpawn, ServerPCs, Phases, Accepted,
           TicksWellFormed, StoreTypes
  <2>3. MemTypes'
    BY <1>12 DEF Claim, MemTypes
  <2>4. WorkerTypes'
    BY <1>12 DEF Claim, WorkerTypes
  <2>5. RunTypes'
    BY <1>12 DEF Claim, RunTypes
  <2> QED
    BY <2>1, <2>2, <2>3, <2>4, <2>5
<1>13. ASSUME NEW s \in Server, Popen(s) PROVE TypeOK'
  <2>1. StoreTypes'
    BY <1>13 DEF Popen, StoreTypes
  <2>2. TickTypes'
    BY SMTT(30), <1>13
       DEF Popen, TickTypes, AfterSpawn, ServerPCs, Phases, WorkerPCs, Accepted,
           TicksWellFormed, StoreTypes
  <2>3. MemTypes'
    <3>1. cur[s] \in Cmd
      BY <1>13 DEF Popen, TicksWellFormed
    <3>2. runOf[cur[s]] \in Run \cup {NoRun}
      BY <3>1 DEF StoreTypes
    <3>3. tracked' \in [Server -> [Cmd -> Gens]]
      BY <1>13 DEF Popen, MemTypes, TickTypes
    <3>4. inFlight' \in [Server -> SUBSET (Run \cup {NoRun})]
      BY <1>13, <3>2 DEF Popen, MemTypes
    <3>5. gateInFlight' \in [Server -> SUBSET Cmd]
      BY <1>13, <3>1 DEF Popen, MemTypes
    <3> QED
      BY <1>13, <3>3, <3>4, <3>5 DEF Popen, MemTypes
  <2>4. WorkerTypes'
    BY <1>13
       DEF Popen, WorkerTypes, AfterSpawn, ServerPCs, Phases, WorkerPCs,
           Accepted, TicksWellFormed, StoreTypes, TickTypes
  <2>5. RunTypes'
    BY <1>13 DEF Popen, RunTypes
  <2> QED
    BY <2>1, <2>2, <2>3, <2>4, <2>5
<1>14. ASSUME NEW s \in Server, GatesDone(s) PROVE TypeOK'
  <2>1. StoreTypes'
    BY <1>14 DEF GatesDone, StoreTypes
  <2>2. TickTypes'
    BY <1>14 DEF GatesDone, TickTypes, ServerPCs, StoreTypes
  <2>3. MemTypes'
    BY <1>14 DEF GatesDone, MemTypes
  <2>4. WorkerTypes'
    BY <1>14 DEF GatesDone, WorkerTypes
  <2>5. RunTypes'
    BY <1>14 DEF GatesDone, RunTypes
  <2> QED
    BY <2>1, <2>2, <2>3, <2>4, <2>5
<1>15. ASSUME NEW s \in Server, TickFails(s) PROVE TypeOK'
  <2>1. StoreTypes'
    BY <1>15 DEF TickFails, StoreTypes
  <2>2. TickTypes'
    BY <1>15
       DEF TickFails, TickTypes, AbandonTick, ServerPCs, Phases, StoreTypes
  <2>3. MemTypes'
    BY <1>15
       DEF TickFails, MemTypes, AbandonTick, ServerPCs, Phases, StoreTypes,
           TickTypes
  <2>4. WorkerTypes'
    BY <1>15 DEF TickFails, WorkerTypes
  <2>5. RunTypes'
    BY <1>15 DEF TickFails, RunTypes
  <2> QED
    BY <2>1, <2>2, <2>3, <2>4, <2>5
<1>16. ASSUME NEW s \in Server, NEW c \in Cmd, ReapFails(s, c) PROVE TypeOK'
  <2>1. StoreTypes'
    BY <1>16 DEF ReapFails, StoreTypes
  <2>2. TickTypes'
    BY <1>16
       DEF ReapFails, TickTypes, AbandonTick, ServerPCs, Phases, StoreTypes,
           MemTypes
  <2>3. MemTypes'
    BY <1>16
       DEF ReapFails, MemTypes, AbandonTick, ServerPCs, Phases, StoreTypes,
           TickTypes
  <2>4. WorkerTypes'
    BY <1>16 DEF ReapFails, WorkerTypes
  <2>5. RunTypes'
    BY <1>16 DEF ReapFails, RunTypes
  <2> QED
    BY <2>1, <2>2, <2>3, <2>4, <2>5
<1>17. ASSUME NEW w \in Worker, WorkerStart(w) PROVE TypeOK'
  <2>1. StoreTypes'
    BY <1>17 DEF WorkerStart, StoreTypes
  <2>2. TickTypes'
    BY <1>17 DEF WorkerStart, TickTypes
  <2>3. MemTypes'
    BY <1>17 DEF WorkerStart, MemTypes
  <2>4. WorkerTypes'
    BY <1>17 DEF WorkerStart, WorkerTypes, Goto, WorkerPCs, StoreTypes
  <2>5. RunTypes'
    BY <1>17 DEF WorkerStart, RunTypes
  <2> QED
    BY <2>1, <2>2, <2>3, <2>4, <2>5
<1>18. ASSUME NEW w \in Worker, DriveCheck(w) PROVE TypeOK'
  <2>1. StoreTypes'
    BY <1>18 DEF DriveCheck, StoreTypes
  <2>2. TickTypes'
    BY <1>18 DEF DriveCheck, TickTypes
  <2>3. MemTypes'
    BY <1>18 DEF DriveCheck, MemTypes
  <2>4. WorkerTypes'
    BY <1>18 DEF DriveCheck, WorkerTypes, Goto, WorkerPCs, StoreTypes
  <2>5. RunTypes'
    BY <1>18 DEF DriveCheck, RunTypes
  <2> QED
    BY <2>1, <2>2, <2>3, <2>4, <2>5
<1>19. ASSUME NEW w \in Worker, DriveWindow(w) PROVE TypeOK'
  <2>1. StoreTypes'
    BY <1>19 DEF DriveWindow, StoreTypes
  <2>2. TickTypes'
    BY <1>19 DEF DriveWindow, TickTypes
  <2>3. MemTypes'
    BY <1>19 DEF DriveWindow, MemTypes
  <2>4. WorkerTypes'
    BY <1>19 DEF DriveWindow, WorkerTypes, Goto, WorkerPCs, StoreTypes
  <2>5. RunTypes'
    BY <1>19 DEF DriveWindow, RunTypes, Goto, WorkerPCs, StoreTypes, WorkerTypes
  <2> QED
    BY <2>1, <2>2, <2>3, <2>4, <2>5
<1>20. ASSUME NEW w \in Worker, DriveState(w) PROVE TypeOK'
  <2>1. StoreTypes'
    BY <1>20 DEF DriveState, StoreTypes
  <2>2. TickTypes'
    BY <1>20 DEF DriveState, TickTypes
  <2>3. MemTypes'
    BY <1>20 DEF DriveState, MemTypes
  <2>4. WorkerTypes'
    BY <1>20 DEF DriveState, WorkerTypes, Goto, WorkerPCs, StoreTypes
  <2>5. RunTypes'
    BY <1>20 DEF DriveState, RunTypes
  <2> QED
    BY <2>1, <2>2, <2>3, <2>4, <2>5
<1>21. ASSUME NEW w \in Worker, GateExecute(w) PROVE TypeOK'
  <2>1. StoreTypes'
    BY <1>21 DEF GateExecute, StoreTypes
  <2>2. TickTypes'
    BY <1>21 DEF GateExecute, TickTypes
  <2>3. MemTypes'
    BY <1>21 DEF GateExecute, MemTypes
  <2>4. WorkerTypes'
    BY <1>21
       DEF GateExecute, WorkerTypes, Goto, Exit, WorkerPCs, WorkersWellFormed,
           RowsWellFormed, Registered, StoreTypes
  <2>5. RunTypes'
    BY <1>21
       DEF GateExecute, RunTypes, Goto, Exit, WorkerPCs, WorkersWellFormed,
           RowsWellFormed, Registered, StoreTypes, WorkerTypes
  <2> QED
    BY <2>1, <2>2, <2>3, <2>4, <2>5
<1>22. ASSUME NEW w \in Worker, Commit(w) PROVE TypeOK'
  <2>1. StoreTypes'
    BY <1>22
       DEF Commit, StoreTypes, Exit, WorkerPCs, CompleteCommand, Statuses,
           Decided, WorkerTypes
  <2>2. TickTypes'
    BY <1>22 DEF Commit, TickTypes
  <2>3. MemTypes'
    BY <1>22 DEF Commit, MemTypes
  <2>4. WorkerTypes'
    BY <1>22
       DEF Commit, WorkerTypes, Exit, WorkerPCs, CompleteCommand, Statuses,
           Decided, StoreTypes
  <2>5. RunTypes'
    BY <1>22 DEF Commit, RunTypes
  <2> QED
    BY <2>1, <2>2, <2>3, <2>4, <2>5
<1>23. ASSUME NEW w \in Worker, KillWorker(w) PROVE TypeOK'
  <2>1. StoreTypes'
    BY <1>23 DEF KillWorker, StoreTypes
  <2>2. TickTypes'
    BY <1>23 DEF KillWorker, TickTypes
  <2>3. MemTypes'
    BY <1>23 DEF KillWorker, MemTypes
  <2>4. WorkerTypes'
    BY <1>23 DEF KillWorker, WorkerTypes, Exit, WorkerPCs, StoreTypes
  <2>5. RunTypes'
    BY <1>23 DEF KillWorker, RunTypes
  <2> QED
    BY <2>1, <2>2, <2>3, <2>4, <2>5
<1>24. CASE UNCHANGED vars
  BY <1>24 DEF vars, StoreTypes, TickTypes, MemTypes, WorkerTypes, RunTypes
<1> QED
  BY <1>1, <1>2, <1>3, <1>4, <1>5, <1>6, <1>7, <1>8, <1>9, <1>10, <1>11, <1>12,
     <1>13, <1>14, <1>15, <1>16, <1>17, <1>18, <1>19, <1>20, <1>21, <1>22,
     <1>23, <1>24
     DEF Next, Tick, WorkerStep

(* A step keeps the rows well formed.                                      *)
LEMMA RowsWellFormedStep == IInv /\ [Next]_vars => RowsWellFormed'
<1> SUFFICES ASSUME IInv, [Next]_vars PROVE RowsWellFormed'
  OBVIOUS
<1> USE CmdFacts, TypeStep
        DEF Gens, rows, service, tick, mem, workers, runs, IInv, TypeOK,
            StoreTypes, TickTypes,
            Registered, RowsWellFormed, TicksWellFormed
<1>1. ASSUME NEW s \in Server, StartServe(s) PROVE RowsWellFormed'
  BY <1>1 DEF StartServe, RequeueClaimed
<1>2. ASSUME NEW s \in Server, StopServe(s) PROVE RowsWellFormed'
  BY <1>2 DEF StopServe
<1>3. ASSUME NEW s \in Server, NEW c \in Cmd, Reap(s, c) PROVE RowsWellFormed'
  BY <1>3 DEF Reap, CompleteCommand
<1>4. ASSUME NEW s \in Server, PollDone(s) PROVE RowsWellFormed'
  BY <1>4 DEF PollDone, Accepted
<1>5. ASSUME NEW s \in Server, NEW c \in Cmd, TakeRow(s, c)
      PROVE  RowsWellFormed'
  BY <1>5 DEF TakeRow
<1>6. ASSUME NEW s \in Server, NextRunnable(s) PROVE RowsWellFormed'
  BY <1>6 DEF NextRunnable, Accepted, Runnable
<1>7. ASSUME NEW s \in Server, AcceptFreshDrive(s) PROVE RowsWellFormed'
  BY <1>7 DEF AcceptFreshDrive, RegisterCommand, Accepted, FreshCmds
<1>8. ASSUME NEW s \in Server, AcquireLease(s) PROVE RowsWellFormed'
  BY <1>8 DEF AcquireLease
<1>9. ASSUME NEW s \in Server, Claim(s) PROVE RowsWellFormed'
  BY <1>9 DEF Claim, AfterSpawn, Accepted
<1>10. ASSUME NEW s \in Server, Popen(s) PROVE RowsWellFormed'
  BY <1>10 DEF Popen, AfterSpawn, Accepted
<1>11. ASSUME NEW s \in Server, GatesDone(s) PROVE RowsWellFormed'
  BY <1>11 DEF GatesDone
<1>12. ASSUME NEW s \in Server, TickFails(s) PROVE RowsWellFormed'
  BY <1>12 DEF TickFails, AbandonTick
<1>13. ASSUME NEW s \in Server, NEW c \in Cmd, ReapFails(s, c)
       PROVE  RowsWellFormed'
  BY <1>13 DEF ReapFails, AbandonTick
<1>14. ASSUME NEW c \in GateCmd, NEW r \in Run, AcceptGate(c, r)
       PROVE  RowsWellFormed'
  BY <1>14 DEF AcceptGate, RegisterCommand
<1>15. ASSUME NEW r \in Run, AcceptPauseResume(r) PROVE RowsWellFormed'
  BY <1>15 DEF AcceptPauseResume
<1>16. ASSUME NEW r \in Run, SwitchActive(r) PROVE RowsWellFormed'
  BY <1>16 DEF SwitchActive
<1>17. ASSUME NEW w \in Worker, WorkerStart(w) PROVE RowsWellFormed'
  BY <1>17 DEF WorkerStart, Goto
<1>18. ASSUME NEW w \in Worker, DriveCheck(w) PROVE RowsWellFormed'
  BY <1>18 DEF DriveCheck, Goto
<1>19. ASSUME NEW w \in Worker, DriveWindow(w) PROVE RowsWellFormed'
  BY <1>19 DEF DriveWindow, Goto
<1>20. ASSUME NEW w \in Worker, DriveState(w) PROVE RowsWellFormed'
  BY <1>20 DEF DriveState, Goto
<1>21. ASSUME NEW w \in Worker, GateExecute(w) PROVE RowsWellFormed'
  BY <1>21 DEF GateExecute, Goto, Exit
<1>22. ASSUME NEW w \in Worker, Commit(w) PROVE RowsWellFormed'
  BY <1>22 DEF Commit, Exit, CompleteCommand
<1>23. ASSUME NEW w \in Worker, KillWorker(w) PROVE RowsWellFormed'
  BY <1>23 DEF KillWorker, Exit
<1>24. CASE UNCHANGED vars
  BY <1>24 DEF vars
<1> QED
  BY <1>1, <1>2, <1>3, <1>4, <1>5, <1>6, <1>7, <1>8, <1>9, <1>10, <1>11, <1>12,
     <1>13, <1>14, <1>15, <1>16, <1>17, <1>18, <1>19, <1>20, <1>21, <1>22,
     <1>23, <1>24
     DEF Next, Tick, WorkerStep

(* A step keeps what a tick holds well formed.                             *)
LEMMA TicksWellFormedStep == IInv /\ [Next]_vars => TicksWellFormed'
<1> SUFFICES ASSUME IInv, [Next]_vars PROVE TicksWellFormed'
  OBVIOUS
<1> USE CmdFacts, TypeStep
        DEF Gens, rows, service, tick, mem, workers, runs, IInv, TypeOK,
            StoreTypes, TickTypes,
            Registered, RowsWellFormed, TicksWellFormed
<1>1. ASSUME NEW s \in Server, StartServe(s) PROVE TicksWellFormed'
  BY <1>1 DEF StartServe, RequeueClaimed
<1>2. ASSUME NEW s \in Server, StopServe(s) PROVE TicksWellFormed'
  BY <1>2 DEF StopServe
<1>3. ASSUME NEW s \in Server, NEW c \in Cmd, Reap(s, c) PROVE TicksWellFormed'
  BY <1>3 DEF Reap, CompleteCommand
<1>4. ASSUME NEW s \in Server, PollDone(s) PROVE TicksWellFormed'
  BY <1>4 DEF PollDone, Accepted
<1>5. ASSUME NEW s \in Server, NEW c \in Cmd, TakeRow(s, c)
      PROVE  TicksWellFormed'
  BY <1>5 DEF TakeRow
<1>6. ASSUME NEW s \in Server, NextRunnable(s) PROVE TicksWellFormed'
  BY <1>6 DEF NextRunnable, Accepted, Runnable
<1>7. ASSUME NEW s \in Server, AcceptFreshDrive(s) PROVE TicksWellFormed'
  <2>1. \A c \in Cmd : Registered(c) => Registered(c)' /\ runOf'[c] = runOf[c]
    BY <1>7 DEF AcceptFreshDrive, RegisterCommand, FreshCmds
  <2>2. lease' = lease /\ gen' = gen
    BY <1>7 DEF AcceptFreshDrive
  <2>3. \A c \in todo'[s] : Registered(c)'
    BY <1>7, <2>1 DEF AcceptFreshDrive, Accepted
  <2>4. pc'[s] \in {"gate", "poll", "lease"}
    BY <1>7 DEF AcceptFreshDrive
  <2>5. pc'[s] = "lease" => (cur[s] \in Cmd /\ Registered(cur[s]))'
    BY <1>7 DEF AcceptFreshDrive, RegisterCommand, FreshCmds
  <2>6. ASSUME NEW t \in Server \ {s}
        PROVE  /\ pc'[t] = pc[t] /\ cur'[t] = cur[t]
               /\ todo'[t] = todo[t] /\ runnable'[t] = runnable[t]
    BY <1>7 DEF AcceptFreshDrive
  <2> QED
    BY <2>1, <2>2, <2>3, <2>4, <2>5, <2>6
<1>8. ASSUME NEW s \in Server, AcquireLease(s) PROVE TicksWellFormed'
  BY <1>8 DEF AcquireLease
<1>9. ASSUME NEW s \in Server, Claim(s) PROVE TicksWellFormed'
  <2>1. \A c \in Cmd : Registered(c) => Registered(c)'
    BY <1>9 DEF Claim
  <2>2. UNCHANGED <<runOf, lease, runnable>>
    BY <1>9 DEF Claim
  <2>3. \A c \in todo'[s] : Registered(c)'
    BY <1>9, <2>1 DEF Claim, AfterSpawn, Accepted
  <2>4. pc'[s] \in {"drive", "fresh", "gate", "popen"}
    BY <1>9 DEF Claim, AfterSpawn, Phases
  <2>5. pc'[s] # "fresh"
    BY <1>9 DEF Claim, AfterSpawn, Phases
  <2>6. pc'[s] = "popen" => (cur[s] \in Cmd /\ Registered(cur[s]))'
    BY <1>9, <2>1 DEF Claim, AfterSpawn, Phases
  <2>7. ASSUME NEW t \in Server \ {s}
        PROVE  /\ pc'[t] = pc[t] /\ cur'[t] = cur[t] /\ gen'[t] = gen[t]
               /\ todo'[t] = todo[t]
    BY <1>9 DEF Claim, AfterSpawn
  <2> QED
    BY <2>1, <2>2, <2>3, <2>4, <2>5, <2>6, <2>7
<1>10. ASSUME NEW s \in Server, Popen(s) PROVE TicksWellFormed'
  <2>1. \A c \in Cmd : Registered(c) => Registered(c)'
    BY <1>10 DEF Popen
  <2>2. UNCHANGED <<runOf, lease, runnable>>
    BY <1>10 DEF Popen
  <2>3. \A c \in todo'[s] : Registered(c)'
    BY <1>10, <2>1 DEF Popen, AfterSpawn, Accepted
  <2>4. pc'[s] \in {"drive", "fresh", "gate", "popen"}
    BY <1>10 DEF Popen, AfterSpawn, Phases
  <2>5. pc'[s] # "fresh"
    BY <1>10 DEF Popen, AfterSpawn, Phases
  <2>6. pc'[s] = "popen" => (cur[s] \in Cmd /\ Registered(cur[s]))'
    BY <1>10, <2>1 DEF Popen, AfterSpawn, Phases
  <2>7. ASSUME NEW t \in Server \ {s}
        PROVE  /\ pc'[t] = pc[t] /\ cur'[t] = cur[t] /\ gen'[t] = gen[t]
               /\ todo'[t] = todo[t]
    BY <1>10 DEF Popen, AfterSpawn
  <2> QED
    BY <2>1, <2>2, <2>3, <2>4, <2>5, <2>6, <2>7
<1>11. ASSUME NEW s \in Server, GatesDone(s) PROVE TicksWellFormed'
  BY <1>11 DEF GatesDone
<1>12. ASSUME NEW s \in Server, TickFails(s) PROVE TicksWellFormed'
  BY <1>12 DEF TickFails, AbandonTick
<1>13. ASSUME NEW s \in Server, NEW c \in Cmd, ReapFails(s, c)
       PROVE  TicksWellFormed'
  BY <1>13 DEF ReapFails, AbandonTick
<1>14. ASSUME NEW c \in GateCmd, NEW r \in Run, AcceptGate(c, r)
       PROVE  TicksWellFormed'
  BY <1>14 DEF AcceptGate, RegisterCommand
<1>15. ASSUME NEW r \in Run, AcceptPauseResume(r) PROVE TicksWellFormed'
  BY <1>15 DEF AcceptPauseResume
<1>16. ASSUME NEW r \in Run, SwitchActive(r) PROVE TicksWellFormed'
  BY <1>16 DEF SwitchActive
<1>17. ASSUME NEW w \in Worker, WorkerStart(w) PROVE TicksWellFormed'
  BY <1>17 DEF WorkerStart, Goto
<1>18. ASSUME NEW w \in Worker, DriveCheck(w) PROVE TicksWellFormed'
  BY <1>18 DEF DriveCheck, Goto
<1>19. ASSUME NEW w \in Worker, DriveWindow(w) PROVE TicksWellFormed'
  BY <1>19 DEF DriveWindow, Goto
<1>20. ASSUME NEW w \in Worker, DriveState(w) PROVE TicksWellFormed'
  BY <1>20 DEF DriveState, Goto
<1>21. ASSUME NEW w \in Worker, GateExecute(w) PROVE TicksWellFormed'
  BY <1>21 DEF GateExecute, Goto, Exit
<1>22. ASSUME NEW w \in Worker, Commit(w) PROVE TicksWellFormed'
  BY <1>22 DEF Commit, Exit, CompleteCommand
<1>23. ASSUME NEW w \in Worker, KillWorker(w) PROVE TicksWellFormed'
  BY <1>23 DEF KillWorker, Exit
<1>24. CASE UNCHANGED vars
  BY <1>24 DEF vars
<1> QED
  BY <1>1, <1>2, <1>3, <1>4, <1>5, <1>6, <1>7, <1>8, <1>9, <1>10, <1>11, <1>12,
     <1>13, <1>14, <1>15, <1>16, <1>17, <1>18, <1>19, <1>20, <1>21, <1>22,
     <1>23, <1>24
     DEF Next, Tick, WorkerStep

(* A step keeps what a worker holds well formed.                           *)
LEMMA WorkersWellFormedStep == IInv /\ [Next]_vars => WorkersWellFormed'
<1> SUFFICES ASSUME IInv, [Next]_vars PROVE WorkersWellFormed'
  OBVIOUS
<1> USE CmdFacts, TypeStep
        DEF Gens, rows, service, tick, mem, workers, runs, IInv, TypeOK,
            StoreTypes, TickTypes,
            Registered, RowsWellFormed, TicksWellFormed, WorkersWellFormed, WorkerTypes
<1>1. ASSUME NEW s \in Server, StartServe(s) PROVE WorkersWellFormed'
  BY <1>1 DEF StartServe, RequeueClaimed
<1>2. ASSUME NEW s \in Server, StopServe(s) PROVE WorkersWellFormed'
  BY <1>2 DEF StopServe
<1>3. ASSUME NEW s \in Server, NEW c \in Cmd, Reap(s, c)
      PROVE  WorkersWellFormed'
  BY <1>3 DEF Reap, CompleteCommand
<1>4. ASSUME NEW s \in Server, PollDone(s) PROVE WorkersWellFormed'
  BY <1>4 DEF PollDone, Accepted
<1>5. ASSUME NEW s \in Server, NEW c \in Cmd, TakeRow(s, c)
      PROVE  WorkersWellFormed'
  BY <1>5 DEF TakeRow
<1>6. ASSUME NEW s \in Server, NextRunnable(s) PROVE WorkersWellFormed'
  BY <1>6 DEF NextRunnable, Accepted, Runnable
<1>7. ASSUME NEW s \in Server, AcceptFreshDrive(s) PROVE WorkersWellFormed'
  BY <1>7 DEF AcceptFreshDrive, RegisterCommand, Accepted, FreshCmds
<1>8. ASSUME NEW s \in Server, AcquireLease(s) PROVE WorkersWellFormed'
  BY <1>8 DEF AcquireLease
<1>9. ASSUME NEW s \in Server, Claim(s) PROVE WorkersWellFormed'
  BY <1>9 DEF Claim, AfterSpawn, Accepted
<1>10. ASSUME NEW s \in Server, Popen(s) PROVE WorkersWellFormed'
  BY <1>10 DEF Popen, AfterSpawn, Accepted
<1>11. ASSUME NEW s \in Server, GatesDone(s) PROVE WorkersWellFormed'
  BY <1>11 DEF GatesDone
<1>12. ASSUME NEW s \in Server, TickFails(s) PROVE WorkersWellFormed'
  BY <1>12 DEF TickFails, AbandonTick
<1>13. ASSUME NEW s \in Server, NEW c \in Cmd, ReapFails(s, c)
       PROVE  WorkersWellFormed'
  BY <1>13 DEF ReapFails, AbandonTick
<1>14. ASSUME NEW c \in GateCmd, NEW r \in Run, AcceptGate(c, r)
       PROVE  WorkersWellFormed'
  BY <1>14 DEF AcceptGate, RegisterCommand
<1>15. ASSUME NEW r \in Run, AcceptPauseResume(r) PROVE WorkersWellFormed'
  BY <1>15 DEF AcceptPauseResume
<1>16. ASSUME NEW r \in Run, SwitchActive(r) PROVE WorkersWellFormed'
  BY <1>16 DEF SwitchActive
<1>17. ASSUME NEW w \in Worker, WorkerStart(w) PROVE WorkersWellFormed'
  BY <1>17 DEF WorkerStart, Goto
<1>18. ASSUME NEW w \in Worker, DriveCheck(w) PROVE WorkersWellFormed'
  BY <1>18 DEF DriveCheck, Goto
<1>19. ASSUME NEW w \in Worker, DriveWindow(w) PROVE WorkersWellFormed'
  BY <1>19 DEF DriveWindow, Goto
<1>20. ASSUME NEW w \in Worker, DriveState(w) PROVE WorkersWellFormed'
  BY <1>20 DEF DriveState, Goto
<1>21. ASSUME NEW w \in Worker, GateExecute(w) PROVE WorkersWellFormed'
  BY <1>21 DEF GateExecute, Goto, Exit
<1>22. ASSUME NEW w \in Worker, Commit(w) PROVE WorkersWellFormed'
  BY <1>22 DEF Commit, Exit, CompleteCommand
<1>23. ASSUME NEW w \in Worker, KillWorker(w) PROVE WorkersWellFormed'
  BY <1>23 DEF KillWorker, Exit
<1>24. CASE UNCHANGED vars
  BY <1>24 DEF vars
<1> QED
  BY <1>1, <1>2, <1>3, <1>4, <1>5, <1>6, <1>7, <1>8, <1>9, <1>10, <1>11, <1>12,
     <1>13, <1>14, <1>15, <1>16, <1>17, <1>18, <1>19, <1>20, <1>21, <1>22,
     <1>23, <1>24
     DEF Next, Tick, WorkerStep

(* A step keeps every claimed generation the property of one command.      *)
LEMMA GenerationOwnedStep == IInv /\ [Next]_vars => GenerationOwned'
<1> SUFFICES ASSUME IInv, [Next]_vars PROVE GenerationOwned'
  OBVIOUS
<1> USE CmdFacts, TypeStep
        DEF Gens, rows, service, tick, mem, workers, runs, IInv, TypeOK,
            StoreTypes, TickTypes,
            Registered, RowsWellFormed, TicksWellFormed, GenerationOwned, Holds
<1>1. ASSUME NEW s \in Server, StartServe(s) PROVE GenerationOwned'
  BY <1>1 DEF StartServe, RequeueClaimed
<1>2. ASSUME NEW s \in Server, StopServe(s) PROVE GenerationOwned'
  BY <1>2 DEF StopServe
<1>3. ASSUME NEW s \in Server, NEW c \in Cmd, Reap(s, c) PROVE GenerationOwned'
  BY <1>3 DEF Reap, CompleteCommand
<1>4. ASSUME NEW s \in Server, PollDone(s) PROVE GenerationOwned'
  BY <1>4 DEF PollDone, Accepted
<1>5. ASSUME NEW s \in Server, NEW c \in Cmd, TakeRow(s, c)
      PROVE  GenerationOwned'
  BY <1>5 DEF TakeRow
<1>6. ASSUME NEW s \in Server, NextRunnable(s) PROVE GenerationOwned'
  BY <1>6 DEF NextRunnable, Accepted, Runnable
<1>7. ASSUME NEW s \in Server, AcceptFreshDrive(s) PROVE GenerationOwned'
  <2>1. \A c \in Cmd : Registered(c) => runOf'[c] = runOf[c]
    BY <1>7 DEF AcceptFreshDrive, RegisterCommand, FreshCmds
  <2>2. UNCHANGED <<gen, claimGen>> /\ pc'[s] # "claim"
    BY <1>7 DEF AcceptFreshDrive, RegisterCommand
  <2>3. \A c \in Cmd : status'[c] = "claimed" => status[c] = "claimed"
    BY <1>7 DEF AcceptFreshDrive, RegisterCommand, FreshCmds
  <2>4. \A t \in Server \ {s} : pc'[t] = pc[t] /\ cur'[t] = cur[t]
    BY <1>7 DEF AcceptFreshDrive
  <2>5. ASSUME NEW t \in Server, pc'[t] = "claim"
        PROVE  /\ t # s /\ pc[t] = "claim" /\ cur'[t] = cur[t] /\ gen'[t] = gen[t]
               /\ cur[t] \in Cmd /\ runOf'[cur'[t]] = runOf[cur[t]]
    <3>1. t # s
      BY <2>2, <2>5
    <3>2. pc[t] = "claim" /\ cur'[t] = cur[t] /\ gen'[t] = gen[t]
      BY <2>2, <2>4, <2>5, <3>1
    <3>3. cur[t] \in Cmd /\ Registered(cur[t])
      BY <3>2
    <3> QED
      BY <2>1, <3>1, <3>2, <3>3
  <2>6. ASSUME NEW t \in Server, pc'[t] = "claim", NEW u \in Server \ {t}
        PROVE  ~Holds(u, runOf[cur[t]], gen[t])'
    BY <2>5, <2>6
  <2>7. ASSUME NEW t \in Server, pc'[t] = "claim", NEW c \in Cmd,
               status'[c] = "claimed", runOf'[c] = runOf'[cur'[t]]
        PROVE  claimGen'[c] # gen'[t]
    <3>1. status[c] = "claimed" /\ runOf'[c] = runOf[c] /\ claimGen'[c] = claimGen[c]
      BY <2>1, <2>2, <2>3, <2>7
    <3>2. pc[t] = "claim" /\ gen'[t] = gen[t] /\ runOf'[cur'[t]] = runOf[cur[t]]
      BY <2>5, <2>7
    <3>3. claimGen[c] # gen[t]
      BY <2>7, <3>1, <3>2
    <3> QED
      BY <3>1, <3>2, <3>3
  <2> QED
    BY <2>6, <2>7
<1>8. ASSUME NEW s \in Server, AcquireLease(s) PROVE GenerationOwned'
  BY <1>8 DEF AcquireLease
<1>9. ASSUME NEW s \in Server, Claim(s) PROVE GenerationOwned'
  BY <1>9 DEF Claim, AfterSpawn, Accepted
<1>10. ASSUME NEW s \in Server, Popen(s) PROVE GenerationOwned'
  BY <1>10 DEF Popen, AfterSpawn, Accepted
<1>11. ASSUME NEW s \in Server, GatesDone(s) PROVE GenerationOwned'
  BY <1>11 DEF GatesDone
<1>12. ASSUME NEW s \in Server, TickFails(s) PROVE GenerationOwned'
  BY <1>12 DEF TickFails, AbandonTick
<1>13. ASSUME NEW s \in Server, NEW c \in Cmd, ReapFails(s, c)
       PROVE  GenerationOwned'
  BY <1>13 DEF ReapFails, AbandonTick
<1>14. ASSUME NEW c \in GateCmd, NEW r \in Run, AcceptGate(c, r)
       PROVE  GenerationOwned'
  BY <1>14 DEF AcceptGate, RegisterCommand
<1>15. ASSUME NEW r \in Run, AcceptPauseResume(r) PROVE GenerationOwned'
  BY <1>15 DEF AcceptPauseResume
<1>16. ASSUME NEW r \in Run, SwitchActive(r) PROVE GenerationOwned'
  BY <1>16 DEF SwitchActive
<1>17. ASSUME NEW w \in Worker, WorkerStart(w) PROVE GenerationOwned'
  BY <1>17 DEF WorkerStart, Goto
<1>18. ASSUME NEW w \in Worker, DriveCheck(w) PROVE GenerationOwned'
  BY <1>18 DEF DriveCheck, Goto
<1>19. ASSUME NEW w \in Worker, DriveWindow(w) PROVE GenerationOwned'
  BY <1>19 DEF DriveWindow, Goto
<1>20. ASSUME NEW w \in Worker, DriveState(w) PROVE GenerationOwned'
  BY <1>20 DEF DriveState, Goto
<1>21. ASSUME NEW w \in Worker, GateExecute(w) PROVE GenerationOwned'
  BY <1>21 DEF GateExecute, Goto, Exit
<1>22. ASSUME NEW w \in Worker, Commit(w) PROVE GenerationOwned'
  BY <1>22 DEF Commit, Exit, CompleteCommand
<1>23. ASSUME NEW w \in Worker, KillWorker(w) PROVE GenerationOwned'
  BY <1>23 DEF KillWorker, Exit
<1>24. CASE UNCHANGED vars
  BY <1>24 DEF vars
<1> QED
  BY <1>1, <1>2, <1>3, <1>4, <1>5, <1>6, <1>7, <1>8, <1>9, <1>10, <1>11, <1>12,
     <1>13, <1>14, <1>15, <1>16, <1>17, <1>18, <1>19, <1>20, <1>21, <1>22,
     <1>23, <1>24
     DEF Next, Tick, WorkerStep

(* No step gives two claimed commands of a run one generation.             *)
LEMMA ClaimGenerationsDistinctStep == IInv /\ [Next]_vars => ClaimGenerationsDistinct'
<1> SUFFICES ASSUME IInv, [Next]_vars PROVE ClaimGenerationsDistinct'
  OBVIOUS
<1> USE CmdFacts, TypeStep
        DEF Gens, rows, service, tick, mem, workers, runs, IInv, TypeOK,
            StoreTypes, TickTypes,
            Registered, RowsWellFormed, TicksWellFormed, GenerationOwned, ClaimGenerationsDistinct
<1>1. ASSUME NEW s \in Server, StartServe(s) PROVE ClaimGenerationsDistinct'
  BY <1>1 DEF StartServe, RequeueClaimed
<1>2. ASSUME NEW s \in Server, StopServe(s) PROVE ClaimGenerationsDistinct'
  BY <1>2 DEF StopServe
<1>3. ASSUME NEW s \in Server, NEW c \in Cmd, Reap(s, c)
      PROVE  ClaimGenerationsDistinct'
  BY <1>3 DEF Reap, CompleteCommand
<1>4. ASSUME NEW s \in Server, PollDone(s) PROVE ClaimGenerationsDistinct'
  BY <1>4 DEF PollDone, Accepted
<1>5. ASSUME NEW s \in Server, NEW c \in Cmd, TakeRow(s, c)
      PROVE  ClaimGenerationsDistinct'
  BY <1>5 DEF TakeRow
<1>6. ASSUME NEW s \in Server, NextRunnable(s) PROVE ClaimGenerationsDistinct'
  BY <1>6 DEF NextRunnable, Accepted, Runnable
<1>7. ASSUME NEW s \in Server, AcceptFreshDrive(s)
      PROVE  ClaimGenerationsDistinct'
  BY <1>7 DEF AcceptFreshDrive, RegisterCommand, Accepted, FreshCmds
<1>8. ASSUME NEW s \in Server, AcquireLease(s) PROVE ClaimGenerationsDistinct'
  BY <1>8 DEF AcquireLease
<1>9. ASSUME NEW s \in Server, Claim(s) PROVE ClaimGenerationsDistinct'
  BY <1>9 DEF Claim, AfterSpawn, Accepted
<1>10. ASSUME NEW s \in Server, Popen(s) PROVE ClaimGenerationsDistinct'
  BY <1>10 DEF Popen, AfterSpawn, Accepted
<1>11. ASSUME NEW s \in Server, GatesDone(s) PROVE ClaimGenerationsDistinct'
  BY <1>11 DEF GatesDone
<1>12. ASSUME NEW s \in Server, TickFails(s) PROVE ClaimGenerationsDistinct'
  BY <1>12 DEF TickFails, AbandonTick
<1>13. ASSUME NEW s \in Server, NEW c \in Cmd, ReapFails(s, c)
       PROVE  ClaimGenerationsDistinct'
  BY <1>13 DEF ReapFails, AbandonTick
<1>14. ASSUME NEW c \in GateCmd, NEW r \in Run, AcceptGate(c, r)
       PROVE  ClaimGenerationsDistinct'
  BY <1>14 DEF AcceptGate, RegisterCommand
<1>15. ASSUME NEW r \in Run, AcceptPauseResume(r)
       PROVE  ClaimGenerationsDistinct'
  BY <1>15 DEF AcceptPauseResume
<1>16. ASSUME NEW r \in Run, SwitchActive(r) PROVE ClaimGenerationsDistinct'
  BY <1>16 DEF SwitchActive
<1>17. ASSUME NEW w \in Worker, WorkerStart(w) PROVE ClaimGenerationsDistinct'
  BY <1>17 DEF WorkerStart, Goto
<1>18. ASSUME NEW w \in Worker, DriveCheck(w) PROVE ClaimGenerationsDistinct'
  BY <1>18 DEF DriveCheck, Goto
<1>19. ASSUME NEW w \in Worker, DriveWindow(w) PROVE ClaimGenerationsDistinct'
  BY <1>19 DEF DriveWindow, Goto
<1>20. ASSUME NEW w \in Worker, DriveState(w) PROVE ClaimGenerationsDistinct'
  BY <1>20 DEF DriveState, Goto
<1>21. ASSUME NEW w \in Worker, GateExecute(w) PROVE ClaimGenerationsDistinct'
  BY <1>21 DEF GateExecute, Goto, Exit
<1>22. ASSUME NEW w \in Worker, Commit(w) PROVE ClaimGenerationsDistinct'
  BY <1>22 DEF Commit, Exit, CompleteCommand
<1>23. ASSUME NEW w \in Worker, KillWorker(w) PROVE ClaimGenerationsDistinct'
  BY <1>23 DEF KillWorker, Exit
<1>24. CASE UNCHANGED vars
  BY <1>24 DEF vars
<1> QED
  BY <1>1, <1>2, <1>3, <1>4, <1>5, <1>6, <1>7, <1>8, <1>9, <1>10, <1>11, <1>12,
     <1>13, <1>14, <1>15, <1>16, <1>17, <1>18, <1>19, <1>20, <1>21, <1>22,
     <1>23, <1>24
     DEF Next, Tick, WorkerStep

(* The first state satisfies the invariant.                                *)
LEMMA InitInv == Init => IInv
BY CommandPlaneAssumption, CmdFacts
   DEF Init, IInv, TypeOK, StoreTypes, TickTypes, MemTypes, WorkerTypes,
       RunTypes,
       RowsWellFormed, TicksWellFormed, WorkersWellFormed, GenerationOwned,
       ClaimGenerationsDistinct, Registered, Gens, Statuses, ServerPCs, Phases,
       WorkerPCs

(* The invariant of the command plane: every step keeps each of its parts. *)
THEOREM Invariance == Spec => []IInv
<1>1. IInv /\ [Next]_vars => IInv'
  BY TypeStep, RowsWellFormedStep, TicksWellFormedStep, WorkersWellFormedStep,
     GenerationOwnedStep, ClaimGenerationsDistinctStep DEF IInv
<1> QED
  BY InitInv, <1>1, PTL DEF Spec

(***************************************************************************)
(* Every variable keeps its type: rows, leases, the tick's locals, the     *)
(* in-flight sets, the workers and the runs.                               *)
(***************************************************************************)
THEOREM PlaneTypes == Spec => []TypeOK
<1>1. IInv => TypeOK
  BY DEF IInv
<1> QED
  BY Invariance, <1>1, PTL

(***************************************************************************)
(* A lease generation names one claim: no two claimed commands of a run    *)
(* carry the same one, with any number of servers on the home.             *)
(***************************************************************************)
THEOREM GenerationsDistinct == Spec => []ClaimGenerationsDistinct
<1>1. IInv => ClaimGenerationsDistinct
  BY DEF IInv
<1> QED
  BY Invariance, <1>1, PTL
-----------------------------------------------------------------------------
(* The plane implements the command lifecycle.                             *)

(* The rows start as the abstract commands do.                             *)
LEMMA LifecycleInit == Init => Lifecycle!Init
BY DEF Init, Lifecycle!Init, Outcome, Pending

(***************************************************************************)
(* A step that only moves one row's status moves its outcome along the     *)
(* lifecycle or not at all.                                                *)
(***************************************************************************)
LEMMA OutcomeMove ==
    ASSUME TypeOK, NEW c \in Cmd, NEW x \in Statuses,
           status' = [status EXCEPT ![c] = x],
           \/ status[c] = "none" /\ x = "accepted"
           \/ status[c] = "accepted" /\ x = "claimed"
           \/ status[c] = "claimed" /\ x \in Decided
    PROVE  [Lifecycle!Next]_Outcome
<1> USE DEF TypeOK, StoreTypes, Outcome, Pending, Decided
<1>1. CASE status[c] = "none" /\ x = "accepted"
  <2>1. Outcome' = [Outcome EXCEPT ![c] = "open"] /\ Outcome[c] = "none"
    BY <1>1
  <2> QED
    BY <2>1 DEF Lifecycle!Next, Lifecycle!Accept, Lifecycle!Move
<1>2. CASE status[c] = "accepted" /\ x = "claimed"
  BY <1>2
<1>3. CASE status[c] = "claimed" /\ x \in Decided
  <2>1. Outcome' = [Outcome EXCEPT ![c] = x] /\ Outcome[c] = "open"
    BY <1>3
  <2> QED
    BY <1>3, <2>1 DEF Lifecycle!Next, Lifecycle!Decide, Lifecycle!Move
<1> QED
  BY <1>1, <1>2, <1>3

(* Every step of the plane is one of the lifecycle, or leaves it alone.    *)
LEMMA LifecycleStep == IInv /\ [Next]_vars => [Lifecycle!Next]_Outcome
<1> SUFFICES ASSUME IInv, [Next]_vars PROVE [Lifecycle!Next]_Outcome
  OBVIOUS
<1> USE CmdFacts DEF IInv, rows, service
<1>1. ASSUME UNCHANGED status PROVE UNCHANGED Outcome
  BY <1>1 DEF Outcome, Pending
<1>2. ASSUME NEW c \in Cmd, NEW g, NEW x \in Decided, CompleteCommand(c, g, x)
      PROVE  [Lifecycle!Next]_Outcome
  <2>1. CASE status[c] = "claimed" /\ claimGen[c] = g
    BY <1>2, <2>1, OutcomeMove DEF CompleteCommand, Decided, Statuses
  <2>2. CASE ~(status[c] = "claimed" /\ claimGen[c] = g)
    BY <1>1, <1>2, <2>2 DEF CompleteCommand
  <2> QED
    BY <2>1, <2>2
<1>3. ASSUME NEW c \in Cmd, NEW r, RegisterCommand(c, r)
      PROVE  [Lifecycle!Next]_Outcome
  BY <1>3, OutcomeMove DEF RegisterCommand, Statuses
<1>4. ASSUME NEW c \in GateCmd, NEW r \in Run, AcceptGate(c, r)
      PROVE  [Lifecycle!Next]_Outcome
  BY <1>3, <1>4 DEF AcceptGate
<1>5. ASSUME NEW r \in Run, AcceptPauseResume(r) \/ SwitchActive(r)
      PROVE  [Lifecycle!Next]_Outcome
  BY <1>1, <1>5 DEF AcceptPauseResume, SwitchActive
<1>6. ASSUME NEW s \in Server, StartServe(s) PROVE [Lifecycle!Next]_Outcome
  BY <1>6 DEF StartServe, RequeueClaimed, Outcome, Pending, TypeOK, StoreTypes
<1>7. ASSUME NEW s \in Server, NEW c \in Cmd, Reap(s, c)
      PROVE  [Lifecycle!Next]_Outcome
  BY <1>2, <1>7 DEF Reap, Decided
<1>8. ASSUME NEW s \in Server, AcceptFreshDrive(s)
      PROVE  [Lifecycle!Next]_Outcome
  BY <1>1, <1>3, <1>8 DEF AcceptFreshDrive, FreshCmds
<1>9. ASSUME NEW s \in Server, Claim(s) PROVE [Lifecycle!Next]_Outcome
  <2>1. cur[s] \in Cmd
    BY <1>9 DEF Claim, TicksWellFormed
  <2> QED
    BY <1>1, <1>9, <2>1, OutcomeMove DEF Claim, Statuses
<1>10. ASSUME NEW s \in Server,
              \/ StopServe(s) \/ PollDone(s) \/ NextRunnable(s)
              \/ AcquireLease(s) \/ Popen(s) \/ GatesDone(s) \/ TickFails(s)
       PROVE  [Lifecycle!Next]_Outcome
  BY <1>1, <1>10 DEF StopServe, PollDone, NextRunnable, AcquireLease, Popen,
                     GatesDone, TickFails
<1>11. ASSUME NEW s \in Server, NEW c \in Cmd, TakeRow(s, c) \/ ReapFails(s, c)
       PROVE  [Lifecycle!Next]_Outcome
  BY <1>1, <1>11 DEF TakeRow, ReapFails
<1>12. ASSUME NEW w \in Worker, Commit(w) PROVE [Lifecycle!Next]_Outcome
  BY <1>2, <1>12 DEF Commit, Decided
<1>13. ASSUME NEW w \in Worker,
              \/ WorkerStart(w) \/ DriveCheck(w) \/ DriveWindow(w)
              \/ DriveState(w) \/ GateExecute(w) \/ KillWorker(w)
       PROVE  [Lifecycle!Next]_Outcome
  BY <1>1, <1>13
     DEF WorkerStart, DriveCheck, DriveWindow, DriveState, GateExecute,
                     KillWorker
<1>14. CASE UNCHANGED vars
  BY <1>1, <1>14 DEF vars
<1> QED
  BY <1>4, <1>5, <1>6, <1>7, <1>8, <1>9, <1>10, <1>11, <1>12, <1>13, <1>14
     DEF Next, Tick, WorkerStep

(***************************************************************************)
(* Whatever happens to servers and workers, each accepted command gets at  *)
(* most one outcome, and never loses it.                                   *)
(***************************************************************************)
THEOREM PlaneImplementsLifecycle == Spec => ImplementsLifecycle
BY Invariance, LifecycleInit, LifecycleStep, PTL
   DEF Spec, ImplementsLifecycle, Lifecycle!Spec

-----------------------------------------------------------------------------
(***************************************************************************)
(* What one `trac serve` process at a time guarantees, and what a home     *)
(* that was served once guarantees, for any number of runs and commands:   *)
(* nothing is left unwatched, and no decision is recorded twice.           *)
(***************************************************************************)
Spawning(s) == pc[s] \in {"lease", "claim", "popen"}

(***************************************************************************)
(* The loops of a tick hold rows of their own kind only.                   *)
(***************************************************************************)
RowsOfKind ==
    \A s \in Server :
        /\ Spawning(s) => (phase[s] = "gate" <=> cur[s] \in GateCmd)
        /\ pc[s] = "drive" \/ (Spawning(s) /\ phase[s] = "drive")
              => todo[s] \subseteq DriveCmd
        /\ pc[s] = "gate" \/ (Spawning(s) /\ phase[s] = "gate")
              => todo[s] \subseteq GateCmd

OneUp == \A s, t \in Server : Up(s) /\ Up(t) => s = t

(***************************************************************************)
(* What the supervisor is about to start, tracks or has reaped is a row    *)
(* that exists; a row about to get its worker carries the generation the   *)
(* supervisor holds for it.                                                *)
(***************************************************************************)
WatchedExists ==
    \A s \in Server :
        /\ pc[s] \in {"claim", "popen"} => gen[s] # 0
        /\ pc[s] = "popen" /\ status[cur[s]] = "claimed"
              => claimGen[cur[s]] = gen[s]
        /\ \A c \in Cmd : tracked[s][c] # 0 \/ c \in finished[s] => Registered(c)

WInv == RowsOfKind /\ OneUp /\ WatchedExists /\ ClaimedIsWatched /\ InFlightIsWatched

(***************************************************************************)
(* A gate command that has not been claimed, or is claimed and waits for   *)
(* its worker to be started, was never executed.                           *)
(***************************************************************************)
Untouched(c) ==
    /\ appliedAt[c] = {}
    /\ \A w \in Worker : w[1] = c => wpc[w] = "none"

AllOff == \A s \in Server : pc[s] = "off"

(***************************************************************************)
(* On a home that was served once a gate command has one worker at most,   *)
(* and only a worker that has not executed it yet has it untouched.        *)
(***************************************************************************)
OneWorker(c) ==
    /\ status[c] \in {"none", "accepted"} =>
          /\ Untouched(c)
          /\ \A s \in Server : pc[s] = "popen" => cur[s] # c
    /\ \A s \in Server : pc[s] = "popen" /\ cur[s] = c => Untouched(c)
    /\ \A w \in Worker :
          w[1] = c /\ wpc[w] \in {"starting", "gate"} => appliedAt[c] = {}
    /\ \A w, v \in Worker :
          w[1] = c /\ v[1] = c /\ wpc[w] # "none" /\ wpc[v] # "none" => w = v
    /\ appliedAt[c] = {} \/ \E g \in 0..MaxGate : appliedAt[c] = {g}

AInv ==
    /\ AllOff => \A c \in Cmd : status[c] = "none"
    /\ ~Restarted => \A c \in GateCmd : OneWorker(c)
-----------------------------------------------------------------------------
(* One tick at a time.                                                     *)

(***************************************************************************)
(* A step that claims nothing and leaves what is watched watched.          *)
(***************************************************************************)
LEMMA WatchKept ==
    ASSUME ClaimedIsWatched, faults' = faults, tracked' = tracked,
           claimGen' = claimGen,
           \A t \in Server :
              /\ Up(t)' <=> Up(t)
              /\ pc[t] = "popen" => pc'[t] = "popen" /\ cur'[t] = cur[t],
           \A c \in Cmd : status'[c] = "claimed" => status[c] = "claimed"
    PROVE  ClaimedIsWatched'
BY DEF ClaimedIsWatched, AnyUp, Watched

(***************************************************************************)
(* A step leaves every loop of a tick with rows of its own kind.           *)
(***************************************************************************)
LEMMA RowsOfKindStep == IInv /\ WInv /\ [Next]_vars => RowsOfKind'
<1> SUFFICES ASSUME IInv, WInv, [Next]_vars PROVE RowsOfKind'
  OBVIOUS
<1> USE CommandPlaneAssumption, CmdFacts
        DEF Gens, rows, service, tick, mem, workers, runs, IInv, TypeOK,
            StoreTypes, TickTypes,
            MemTypes, WInv, RowsOfKind, Spawning, TicksWellFormed, Registered
<1>1. ASSUME UNCHANGED <<rows, tick, mem, faults>> PROVE RowsOfKind'
  BY <1>1
<1>2. ASSUME NEW s \in Server, StartServe(s) PROVE RowsOfKind'
  BY <1>2 DEF StartServe, RequeueClaimed
<1>3. ASSUME NEW s \in Server, StopServe(s) PROVE RowsOfKind'
  BY <1>3 DEF StopServe
<1>4. ASSUME NEW s \in Server, PollDone(s) PROVE RowsOfKind'
  BY <1>4 DEF PollDone, Accepted
<1>5. ASSUME NEW s \in Server, NextRunnable(s) PROVE RowsOfKind'
  BY <1>5 DEF NextRunnable, Accepted, Runnable
<1>6. ASSUME NEW s \in Server, AcceptFreshDrive(s) PROVE RowsOfKind'
  BY <1>6 DEF AcceptFreshDrive, RegisterCommand, Accepted, FreshCmds
<1>7. ASSUME NEW s \in Server, AcquireLease(s) PROVE RowsOfKind'
  BY <1>7 DEF AcquireLease
<1>8. ASSUME NEW s \in Server, Claim(s) PROVE RowsOfKind'
  <2>1. \A t \in Server \ {s} : /\ pc'[t] = pc[t] /\ phase'[t] = phase[t]
                                /\ cur'[t] = cur[t] /\ todo'[t] = todo[t]
    BY <1>8 DEF Claim, AfterSpawn
  <2>2. CASE status[cur[s]] = "accepted"
    BY <1>8, <2>1, <2>2 DEF Claim
  <2>3. CASE status[cur[s]] # "accepted" /\ phase[s] = "fresh"
    <3>1. pc'[s] = "gate" /\ todo'[s] = Accepted(GateCmd)
      BY <1>8, <2>3 DEF Claim, AfterSpawn
    <3>2. Accepted(GateCmd) \subseteq GateCmd
      BY DEF Accepted
    <3> QED
      BY <2>1, <3>1, <3>2
  <2>4. CASE status[cur[s]] # "accepted" /\ phase[s] # "fresh"
    BY <1>8, <2>1, <2>4 DEF Claim, AfterSpawn, Phases
  <2> QED
    BY <2>2, <2>3, <2>4
<1>9. ASSUME NEW s \in Server, Popen(s) PROVE RowsOfKind'
  <2>1. \A t \in Server \ {s} : /\ pc'[t] = pc[t] /\ phase'[t] = phase[t]
                                /\ cur'[t] = cur[t] /\ todo'[t] = todo[t]
    BY <1>9 DEF Popen, AfterSpawn
  <2>2. CASE phase[s] = "fresh"
    BY <1>9, <2>1, <2>2 DEF Popen, AfterSpawn, Accepted
  <2>3. CASE phase[s] # "fresh"
    BY <1>9, <2>1, <2>3 DEF Popen, AfterSpawn, Phases
  <2> QED
    BY <2>2, <2>3
<1>10. ASSUME NEW s \in Server, GatesDone(s) PROVE RowsOfKind'
  BY <1>10 DEF GatesDone
<1>11. ASSUME NEW s \in Server, TickFails(s) PROVE RowsOfKind'
  BY <1>11 DEF TickFails, AbandonTick
<1>12. ASSUME NEW s \in Server, NEW c \in Cmd, Reap(s, c) PROVE RowsOfKind'
  BY <1>12 DEF Reap, CompleteCommand
<1>13. ASSUME NEW s \in Server, NEW c \in Cmd, TakeRow(s, c) PROVE RowsOfKind'
  BY <1>13 DEF TakeRow
<1>14. ASSUME NEW s \in Server, NEW c \in Cmd, ReapFails(s, c) PROVE RowsOfKind'
  BY <1>14 DEF ReapFails, AbandonTick
<1>15. ASSUME NEW c \in GateCmd, NEW r \in Run, AcceptGate(c, r)
       PROVE  RowsOfKind'
  BY <1>15 DEF AcceptGate, RegisterCommand
<1>16. ASSUME NEW w \in Worker, Commit(w) PROVE RowsOfKind'
  BY <1>16 DEF Commit, Exit, CompleteCommand
<1>17. ASSUME NEW r \in Run, AcceptPauseResume(r) \/ SwitchActive(r)
       PROVE  RowsOfKind'
  BY <1>1, <1>17 DEF AcceptPauseResume, SwitchActive
<1>18. ASSUME NEW w \in Worker,
              \/ WorkerStart(w) \/ DriveCheck(w) \/ DriveWindow(w)
              \/ DriveState(w) \/ GateExecute(w) \/ KillWorker(w)
       PROVE  RowsOfKind'
  BY <1>1, <1>18 DEF WorkerStart, DriveCheck, DriveWindow, DriveState,
                     GateExecute, KillWorker
<1>19. CASE UNCHANGED vars
  BY <1>1, <1>19 DEF vars
<1> QED
  BY <1>1, <1>2, <1>3, <1>4, <1>5, <1>6, <1>7, <1>8, <1>9, <1>10, <1>11, <1>12,
     <1>13, <1>14, <1>15, <1>16, <1>17, <1>18, <1>19
     DEF Next, Tick, WorkerStep

(***************************************************************************)
(* _serve starts while fewer than MaxUp = 1 processes are up: no second one.*)
(***************************************************************************)
LEMMA OneUpStep == MaxUp = 1 /\ IsFiniteSet(Server) /\ IInv /\ WInv /\ [Next]_vars => OneUp'
<1> SUFFICES ASSUME MaxUp = 1, IsFiniteSet(Server), IInv, WInv, [Next]_vars
             PROVE  OneUp'
  OBVIOUS
<1> USE CmdFacts
        DEF Gens, rows, service, tick, mem, workers, runs, IInv, TypeOK,
            StoreTypes, TickTypes,
            MemTypes, WInv, OneUp, Up
<1>1. ASSUME UNCHANGED <<rows, tick, mem, faults>> PROVE OneUp'
  BY <1>1
<1>2. ASSUME NEW s \in Server, StartServe(s) PROVE OneUp'
  <2> DEFINE Running == {t \in Server : pc[t] \notin {"off", "dead"}}
  <2>1. IsFiniteSet(Running)
    BY FS_Subset
  <2>2. Cardinality(Running) < 1
    BY <1>2 DEF StartServe
  <2>3. Cardinality(Running) = 0
    BY <2>1, <2>2, FS_CardinalityType
  <2>4. Running = {}
    BY <2>1, <2>3, FS_EmptySet
  <2> QED
    BY <1>2, <2>4 DEF StartServe
<1>3. ASSUME NEW s \in Server, StopServe(s) PROVE OneUp'
  BY <1>3 DEF StopServe
<1>4. ASSUME NEW s \in Server, PollDone(s) PROVE OneUp'
  BY <1>4 DEF PollDone, Accepted
<1>5. ASSUME NEW s \in Server, NextRunnable(s) PROVE OneUp'
  BY <1>5 DEF NextRunnable, Accepted, Runnable
<1>6. ASSUME NEW s \in Server, AcceptFreshDrive(s) PROVE OneUp'
  BY ZenonT(40), <1>6 DEF AcceptFreshDrive, RegisterCommand, Accepted, FreshCmds
<1>7. ASSUME NEW s \in Server, AcquireLease(s) PROVE OneUp'
  BY <1>7 DEF AcquireLease
<1>8. ASSUME NEW s \in Server, Claim(s) PROVE OneUp'
  <2>1. \A t \in Server : Up(t)' => Up(t)
    BY <1>8 DEF Claim, AfterSpawn
  <2> QED
    BY <2>1
<1>9. ASSUME NEW s \in Server, Popen(s) PROVE OneUp'
  BY <1>9 DEF Popen, AfterSpawn, Accepted
<1>10. ASSUME NEW s \in Server, GatesDone(s) PROVE OneUp'
  BY <1>10 DEF GatesDone
<1>11. ASSUME NEW s \in Server, TickFails(s) PROVE OneUp'
  BY <1>11 DEF TickFails, AbandonTick
<1>12. ASSUME NEW s \in Server, NEW c \in Cmd, Reap(s, c) PROVE OneUp'
  BY <1>12 DEF Reap, CompleteCommand
<1>13. ASSUME NEW s \in Server, NEW c \in Cmd, TakeRow(s, c) PROVE OneUp'
  BY ZenonT(40), <1>13 DEF TakeRow
<1>14. ASSUME NEW s \in Server, NEW c \in Cmd, ReapFails(s, c) PROVE OneUp'
  BY <1>14 DEF ReapFails, AbandonTick
<1>15. ASSUME NEW c \in GateCmd, NEW r \in Run, AcceptGate(c, r) PROVE OneUp'
  BY <1>15 DEF AcceptGate, RegisterCommand
<1>16. ASSUME NEW w \in Worker, Commit(w) PROVE OneUp'
  BY <1>16 DEF Commit, Exit, CompleteCommand
<1>17. ASSUME NEW r \in Run, AcceptPauseResume(r) \/ SwitchActive(r)
       PROVE  OneUp'
  BY <1>1, <1>17 DEF AcceptPauseResume, SwitchActive
<1>18. ASSUME NEW w \in Worker,
              \/ WorkerStart(w) \/ DriveCheck(w) \/ DriveWindow(w)
              \/ DriveState(w) \/ GateExecute(w) \/ KillWorker(w)
       PROVE  OneUp'
  BY <1>1, <1>18 DEF WorkerStart, DriveCheck, DriveWindow, DriveState,
                     GateExecute, KillWorker
<1>19. CASE UNCHANGED vars
  BY <1>1, <1>19 DEF vars
<1> QED
  BY <1>1, <1>2, <1>3, <1>4, <1>5, <1>6, <1>7, <1>8, <1>9, <1>10, <1>11, <1>12,
     <1>13, <1>14, <1>15, <1>16, <1>17, <1>18, <1>19
     DEF Next, Tick, WorkerStep

(***************************************************************************)
(* Every step leaves what a supervisor starts or tracks on record.         *)
(***************************************************************************)
LEMMA WatchedExistsStep == MaxUp = 1 /\ IsFiniteSet(Server) /\ IInv /\ WInv /\ [Next]_vars => WatchedExists'
<1> SUFFICES ASSUME MaxUp = 1, IsFiniteSet(Server), IInv, WInv, [Next]_vars
             PROVE  WatchedExists'
  OBVIOUS
<1> USE CommandPlaneAssumption, CmdFacts
        DEF Gens, rows, service, tick, mem, workers, runs, IInv, TypeOK,
            StoreTypes, TickTypes,
            MemTypes, WInv, WatchedExists, OneUp, Up, TicksWellFormed, Registered
<1>1. ASSUME UNCHANGED <<rows, tick, mem, faults>> PROVE WatchedExists'
  BY <1>1
<1>2. ASSUME NEW s \in Server, StartServe(s) PROVE WatchedExists'
  BY <1>2 DEF StartServe, RequeueClaimed
<1>3. ASSUME NEW s \in Server, StopServe(s) PROVE WatchedExists'
  BY <1>3 DEF StopServe
<1>4. ASSUME NEW s \in Server, PollDone(s) PROVE WatchedExists'
  BY <1>4 DEF PollDone, Accepted
<1>5. ASSUME NEW s \in Server, NextRunnable(s) PROVE WatchedExists'
  BY <1>5 DEF NextRunnable, Accepted, Runnable
<1>6. ASSUME NEW s \in Server, AcceptFreshDrive(s) PROVE WatchedExists'
  BY <1>6 DEF AcceptFreshDrive, RegisterCommand, Accepted, FreshCmds
<1>7. ASSUME NEW s \in Server, AcquireLease(s) PROVE WatchedExists'
  <2>1. lease[runOf[cur[s]]] \in Nat
    BY <1>7 DEF AcquireLease, RowsWellFormed
  <2> QED
    BY <1>7, <2>1 DEF AcquireLease
<1>8. ASSUME NEW s \in Server, Claim(s) PROVE WatchedExists'
  <2>1. cur[s] \in Cmd /\ gen[s] # 0 /\ Up(s)
    BY <1>8 DEF Claim
  <2>2. \A t \in Server \ {s} : pc[t] \notin {"claim", "popen"}
    BY <2>1
  <2>3. \A t \in Server \ {s} : pc'[t] \notin {"claim", "popen"}
    BY <1>8, <2>2 DEF Claim, AfterSpawn
  <2>4. \A c \in Cmd : Registered(c) => Registered(c)'
    BY <1>8 DEF Claim
  <2>5. tracked' = tracked /\ finished' = finished
    BY <1>8 DEF Claim
  <2>6. pc'[s] \notin {"claim", "popen"} \/ (gen' = gen /\ cur' = cur /\ claimGen'[cur[s]] = gen[s])
    BY <1>8, <2>1 DEF Claim, AfterSpawn, Phases
  <2> QED
    BY <2>1, <2>3, <2>4, <2>5, <2>6
<1>9. ASSUME NEW s \in Server, Popen(s) PROVE WatchedExists'
  <2>1. cur[s] \in Cmd /\ Registered(cur[s]) /\ Up(s)
    BY <1>9 DEF Popen
  <2>2. \A t \in Server : pc'[t] \notin {"claim", "popen"}
    BY ZenonT(40), <1>9, <2>1 DEF Popen, AfterSpawn, Phases
  <2>3. \A t \in Server, c \in Cmd : tracked'[t][c] # 0 => tracked[t][c] # 0 \/ c = cur[s]
    BY <1>9 DEF Popen
  <2>4. status' = status /\ finished' = finished
    BY <1>9 DEF Popen
  <2> QED
    BY <2>1, <2>2, <2>3, <2>4
<1>10. ASSUME NEW s \in Server, GatesDone(s) PROVE WatchedExists'
  BY <1>10 DEF GatesDone
<1>11. ASSUME NEW s \in Server, TickFails(s) PROVE WatchedExists'
  BY <1>11 DEF TickFails, AbandonTick
<1>12. ASSUME NEW s \in Server, NEW c \in Cmd, Reap(s, c) PROVE WatchedExists'
  <2>1. \A d \in Cmd : /\ Registered(d) => Registered(d)'
                       /\ status'[d] = "claimed" => status[d] = "claimed"
    BY <1>12 DEF Reap, CompleteCommand
  <2>2. \A t \in Server, d \in Cmd :
           /\ tracked'[t][d] # 0 => tracked[t][d] # 0
           /\ d \in finished'[t] => d \in finished[t] \/ tracked[t][d] # 0
    BY <1>12 DEF Reap, ExitedTracked
  <2>3. pc' = pc /\ gen' = gen /\ cur' = cur /\ claimGen' = claimGen
    BY <1>12 DEF Reap
  <2> QED
    BY <2>1, <2>2, <2>3
<1>13. ASSUME NEW s \in Server, NEW c \in Cmd, TakeRow(s, c)
       PROVE  WatchedExists'
  BY <1>13 DEF TakeRow
<1>14. ASSUME NEW s \in Server, NEW c \in Cmd, ReapFails(s, c)
       PROVE  WatchedExists'
  BY <1>14 DEF ReapFails, AbandonTick
<1>15. ASSUME NEW c \in GateCmd, NEW r \in Run, AcceptGate(c, r)
       PROVE  WatchedExists'
  BY <1>15 DEF AcceptGate, RegisterCommand
<1>16. ASSUME NEW w \in Worker, Commit(w) PROVE WatchedExists'
  BY <1>16 DEF Commit, Exit, CompleteCommand
<1>17. ASSUME NEW r \in Run, AcceptPauseResume(r) \/ SwitchActive(r)
       PROVE  WatchedExists'
  BY <1>1, <1>17 DEF AcceptPauseResume, SwitchActive
<1>18. ASSUME NEW w \in Worker,
              \/ WorkerStart(w) \/ DriveCheck(w) \/ DriveWindow(w)
              \/ DriveState(w) \/ GateExecute(w) \/ KillWorker(w)
       PROVE  WatchedExists'
  BY <1>1, <1>18 DEF WorkerStart, DriveCheck, DriveWindow, DriveState,
                     GateExecute, KillWorker
<1>19. CASE UNCHANGED vars
  BY <1>1, <1>19 DEF vars
<1> QED
  BY <1>1, <1>2, <1>3, <1>4, <1>5, <1>6, <1>7, <1>8, <1>9, <1>10, <1>11, <1>12,
     <1>13, <1>14, <1>15, <1>16, <1>17, <1>18, <1>19
     DEF Next, Tick, WorkerStep

(***************************************************************************)
(* Every step leaves each claimed command watched by the one server.       *)
(***************************************************************************)
LEMMA ClaimedStep == MaxUp = 1 /\ IsFiniteSet(Server) /\ IInv /\ WInv /\ [Next]_vars => ClaimedIsWatched'
<1> SUFFICES ASSUME MaxUp = 1, IsFiniteSet(Server), IInv, WInv, [Next]_vars
             PROVE  ClaimedIsWatched'
  OBVIOUS
<1> USE CommandPlaneAssumption, CmdFacts
        DEF Gens, rows, service, tick, mem, workers, runs, IInv, TypeOK,
            StoreTypes, TickTypes,
            MemTypes, WInv, WatchedExists, OneUp, Up, AnyUp, ClaimedIsWatched, Watched,
            TicksWellFormed, Registered
<1>1. ASSUME UNCHANGED <<rows, tick, mem, faults>> PROVE ClaimedIsWatched'
  BY <1>1
<1>2. ASSUME NEW s \in Server, StartServe(s) PROVE ClaimedIsWatched'
  BY <1>2 DEF StartServe, RequeueClaimed
<1>3. ASSUME NEW s \in Server, StopServe(s) PROVE ClaimedIsWatched'
  BY <1>3 DEF StopServe
<1>4. ASSUME NEW s \in Server, PollDone(s) PROVE ClaimedIsWatched'
  BY <1>4 DEF PollDone, Accepted
<1>5. ASSUME NEW s \in Server, NextRunnable(s) PROVE ClaimedIsWatched'
  <2>1. \A t \in Server : /\ Up(t)' <=> Up(t)
                          /\ pc'[t] = "popen" <=> pc[t] = "popen"
    BY <1>5 DEF NextRunnable
  <2> QED
    BY <1>5, <2>1, WatchKept DEF NextRunnable
<1>6. ASSUME NEW s \in Server, AcceptFreshDrive(s) PROVE ClaimedIsWatched'
  <2>1. \A t \in Server : /\ Up(t)' <=> Up(t)
                          /\ pc[t] = "popen" => pc'[t] = "popen" /\ cur'[t] = cur[t]
    BY <1>6 DEF AcceptFreshDrive
  <2>2. \A c \in Cmd : status'[c] = "claimed" => status[c] = "claimed"
    BY <1>6 DEF AcceptFreshDrive, RegisterCommand, FreshCmds
  <2>3. tracked' = tracked /\ claimGen' = claimGen /\ faults' = faults
    BY <1>6 DEF AcceptFreshDrive, RegisterCommand
  <2> QED
    BY <2>1, <2>2, <2>3, WatchKept
<1>7. ASSUME NEW s \in Server, AcquireLease(s) PROVE ClaimedIsWatched'
  BY <1>7 DEF AcquireLease
<1>8. ASSUME NEW s \in Server, Claim(s) PROVE ClaimedIsWatched'
  <2>1. Up(s) /\ Up(s)' /\ \A t \in Server : Up(t) => t = s
    <3>1. pc[s] = "claim" /\ phase[s] \in Phases
      BY <1>8 DEF Claim
    <3>2. pc'[s] \in {"popen", "gate", "drive"}
      BY <1>8, <3>1 DEF Claim, AfterSpawn, Phases
    <3> QED
      BY <3>1, <3>2
  <2>2. tracked' = tracked /\ faults' = faults
    BY <1>8 DEF Claim
  <2>3. \A c \in Cmd \ {cur[s]} : status'[c] = status[c] /\ claimGen'[c] = claimGen[c]
    BY <1>8 DEF Claim
  <2>4. CASE status[cur[s]] = "accepted"
    <3>1. pc'[s] = "popen" /\ cur'[s] = cur[s]
      BY <1>8, <2>4 DEF Claim
    <3>2. ASSUME NEW c \in Cmd \ {cur[s]}, status'[c] = "claimed", faults' = 0
          PROVE  Watched(s, c)'
      <4>1. status[c] = "claimed" /\ faults = 0 /\ AnyUp
        BY <2>1, <2>2, <2>3, <3>2
      <4>2. Watched(s, c)
        BY <2>1, <4>1
      <4> QED
        BY <1>8, <2>2, <2>3, <4>2 DEF Claim
    <3> QED
      BY <2>1, <3>1, <3>2
  <2>5. CASE status[cur[s]] # "accepted"
    <3>1. status' = status /\ claimGen' = claimGen
      BY <1>8, <2>5 DEF Claim
    <3>2. ASSUME NEW c \in Cmd, status'[c] = "claimed", faults' = 0
          PROVE  Watched(s, c)'
      <4>1. Watched(s, c)
        BY <2>1, <2>2, <3>1, <3>2
      <4> QED
        BY <1>8, <2>2, <3>1, <4>1 DEF Claim
    <3> QED
      BY <2>1, <3>2
  <2> QED
    BY <2>4, <2>5
<1>9. ASSUME NEW s \in Server, Popen(s) PROVE ClaimedIsWatched'
  <2>1. Up(s) /\ Up(s)' /\ \A t \in Server : Up(t) => t = s
    <3>1. pc[s] = "popen" /\ phase[s] \in Phases
      BY <1>9 DEF Popen
    <3>2. pc'[s] \in {"popen", "gate", "drive"}
      BY <1>9, <3>1 DEF Popen, AfterSpawn, Phases
    <3> QED
      BY <3>1, <3>2
  <2>2. status' = status /\ claimGen' = claimGen /\ faults' = faults
    BY <1>9 DEF Popen
  <2>3. cur[s] \in Cmd /\ tracked'[s][cur[s]] = gen[s] /\ gen[s] # 0
    BY <1>9 DEF Popen
  <2>4. \A c \in Cmd \ {cur[s]} : tracked'[s][c] = tracked[s][c]
    BY <1>9 DEF Popen
  <2>5. status[cur[s]] = "claimed" => claimGen[cur[s]] = gen[s]
    BY <1>9 DEF Popen
  <2>6. ASSUME NEW c \in Cmd, status'[c] = "claimed", faults' = 0
        PROVE  Watched(s, c)'
    <3>1. Watched(s, c)
      BY <2>1, <2>2, <2>6
    <3>2. CASE c = cur[s]
      BY <2>2, <2>3, <2>5, <2>6, <3>2
    <3>3. CASE c # cur[s]
      BY <2>2, <2>4, <3>1, <3>3
    <3> QED
      BY <3>2, <3>3
  <2> QED
    BY <2>1, <2>6
<1>10. ASSUME NEW s \in Server, GatesDone(s) PROVE ClaimedIsWatched'
  BY <1>10 DEF GatesDone
<1>11. ASSUME NEW s \in Server, TickFails(s) PROVE ClaimedIsWatched'
  BY <1>11 DEF TickFails, AbandonTick
<1>12. ASSUME NEW s \in Server, NEW c \in Cmd, Reap(s, c)
       PROVE  ClaimedIsWatched'
  <2>1. \A d \in Cmd : status'[d] = "claimed" => status[d] = "claimed"
    BY <1>12 DEF Reap, CompleteCommand
  <2>2. \A t \in Server : Up(t) => t = s
    BY <1>12 DEF Reap
  <2>3. status'[c] = "claimed" => claimGen[c] # tracked[s][c]
    BY <1>12 DEF Reap, CompleteCommand
  <2>4. \A d \in Cmd \ {c} : tracked'[s][d] = tracked[s][d]
    BY <1>12 DEF Reap
  <2>5. pc' = pc /\ cur' = cur /\ claimGen' = claimGen /\ faults' = faults
        /\ pc[s] = "poll"
    BY <1>12 DEF Reap
  <2>6. ASSUME NEW d \in Cmd, status'[d] = "claimed", AnyUp', faults' = 0
        PROVE  Up(s)' /\ Watched(s, d)'
    <3>1. Up(s) /\ status[d] = "claimed" /\ faults = 0 /\ AnyUp
      BY <2>1, <2>5, <2>6
    <3>2. PICK t \in Server : Up(t) /\ Watched(t, d)
      BY <3>1
    <3>4. t = s
      BY <2>2, <3>2
    <3>3. d # c
      BY <2>3, <2>5, <2>6, <3>2, <3>4
    <3> QED
      BY <2>4, <2>5, <3>1, <3>2, <3>3, <3>4
  <2> QED
    BY <2>6
<1>13. ASSUME NEW s \in Server, NEW c \in Cmd, TakeRow(s, c)
       PROVE  ClaimedIsWatched'
  <2>1. \A t \in Server : /\ Up(t)' <=> Up(t)
                          /\ pc[t] = "popen" => pc'[t] = "popen" /\ cur'[t] = cur[t]
    BY <1>13 DEF TakeRow
  <2> QED
    BY <1>13, <2>1, WatchKept DEF TakeRow
<1>14. ASSUME NEW s \in Server, NEW c \in Cmd, ReapFails(s, c)
       PROVE  ClaimedIsWatched'
  BY <1>14 DEF ReapFails, AbandonTick
<1>15. ASSUME NEW c \in GateCmd, NEW r \in Run, AcceptGate(c, r)
       PROVE  ClaimedIsWatched'
  <2>1. \A d \in Cmd : status'[d] = "claimed" => status[d] = "claimed"
    BY <1>15 DEF AcceptGate, RegisterCommand
  <2> QED
    BY <1>15, <2>1, WatchKept DEF AcceptGate, RegisterCommand
<1>16. ASSUME NEW w \in Worker, Commit(w) PROVE ClaimedIsWatched'
  <2>1. \A d \in Cmd : status'[d] = "claimed" => status[d] = "claimed"
    BY <1>16 DEF Commit, CompleteCommand
  <2> QED
    BY <1>16, <2>1, WatchKept DEF Commit
<1>17. ASSUME NEW r \in Run, AcceptPauseResume(r) \/ SwitchActive(r)
       PROVE  ClaimedIsWatched'
  BY <1>1, <1>17 DEF AcceptPauseResume, SwitchActive
<1>18. ASSUME NEW w \in Worker,
              \/ WorkerStart(w) \/ DriveCheck(w) \/ DriveWindow(w)
              \/ DriveState(w) \/ GateExecute(w) \/ KillWorker(w)
       PROVE  ClaimedIsWatched'
  BY <1>1, <1>18 DEF WorkerStart, DriveCheck, DriveWindow, DriveState,
                     GateExecute, KillWorker
<1>19. CASE UNCHANGED vars
  BY <1>1, <1>19 DEF vars
<1> QED
  BY <1>1, <1>2, <1>3, <1>4, <1>5, <1>6, <1>7, <1>8, <1>9, <1>10, <1>11, <1>12,
     <1>13, <1>14, <1>15, <1>16, <1>17, <1>18, <1>19
     DEF Next, Tick, WorkerStep

(***************************************************************************)
(* Every step leaves each in-flight run with a drive worker to wait for.   *)
(***************************************************************************)
LEMMA InFlightStep == IInv /\ WInv /\ [Next]_vars => InFlightIsWatched'
<1> SUFFICES ASSUME IInv, WInv, [Next]_vars PROVE InFlightIsWatched'
  OBVIOUS
<1> USE CommandPlaneAssumption, CmdFacts
        DEF Gens, rows, service, tick, mem, workers, runs, IInv, TypeOK,
            StoreTypes, TickTypes,
            MemTypes, WInv, RowsOfKind, Spawning, WatchedExists, InFlightIsWatched,
            TicksWellFormed, Registered
<1>1. ASSUME UNCHANGED <<rows, tick, mem, faults>> PROVE InFlightIsWatched'
  BY <1>1
<1>2. ASSUME NEW s \in Server, StartServe(s) PROVE InFlightIsWatched'
  BY <1>2 DEF StartServe, RequeueClaimed
<1>3. ASSUME NEW s \in Server, StopServe(s) PROVE InFlightIsWatched'
  BY <1>3 DEF StopServe
<1>4. ASSUME NEW s \in Server, PollDone(s) PROVE InFlightIsWatched'
  BY <1>4 DEF PollDone, Accepted
<1>5. ASSUME NEW s \in Server, NextRunnable(s) PROVE InFlightIsWatched'
  BY <1>5 DEF NextRunnable, Accepted, Runnable
<1>6. ASSUME NEW s \in Server, AcceptFreshDrive(s) PROVE InFlightIsWatched'
  BY <1>6 DEF AcceptFreshDrive, RegisterCommand, Accepted, FreshCmds
<1>7. ASSUME NEW s \in Server, AcquireLease(s) PROVE InFlightIsWatched'
  BY <1>7 DEF AcquireLease
<1>8. ASSUME NEW s \in Server, Claim(s) PROVE InFlightIsWatched'
  BY <1>8 DEF Claim, AfterSpawn, Accepted
<1>9. ASSUME NEW s \in Server, Popen(s) PROVE InFlightIsWatched'
  <2>1. cur[s] \in Cmd /\ gen[s] # 0 /\ (phase[s] # "gate" => cur[s] \in DriveCmd)
    BY <1>9 DEF Popen, Cmd
  <2>2. runOf' = runOf /\ finished' = finished /\ faults' = faults
    BY <1>9 DEF Popen
  <2>3. tracked' = [tracked EXCEPT ![s][cur[s]] = gen[s]]
    BY <1>9 DEF Popen
  <2>4. \A t \in Server, c \in Cmd : tracked[t][c] # 0 => tracked'[t][c] # 0
    BY <2>1, <2>3
  <2>5. tracked'[s][cur[s]] # 0
    BY <2>1, <2>3
  <2>6. \A t \in Server : inFlight'[t] = inFlight[t]
           \/ (t = s /\ phase[s] # "gate" /\ inFlight'[t] = inFlight[t] \cup {runOf[cur[s]]})
    BY <1>9 DEF Popen
  <2> QED
    BY <2>1, <2>2, <2>4, <2>5, <2>6
<1>10. ASSUME NEW s \in Server, GatesDone(s) PROVE InFlightIsWatched'
  BY <1>10 DEF GatesDone
<1>11. ASSUME NEW s \in Server, TickFails(s) PROVE InFlightIsWatched'
  BY <1>11 DEF TickFails, AbandonTick
<1>12. ASSUME NEW s \in Server, NEW c \in Cmd, Reap(s, c)
       PROVE  InFlightIsWatched'
  BY <1>12 DEF Reap, CompleteCommand
<1>13. ASSUME NEW s \in Server, NEW c \in Cmd, TakeRow(s, c)
       PROVE  InFlightIsWatched'
  BY <1>13 DEF TakeRow
<1>14. ASSUME NEW s \in Server, NEW c \in Cmd, ReapFails(s, c)
       PROVE  InFlightIsWatched'
  BY <1>14 DEF ReapFails, AbandonTick
<1>15. ASSUME NEW c \in GateCmd, NEW r \in Run, AcceptGate(c, r)
       PROVE  InFlightIsWatched'
  BY <1>15 DEF AcceptGate, RegisterCommand
<1>16. ASSUME NEW w \in Worker, Commit(w) PROVE InFlightIsWatched'
  BY <1>16 DEF Commit, Exit, CompleteCommand
<1>17. ASSUME NEW r \in Run, AcceptPauseResume(r) \/ SwitchActive(r)
       PROVE  InFlightIsWatched'
  BY <1>1, <1>17 DEF AcceptPauseResume, SwitchActive
<1>18. ASSUME NEW w \in Worker,
              \/ WorkerStart(w) \/ DriveCheck(w) \/ DriveWindow(w)
              \/ DriveState(w) \/ GateExecute(w) \/ KillWorker(w)
       PROVE  InFlightIsWatched'
  BY <1>1, <1>18 DEF WorkerStart, DriveCheck, DriveWindow, DriveState,
                     GateExecute, KillWorker
<1>19. CASE UNCHANGED vars
  BY <1>1, <1>19 DEF vars
<1> QED
  BY <1>1, <1>2, <1>3, <1>4, <1>5, <1>6, <1>7, <1>8, <1>9, <1>10, <1>11, <1>12,
     <1>13, <1>14, <1>15, <1>16, <1>17, <1>18, <1>19
     DEF Next, Tick, WorkerStep

(***************************************************************************)
(* A process that was started stays started: there is no way back from a   *)
(* restart.                                                                *)
(***************************************************************************)
LEMMA ProcessesStay ==
    ASSUME IInv, [Next]_vars
    PROVE  \A s \in Server : pc[s] # "off" => pc'[s] # "off"
<1> USE DEF IInv, TypeOK, TickTypes
<1>1. ASSUME NEW s \in Server, StartServe(s) \/ StopServe(s)
      PROVE  \A t \in Server : pc[t] # "off" => pc'[t] # "off"
  BY <1>1 DEF StartServe, StopServe
<1>2. ASSUME NEW s \in Server, Tick(s)
      PROVE  \A t \in Server : pc[t] # "off" => pc'[t] # "off"
  BY <1>2 DEF Tick, Reap, TakeRow, PollDone, NextRunnable, AcceptFreshDrive,
              AcquireLease, Claim, Popen, GatesDone, AfterSpawn, Phases
<1>3. ASSUME NEW s \in Server, TickFails(s) \/ \E c \in Cmd : ReapFails(s, c)
      PROVE  \A t \in Server : pc[t] # "off" => pc'[t] # "off"
  BY <1>3 DEF TickFails, ReapFails, AbandonTick
<1>4. ASSUME NEW r \in Run,
             \/ \E c \in GateCmd : AcceptGate(c, r)
             \/ AcceptPauseResume(r) \/ SwitchActive(r)
      PROVE  pc' = pc
  BY <1>4 DEF AcceptGate, AcceptPauseResume, SwitchActive, tick
<1>5. ASSUME NEW w \in Worker, WorkerStep(w) \/ KillWorker(w) PROVE pc' = pc
  BY <1>5 DEF WorkerStep, WorkerStart, DriveCheck, DriveWindow, DriveState,
              GateExecute, Commit, KillWorker, tick
<1>6. CASE UNCHANGED vars
  BY <1>6 DEF vars, tick
<1> QED
  BY <1>1, <1>2, <1>3, <1>4, <1>5, <1>6 DEF Next

(***************************************************************************)
(* Before the first server starts there is no command: the store only      *)
(* takes one from a server that is up.                                     *)
(***************************************************************************)
LEMMA NothingBeforeServe ==
    ASSUME IInv, AInv, [Next]_vars, AllOff'
    PROVE  \A c \in Cmd : status'[c] = "none"
<1>1. AllOff
  BY ProcessesStay DEF AllOff
<1>2. \A c \in Cmd : status[c] = "none"
  BY <1>1 DEF AInv
<1>3. \A s \in Server : pc[s] = "off" /\ pc'[s] = "off"
  BY <1>1 DEF AllOff
<1> USE <1>3
   DEF rows, service, tick, mem, workers, runs, IInv, TypeOK, TickTypes
<1>4. ASSUME NEW s \in Server, StartServe(s) \/ StopServe(s) PROVE FALSE
  BY <1>4 DEF StartServe, StopServe, Up
<1>5. ASSUME NEW s \in Server, Tick(s) PROVE FALSE
  BY <1>5 DEF Tick, Reap, TakeRow, PollDone, NextRunnable, AcceptFreshDrive,
              AcquireLease, Claim, Popen, GatesDone
<1>6. ASSUME NEW s \in Server, TickFails(s) \/ \E c \in Cmd : ReapFails(s, c)
      PROVE  FALSE
  BY <1>6 DEF TickFails, ReapFails, Up
<1>7. ASSUME NEW r \in Run,
             \/ \E c \in GateCmd : AcceptGate(c, r)
             \/ AcceptPauseResume(r) \/ SwitchActive(r)
      PROVE  FALSE
  BY <1>7 DEF AcceptGate, AcceptPauseResume, SwitchActive, Up
<1>8. ASSUME NEW w \in Worker, WorkerStep(w) \/ KillWorker(w)
      PROVE  status' = status
  BY <1>2, <1>8, CmdFacts
     DEF WorkerStep, WorkerStart, DriveCheck, DriveWindow, DriveState,
         GateExecute, Commit, CompleteCommand, KillWorker
<1>9. CASE UNCHANGED vars
  BY <1>2, <1>9 DEF vars
<1> QED
  BY <1>2, <1>4, <1>5, <1>6, <1>7, <1>8, <1>9 DEF Next

(***************************************************************************)
(* A step that neither starts a worker of the command nor executes it, and *)
(* does not put it back into the queue.                                    *)
(***************************************************************************)
LEMMA OneWorkerKept ==
    ASSUME NEW k \in GateCmd, OneWorker(k), appliedAt'[k] = appliedAt[k],
           status'[k] \in {"none", "accepted"} => status[k] \in {"none", "accepted"},
           \A s \in Server : pc'[s] = "popen" /\ cur'[s] = k
                                => pc[s] = "popen" /\ cur[s] = k,
           \A w \in Worker :
              w[1] = k =>
                 /\ wpc'[w] # "none" => wpc[w] # "none"
                 /\ wpc'[w] \in {"starting", "gate"} => wpc[w] \in {"starting", "gate"}
    PROVE  OneWorker(k)'
BY DEF OneWorker, Untouched

(***************************************************************************)
(* On a home served once every step keeps a gate command to one worker.    *)
(***************************************************************************)
LEMMA OneWorkerStep ==
    ASSUME NEW k \in GateCmd, IInv, AInv, [Next]_vars, ~Restarted, ~Restarted'
    PROVE  OneWorker(k)'
<1> USE CommandPlaneAssumption, CmdFacts
   DEF rows, service, tick, mem, workers, runs, IInv, TypeOK
<1>0. OneWorker(k)
  BY DEF AInv
<1> USE <1>0
<1>1. ASSUME NEW s \in Server, StartServe(s) PROVE OneWorker(k)'
  <2>1. \A t \in Server \ {s} : pc[t] = "off"
    BY <1>1 DEF StartServe, Restarted, TickTypes
  <2>2. AllOff
    BY <1>1, <2>1 DEF StartServe, AllOff
  <2>3. status[k] = "none" /\ appliedAt' = appliedAt /\ wpc' = wpc
    BY <1>1, <2>2 DEF StartServe, AInv
  <2>4. status'[k] = "none" /\ \A t \in Server : pc'[t] # "popen"
    BY <1>1, <2>1, <2>3 DEF StartServe, RequeueClaimed, TickTypes
  <2> QED
    BY <2>3, <2>4 DEF OneWorker, Untouched
<1>2. ASSUME NEW s \in Server, Claim(s) PROVE OneWorker(k)'
  <2>1. \A t \in Server \ {s} : pc'[t] = pc[t] /\ cur'[t] = cur[t]
    BY <1>2 DEF Claim, AfterSpawn, TickTypes
  <2>2. appliedAt' = appliedAt /\ wpc' = wpc
    BY <1>2 DEF Claim
  <2>3. CASE status[cur[s]] = "accepted"
    <3>1. cur[s] \in Cmd /\ status' = [status EXCEPT ![cur[s]] = "claimed"]
      BY <1>2, <2>3 DEF Claim, TicksWellFormed
    <3>2. pc'[s] = "popen" /\ cur'[s] = cur[s]
      BY <1>2, <2>3 DEF Claim, TickTypes
    <3>3. CASE cur[s] = k
      <4>1. status'[k] = "claimed" /\ Untouched(k)
        BY <2>3, <3>1, <3>3 DEF StoreTypes, OneWorker
      <4> QED
        BY <2>2, <4>1 DEF OneWorker, Untouched
    <3>4. CASE cur[s] # k
      <4>1. status'[k] = status[k]
        BY <3>1, <3>4 DEF StoreTypes
      <4>2. \A t \in Server : pc'[t] = "popen" /\ cur'[t] = k => pc[t] = "popen" /\ cur[t] = k
        BY <2>1, <3>2, <3>4
      <4> QED
        BY <2>2, <4>1, <4>2, OneWorkerKept
    <3> QED
      BY <3>3, <3>4
  <2>4. CASE status[cur[s]] # "accepted"
    <3>1. status' = status /\ pc'[s] # "popen"
      BY <1>2, <2>4 DEF Claim, AfterSpawn, TickTypes, Phases
    <3>2. \A t \in Server : pc'[t] = "popen" /\ cur'[t] = k => pc[t] = "popen" /\ cur[t] = k
      BY <2>1, <3>1
    <3> QED
      BY <2>2, <3>1, <3>2, OneWorkerKept
  <2> QED
    BY <2>3, <2>4
<1>3. ASSUME NEW s \in Server, Popen(s) PROVE OneWorker(k)'
  <2> DEFINE new == <<cur[s], gen[s]>>
  <2>1. \A t \in Server : pc'[t] # "popen"
    <3>1. pc'[s] # "popen"
      BY <1>3 DEF Popen, AfterSpawn, TickTypes, Phases
    <3>2. \A t \in Server \ {s} : pc[t] = "off" /\ pc'[t] = pc[t]
      BY <1>3 DEF Popen, AfterSpawn, Restarted, TickTypes
    <3> QED
      BY <3>1, <3>2
  <2>2. status' = status /\ appliedAt' = appliedAt
    BY <1>3 DEF Popen
  <2>3. wpc' = [wpc EXCEPT ![new] = "starting"]
    BY <1>3 DEF Popen
  <2>4. CASE cur[s] = k
    <3>1. Untouched(k) /\ status[k] \notin {"none", "accepted"}
      BY <1>3, <2>4 DEF Popen, OneWorker
    <3>2. \A w \in Worker : w[1] = k /\ wpc'[w] # "none" => w = new
      BY <2>3, <3>1 DEF Untouched, WorkerTypes
    <3> QED
      BY <2>1, <2>2, <3>1, <3>2 DEF OneWorker, Untouched
  <2>5. CASE cur[s] # k
    <3>1. \A w \in Worker : w[1] = k => wpc'[w] = wpc[w]
      BY <2>3, <2>5 DEF WorkerTypes
    <3> QED
      BY <2>1, <2>2, <3>1, OneWorkerKept
  <2> QED
    BY <2>4, <2>5
<1>4. ASSUME NEW c \in GateCmd, NEW r \in Run, AcceptGate(c, r)
      PROVE  OneWorker(k)'
  <2>1. status[c] = "none" /\ status' = [status EXCEPT ![c] = "accepted"]
    BY <1>4 DEF AcceptGate, RegisterCommand
  <2>2. status'[k] \in {"none", "accepted"} => status[k] \in {"none", "accepted"}
    BY <2>1 DEF StoreTypes
  <2>3. pc' = pc /\ cur' = cur /\ wpc' = wpc /\ appliedAt' = appliedAt
    BY <1>4 DEF AcceptGate
  <2> QED
    BY <2>2, <2>3, OneWorkerKept
<1>5. ASSUME NEW w \in Worker, GateExecute(w) PROVE OneWorker(k)'
  <2>1. status' = status /\ pc' = pc /\ cur' = cur
    BY <1>5 DEF GateExecute
  <2>2. wpc[w] = "gate" /\ wpc'[w] \notin {"starting", "gate"}
        /\ \A v \in Worker \ {w} : wpc'[v] = wpc[v]
    BY <1>5 DEF GateExecute, Goto, Exit, WorkerTypes
  <2>3. CASE appliedAt'[k] = appliedAt[k]
    <3>1. \A v \in Worker : wpc'[v] \in {"starting", "gate"} => wpc'[v] = wpc[v]
      BY <2>2
    <3>2. \A v \in Worker : wpc'[v] # "none" => wpc[v] # "none"
      BY <2>2
    <3> QED
      BY <2>1, <2>3, <3>1, <3>2, OneWorkerKept
  <2>4. CASE appliedAt'[k] # appliedAt[k]
    <3>1. w[1] = k /\ appliedAt'[k] = appliedAt[k] \cup {gateNo[runOf[k]]}
      BY <1>5, <2>4 DEF GateExecute, RunTypes
    <3>2. gateNo[runOf[k]] \in 0..MaxGate
      BY <2>2, <3>1 DEF WorkersWellFormed, RowsWellFormed, RunTypes
    <3>3. appliedAt[k] = {}
      BY <2>2, <3>1 DEF OneWorker
    <3>4. /\ status[k] \notin {"none", "accepted"}
          /\ \A s \in Server : pc[s] = "popen" => cur[s] # k
      BY <2>2, <3>1 DEF OneWorker, Untouched
    <3>5. \A v \in Worker : v[1] = k /\ wpc[v] # "none" => v = w
      BY <2>2, <3>1 DEF OneWorker
    <3>6. \A v \in Worker : v[1] = k /\ wpc'[v] # "none" => v = w
      BY <2>2, <3>5
    <3> QED
      BY <2>1, <2>2, <3>1, <3>2, <3>3, <3>4, <3>6 DEF OneWorker, Untouched
  <2> QED
    BY <2>3, <2>4
<1>6. ASSUME NEW s \in Server, NEW c \in Cmd, Reap(s, c) PROVE OneWorker(k)'
  <2>1. status'[k] \in {"none", "accepted"} => status[k] \in {"none", "accepted"}
    BY <1>6 DEF Reap, CompleteCommand, StoreTypes
  <2>2. pc' = pc /\ cur' = cur /\ wpc' = wpc /\ appliedAt' = appliedAt
    BY <1>6 DEF Reap
  <2> QED
    BY <2>1, <2>2, OneWorkerKept
<1>7. ASSUME NEW s \in Server,
             \/ StopServe(s) \/ PollDone(s) \/ NextRunnable(s) \/ AcceptFreshDrive(s)
             \/ AcquireLease(s) \/ GatesDone(s) \/ TickFails(s)
             \/ \E c \in Cmd : TakeRow(s, c) \/ ReapFails(s, c)
      PROVE  OneWorker(k)'
  <2>1. status'[k] = status[k] /\ wpc' = wpc /\ appliedAt' = appliedAt
    BY <1>7
       DEF StopServe, PollDone, NextRunnable, AcceptFreshDrive, RegisterCommand,
              FreshCmds, AcquireLease, GatesDone, TickFails, TakeRow, ReapFails,
              StoreTypes
  <2>2. pc'[s] # "popen" /\ \A t \in Server \ {s} : pc'[t] = pc[t] /\ cur'[t] = cur[t]
    BY <1>7
       DEF StopServe, PollDone, NextRunnable, AcceptFreshDrive, AcquireLease,
              GatesDone, TickFails, AbandonTick, TakeRow, ReapFails, TickTypes
  <2> QED
    BY <2>1, <2>2, OneWorkerKept
<1>8. ASSUME NEW w \in Worker, Commit(w) \/ KillWorker(w) PROVE OneWorker(k)'
  <2>1. status'[k] \in {"none", "accepted"} => status[k] \in {"none", "accepted"}
    BY <1>8 DEF Commit, CompleteCommand, KillWorker, StoreTypes
  <2>2. pc' = pc /\ cur' = cur /\ appliedAt' = appliedAt
    BY <1>8 DEF Commit, KillWorker
  <2>3. \A v \in Worker : wpc'[v] # "none" => wpc'[v] = wpc[v]
    BY <1>8 DEF Commit, KillWorker, Exit, WorkerTypes
  <2> QED
    BY <2>1, <2>2, <2>3, OneWorkerKept
<1>9. ASSUME NEW w \in Worker,
             WorkerStart(w) \/ DriveCheck(w) \/ DriveWindow(w) \/ DriveState(w)
      PROVE  OneWorker(k)'
  <2>1. rows' = rows /\ pc' = pc /\ cur' = cur /\ appliedAt' = appliedAt
    BY <1>9 DEF WorkerStart, DriveCheck, DriveWindow, DriveState
  <2>2. \A v \in Worker \ {w} : wpc'[v] = wpc[v]
    BY <1>9
       DEF WorkerStart, DriveCheck, DriveWindow, DriveState, Goto, WorkerTypes
  <2>3. wpc[w] # "none"
    BY <1>9 DEF WorkerStart, DriveCheck, DriveWindow, DriveState
  <2>4. wpc'[w] \in {"starting", "gate"} => wpc[w] \in {"starting", "gate"}
    BY <1>9
       DEF WorkerStart, DriveCheck, DriveWindow, DriveState, Goto, WorkerTypes
  <2> QED
    BY <2>1, <2>2, <2>3, <2>4, OneWorkerKept
<1>10. CASE \/ UNCHANGED vars
           \/ \E r \in Run : AcceptPauseResume(r) \/ SwitchActive(r)
  <2>1. UNCHANGED <<status, pc, cur, wpc, appliedAt>>
    BY <1>10 DEF vars, AcceptPauseResume, SwitchActive
  <2> QED
    BY <2>1, OneWorkerKept
<1> QED
  BY <1>1, <1>2, <1>3, <1>4, <1>5, <1>6, <1>7, <1>8, <1>9, <1>10
     DEF Next, Tick, WorkerStep

(***************************************************************************)
(* Every step keeps AInv: a home served once was served once before, and   *)
(* a first start finds an empty store.                                     *)
(***************************************************************************)
LEMMA AppliedStep == IInv /\ AInv /\ [Next]_vars => AInv'
<1> SUFFICES ASSUME IInv, AInv, [Next]_vars PROVE AInv'
  OBVIOUS
<1>1. Restarted => Restarted'
  BY ProcessesStay DEF Restarted
<1>2. ASSUME ~Restarted', NEW k \in GateCmd PROVE OneWorker(k)'
  BY <1>1, <1>2, OneWorkerStep
<1> QED
  BY <1>2, NothingBeforeServe DEF AInv

(***************************************************************************)
(* A home starts with no server, no command and nothing watched.           *)
(***************************************************************************)
LEMMA WatchInit == Init => WInv /\ AInv
BY CmdFacts, CommandPlaneAssumption
   DEF Init, WInv, RowsOfKind, Spawning, OneUp, WatchedExists, ClaimedIsWatched,
       InFlightIsWatched, AInv, AllOff, OneWorker, Untouched, Up, Registered
-----------------------------------------------------------------------------
(***************************************************************************)
(* With one serve process at a time and no dropped tick, every claimed     *)
(* command has a worker that is about to be started or is watched, and     *)
(* every in-flight run a drive worker, across any number of restarts.      *)
(***************************************************************************)
THEOREM OneServerWatchesAll ==
    ASSUME MaxUp = 1, IsFiniteSet(Server)
    PROVE  Spec => []NothingIsUnwatched
<1>1. Init => WInv
  BY WatchInit
<1>2. IInv /\ WInv /\ [Next]_vars => WInv'
  BY RowsOfKindStep, OneUpStep, WatchedExistsStep, ClaimedStep, InFlightStep
     DEF WInv
<1>3. WInv => NothingIsUnwatched
  BY DEF WInv, NothingIsUnwatched
<1> QED
  BY <1>1, <1>2, <1>3, Invariance, PTL DEF Spec

(***************************************************************************)
(* On a home that was served once a human's decision is applied to one     *)
(* gate at most, whatever its worker and the reaper do.                    *)
(***************************************************************************)
THEOREM ServedOnceAppliesOnce == Spec => []AppliedOnceWithoutRestart
<1>1. Init => AInv
  BY WatchInit
<1>2. IInv /\ AInv /\ [Next]_vars => AInv'
  BY AppliedStep
<1>3. AInv => AppliedOnceWithoutRestart
  <2> SUFFICES ASSUME AInv, ~Restarted, NEW c \in GateCmd
               PROVE  Cardinality(appliedAt[c]) <= 1
    BY DEF AppliedOnceWithoutRestart
  <2>1. appliedAt[c] = {} \/ \E g \in 0..MaxGate : appliedAt[c] = {g}
    BY DEF AInv, OneWorker
  <2>2. CASE appliedAt[c] = {}
    BY <2>2, FS_EmptySet
  <2>3. ASSUME NEW g \in 0..MaxGate, appliedAt[c] = {g}
        PROVE  Cardinality(appliedAt[c]) <= 1
    BY <2>3, FS_Singleton
  <2> QED
    BY <2>1, <2>2, <2>3
<1> QED
  BY <1>1, <1>2, <1>3, Invariance, PTL DEF Spec
=============================================================================
