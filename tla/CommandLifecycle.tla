-------------------------- MODULE CommandLifecycle --------------------------
(***************************************************************************)
(* What the service plane promises about one persisted command (the status *)
(* query of tracks/supervisor/service.py and the table of db.py): once it  *)
(* is accepted it is open until exactly one outcome is recorded, and that  *)
(* outcome is never replaced or taken back.  Claims, worker crashes,       *)
(* restarts and requeues are invisible at this level.                      *)
(***************************************************************************)
CONSTANT Cmd

VARIABLE outcome

Outcomes == {"none", "open", "completed", "failed"}

TypeOK == outcome \in [Cmd -> Outcomes]

Init == outcome = [c \in Cmd |-> "none"]

Move(c, from, to) ==
    /\ outcome[c] = from
    /\ outcome' = [outcome EXCEPT ![c] = to]

Accept(c) == Move(c, "none", "open")

Decide(c) == Move(c, "open", "completed") \/ Move(c, "open", "failed")

Next == \E c \in Cmd : Accept(c) \/ Decide(c)

Spec == Init /\ [][Next]_outcome
=============================================================================
