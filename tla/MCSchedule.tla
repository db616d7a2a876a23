----------------------------- MODULE MCSchedule -----------------------------
(***************************************************************************)
(* Small instances of Schedule: feature runs and hotfixes that preempt     *)
(* them.  The queue needs no bound where no run is created again.          *)
(***************************************************************************)
EXTENDS Schedule

\* Without is what the list comprehension of on_run_terminal computes.
ASSUME WithoutFilters ==
    \A q \in SeqOf(Run, 4), r \in Run :
        Without(q, r) = SelectSeq(q, LAMBDA x : x # r)
=============================================================================
