--------------------------- MODULE PublishProofs ---------------------------
(***************************************************************************)
(* What Publish guarantees for every plan of operations and any number of  *)
(* candidates, previews and changes by others: no push without authority,  *)
(* nothing recorded as published that was not on the remote, and no run    *)
(* released over an unfinished batch.                                      *)
(***************************************************************************)
EXTENDS Publish, TLAPS

InBatch == drv.at \in {"plan", "read", "push", "confirm"}

(***************************************************************************)
(* Where the driver is tells which command is pending, and the pending     *)
(* command where the projection is.                                        *)
(***************************************************************************)
PlacesMatch ==
    /\ drv.at = "preview" => s.pending = "generate_preview"
    /\ drv.at = "rollback" => s.pending = "rollback_stage"
    /\ drv.at = "authority" \/ InBatch => s.pending = "execute_publish"
    /\ drv.at = "close" => s.pending = "close_milestone"
    /\ drv.at = "tail" => s.sub \in {"PUBLISHING", "CLOSING"}
    /\ ~Alive => Resting

PendingMatches ==
    /\ s.pending = "generate_preview" => s.sub = "PREVIEWING"
    /\ s.pending = "rollback_stage" => s.target # "none"
    /\ s.pending = "close_milestone" => s.sub \in {"PUBLISHING", "CLOSING"}
    /\ s.pending = "execute_publish" =>
          /\ s.done # Ops
          /\ \/ s.sub = "AWAITING_RELEASE"
             \/ s.stage = "M-PUBLISH" /\ s.sub = "PUBLISHING" /\ s.started

(***************************************************************************)
(* A return in progress, and the exit flag a return carries along.         *)
(***************************************************************************)
ReturnsMatch ==
    /\ s.sub = "AWAITING_RELEASE" =>
          s.stage = "M-RELEASE" /\ log.planned = {} /\ s.done = {}
    /\ s.target # "none" => s.sub = "RETURNED" /\ log.staled
    /\ s.target = "M-PUBLISH" => s.stage = "M-MILESTONE"
    /\ s.target # "M-MILESTONE"
    /\ s.stage = "M-MILESTONE" => ~s.exited

(***************************************************************************)
(* What authorises the batch the driver is in.                             *)
(***************************************************************************)
Authorised ==
    /\ log.of <= s.candidate
    /\ InBatch =>
          /\ log.preview > 0 /\ log.of = s.candidate /\ log.decided = "release"
          /\ \A j \in 1..drv.op - 1 : log.status[j] = "ok"
    /\ drv.at \in {"read", "push", "confirm"} =>
          drv.op \in log.planned /\ s.started

(***************************************************************************)
(* The remote never shows an object of the preview that `held' has missed. *)
(***************************************************************************)
HeldIsComplete ==
    \A i \in Ops :
        /\ remote[i] = Object(i) => i \in held
        /\ \A n \in 1..MaxPreviews : remote[i] = Product(n) => n <= log.preview

(***************************************************************************)
(* The two judgments of a batch: the last status of each operation, read   *)
(* from the log, and the projected set that only grows.                    *)
(***************************************************************************)
JudgmentsAgree ==
    /\ \A i \in Ops : log.status[i] = "ok" =>
          /\ log.decided = "release" /\ i \in held
          /\ log.of = s.candidate => i \in s.done
    /\ Len(Plan) \in s.done => s.done = Ops
    /\ drv.at = "tail" => BatchTerminal

PInv ==
    /\ TypeOK
    /\ PlacesMatch
    /\ PendingMatches
    /\ ReturnsMatch
    /\ Authorised
    /\ HeldIsComplete
    /\ JudgmentsAgree
    /\ ReleasedMeansPublished
-----------------------------------------------------------------------------
(***************************************************************************)
(* Operations are counted from one to the length of a plan that has some.  *)
(***************************************************************************)
LEMMA PlanFacts ==
    /\ Len(Plan) \in Nat \ {0}
    /\ Len(Plan) \in Ops
    /\ Ops \subseteq Nat
    /\ \A i \in Ops : Plan[i] \in {"merge", "sync", "tag"}
BY PublishAssumption DEF Ops

(***************************************************************************)
(* In a batch the projection counts the plan's last operation when it      *)
(* succeeds and not before: every earlier one is counted by then.          *)
(***************************************************************************)
LEMMA LastEndsBatch ==
    ASSUME PInv, drv.at \in {"read", "confirm"}
    PROVE  /\ ClearedByPublish(s) = s
           /\ drv.op \in Ops
           /\ s.done \cup {drv.op} = Ops <=> drv.op = Len(Plan)
<1> USE PlanFacts
    DEF PInv, TypeOK, PlacesMatch, PendingMatches, ReturnsMatch, Authorised,
        JudgmentsAgree, InBatch, States, Logs, Drivers
<1>1. s.pending = "execute_publish" /\ s.started /\ drv.op \in Ops
  OBVIOUS
<1>2. ClearedByPublish(s) = s
  BY <1>1 DEF ClearedByPublish
<1>3. s.done # Ops /\ Len(Plan) \notin s.done /\ s.done \subseteq Ops
  BY <1>1
<1>4. ASSUME drv.op = Len(Plan) PROVE s.done \cup {drv.op} = Ops
  <2>1. \A j \in 1..drv.op - 1 : j \in s.done
    BY <1>4 DEF Ops
  <2>2. \A j \in Ops : j \in 1..drv.op - 1 \/ j = drv.op
    BY <1>4 DEF Ops
  <2> QED
    BY SMTT(40), <1>1, <1>3, <2>1, <2>2
<1> QED
  BY <1>1, <1>2, <1>3, <1>4

(***************************************************************************)
(* What a successful operation does, field by field.                       *)
(***************************************************************************)
Succeeds ==
    /\ drv.at \in {"read", "confirm"} /\ drv.op \in Ops
    /\ remote[drv.op] = Object(drv.op)
    /\ s.pending = "execute_publish"
    /\ s'.done = s.done \cup {drv.op}
    /\ s'.done = Ops <=> drv.op = Len(Plan)
    /\ s'.pending = IF drv.op = Len(Plan) THEN "none" ELSE s.pending
    /\ s'.exited = IF drv.op = Len(Plan) THEN TRUE ELSE s.exited
    /\ s'.started = IF drv.op = Len(Plan) THEN FALSE ELSE s.started
    /\ s'.stage = s.stage /\ s'.sub = s.sub /\ s'.target = s.target
    /\ s'.candidate = s.candidate /\ s'.completed = s.completed
    /\ s' \in States
    /\ log' = [log EXCEPT !.status[drv.op] = "ok"]
    /\ drv' \in Drivers
    /\ drv'.at = IF drv.op = Len(Plan) THEN "top" ELSE "plan"
    /\ drv'.at = "plan" => drv'.op = drv.op + 1
    /\ UNCHANGED <<remote, meddles, held, tried>>

(***************************************************************************)
(* A remote that shows the object, read or read back, is a success.        *)
(***************************************************************************)
LEMMA SuccessProjects ==
    ASSUME PInv, ReadMatches \/ Confirm
    PROVE  Succeeds
<1>1. drv.at \in {"read", "confirm"} /\ remote[drv.op] = Object(drv.op) /\ Executed
  BY DEF ReadMatches, Confirm
<1>2. /\ drv.op \in Ops /\ ClearedByPublish(s) = s
      /\ s.done \cup {drv.op} = Ops <=> drv.op = Len(Plan)
  BY <1>1, LastEndsBatch
<1> USE DEF PInv, TypeOK, States, Drivers, PlacesMatch, InBatch
<1>3. s' = OnPublishExecuted(s, drv.op)
  BY <1>1, <1>2 DEF Executed
<1>4. drv' \in Drivers /\ drv'.at = (IF drv.op = Len(Plan) THEN "top" ELSE "plan")
      /\ (drv'.at = "plan" => drv'.op = drv.op + 1)
  <2>1. drv.op # Len(Plan) => drv.op + 1 \in Ops
    BY <1>2, PlanFacts DEF Ops
  <2> QED
    BY <1>1, <1>2, <2>1 DEF Executed
<1>5. s.pending = "execute_publish"
  BY <1>1
<1>6. /\ log' = [log EXCEPT !.status[drv.op] = "ok"]
      /\ UNCHANGED <<remote, meddles, held, tried>>
  BY <1>1 DEF Executed
<1>7. CASE drv.op = Len(Plan)
  <2>1. s' = [s EXCEPT !.done = Ops, !.status = "done", !.pending = "none",
                       !.exited = TRUE, !.started = FALSE]
    BY <1>2, <1>3, <1>7 DEF OnPublishExecuted, Cleared
  <2> QED
    BY <1>1, <1>2, <1>4, <1>5, <1>6, <1>7, <2>1 DEF Succeeds
<1>8. CASE drv.op # Len(Plan)
  <2>1. s' = [s EXCEPT !.done = @ \cup {drv.op}, !.status = "done"]
    BY <1>2, <1>3, <1>8 DEF OnPublishExecuted
  <2> QED
    BY <1>1, <1>2, <1>4, <1>5, <1>6, <1>8, <2>1 DEF Succeeds
<1> QED
  BY <1>7, <1>8

(***************************************************************************)
(* What the write-ahead record of an operation does: the projection is in  *)
(* a started batch, whether or not an earlier drive wrote the record.      *)
(***************************************************************************)
Plans ==
    /\ drv.at = "plan" /\ drv.op \in Ops
    /\ s.stage \in {"M-RELEASE", "M-PUBLISH"} /\ s.target = "none"
    /\ s.pending = "execute_publish"
    /\ s'.started /\ s'.pending = s.pending /\ s'.done = s.done
    /\ s'.stage = "M-PUBLISH" /\ s'.sub = "PUBLISHING" /\ s'.target = s.target
    /\ s'.exited => s.exited /\ s.stage = "M-PUBLISH" /\ s.sub = "PUBLISHING"
    /\ s'.candidate = s.candidate /\ s'.completed = s.completed
    /\ s' \in States
    /\ log' = [log EXCEPT !.planned = @ \cup {drv.op}]
    /\ drv' = [drv EXCEPT !.at = "read"]
    /\ UNCHANGED <<remote, meddles, held, tried>>

(***************************************************************************)
(* The record of an operation is written, or found, before the read.       *)
(***************************************************************************)
LEMMA PlanProjects == PInv /\ PlanOp => Plans
<1> SUFFICES ASSUME PInv, PlanOp PROVE Plans
  OBVIOUS
<1> USE DEF PInv, TypeOK, PlacesMatch, PendingMatches, ReturnsMatch, InBatch,
            States,
            Logs, Drivers, ReleaseStages
<1>1. s.pending = "execute_publish" /\ drv.op \in Ops /\ drv.at = "plan"
  BY DEF PlanOp
<1>2. s.stage \in {"M-RELEASE", "M-PUBLISH"} /\ s.target = "none"
  BY <1>1
<1>3. drv' = [drv EXCEPT !.at = "read"] /\ UNCHANGED <<remote, meddles, held, tried>>
  BY DEF PlanOp, Go
<1>4. CASE drv.op \in log.planned
  <2>1. s' = s /\ log' = log
    BY <1>4 DEF PlanOp
  <2>2. s.sub # "AWAITING_RELEASE"
    BY <1>4
  <2>3. log = [log EXCEPT !.planned = @ \cup {drv.op}]
    <3>1. log.planned \cup {drv.op} = log.planned
      BY <1>4
    <3> QED
      BY <3>1
  <2> QED
    BY <1>1, <1>2, <1>3, <2>1, <2>2, <2>3 DEF Plans
<1>5. CASE drv.op \notin log.planned
  <2>1. s' = OnPublishPlanned(s) /\ log' = [log EXCEPT !.planned = @ \cup {drv.op}]
    BY <1>5 DEF PlanOp
  <2>2. CASE s.stage = "M-RELEASE"
    BY <1>1, <1>2, <1>3, <2>1, <2>2 DEF OnPublishPlanned, Plans
  <2>3. CASE s.stage # "M-RELEASE"
    BY <1>1, <1>2, <1>3, <2>1, <2>3 DEF OnPublishPlanned, Plans
  <2> QED
    BY <2>2, <2>3
<1> QED
  BY <1>4, <1>5


(***************************************************************************)
(* Issuing a command: which one, where, and what it leaves alone.          *)
(***************************************************************************)
Issues ==
    /\ drv.at = "top" /\ drv' = [drv EXCEPT !.at = drv'.at]
    /\ UNCHANGED <<log, remote, meddles, held>>
    /\ \E c \in Commands :
          s' = [s EXCEPT !.pending = c, !.started = IF c = "execute_publish" THEN FALSE ELSE @]
    /\ \/ s'.pending = "generate_preview" /\ drv'.at = "preview"
             /\ s.sub = "PREVIEWING"
       \/ s'.pending = "execute_publish" /\ drv'.at = "authority"
             /\ s.sub = "AWAITING_RELEASE" /\ s.stage = "M-RELEASE"
       \/ s'.pending = "close_milestone" /\ drv'.at = "close"
             /\ s.sub \in {"PUBLISHING", "CLOSING"}
       \/ s'.pending = "rollback_stage" /\ drv'.at = "rollback"
             /\ s.sub = "RETURNED" /\ s.target # "none"

(* What an issued command is, by what decide() answers.                    *)
LEMMA IssueProjects ==
    ASSUME TypeOK, Issue
    PROVE  Issues
<1> DEFINE c == Decide(s)
<1>1. /\ drv.at = "top" /\ s' = OnCommandIssued(s, c) /\ c # "none"
      /\ drv' = [drv EXCEPT !.at = Handler[c]]
      /\ UNCHANGED <<log, remote, meddles, held>>
  BY DEF Issue, Go
<1>2. \/ c = "generate_preview" /\ s.sub = "PREVIEWING"
      \/ c = "execute_publish" /\ s.sub = "AWAITING_RELEASE" /\ s.stage = "M-RELEASE"
      \/ c = "close_milestone" /\ s.sub \in {"PUBLISHING", "CLOSING"}
      \/ c = "rollback_stage" /\ s.sub = "RETURNED" /\ s.target # "none"
  BY <1>1 DEF Decide, ReleaseCommand
<1> HIDE DEF c
<1>3. /\ c \in Commands
      /\ Handler[c] = CASE c = "generate_preview" -> "preview"
                        [] c = "execute_publish" -> "authority"
                        [] c = "close_milestone" -> "close" [] OTHER -> "rollback"
  BY <1>2 DEF Handler, Commands
<1>4. s'.pending = c /\ drv'.at = Handler[c]
  BY <1>1 DEF OnCommandIssued, TypeOK, States, Drivers
<1>5. s' = [s EXCEPT !.pending = c, !.started = IF c = "execute_publish" THEN FALSE ELSE @]
  BY <1>1 DEF OnCommandIssued
<1>6. drv' = [drv EXCEPT !.at = drv'.at]
  BY <1>1, <1>4
<1> QED
  BY <1>1, <1>2, <1>3, <1>4, <1>5, <1>6 DEF Issues

(***************************************************************************)
(* Every step keeps place, command and projection in agreement.            *)
(***************************************************************************)
LEMMA PlacesStep == PInv /\ [Next]_vars => PlacesMatch'
<1> SUFFICES ASSUME PInv, [Next]_vars PROVE PlacesMatch'
  OBVIOUS
<1> USE DEF PInv, TypeOK, States, Logs, Drivers, PlacesMatch, PendingMatches,
            ReturnsMatch, InBatch, Resting, Alive
<1>1. CASE Start
  BY <1>1 DEF Start, Go, Handler, Commands
<1>2. CASE Issue
  <2>1. drv'.at = Handler[Decide(s)] /\ s'.pending = Decide(s)
    BY <1>2 DEF Issue, Go, OnCommandIssued
  <2>2. Decide(s) \in Commands /\ Alive
    BY <1>2 DEF Issue, Decide, ReleaseCommand, Commands
  <2>3. s'.sub = s.sub /\ s'.completed = s.completed
    BY <1>2 DEF Issue, OnCommandIssued
  <2> QED
    BY <2>1, <2>2, <2>3 DEF Handler, Commands
<1>3. CASE Park
  BY <1>3 DEF Park, Go
<1>4. CASE Drift
  BY <1>4 DEF Drift, Go, Cleared
<1>5. CASE Crash
  BY <1>5 DEF Crash
<1>6. CASE PreviewIncomplete
  BY <1>6 DEF PreviewIncomplete, Go, Cleared
<1>7. CASE PreviewNew
  BY <1>7 DEF PreviewNew, Go, Cleared, OnReleasePreviewed
<1>8. CASE PreviewUnchanged
  BY <1>8 DEF PreviewUnchanged, Go, Cleared
<1>9. CASE Rollback
  BY <1>9
     DEF Rollback, Go, Cleared, OnStageRolledBack, EntrySubstate, Verify,
         ReleaseStages
<1>10. CASE Authorise
  BY <1>10 DEF Authorise, Approved
<1>11. CASE Refuse
  BY <1>11 DEF Refuse, Go
<1>12. CASE CensusFails
  BY <1>12 DEF CensusFails, Go, Cleared
<1>13. CASE FailPreflight
  BY <1>13 DEF FailPreflight, Go, Cleared, ClearedByPublish, OnPublishFailed
<1>14. CASE PlanOp
  <2>1. Plans
    BY <1>14, PlanProjects
  <2> QED
    BY <2>1 DEF Plans
<1>15. CASE ReadMatches
  <2>1. Succeeds
    BY <1>15, SuccessProjects
  <2> QED
    BY <2>1 DEF Succeeds
<1>16. CASE ReadMayPush
  BY <1>16 DEF ReadMayPush, Go
<1>17. CASE ReadFails
  BY <1>17 DEF ReadFails, Failed, OnPublishFailed, ClearedByPublish, Cleared
<1>18. CASE PushLands
  BY <1>18 DEF PushLands
<1>19. CASE PushLost
  BY <1>19 DEF PushLost
<1>20. CASE Confirm
  <2>1. Succeeds
    BY <1>20, SuccessProjects
  <2> QED
    BY <2>1 DEF Succeeds
<1>21. CASE Unconfirmed
  BY <1>21 DEF Unconfirmed, Failed, OnPublishFailed, ClearedByPublish, Cleared
<1>22. CASE Close
  BY <1>22 DEF Close, Go, Cleared
<1>23. CASE TailStep
  BY <1>23 DEF TailStep, Go, Cleared, OnTraceClosed, TailLength
<1>24. CASE TailFails
  BY <1>24 DEF TailFails, Go, Cleared
<1>25. CASE Complete
  BY <1>25 DEF Complete, Go, Cleared, TailLength
<1>26. ASSUME NEW action \in {"release", "delay", "return"}, HumanDecide(action)
       PROVE  PlacesMatch'
  BY <1>26 DEF HumanDecide, Cleared, OnReleaseDecided
<1>27. ASSUME NEW to \in ReleaseStages \cup {Verify}, HumanReturn(to)
       PROVE  PlacesMatch'
  BY <1>27 DEF HumanReturn, Cleared, Upstream, Verify, ReleaseStages
<1>28. CASE HumanAbandon
  BY <1>28 DEF HumanAbandon, Cleared
<1>29. ASSUME NEW c \in 1..MaxCandidates, Rewalk(c) PROVE PlacesMatch'
  BY <1>29
     DEF Rewalk, Go, Cleared, OnStageEntered, OnCandidateFrozen, EntrySubstate,
         Verify, ReleaseStages
<1>30. ASSUME NEW i \in Ops, NEW v \in {Foreign, Untouched(i)}, Meddle(i, v)
       PROVE  PlacesMatch'
  BY <1>30 DEF Meddle, Untouched
<1>31. CASE UNCHANGED vars
  BY <1>31 DEF vars
<1> HIDE DEF PInv, TypeOK, States, Logs, Drivers, PlacesMatch, PendingMatches,
             ReturnsMatch, InBatch, Resting, Alive
<1> QED
  BY <1>1, <1>2, <1>3, <1>4, <1>5, <1>6, <1>7, <1>8, <1>9, <1>10, <1>11, <1>12,
     <1>13, <1>14, <1>15, <1>16, <1>17, <1>18, <1>19, <1>20, <1>21, <1>22,
     <1>23, <1>24, <1>25, <1>26, <1>27, <1>28, <1>29, <1>30, <1>31
     DEF Next, DriverStep

(***************************************************************************)
(* A command is issued where it belongs, and events elsewhere clear it.    *)
(***************************************************************************)
LEMMA PendingStep == PInv /\ [Next]_vars => PendingMatches'
<1> SUFFICES ASSUME PInv, [Next]_vars PROVE PendingMatches'
  OBVIOUS
<1> USE PlanFacts
   DEF PInv, TypeOK, States, Logs, Drivers, PlacesMatch, PendingMatches,
       ReturnsMatch, InBatch
<1>1. CASE Start
  BY <1>1 DEF Start, Go, Handler, Commands
<1>2. CASE Issue
  <2>1. Issues
    BY <1>2, IssueProjects DEF PInv
  <2> QED
    BY <2>1 DEF Issues
<1>3. CASE Park
  BY <1>3 DEF Park, Go
<1>4. CASE Drift
  BY <1>4 DEF Drift, Go, Cleared
<1>5. CASE Crash
  BY <1>5 DEF Crash
<1>6. CASE PreviewIncomplete
  BY <1>6 DEF PreviewIncomplete, Go, Cleared
<1>7. CASE PreviewNew
  BY <1>7 DEF PreviewNew, Go, Cleared, OnReleasePreviewed
<1>8. CASE PreviewUnchanged
  BY <1>8 DEF PreviewUnchanged, Go, Cleared
<1>9. CASE Rollback
  BY <1>9
     DEF Rollback, Go, Cleared, OnStageRolledBack, EntrySubstate, Verify,
         ReleaseStages
<1>10. CASE Authorise
  BY <1>10 DEF Authorise, Approved
<1>11. CASE Refuse
  BY <1>11 DEF Refuse, Go
<1>12. CASE CensusFails
  BY <1>12 DEF CensusFails, Go, Cleared
<1>13. CASE FailPreflight
  BY <1>13 DEF FailPreflight, Go, Cleared, ClearedByPublish, OnPublishFailed
<1>14. CASE PlanOp
  <2>1. Plans
    BY <1>14, PlanProjects
  <2> QED
    BY <2>1 DEF Plans
<1>15. CASE ReadMatches
  <2>1. Succeeds
    BY <1>15, SuccessProjects
  <2> QED
    BY <2>1 DEF Succeeds
<1>16. CASE ReadMayPush
  BY <1>16 DEF ReadMayPush, Go
<1>17. CASE ReadFails
  BY <1>17 DEF ReadFails, Failed, OnPublishFailed, ClearedByPublish, Cleared
<1>18. CASE PushLands
  BY <1>18 DEF PushLands
<1>19. CASE PushLost
  BY <1>19 DEF PushLost
<1>20. CASE Confirm
  <2>1. Succeeds
    BY <1>20, SuccessProjects
  <2> QED
    BY <2>1 DEF Succeeds
<1>21. CASE Unconfirmed
  BY <1>21 DEF Unconfirmed, Failed, OnPublishFailed, ClearedByPublish, Cleared
<1>22. CASE Close
  BY <1>22 DEF Close, Go, Cleared
<1>23. CASE TailStep
  BY <1>23 DEF TailStep, Go, Cleared, OnTraceClosed, TailLength
<1>24. CASE TailFails
  BY <1>24 DEF TailFails, Go, Cleared
<1>25. CASE Complete
  BY <1>25 DEF Complete, Go, Cleared, TailLength
<1>26. ASSUME NEW action \in {"release", "delay", "return"}, HumanDecide(action)
       PROVE  PendingMatches'
  BY <1>26 DEF HumanDecide, Cleared, OnReleaseDecided
<1>27. ASSUME NEW to \in ReleaseStages \cup {Verify}, HumanReturn(to)
       PROVE  PendingMatches'
  BY <1>27 DEF HumanReturn, Cleared, Upstream, Verify, ReleaseStages
<1>28. CASE HumanAbandon
  BY <1>28 DEF HumanAbandon, Cleared
<1>29. ASSUME NEW c \in 1..MaxCandidates, Rewalk(c) PROVE PendingMatches'
  BY <1>29
     DEF Rewalk, Go, Cleared, OnStageEntered, OnCandidateFrozen, EntrySubstate,
         Verify, ReleaseStages
<1>30. ASSUME NEW i \in Ops, NEW v \in {Foreign, Untouched(i)}, Meddle(i, v)
       PROVE  PendingMatches'
  BY <1>30 DEF Meddle, Untouched
<1>31. CASE UNCHANGED vars
  BY <1>31 DEF vars
<1> HIDE DEF PInv, TypeOK, States, Logs, Drivers, PlacesMatch, PendingMatches,
             ReturnsMatch, InBatch
<1> QED
  BY <1>1, <1>2, <1>3, <1>4, <1>5, <1>6, <1>7, <1>8, <1>9, <1>10, <1>11, <1>12,
     <1>13, <1>14, <1>15, <1>16, <1>17, <1>18, <1>19, <1>20, <1>21, <1>22,
     <1>23, <1>24, <1>25, <1>26, <1>27, <1>28, <1>29, <1>30, <1>31
     DEF Next, DriverStep

(***************************************************************************)
(* Every step keeps a return, and the exit flag, where they belong.        *)
(***************************************************************************)
LEMMA ReturnsStep == PInv /\ [Next]_vars => ReturnsMatch'
<1> SUFFICES ASSUME PInv, [Next]_vars PROVE ReturnsMatch'
  OBVIOUS
<1> USE DEF PInv, TypeOK, States, Logs, Drivers, PlacesMatch, PendingMatches,
            ReturnsMatch, InBatch, Authorised
<1>1. CASE Start
  BY <1>1 DEF Start, Go, Handler, Commands
<1>2. CASE Issue
  BY <1>2
     DEF Issue, Go, Handler, Commands, OnCommandIssued, Decide, ReleaseCommand
<1>3. CASE Park
  BY <1>3 DEF Park, Go
<1>4. CASE Drift
  BY <1>4 DEF Drift, Go, Cleared
<1>5. CASE Crash
  BY <1>5 DEF Crash
<1>6. CASE PreviewIncomplete
  BY <1>6 DEF PreviewIncomplete, Go, Cleared
<1>7. CASE PreviewNew
  BY <1>7 DEF PreviewNew, Go, Cleared, OnReleasePreviewed
<1>8. CASE PreviewUnchanged
  BY <1>8 DEF PreviewUnchanged, Go, Cleared
<1>9. CASE Rollback
  BY <1>9
     DEF Rollback, Go, Cleared, OnStageRolledBack, EntrySubstate, Verify,
         ReleaseStages
<1>10. CASE Authorise
  BY <1>10 DEF Authorise, Approved
<1>11. CASE Refuse
  BY <1>11 DEF Refuse, Go
<1>12. CASE CensusFails
  BY <1>12 DEF CensusFails, Go, Cleared
<1>13. CASE FailPreflight
  BY <1>13 DEF FailPreflight, Go, Cleared, ClearedByPublish, OnPublishFailed
<1>14. CASE PlanOp
  <2>1. Plans
    BY <1>14, PlanProjects
  <2> QED
    BY <2>1 DEF Plans
<1>15. CASE ReadMatches
  <2>1. Succeeds
    BY <1>15, SuccessProjects
  <2> QED
    BY <2>1 DEF Succeeds
<1>16. CASE ReadMayPush
  BY <1>16 DEF ReadMayPush, Go
<1>17. CASE ReadFails
  BY <1>17 DEF ReadFails, Failed, OnPublishFailed, ClearedByPublish, Cleared
<1>18. CASE PushLands
  BY <1>18 DEF PushLands
<1>19. CASE PushLost
  BY <1>19 DEF PushLost
<1>20. CASE Confirm
  <2>1. Succeeds
    BY <1>20, SuccessProjects
  <2> QED
    BY <2>1 DEF Succeeds
<1>21. CASE Unconfirmed
  BY <1>21 DEF Unconfirmed, Failed, OnPublishFailed, ClearedByPublish, Cleared
<1>22. CASE Close
  BY <1>22 DEF Close, Go, Cleared
<1>23. CASE TailStep
  BY <1>23 DEF TailStep, Go, Cleared, OnTraceClosed, TailLength
<1>24. CASE TailFails
  BY <1>24 DEF TailFails, Go, Cleared
<1>25. CASE Complete
  BY <1>25 DEF Complete, Go, Cleared, TailLength
<1>26. ASSUME NEW action \in {"release", "delay", "return"}, HumanDecide(action)
       PROVE  ReturnsMatch'
  BY <1>26 DEF HumanDecide, Cleared, OnReleaseDecided
<1>27. ASSUME NEW to \in ReleaseStages \cup {Verify}, HumanReturn(to)
       PROVE  ReturnsMatch'
  BY <1>27 DEF HumanReturn, Cleared, Upstream, Verify, ReleaseStages
<1>28. CASE HumanAbandon
  BY <1>28 DEF HumanAbandon, Cleared
<1>29. ASSUME NEW c \in 1..MaxCandidates, Rewalk(c) PROVE ReturnsMatch'
  BY <1>29
     DEF Rewalk, Go, Cleared, OnStageEntered, OnCandidateFrozen, EntrySubstate,
         Verify, ReleaseStages
<1>30. ASSUME NEW i \in Ops, NEW v \in {Foreign, Untouched(i)}, Meddle(i, v)
       PROVE  ReturnsMatch'
  BY <1>30 DEF Meddle, Untouched
<1>31. CASE UNCHANGED vars
  BY <1>31 DEF vars
<1> HIDE DEF PInv, TypeOK, States, Logs, Drivers, PlacesMatch, PendingMatches,
             ReturnsMatch, InBatch, Authorised
<1> QED
  BY <1>1, <1>2, <1>3, <1>4, <1>5, <1>6, <1>7, <1>8, <1>9, <1>10, <1>11, <1>12,
     <1>13, <1>14, <1>15, <1>16, <1>17, <1>18, <1>19, <1>20, <1>21, <1>22,
     <1>23, <1>24, <1>25, <1>26, <1>27, <1>28, <1>29, <1>30, <1>31
     DEF Next, DriverStep

(***************************************************************************)
(* A batch starts approved and goes on after a success only.               *)
(***************************************************************************)
LEMMA AuthorisedStep == PInv /\ [Next]_vars => Authorised'
<1> SUFFICES ASSUME PInv, [Next]_vars PROVE Authorised'
  OBVIOUS
<1> USE PlanFacts
   DEF PInv, TypeOK, States, Logs, Drivers, PlacesMatch, PendingMatches,
       ReturnsMatch, InBatch, Authorised, Resting, Ops
<1>1. CASE Start
  BY <1>1 DEF Start, Go, Handler, Commands
<1>2. CASE Issue
  <2>1. Issues
    BY <1>2, IssueProjects DEF PInv
  <2> QED
    BY <2>1 DEF Issues
<1>3. CASE Park
  BY <1>3 DEF Park, Go
<1>4. CASE Drift
  BY <1>4 DEF Drift, Go, Cleared
<1>5. CASE Crash
  BY <1>5 DEF Crash
<1>6. CASE PreviewIncomplete
  BY <1>6 DEF PreviewIncomplete, Go, Cleared
<1>7. CASE PreviewNew
  BY <1>7 DEF PreviewNew, Go, Cleared, OnReleasePreviewed
<1>8. CASE PreviewUnchanged
  BY <1>8 DEF PreviewUnchanged, Go, Cleared
<1>9. CASE Rollback
  BY <1>9
     DEF Rollback, Go, Cleared, OnStageRolledBack, EntrySubstate, Verify,
         ReleaseStages
<1>10. CASE Authorise
  BY <1>10 DEF Authorise, Approved
<1>11. CASE Refuse
  BY <1>11 DEF Refuse, Go
<1>12. CASE CensusFails
  BY <1>12 DEF CensusFails, Go, Cleared
<1>13. CASE FailPreflight
  BY <1>13 DEF FailPreflight, Go, Cleared, ClearedByPublish, OnPublishFailed
<1>14. CASE PlanOp
  <2>1. Plans
    BY <1>14, PlanProjects
  <2> QED
    BY <2>1 DEF Plans
<1>15. CASE ReadMatches
  <2>1. Succeeds
    BY <1>15, SuccessProjects
  <2> QED
    BY <2>1 DEF Succeeds
<1>16. CASE ReadMayPush
  BY <1>16 DEF ReadMayPush, Go
<1>17. CASE ReadFails
  BY <1>17 DEF ReadFails, Failed, OnPublishFailed, ClearedByPublish, Cleared
<1>18. CASE PushLands
  BY <1>18 DEF PushLands
<1>19. CASE PushLost
  BY <1>19 DEF PushLost
<1>20. CASE Confirm
  <2>1. Succeeds
    BY <1>20, SuccessProjects
  <2> QED
    BY <2>1 DEF Succeeds
<1>21. CASE Unconfirmed
  BY <1>21 DEF Unconfirmed, Failed, OnPublishFailed, ClearedByPublish, Cleared
<1>22. CASE Close
  BY <1>22 DEF Close, Go, Cleared
<1>23. CASE TailStep
  BY <1>23 DEF TailStep, Go, Cleared, OnTraceClosed, TailLength
<1>24. CASE TailFails
  BY <1>24 DEF TailFails, Go, Cleared
<1>25. CASE Complete
  BY <1>25 DEF Complete, Go, Cleared, TailLength
<1>26. ASSUME NEW action \in {"release", "delay", "return"}, HumanDecide(action)
       PROVE  Authorised'
  BY <1>26 DEF HumanDecide, Cleared, OnReleaseDecided
<1>27. ASSUME NEW to \in ReleaseStages \cup {Verify}, HumanReturn(to)
       PROVE  Authorised'
  BY <1>27 DEF HumanReturn, Cleared, Upstream, Verify, ReleaseStages
<1>28. CASE HumanAbandon
  BY <1>28 DEF HumanAbandon, Cleared
<1>29. ASSUME NEW c \in 1..MaxCandidates, Rewalk(c) PROVE Authorised'
  BY <1>29
     DEF Rewalk, Go, Cleared, OnStageEntered, OnCandidateFrozen, EntrySubstate,
         Verify, ReleaseStages
<1>30. ASSUME NEW i \in Ops, NEW v \in {Foreign, Untouched(i)}, Meddle(i, v)
       PROVE  Authorised'
  BY <1>30 DEF Meddle, Untouched
<1>31. CASE UNCHANGED vars
  BY <1>31 DEF vars
<1> HIDE DEF PInv, TypeOK, States, Logs, Drivers, PlacesMatch, PendingMatches,
             ReturnsMatch, InBatch, Authorised, Resting, Ops
<1> QED
  BY <1>1, <1>2, <1>3, <1>4, <1>5, <1>6, <1>7, <1>8, <1>9, <1>10, <1>11, <1>12,
     <1>13, <1>14, <1>15, <1>16, <1>17, <1>18, <1>19, <1>20, <1>21, <1>22,
     <1>23, <1>24, <1>25, <1>26, <1>27, <1>28, <1>29, <1>30, <1>31
     DEF Next, DriverStep

(***************************************************************************)
(* The remote gets an object of the preview from a push alone.             *)
(***************************************************************************)
LEMMA HeldStep == PInv /\ [Next]_vars => HeldIsComplete'
<1> SUFFICES ASSUME PInv, [Next]_vars PROVE HeldIsComplete'
  OBVIOUS
<1> USE PlanFacts
   DEF PInv, TypeOK, States, Logs, Drivers, PlacesMatch, PendingMatches,
       ReturnsMatch, InBatch, Authorised, HeldIsComplete, Object, Candidate,
       Product, Foreign, Old, Absent
<1>1. CASE Start
  BY <1>1 DEF Start, Go, Handler, Commands
<1>2. CASE Issue
  <2>1. Issues
    BY <1>2, IssueProjects DEF PInv
  <2> QED
    BY <2>1 DEF Issues
<1>3. CASE Park
  BY <1>3 DEF Park, Go
<1>4. CASE Drift
  BY <1>4 DEF Drift, Go, Cleared
<1>5. CASE Crash
  BY <1>5 DEF Crash
<1>6. CASE PreviewIncomplete
  BY <1>6 DEF PreviewIncomplete, Go, Cleared
<1>7. CASE PreviewNew
  <2>1. remote' = remote /\ log'.preview = log.preview + 1 /\ log'.of = s.candidate
    BY <1>7 DEF PreviewNew
  <2>2. held' = {i \in Ops : Plan[i] # "sync" /\ remote[i] = Candidate(s.candidate)}
    BY <1>7 DEF PreviewNew
  <2>3. log.preview + 1 \in 1..MaxPreviews
    BY <1>7, PublishAssumption DEF PreviewNew
  <2>4. ASSUME NEW i \in Ops, Plan[i] = "sync"
        PROVE  remote[i] # Product(log.preview + 1)
    BY <2>3
  <2>5. ASSUME NEW i \in Ops, Plan[i] # "sync",
               remote[i] = Candidate(s.candidate)
        PROVE  i \in held'
    BY <2>2, <2>5
  <2>6. \A n \in 1..MaxPreviews : n <= log.preview => n <= log'.preview
    BY <2>1
  <2> QED
    BY <2>1, <2>4, <2>5, <2>6
<1>8. CASE PreviewUnchanged
  BY <1>8 DEF PreviewUnchanged, Go, Cleared
<1>9. CASE Rollback
  BY <1>9
     DEF Rollback, Go, Cleared, OnStageRolledBack, EntrySubstate, Verify,
         ReleaseStages
<1>10. CASE Authorise
  BY <1>10 DEF Authorise, Approved
<1>11. CASE Refuse
  BY <1>11 DEF Refuse, Go
<1>12. CASE CensusFails
  BY <1>12 DEF CensusFails, Go, Cleared
<1>13. CASE FailPreflight
  BY <1>13 DEF FailPreflight, Go, Cleared, ClearedByPublish, OnPublishFailed
<1>14. CASE PlanOp
  <2>1. Plans
    BY <1>14, PlanProjects
  <2> QED
    BY <2>1 DEF Plans
<1>15. CASE ReadMatches
  <2>1. Succeeds
    BY <1>15, SuccessProjects
  <2> QED
    BY <2>1 DEF Succeeds
<1>16. CASE ReadMayPush
  BY <1>16 DEF ReadMayPush, Go
<1>17. CASE ReadFails
  BY <1>17 DEF ReadFails, Failed, OnPublishFailed, ClearedByPublish, Cleared
<1>18. CASE PushLands
  BY SMTT(40), <1>18 DEF PushLands
<1>19. CASE PushLost
  BY <1>19 DEF PushLost
<1>20. CASE Confirm
  <2>1. Succeeds
    BY <1>20, SuccessProjects
  <2> QED
    BY <2>1 DEF Succeeds
<1>21. CASE Unconfirmed
  BY <1>21 DEF Unconfirmed, Failed, OnPublishFailed, ClearedByPublish, Cleared
<1>22. CASE Close
  BY <1>22 DEF Close, Go, Cleared
<1>23. CASE TailStep
  BY <1>23 DEF TailStep, Go, Cleared, OnTraceClosed, TailLength
<1>24. CASE TailFails
  BY <1>24 DEF TailFails, Go, Cleared
<1>25. CASE Complete
  BY <1>25 DEF Complete, Go, Cleared, TailLength
<1>26. ASSUME NEW action \in {"release", "delay", "return"}, HumanDecide(action)
       PROVE  HeldIsComplete'
  BY <1>26 DEF HumanDecide, Cleared, OnReleaseDecided
<1>27. ASSUME NEW to \in ReleaseStages \cup {Verify}, HumanReturn(to)
       PROVE  HeldIsComplete'
  BY <1>27 DEF HumanReturn, Cleared, Upstream, Verify, ReleaseStages
<1>28. CASE HumanAbandon
  BY <1>28 DEF HumanAbandon, Cleared
<1>29. ASSUME NEW c \in 1..MaxCandidates, Rewalk(c) PROVE HeldIsComplete'
  BY <1>29
     DEF Rewalk, Go, Cleared, OnStageEntered, OnCandidateFrozen, EntrySubstate,
         Verify, ReleaseStages
<1>30. ASSUME NEW i \in Ops, NEW v \in {Foreign, Untouched(i)}, Meddle(i, v)
       PROVE  HeldIsComplete'
  BY <1>30 DEF Meddle, Untouched
<1>31. CASE UNCHANGED vars
  BY <1>31 DEF vars
<1> HIDE DEF PInv, TypeOK, States, Logs, Drivers, PlacesMatch, PendingMatches,
             ReturnsMatch, InBatch, Authorised, HeldIsComplete, Object,
             Candidate, Product, Foreign, Old, Absent
<1> QED
  BY <1>1, <1>2, <1>3, <1>4, <1>5, <1>6, <1>7, <1>8, <1>9, <1>10, <1>11, <1>12,
     <1>13, <1>14, <1>15, <1>16, <1>17, <1>18, <1>19, <1>20, <1>21, <1>22,
     <1>23, <1>24, <1>25, <1>26, <1>27, <1>28, <1>29, <1>30, <1>31
     DEF Next, DriverStep

(***************************************************************************)
(* A success is recorded in both, on the word of the remote.               *)
(***************************************************************************)
LEMMA JudgmentsStep == PInv /\ [Next]_vars => JudgmentsAgree'
<1> SUFFICES ASSUME PInv, [Next]_vars PROVE JudgmentsAgree'
  OBVIOUS
<1> USE PlanFacts
   DEF PInv, TypeOK, States, Logs, Drivers, PlacesMatch, PendingMatches,
       ReturnsMatch, InBatch, Authorised, HeldIsComplete, JudgmentsAgree,
       BatchTerminal, Ops
<1>1. CASE Start
  BY <1>1 DEF Start, Go, Handler, Commands
<1>2. CASE Issue
  <2>1. Issues
    BY <1>2, IssueProjects DEF PInv
  <2> QED
    BY <2>1 DEF Issues
<1>3. CASE Park
  BY <1>3 DEF Park, Go
<1>4. CASE Drift
  BY <1>4 DEF Drift, Go, Cleared
<1>5. CASE Crash
  BY <1>5 DEF Crash
<1>6. CASE PreviewIncomplete
  BY <1>6 DEF PreviewIncomplete, Go, Cleared
<1>7. CASE PreviewNew
  BY <1>7 DEF PreviewNew, Go, Cleared, OnReleasePreviewed
<1>8. CASE PreviewUnchanged
  BY <1>8 DEF PreviewUnchanged, Go, Cleared
<1>9. CASE Rollback
  BY <1>9
     DEF Rollback, Go, Cleared, OnStageRolledBack, EntrySubstate, Verify,
         ReleaseStages
<1>10. CASE Authorise
  BY <1>10 DEF Authorise, Approved
<1>11. CASE Refuse
  BY <1>11 DEF Refuse, Go
<1>12. CASE CensusFails
  BY <1>12 DEF CensusFails, Go, Cleared
<1>13. CASE FailPreflight
  BY <1>13 DEF FailPreflight, Go, Cleared, ClearedByPublish, OnPublishFailed
<1>14. CASE PlanOp
  <2>1. Plans
    BY <1>14, PlanProjects
  <2> QED
    BY <2>1 DEF Plans
<1>15. CASE ReadMatches
  <2>1. Succeeds
    BY <1>15, SuccessProjects
  <2> QED
    BY <2>1 DEF Succeeds
<1>16. CASE ReadMayPush
  BY <1>16 DEF ReadMayPush, Go
<1>17. CASE ReadFails
  BY <1>17 DEF ReadFails, Failed, OnPublishFailed, ClearedByPublish, Cleared
<1>18. CASE PushLands
  BY <1>18 DEF PushLands
<1>19. CASE PushLost
  BY <1>19 DEF PushLost
<1>20. CASE Confirm
  <2>1. Succeeds
    BY <1>20, SuccessProjects
  <2> QED
    BY <2>1 DEF Succeeds
<1>21. CASE Unconfirmed
  BY <1>21 DEF Unconfirmed, Failed, OnPublishFailed, ClearedByPublish, Cleared
<1>22. CASE Close
  BY <1>22 DEF Close, Go, Cleared
<1>23. CASE TailStep
  BY <1>23 DEF TailStep, Go, Cleared, OnTraceClosed, TailLength
<1>24. CASE TailFails
  BY <1>24 DEF TailFails, Go, Cleared
<1>25. CASE Complete
  BY <1>25 DEF Complete, Go, Cleared, TailLength
<1>26. ASSUME NEW action \in {"release", "delay", "return"}, HumanDecide(action)
       PROVE  JudgmentsAgree'
  BY <1>26 DEF HumanDecide, Cleared, OnReleaseDecided
<1>27. ASSUME NEW to \in ReleaseStages \cup {Verify}, HumanReturn(to)
       PROVE  JudgmentsAgree'
  BY <1>27 DEF HumanReturn, Cleared, Upstream, Verify, ReleaseStages
<1>28. CASE HumanAbandon
  BY <1>28 DEF HumanAbandon, Cleared
<1>29. ASSUME NEW c \in 1..MaxCandidates, Rewalk(c) PROVE JudgmentsAgree'
  BY <1>29
     DEF Rewalk, Go, Cleared, OnStageEntered, OnCandidateFrozen, EntrySubstate,
         Verify, ReleaseStages
<1>30. ASSUME NEW i \in Ops, NEW v \in {Foreign, Untouched(i)}, Meddle(i, v)
       PROVE  JudgmentsAgree'
  BY <1>30 DEF Meddle, Untouched
<1>31. CASE UNCHANGED vars
  BY <1>31 DEF vars
<1> HIDE DEF PInv, TypeOK, States, Logs, Drivers, PlacesMatch, PendingMatches,
             ReturnsMatch, InBatch, Authorised, HeldIsComplete, JudgmentsAgree,
             BatchTerminal, Ops
<1> QED
  BY <1>1, <1>2, <1>3, <1>4, <1>5, <1>6, <1>7, <1>8, <1>9, <1>10, <1>11, <1>12,
     <1>13, <1>14, <1>15, <1>16, <1>17, <1>18, <1>19, <1>20, <1>21, <1>22,
     <1>23, <1>24, <1>25, <1>26, <1>27, <1>28, <1>29, <1>30, <1>31
     DEF Next, DriverStep

(***************************************************************************)
(* A run is released, and a batch left, over a complete batch only.        *)
(***************************************************************************)
LEMMA ReleasedStep == PInv /\ [Next]_vars => ReleasedMeansPublished'
<1> SUFFICES ASSUME PInv, [Next]_vars PROVE ReleasedMeansPublished'
  OBVIOUS
<1> USE PlanFacts
   DEF PInv, TypeOK, States, Logs, Drivers, PlacesMatch, PendingMatches,
       ReturnsMatch, InBatch, Authorised, HeldIsComplete, JudgmentsAgree,
       BatchTerminal, ReleasedMeansPublished, PublishedWasOnRemote, Alive,
       Resting, Ops
<1>1. CASE Start
  BY <1>1 DEF Start, Go, Handler, Commands
<1>2. CASE Issue
  <2>1. Issues
    BY <1>2, IssueProjects DEF PInv
  <2> QED
    BY <2>1 DEF Issues
<1>3. CASE Park
  BY <1>3 DEF Park, Go
<1>4. CASE Drift
  BY <1>4 DEF Drift, Go, Cleared
<1>5. CASE Crash
  BY <1>5 DEF Crash
<1>6. CASE PreviewIncomplete
  BY <1>6 DEF PreviewIncomplete, Go, Cleared
<1>7. CASE PreviewNew
  BY <1>7 DEF PreviewNew, Go, Cleared, OnReleasePreviewed
<1>8. CASE PreviewUnchanged
  BY <1>8 DEF PreviewUnchanged, Go, Cleared
<1>9. CASE Rollback
  BY <1>9
     DEF Rollback, Go, Cleared, OnStageRolledBack, EntrySubstate, Verify,
         ReleaseStages
<1>10. CASE Authorise
  BY <1>10 DEF Authorise, Approved
<1>11. CASE Refuse
  BY <1>11 DEF Refuse, Go
<1>12. CASE CensusFails
  BY <1>12 DEF CensusFails, Go, Cleared
<1>13. CASE FailPreflight
  BY <1>13 DEF FailPreflight, Go, Cleared, ClearedByPublish, OnPublishFailed
<1>14. CASE PlanOp
  <2>1. Plans
    BY <1>14, PlanProjects
  <2> QED
    BY <2>1 DEF Plans
<1>15. CASE ReadMatches
  <2>1. Succeeds
    BY <1>15, SuccessProjects
  <2> QED
    BY <2>1 DEF Succeeds
<1>16. CASE ReadMayPush
  BY <1>16 DEF ReadMayPush, Go
<1>17. CASE ReadFails
  BY <1>17 DEF ReadFails, Failed, OnPublishFailed, ClearedByPublish, Cleared
<1>18. CASE PushLands
  BY <1>18 DEF PushLands
<1>19. CASE PushLost
  BY <1>19 DEF PushLost
<1>20. CASE Confirm
  <2>1. Succeeds
    BY <1>20, SuccessProjects
  <2> QED
    BY SMTT(40), <2>1 DEF Succeeds
<1>21. CASE Unconfirmed
  BY <1>21 DEF Unconfirmed, Failed, OnPublishFailed, ClearedByPublish, Cleared
<1>22. CASE Close
  <2>1. log' = log /\ held' = held /\ drv.at = "close" /\ Alive
    BY <1>22 DEF Close
  <2>2. CASE BatchTerminal
    BY <1>22, <2>1, <2>2 DEF Close, Go
  <2>3. CASE ~BatchTerminal
    <3>1. s' = Cleared(s) /\ drv'.at = "top"
      BY <1>22, <2>3 DEF Close, Go
    <3>2. /\ s'.stage = s.stage /\ s'.sub = s.sub /\ s'.exited = s.exited
          /\ s'.candidate = s.candidate /\ s'.completed = s.completed
      BY <3>1 DEF Cleared
    <3> QED
      BY <2>1, <2>3, <3>2
  <2> QED
    BY <2>2, <2>3
<1>23. CASE TailStep
  BY <1>23 DEF TailStep, Go, Cleared, OnTraceClosed, TailLength
<1>24. CASE TailFails
  BY <1>24 DEF TailFails, Go, Cleared
<1>25. CASE Complete
  BY <1>25 DEF Complete, Go, Cleared, TailLength
<1>26. ASSUME NEW action \in {"release", "delay", "return"}, HumanDecide(action)
       PROVE  ReleasedMeansPublished'
  BY <1>26 DEF HumanDecide, Cleared, OnReleaseDecided
<1>27. ASSUME NEW to \in ReleaseStages \cup {Verify}, HumanReturn(to)
       PROVE  ReleasedMeansPublished'
  BY <1>27 DEF HumanReturn, Cleared, Upstream, Verify, ReleaseStages
<1>28. CASE HumanAbandon
  BY <1>28 DEF HumanAbandon, Cleared
<1>29. ASSUME NEW c \in 1..MaxCandidates, Rewalk(c)
       PROVE  ReleasedMeansPublished'
  BY <1>29
     DEF Rewalk, Go, Cleared, OnStageEntered, OnCandidateFrozen, EntrySubstate,
         Verify, ReleaseStages
<1>30. ASSUME NEW i \in Ops, NEW v \in {Foreign, Untouched(i)}, Meddle(i, v)
       PROVE  ReleasedMeansPublished'
  BY <1>30 DEF Meddle, Untouched
<1>31. CASE UNCHANGED vars
  BY <1>31 DEF vars
<1> HIDE DEF PInv, TypeOK, States, Logs, Drivers, PlacesMatch, PendingMatches,
             ReturnsMatch, InBatch, Authorised, HeldIsComplete, JudgmentsAgree,
             BatchTerminal, ReleasedMeansPublished, PublishedWasOnRemote, Alive,
             Resting, Ops
<1> QED
  BY <1>1, <1>2, <1>3, <1>4, <1>5, <1>6, <1>7, <1>8, <1>9, <1>10, <1>11, <1>12,
     <1>13, <1>14, <1>15, <1>16, <1>17, <1>18, <1>19, <1>20, <1>21, <1>22,
     <1>23, <1>24, <1>25, <1>26, <1>27, <1>28, <1>29, <1>30, <1>31
     DEF Next, DriverStep

(***************************************************************************)
(* The reducers keep the projection one.                                   *)
(***************************************************************************)
LEMMA ReducersType ==
    ASSUME NEW t \in States
    PROVE  /\ Cleared(t) \in States
           /\ ClearedByPublish(t) \in States
           /\ OnReleasePreviewed(t) \in States
           /\ \A action \in {"release", "delay", "return"} :
                 OnReleaseDecided(t, action) \in States
           /\ OnPublishFailed(t) \in States
           /\ OnTraceClosed(t) \in States
           /\ \A c \in 1..MaxCandidates : OnCandidateFrozen(t, c) \in States
           /\ OnStageEntered(t, "M-RELEASE") \in States
           /\ t.target # "none" => OnStageRolledBack(t) \in States
           /\ \A c \in Commands : OnCommandIssued(t, c) \in States
<1> USE DEF States, Verify, ReleaseStages
<1>1. Cleared(t) \in States
  BY DEF Cleared
<1>2. ClearedByPublish(t) \in States
  BY <1>1 DEF ClearedByPublish
<1>3. OnReleasePreviewed(t) \in States
  BY ZenonT(40) DEF OnReleasePreviewed
<1>4. ASSUME NEW action \in {"release", "delay", "return"}
      PROVE  OnReleaseDecided(t, action) \in States
  BY ZenonT(40) DEF OnReleaseDecided
<1>5. OnPublishFailed(t) \in States
  BY DEF OnPublishFailed
<1>6. OnTraceClosed(t) \in States
  <2>1. [t EXCEPT !.stage = "M-MILESTONE", !.sub = "CLOSING", !.exited = FALSE] \in States
    OBVIOUS
  <2> QED
    BY <2>1 DEF OnTraceClosed
<1>7. ASSUME NEW c \in 1..MaxCandidates PROVE OnCandidateFrozen(t, c) \in States
  <2>1. [t EXCEPT !.candidate = c, !.decision = "none", !.status = "none",
                  !.done = {}, !.started = FALSE] \in States
    BY ZenonT(40)
  <2> QED
    BY <2>1 DEF OnCandidateFrozen
<1>8. OnStageEntered(t, "M-RELEASE") \in States
  BY DEF OnStageEntered, EntrySubstate
<1>9. ASSUME t.target # "none" PROVE OnStageRolledBack(t) \in States
  BY ZenonT(40), <1>9 DEF OnStageRolledBack, EntrySubstate
<1>10. ASSUME NEW c \in Commands PROVE OnCommandIssued(t, c) \in States
  BY DEF OnCommandIssued
<1> QED
  BY <1>1, <1>2, <1>3, <1>4, <1>5, <1>6, <1>7, <1>8, <1>9, <1>10

(***************************************************************************)
(* An object a push may leave, and a ref before the release, is an object. *)
(***************************************************************************)
LEMMA ObjectFacts ==
    /\ Foreign \in Objects
    /\ \A i \in Ops : Untouched(i) \in Objects
    /\ \A c \in 1..MaxCandidates : Candidate(c) \in Objects
    /\ \A n \in 1..MaxPreviews : Product(n) \in Objects
BY DEF Objects, Untouched

(***************************************************************************)
(* Every step keeps the types.                                             *)
(***************************************************************************)
LEMMA TypeStep == PInv /\ [Next]_vars => TypeOK'
<1> SUFFICES ASSUME PInv, [Next]_vars PROVE TypeOK'
  OBVIOUS
<1> USE PublishAssumption DEF PInv, TypeOK
<1>1. CASE Start
  <2>1. \A c \in Commands : Handler[c] \in {"preview", "authority", "close", "rollback"}
    BY DEF Handler, Commands
  <2>2. drv'.at \in {"top", "preview", "authority", "close", "rollback"}
    BY <1>1, <2>1 DEF Start, Go, States, Drivers
  <2>3. drv' \in Drivers
    BY <1>1, <2>2 DEF Start, Go, Drivers
  <2> QED
    BY <1>1, <2>1, <2>2, <2>3 DEF Start
<1>2. CASE Issue
  <2>1. s' \in States
    BY <1>2, ReducersType DEF Issue, Decide, ReleaseCommand, Commands
  <2>2. drv' \in Drivers
    BY <1>2 DEF Issue, Go, Handler, Decide, ReleaseCommand, Commands, Drivers
  <2> QED
    BY <1>2, <2>1, <2>2 DEF Issue
<1>3. CASE Park
  <2>1. drv' \in Drivers
    BY <1>3 DEF Park, Go, Drivers
  <2> QED
    BY <1>3, <2>1 DEF Park
<1>4. CASE Drift
  <2>1. s' \in States
    BY <1>4, ReducersType DEF Drift
  <2>2. drv' \in Drivers
    BY <1>4 DEF Drift, Go, Drivers
  <2> QED
    BY <1>4, <2>1, <2>2 DEF Drift
<1>5. CASE Crash
  <2>1. drv' \in Drivers
    BY <1>5, PlanFacts DEF Crash, Drivers
  <2> QED
    BY <1>5, <2>1 DEF Crash
<1>6. CASE PreviewIncomplete
  <2>1. s' \in States
    BY <1>6, ReducersType DEF PreviewIncomplete
  <2>2. drv' \in Drivers
    BY <1>6 DEF PreviewIncomplete, Go, Drivers
  <2> QED
    BY <1>6, <2>1, <2>2 DEF PreviewIncomplete
<1>7. CASE PreviewNew
  <2>1. s' \in States
    BY <1>7, ReducersType DEF PreviewNew
  <2>2. log' \in Logs
    <3>1. log.preview + 1 \in 0..MaxPreviews /\ s.candidate \in 0..MaxCandidates
      BY <1>7 DEF PreviewNew, States, Logs
    <3>2. [k \in Ops |-> "none"] \in [Ops -> {"none", "ok", "failed"}]
      OBVIOUS
    <3> QED
      BY <1>7, <3>1, <3>2 DEF PreviewNew, Logs
  <2>3. drv' \in Drivers
    BY <1>7 DEF PreviewNew, Go, Drivers
  <2> QED
    BY <1>7, <2>1, <2>2, <2>3 DEF PreviewNew
<1>8. CASE PreviewUnchanged
  <2>1. s' \in States
    BY <1>8, ReducersType DEF PreviewUnchanged
  <2>2. drv' \in Drivers
    BY <1>8 DEF PreviewUnchanged, Go, Drivers
  <2> QED
    BY <1>8, <2>1, <2>2 DEF PreviewUnchanged
<1>9. CASE Rollback
  <2>1. s' \in States
    <3>1. s.target # "none" /\ Cleared(s).target = s.target
      BY <1>9 DEF Rollback, Cleared, States, PlacesMatch, PendingMatches
    <3> QED
      BY <1>9, <3>1, ReducersType DEF Rollback
  <2>2. drv' \in Drivers
    BY <1>9 DEF Rollback, Go, Drivers
  <2> QED
    BY <1>9, <2>1, <2>2 DEF Rollback
<1>10. CASE Authorise
  <2>1. drv' \in Drivers
    <3>1. 1 \in Ops
      BY PlanFacts DEF Ops
    <3> QED
      BY <1>10, <3>1 DEF Authorise, Drivers
  <2> QED
    BY <1>10, <2>1 DEF Authorise
<1>11. CASE Refuse
  <2>1. drv' \in Drivers
    BY <1>11 DEF Refuse, Go, Drivers
  <2> QED
    BY <1>11, <2>1 DEF Refuse
<1>12. CASE CensusFails
  <2>1. s' \in States
    BY <1>12, ReducersType DEF CensusFails
  <2>2. drv' \in Drivers
    BY <1>12 DEF CensusFails, Go, Drivers
  <2> QED
    BY <1>12, <2>1, <2>2 DEF CensusFails
<1>13. CASE FailPreflight
  <2>1. s' \in States
    BY <1>13, ReducersType DEF FailPreflight
  <2>2. drv' \in Drivers
    BY <1>13 DEF FailPreflight, Go, Drivers
  <2> QED
    BY <1>13, <2>1, <2>2 DEF FailPreflight
<1>14. CASE PlanOp
  <2>1. Plans
    BY <1>14, PlanProjects
  <2> QED
    BY <2>1 DEF Plans, Logs, Drivers
<1>15. CASE ReadMatches
  <2>1. Succeeds
    BY <1>15, SuccessProjects
  <2> QED
    BY <2>1 DEF Succeeds, Logs, Drivers
<1>16. CASE ReadMayPush
  <2>1. drv' \in Drivers
    BY <1>16 DEF ReadMayPush, Go, Drivers
  <2> QED
    BY <1>16, <2>1 DEF ReadMayPush
<1>17. CASE ReadFails
  <2>1. s' \in States
    BY <1>17, ReducersType DEF ReadFails, Failed
  <2>2. log' \in Logs
    BY <1>17 DEF ReadFails, Failed, Logs
  <2>3. drv' \in Drivers
    BY <1>17 DEF ReadFails, Failed, Drivers
  <2> QED
    BY <1>17, <2>1, <2>2, <2>3 DEF ReadFails, Failed
<1>18. CASE PushLands
  <2>1. drv' \in Drivers
    BY <1>18 DEF PushLands, Drivers
  <2>2. Object(drv.op) \in Objects /\ drv.op \in Ops
    BY <1>18, ObjectFacts
       DEF PushLands, Object, Authorised, InBatch, Logs, States, Drivers
  <2> QED
    BY <1>18, <2>1, <2>2 DEF PushLands
<1>19. CASE PushLost
  <2>1. drv' \in Drivers
    BY <1>19 DEF PushLost, Drivers
  <2> QED
    BY <1>19, <2>1 DEF PushLost
<1>20. CASE Confirm
  <2>1. Succeeds
    BY <1>20, SuccessProjects
  <2> QED
    BY <2>1 DEF Succeeds, Logs, Drivers
<1>21. CASE Unconfirmed
  <2>1. s' \in States
    BY <1>21, ReducersType DEF Unconfirmed, Failed
  <2>2. log' \in Logs
    BY <1>21 DEF Unconfirmed, Failed, Logs
  <2>3. drv' \in Drivers
    BY <1>21 DEF Unconfirmed, Failed, Drivers
  <2> QED
    BY <1>21, <2>1, <2>2, <2>3 DEF Unconfirmed, Failed
<1>22. CASE Close
  <2>1. s' \in States
    BY <1>22, ReducersType DEF Close
  <2>2. drv' \in Drivers
    BY <1>22 DEF Close, Go, Drivers
  <2> QED
    BY <1>22, <2>1, <2>2 DEF Close
<1>23. CASE TailStep
  <2>1. s' \in States
    BY <1>23, ReducersType DEF TailStep
  <2>2. log' \in Logs
    <3>1. log.tail + 1 \in 0..TailLength /\ s.candidate \in 0..MaxCandidates
      BY <1>23 DEF TailStep, TailLength, States, Logs
    <3> QED
      BY <1>23, <3>1 DEF TailStep, Logs
  <2> QED
    BY <1>23, <2>1, <2>2 DEF TailStep
<1>24. CASE TailFails
  <2>1. s' \in States
    BY <1>24, ReducersType DEF TailFails
  <2>2. drv' \in Drivers
    BY <1>24 DEF TailFails, Go, Drivers
  <2> QED
    BY <1>24, <2>1, <2>2 DEF TailFails
<1>25. CASE Complete
  <2>1. s' \in States
    <3>1. Cleared(s) \in States
      BY ReducersType
    <3> QED
      BY <1>25, <3>1 DEF Complete, States
  <2>2. log' \in Logs
    BY SMTT(30), <1>25 DEF Complete, TailLength, Logs
  <2>3. drv' \in Drivers
    BY <1>25 DEF Complete, Go, Drivers
  <2> QED
    BY <1>25, <2>1, <2>2, <2>3 DEF Complete
<1>26. ASSUME NEW action \in {"release", "delay", "return"}, HumanDecide(action)
       PROVE  TypeOK'
  <2>1. s' \in States
    BY <1>26, ReducersType DEF HumanDecide
  <2>2. log' \in Logs
    BY <1>26 DEF HumanDecide, Logs
  <2> QED
    BY <1>26, <2>1, <2>2 DEF HumanDecide
<1>27. ASSUME NEW to \in ReleaseStages \cup {Verify}, HumanReturn(to)
       PROVE  TypeOK'
  <2>1. s' \in States
    <3>1. Cleared(s) \in States
      BY ReducersType
    <3> QED
      BY <1>27, <3>1 DEF HumanReturn, States
  <2>2. log' \in Logs
    BY <1>27 DEF HumanReturn, Logs
  <2> QED
    BY <1>27, <2>1, <2>2 DEF HumanReturn
<1>28. CASE HumanAbandon
  <2>1. s' \in States
    <3>1. Cleared(s) \in States
      BY ReducersType
    <3> QED
      BY <1>28, <3>1 DEF HumanAbandon, States
  <2> QED
    BY <1>28, <2>1 DEF HumanAbandon
<1>29. ASSUME NEW c \in 1..MaxCandidates, Rewalk(c) PROVE TypeOK'
  <2>1. s' \in States
    BY <1>29, ReducersType DEF Rewalk
  <2>2. log' \in Logs
    BY <1>29 DEF Rewalk, Logs
  <2>3. drv' \in Drivers
    BY <1>29 DEF Rewalk, Go, Drivers
  <2> QED
    BY <1>29, <2>1, <2>2, <2>3 DEF Rewalk
<1>30. ASSUME NEW i \in Ops, NEW v \in {Foreign, Untouched(i)}, Meddle(i, v)
       PROVE  TypeOK'
  <2>1. v \in Objects
    BY ObjectFacts
  <2> QED
    BY <1>30, <2>1 DEF Meddle
<1>31. CASE UNCHANGED vars
  BY <1>31 DEF vars
<1> HIDE DEF PInv, TypeOK
<1> QED
  BY <1>1, <1>2, <1>3, <1>4, <1>5, <1>6, <1>7, <1>8, <1>9, <1>10, <1>11, <1>12,
     <1>13, <1>14, <1>15, <1>16, <1>17, <1>18, <1>19, <1>20, <1>21, <1>22,
     <1>23, <1>24, <1>25, <1>26, <1>27, <1>28, <1>29, <1>30, <1>31
     DEF Next, DriverStep

(***************************************************************************)
(* The first candidate enters M-RELEASE with nothing previewed.            *)
(***************************************************************************)
LEMMA InitInv == Init => PInv
<1> SUFFICES ASSUME Init PROVE PInv
  OBVIOUS
<1> USE PublishAssumption, PlanFacts
<1>1. TypeOK
  <2>1. s \in States
    BY DEF Init, States, Verify, ReleaseStages, Commands
  <2>2. log \in Logs
    <3>1. Old \in Objects
      BY DEF Objects
    <3> QED
      BY <3>1 DEF Init, Logs, TailLength
  <2>3. drv \in Drivers
    BY DEF Init, Drivers, Ops
  <2>4. remote \in [Ops -> Objects]
    BY ObjectFacts DEF Init
  <2>5. meddles \in 0..MaxMeddles /\ held \subseteq Ops
    BY DEF Init
  <2>6. tried \in BOOLEAN
    BY DEF Init
  <2> QED
    BY <2>1, <2>2, <2>3, <2>4, <2>5, <2>6 DEF TypeOK
<1>2. Ops # {}
  OBVIOUS
<1>3. PlacesMatch /\ PendingMatches /\ ReturnsMatch /\ Authorised
  BY <1>2
     DEF Init, PlacesMatch, PendingMatches, ReturnsMatch, Authorised, InBatch,
              Resting, Alive
<1>4. HeldIsComplete
  BY DEF Init, HeldIsComplete, Object, Untouched, Candidate, Product, Old,
         Absent
<1>5. JudgmentsAgree /\ ReleasedMeansPublished
  BY <1>2 DEF Init, JudgmentsAgree, ReleasedMeansPublished, PublishedWasOnRemote
<1> QED
  BY <1>1, <1>3, <1>4, <1>5 DEF PInv

(***************************************************************************)
(* PInv is an invariant of the release of every plan.                      *)
(***************************************************************************)
THEOREM PublishInvariance == Spec => []PInv
<1>1. PInv /\ [Next]_vars => PInv'
  BY TypeStep, PlacesStep, PendingStep, ReturnsStep, AuthorisedStep, HeldStep,
     JudgmentsStep, ReleasedStep
     DEF PInv
<1> QED
  BY InitInv, <1>1, PTL DEF Spec
-----------------------------------------------------------------------------
(***************************************************************************)
(* The types of TypeOK hold: a rollback always has its target.             *)
(***************************************************************************)
THEOREM PublishTypes == Spec => []TypeOK
<1>1. PInv => TypeOK
  BY DEF PInv
<1> QED
  BY <1>1, PublishInvariance, PTL

(***************************************************************************)
(* A run ends as released only over a batch of the candidate frozen last   *)
(* that was decided and has succeeded, and what is recorded as published   *)
(* was on the remote, for every plan and whatever crashes, is replayed,    *)
(* returned or changed by others.                                          *)
(***************************************************************************)
THEOREM ReleaseIsPublished == Spec => []ReleasedMeansPublished
<1>1. PInv => ReleasedMeansPublished
  BY DEF PInv
<1> QED
  BY <1>1, PublishInvariance, PTL

(***************************************************************************)
(* The driver changes the remote under the human's decision on the very    *)
(* preview, after the write-ahead record and in the order of the plan.     *)
(***************************************************************************)
THEOREM PushesAuthorised == Spec => PushesAreAuthorised
<1> DEFINE Authority ==
        /\ log.of = s.candidate /\ log.decided = "release"
        /\ s.pending = "execute_publish" /\ s.started
        /\ drv.op \in log.planned
        /\ \A j \in 1..drv.op - 1 : log.status[j] = "ok"
<1>1. ASSUME PInv, Next, remote' # remote, meddles' = meddles PROVE Authority
  <2>1. PushLands
    <3>1. ASSUME NEW i \in Ops, NEW v \in {Foreign, Untouched(i)}, Meddle(i, v)
          PROVE  FALSE
      BY <1>1, <3>1 DEF Meddle, PInv, TypeOK
    <3>2. CASE DriverStep
      BY <1>1, <3>2 DEF DriverStep, Issue, Park, PreviewIncomplete, PreviewNew,
         PreviewUnchanged, Rollback, Authorise, Refuse, CensusFails, FailPreflight,
         PlanOp, ReadMatches, ReadMayPush, ReadFails, PushLost, Confirm, Unconfirmed,
         Executed, Failed, Close, TailStep, TailFails, Complete
    <3>3. CASE \/ Start \/ Drift \/ Crash \/ HumanAbandon
               \/ \E action \in {"release", "delay", "return"} : HumanDecide(action)
               \/ \E to \in ReleaseStages \cup {Verify} : HumanReturn(to)
               \/ \E c \in 1..MaxCandidates : Rewalk(c)
      BY <1>1, <3>3
         DEF Start, Drift, Crash, HumanAbandon, HumanDecide, HumanReturn,
                        Rewalk
    <3> QED
      BY <1>1, <3>1, <3>2, <3>3 DEF Next
  <2>2. drv.at = "push"
    BY <2>1 DEF PushLands
  <2> QED
    BY <1>1, <2>2 DEF PInv, Authorised, PlacesMatch, InBatch
<1>2. PInv /\ [Next]_vars => [remote' # remote /\ meddles' = meddles => Authority]_vars
  BY <1>1 DEF vars
<1> HIDE DEF Authority
<1>3. Spec => [][remote' # remote /\ meddles' = meddles => Authority]_vars
  BY <1>2, PublishInvariance, PTL DEF Spec
<1> QED
  BY <1>3 DEF PushesAreAuthorised, Authority
=============================================================================
