--------------------------- MODULE JobQueueProofs ---------------------------
(***************************************************************************)
(* Theorems about JobQueue: the row types, the attempt budget, who holds a *)
(* lease, who owns a running row, how many drivers can be alive and        *)
(* attempts be open, and the order jobs start in, for every number of      *)
(* jobs, clusters, attempts and crashes.                                   *)
(***************************************************************************)
EXTENDS JobQueue, FiniteSetTheorems, NatLemmas, TLAPS

-----------------------------------------------------------------------------
(* The shape of rows.                                                      *)

\* Closing open attempts leaves a well-formed log of the same length.
LEMMA EndedAttemptType ==
    ASSUME NEW r \in Row, NEW p \in Points
    PROVE  /\ EndedAttempt(r, p) \in Row
           /\ EndedAttempt(r, p).state = r.state
           /\ EndedAttempt(r, p).outcome = r.outcome
           /\ EndedAttempt(r, p).attempts = r.attempts
           /\ EndedAttempt(r, p).pid = r.pid
  <1> DEFINE f == [n \in DOMAIN r.log |-> IF r.log[n] = "open" THEN p ELSE r.log[n]]
  <1>1. r.log \in Seq(Points \cup {"open"})
    BY DEF Row
  <1>2. f \in Seq(Points \cup {"open"})
    BY <1>1
  <1> HIDE DEF f
  <1>3. EndedAttempt(r, p) = [r EXCEPT !.log = f]
    BY DEF EndedAttempt, f
  <1> QED BY <1>2, <1>3 DEF Row

\* A new attempt, or a failed start, is one more attempt and one more entry.
LEMMA StartedAttemptType ==
    ASSUME NEW r \in Row
    PROVE  /\ StartedAttempt(r) \in Row
           /\ StartedAttempt(r).state = r.state
           /\ StartedAttempt(r).outcome = r.outcome
           /\ StartedAttempt(r).attempts = r.attempts + 1
           /\ StartedAttempt(r).pid = r.pid
           /\ FailedStart(r) \in Row
           /\ FailedStart(r).state = r.state
           /\ FailedStart(r).outcome = r.outcome
           /\ FailedStart(r).attempts = r.attempts + 1
           /\ FailedStart(r).pid = r.pid
  <1> DEFINE Logs == Seq(Points \cup {"open"})
             with(l) == [r EXCEPT !.attempts = r.attempts + 1, !.log = l]
  <1>1. r.log \in Logs /\ r.attempts + 1 \in Nat
    BY DEF Row
  <1>2. Append(r.log, "open") \in Logs /\ Append(r.log, "notZero") \in Logs
    BY <1>1 DEF Points
  <1>3. Row = [state : States, outcome : Outcomes, prio : Int, attempts : Nat,
               log : Logs, pid : Nat]
    BY DEF Row
  <1> HIDE DEF Logs
  <1>4. ASSUME NEW l \in Logs
        PROVE  /\ with(l) \in Row
               /\ with(l).state = r.state
               /\ with(l).outcome = r.outcome
               /\ with(l).attempts = r.attempts + 1
               /\ with(l).pid = r.pid
    BY <1>1, <1>3
  <1>5. /\ StartedAttempt(r) = with(Append(r.log, "open"))
        /\ FailedStart(r) = with(Append(r.log, "notZero"))
    BY DEF StartedAttempt, FailedStart
  <1> HIDE DEF with
  <1> QED BY <1>2, <1>4, <1>5

\* Finishing a job or sending it back to the queue touches its state alone.
LEMMA FinishedType ==
    ASSUME NEW r \in Row, NEW o \in Outcomes
    PROVE  /\ Finished(r, o) \in Row
           /\ Finished(r, o).state = "done"
           /\ Finished(r, o).attempts = r.attempts
           /\ Finished(r, o).pid = r.pid
           /\ WaitingAgain(r) \in Row
           /\ WaitingAgain(r).state = "waiting"
           /\ WaitingAgain(r).attempts = r.attempts
           /\ WaitingAgain(r).pid = r.pid
  BY DEF Finished, WaitingAgain, Row, States

\* The placeholder of a deleted row and the row of a submission.
LEMMA FreshRowType ==
    ASSUME NEW j \in Ids
    PROVE  /\ AbsentRow \in Row
           /\ AbsentRow.state = "absent" /\ AbsentRow.attempts = 0
           /\ SubmittedRow(j) \in Row
           /\ SubmittedRow(j).state = "waiting" /\ SubmittedRow(j).attempts = 0
           /\ SubmittedRow(j).log = <<>>
  <1> DEFINE Logs == Seq(Points \cup {"open"})
  <1>1. <<>> \in Logs /\ SpecPriority[j] \in Int
    BY QueueAssumption
  <1>2. Row = [state : States, outcome : Outcomes, prio : Int, attempts : Nat,
               log : Logs, pid : Nat]
    BY DEF Row
  <1> HIDE DEF Logs
  <1>3. /\ AbsentRow \in Row
        /\ AbsentRow.state = "absent" /\ AbsentRow.attempts = 0 /\ AbsentRow.log = <<>>
    BY <1>1, <1>2 DEF AbsentRow, States, Outcomes
  <1>4. SubmittedRow(j) = [AbsentRow EXCEPT !.state = "waiting", !.prio = SpecPriority[j]]
    BY DEF SubmittedRow
  <1> QED BY <1>1, <1>2, <1>3, <1>4 DEF States

\* What _finish makes of an exit code: the row is done, or it waits with
\* attempts to spare.
LEMMA FinishedRowType ==
    ASSUME NEW r \in Row, NEW max \in Int, NEW rc \in ExitCodes
    PROVE  /\ FinishedRow(r, max, rc) \in Row
           /\ FinishedRow(r, max, rc).attempts = r.attempts
           /\ FinishedRow(r, max, rc).pid = r.pid
           /\ \/ FinishedRow(r, max, rc).state = "done"
              \/ /\ FinishedRow(r, max, rc).state = "waiting"
                 /\ r.attempts < max
  <1>1. {"ok", "degraded", "failed"} \subseteq Outcomes
    BY DEF Outcomes
  <1>2. CASE rc = "ok"
    BY <1>1, <1>2, FinishedType DEF FinishedRow
  <1>3. CASE rc = "degraded"
    BY <1>1, <1>3, FinishedType DEF FinishedRow
  <1>4. CASE rc = "failedPoints"
    BY <1>1, <1>4, FinishedType DEF FinishedRow
  <1>5. CASE rc = "crashed" /\ (r.attempts >= max \/ DeadOnArrival(r.log))
    BY <1>1, <1>5, FinishedType DEF FinishedRow
  <1>6. CASE rc = "crashed" /\ ~(r.attempts >= max \/ DeadOnArrival(r.log))
    <2>1. FinishedRow(r, max, rc) = WaitingAgain(r)
      BY <1>6 DEF FinishedRow
    <2>2. r.attempts < max
      BY <1>6 DEF Row
    <2> QED BY <2>1, <2>2, FinishedType DEF Outcomes
  <1> QED BY <1>2, <1>3, <1>4, <1>5, <1>6 DEF ExitCodes

\* What recover_orphans makes of a running row whose process is gone.
LEMMA RecoveredRowType ==
    ASSUME NEW r \in Row, NEW max \in Int
    PROVE  /\ RecoveredRow(r, max) \in Row
           /\ RecoveredRow(r, max).attempts = r.attempts
           /\ \/ RecoveredRow(r, max).state = "done"
              \/ RecoveredRow(r, max).state = "waiting" /\ r.attempts < max
  <1> DEFINE ended == EndedAttempt(r, "notZero")
  <1>1. ended \in Row /\ ended.attempts = r.attempts
    BY EndedAttemptType DEF Points
  <1>2. r.attempts \in Nat
    BY DEF Row
  <1>3. CASE r.attempts >= max
    <2>1. RecoveredRow(r, max) = Finished(ended, "failed")
      BY <1>3 DEF RecoveredRow
    <2> HIDE DEF ended
    <2> QED BY <1>1, <2>1, FinishedType DEF Outcomes
  <1>4. CASE ~(r.attempts >= max)
    <2>1. RecoveredRow(r, max) = WaitingAgain(ended)
      BY <1>4 DEF RecoveredRow
    <2>2. r.attempts < max
      BY <1>2, <1>4
    <2> HIDE DEF ended
    <2> QED BY <1>1, <2>1, <2>2, FinishedType DEF Outcomes
  <1> QED BY <1>3, <1>4

LEMMA FiniteIds == IsFiniteSet(Ids)
  BY FS_Interval, QueueAssumption DEF Ids

\* place() writes priorities and nothing else.
LEMMA PlacedType ==
    ASSUME row \in [Ids -> Row], NEW j \in Ids, NEW after \in Ids \cup {NoJob}
    PROVE  /\ Placed(j, after) \in [Ids -> Row]
           /\ \A k \in Ids : /\ Placed(j, after)[k].state = row[k].state
                             /\ Placed(j, after)[k].outcome = row[k].outcome
                             /\ Placed(j, after)[k].attempts = row[k].attempts
                             /\ Placed(j, after)[k].pid = row[k].pid
                             /\ Placed(j, after)[k].log = row[k].log
  <1>1. IsFiniteSet(Waiting)
    BY FiniteIds, FS_Subset DEF Waiting
  <1>2. ASSUME NEW k \in Ids
        PROVE  PlacedPriority(k, j, after) \in Int
    <2>1. ASSUME NEW S, S \subseteq Waiting
          PROVE  Cardinality(S) \in Nat
      BY <1>1, <2>1, FS_Subset, FS_CardinalityType
    <2>2. /\ Cardinality({m \in Waiting \ {j} : FallsBehind(m, j, after)}) \in Nat
          /\ Cardinality({m \in Waiting \ {j} : Ahead(k, m)}) \in Nat
      BY <2>1
    <2> QED BY <2>2 DEF PlacedPriority
  <1>3. ASSUME NEW k \in Ids
        PROVE  /\ [row[k] EXCEPT !.prio = PlacedPriority(k, j, after)] \in Row
               /\ [row[k] EXCEPT !.prio = PlacedPriority(k, j, after)].state = row[k].state
               /\ [row[k] EXCEPT !.prio = PlacedPriority(k, j, after)].outcome = row[k].outcome
               /\ [row[k] EXCEPT !.prio = PlacedPriority(k, j, after)].attempts = row[k].attempts
               /\ [row[k] EXCEPT !.prio = PlacedPriority(k, j, after)].pid = row[k].pid
               /\ [row[k] EXCEPT !.prio = PlacedPriority(k, j, after)].log = row[k].log
    BY <1>2 DEF Row
  <1> QED BY <1>3 DEF Placed

-----------------------------------------------------------------------------
(* Type correctness.                                                       *)

\* An UPDATE touches the row it names, if it is there, and no other.
LEMMA WriteType ==
    ASSUME row \in [Ids -> Row], NEW j \in Ids, NEW r \in Row, Write(j, r)
    PROVE  /\ row' \in [Ids -> Row]
           /\ \A k \in Ids : row'[k] = IF k = j /\ Present(j) THEN r ELSE row[k]
  BY DEF Write

\* The same for a statement whose row is known to be there.
LEMMA ExceptType ==
    ASSUME row \in [Ids -> Row], NEW j \in Ids, NEW r \in Row,
           row' = [row EXCEPT ![j] = r]
    PROVE  /\ row' \in [Ids -> Row]
           /\ \A k \in Ids : row'[k] = IF k = j THEN r ELSE row[k]
  OBVIOUS

\* A _run in flight has a job, and the job a row or the lack of one.
LEMMA InFlight ==
    ASSUME TypeOK, stage # "idle"
    PROVE  slot \in Ids /\ row[slot] \in Row /\ MaxAttempts[slot] \in Int
  BY QueueAssumption DEF TypeOK

\* Every step of _run is a step of a _run in flight.
LEMMA RunStepStage ==
    ASSUME RunStep
    PROVE  stage # "idle"
  BY DEF RunStep, BuildFails, Acquire, AcquireFails, SettleFailedStart, Acquired,
         VanishedMeanwhile, CanceledMeanwhile, Yield, KeepsSlot, StartAttempt, AboutToStart,
         StartVanishes, SetRunning, Spawn, SpawnFails, RecordPid, DriverDone,
         Handoff, StopReturns

\* Every step of _run writes well-formed rows.
LEMMA RunStepRows ==
    ASSUME TypeOK, RunStep
    PROVE  row' \in [Ids -> Row]
  <1>1. row \in [Ids -> Row]
    BY DEF TypeOK
  <1>2. stage # "idle"
    BY RunStepStage
  <1>3. slot \in Ids /\ row[slot] \in Row /\ MaxAttempts[slot] \in Int
    BY <1>2, InFlight
  <1>4. CASE BuildFails
    BY <1>1, <1>3, <1>4, FinishedType, WriteType DEF BuildFails, Outcomes
  <1>5. CASE AcquireFails
    BY <1>1, <1>3, <1>5, StartedAttemptType DEF AcquireFails
  <1>6. CASE SettleFailedStart
    BY <1>1, <1>3, <1>6, FinishedType, WriteType DEF SettleFailedStart, Outcomes
  <1>7. CASE StartAttempt
    BY <1>1, <1>3, <1>7, StartedAttemptType DEF StartAttempt
  <1>8. CASE SetRunning
    <2>1. [row[slot] EXCEPT !.state = "running"] \in Row
      BY <1>3 DEF Row, States
    <2> QED BY <1>1, <1>3, <1>8, <2>1, WriteType DEF SetRunning
  <1>9. CASE SpawnFails
    <2>1. EndedAttempt(row[slot], "notZero") \in Row
      BY <1>3, EndedAttemptType DEF Points
    <2>2. Finished(EndedAttempt(row[slot], "notZero"), "failed") \in Row
      BY <2>1, FinishedType DEF Outcomes
    <2> QED BY <1>1, <1>3, <1>9, <2>2, WriteType DEF SpawnFails
  <1>10. CASE RecordPid
    <2>1. [row[slot] EXCEPT !.pid = row[slot].attempts] \in Row
      BY <1>3 DEF Row
    <2> QED BY <1>1, <1>3, <1>10, <2>1, WriteType DEF RecordPid
  <1>11. ASSUME NEW rc \in ExitCodes, NEW points \in Points, DriverDone(rc, points)
         PROVE  row' \in [Ids -> Row]
    <2> DEFINE ended == EndedAttempt(row[slot], points)
               after == IF ended.state = "done" THEN ended
                        ELSE FinishedRow(ended, MaxAttempts[slot], rc)
    <2>1. ended \in Row
      BY <1>3, EndedAttemptType
    <2>2. after \in Row
      <3> HIDE DEF ended
      <3> QED BY <1>3, <2>1, FinishedRowType
    <2>3. Write(slot, after)
      BY <1>11 DEF DriverDone
    <2> HIDE DEF after
    <2> QED BY <1>1, <1>3, <2>2, <2>3, WriteType
  <1>12. CASE UNCHANGED row
    BY <1>1, <1>12
  <1> QED
    BY <1>4, <1>5, <1>6, <1>7, <1>8, <1>9, <1>10, <1>11, <1>12
    DEF RunStep, Acquire, Acquired, VanishedMeanwhile, CanceledMeanwhile, Yield, KeepsSlot,
        StartVanishes, Spawn, Handoff, StopReturns

\* So does every other step: cancel, the clients, the operator, a restart.
LEMMA OtherRows ==
    ASSUME TypeOK, [CancelStep \/ ClientStep \/ QueueStep \/ OperatorStep \/ DaemonDies]_vars
    PROVE  row' \in [Ids -> Row]
  <1>1. row \in [Ids -> Row]
    BY DEF TypeOK
  <1>2. AbsentRow \in Row
    BY QueueAssumption DEF AbsentRow, Row, States, Outcomes
  <1>3. ASSUME NEW j \in Ids, CancelWaiting(j)
        PROVE  row' \in [Ids -> Row]
    BY <1>1, <1>3, FinishedType DEF CancelWaiting, Outcomes
  <1>4. ASSUME NEW j \in Ids
        PROVE  Finished(EndedAttempt(row[j], "notZero"), "canceled") \in Row
    <2>1. EndedAttempt(row[j], "notZero") \in Row
      BY <1>1, EndedAttemptType DEF Points
    <2> QED BY <2>1, FinishedType DEF Outcomes
  <1>5. CASE CancelExited
    BY <1>1, <1>4, <1>5, InFlight DEF CancelExited
  <1>6. CASE CancelCompletes
    <2>1. canceling \in Ids
      BY <1>6 DEF CancelCompletes, CancelDue, TypeOK
    <2> QED BY <1>1, <1>4, <1>6, <2>1, WriteType DEF CancelCompletes
  <1>7. CASE nextId \in Ids /\ row' = [row EXCEPT ![nextId] = SubmittedRow(nextId)]
    BY <1>1, <1>7, FreshRowType
  <1>8. ASSUME NEW p \in placing, Place(p)
        PROVE  row' \in [Ids -> Row]
    <2>1. p.job \in Ids /\ p.after \in Ids \cup {NoJob}
      BY DEF TypeOK
    <2> QED BY <1>1, <1>8, <2>1, PlacedType DEF Place
  <1>9. ASSUME NEW S \in SUBSET Waiting, NEW rank \in Bijection(S, 1..Cardinality(S)),
               Reorder(S, rank)
        PROVE  row' \in [Ids -> Row]
    <2>1. S \subseteq Ids
      BY DEF Waiting
    <2>2. IsFiniteSet(S)
      BY <2>1, FiniteIds, FS_Subset
    <2>3. Cardinality(S) \in Nat
      BY <2>2, FS_CardinalityType
    <2>4. ASSUME NEW j \in S PROVE rank[j] \in Int
      BY <2>3 DEF Bijection, Injection
    <2>5. ASSUME NEW j \in Ids, NEW n \in Int PROVE [row[j] EXCEPT !.prio = n] \in Row
      BY <1>1 DEF Row
    <2> QED BY <1>1, <1>9, <2>1, <2>4, <2>5 DEF Reorder
  <1>10. ASSUME NEW j \in Ids, Delete(j)
         PROVE  row' \in [Ids -> Row]
    BY <1>1, <1>2, <1>10 DEF Delete
  <1>11. ASSUME NEW outcomes, Purge(outcomes)
         PROVE  row' \in [Ids -> Row]
    BY <1>1, <1>2, <1>11 DEF Purge
  <1>12. CASE DaemonDies
    <2>1. \A j \in Ids : RecoveredRow(row[j], MaxAttempts[j]) \in Row
      BY <1>1, RecoveredRowType, QueueAssumption
    <2> QED BY <1>1, <1>12, <2>1 DEF DaemonDies, Crash
  <1>13. CASE UNCHANGED row
    BY <1>1, <1>13
  <1> QED
    BY <1>3, <1>5, <1>6, <1>7, <1>8, <1>9, <1>10, <1>11, <1>12, <1>13
    DEF CancelStep, CancelRunning, CancelGivesUp, ClientStep, Submit, Resubmit, RetryNow,
        QueueStep, Dispatch, DelayExpires, DriverExits, OperatorStep, SetPaused, vars

\* The variables that are not rows keep their types.
LEMMA TypeStep == TypeOK /\ [Next]_vars => TypeOK'
  <1> SUFFICES ASSUME TypeOK, [Next]_vars PROVE TypeOK'
    OBVIOUS
  <1>1. row' \in [Ids -> Row]
    BY RunStepRows, OtherRows DEF Next
  <1> DEFINE Rest ==
        /\ nextId \in Nat
        /\ placing \subseteq [job : Ids, after : Ids \cup {NoJob}]
        /\ paused \in BOOLEAN
        /\ slot \in Ids \cup {NoJob}
        /\ stage \in AwaitStages \cup SyncStages
        /\ (slot = NoJob) <=> (stage = "idle")
        /\ delayed \subseteq Ids
        /\ canceling \in Ids \cup {NoJob}
        /\ lease \in [Clusters -> Ids \cup {NoJob}]
        /\ procs \subseteq (Ids \X Nat)
        /\ crashes \in Nat
  <1>2. Rest /\ row \in [Ids -> Row]
    BY DEF TypeOK
  <1>3. \A j \in Ids : row[j].attempts \in Nat
    BY <1>2 DEF Row
  <1>4. NoJob \notin Ids
    BY DEF NoJob, Ids
  <1>5. CASE RunStep
    <2> SUFFICES Rest'
      BY <1>1 DEF TypeOK
    <2>0. slot \in Ids
      BY <1>5, InFlight, RunStepStage
    <2>1. CASE BuildFails
      BY <1>2, <1>3, <1>4, <2>0, <2>1 DEF BuildFails, Release, AwaitStages, SyncStages
    <2>2. CASE Acquire
      BY <1>2, <1>3, <1>4, <2>0, <2>2 DEF Acquire, Release, AwaitStages, SyncStages
    <2>3. CASE AcquireFails
      BY <1>2, <1>3, <1>4, <2>0, <2>3 DEF AcquireFails, Release, AwaitStages, SyncStages
    <2>4. CASE SettleFailedStart
      BY <1>2, <1>3, <1>4, <2>0, <2>4 DEF SettleFailedStart, Release, AwaitStages, SyncStages
    <2>5. CASE Acquired
      BY <1>2, <1>3, <1>4, <2>0, <2>5 DEF Acquired, Release, AwaitStages, SyncStages
    <2>6. CASE VanishedMeanwhile
      BY <1>2, <1>3, <1>4, <2>0, <2>6 DEF VanishedMeanwhile, Release, AwaitStages, SyncStages
    <2>7. CASE CanceledMeanwhile
      BY <1>2, <1>3, <1>4, <2>0, <2>7 DEF CanceledMeanwhile, Release, AwaitStages, SyncStages
    <2>8. CASE Yield
      BY <1>2, <1>3, <1>4, <2>0, <2>8 DEF Yield, Release, AwaitStages, SyncStages
    <2>18. CASE KeepsSlot
      BY <1>2, <1>3, <1>4, <2>0, <2>18 DEF KeepsSlot, Release, AwaitStages, SyncStages
    <2>9. CASE StartAttempt
      BY <1>2, <1>3, <1>4, <2>0, <2>9 DEF StartAttempt, AboutToStart, Release, AwaitStages, SyncStages
    <2>10. CASE StartVanishes
      BY <1>2, <1>3, <1>4, <2>0, <2>10 DEF StartVanishes, Release, AwaitStages, SyncStages
    <2>11. CASE SetRunning
      BY <1>2, <1>3, <1>4, <2>0, <2>11 DEF SetRunning, Release, AwaitStages, SyncStages
    <2>12. CASE Spawn
      BY <1>2, <1>3, <1>4, <2>0, <2>12 DEF Spawn, Driver, Release, AwaitStages, SyncStages
    <2>13. CASE SpawnFails
      BY <1>2, <1>3, <1>4, <2>0, <2>13 DEF SpawnFails, LeaveRun, Release, AwaitStages, SyncStages
    <2>14. CASE RecordPid
      BY <1>2, <1>3, <1>4, <2>0, <2>14 DEF RecordPid, Release, AwaitStages, SyncStages
    <2>15. CASE Handoff
      BY <1>2, <1>3, <1>4, <2>0, <2>15 DEF Handoff, Release, AwaitStages, SyncStages
    <2>16. CASE StopReturns
      BY <1>2, <1>3, <1>4, <2>0, <2>16 DEF StopReturns, Release, AwaitStages, SyncStages
    <2>17. ASSUME NEW rc \in ExitCodes, NEW points \in Points, DriverDone(rc, points)
          PROVE  Rest'
      BY <1>2, <1>4, <2>0, <2>17 DEF DriverDone, LeaveRun, Release, AwaitStages, SyncStages
    <2> HIDE DEF Rest
    <2> QED BY <1>5, <2>1, <2>2, <2>3, <2>4, <2>5, <2>6, <2>7, <2>8, <2>9, <2>10, <2>11, <2>12, <2>13, <2>14, <2>15, <2>16, <2>17, <2>18 DEF RunStep
  <1>6. CASE CancelStep
    <2> Rest'
      BY <1>2, <1>6 DEF CancelStep, CancelWaiting, CancelRunning, CancelExited, CancelGivesUp,
         CancelCompletes, memory, AwaitStages
    <2> QED BY <1>1 DEF TypeOK
  <1>7. CASE ClientStep
    <2>1. ASSUME NEW after \in Ids \cup {NoJob}, Submit(after) PROVE Rest'
      BY <1>2, <2>1 DEF Submit, memory
    <2>2. ASSUME NEW p \in placing, Place(p) PROVE Rest'
      BY <1>2, <2>2 DEF Place, memory
    <2>3. ASSUME NEW j \in Ids, Resubmit(j) \/ Delete(j) \/ RetryNow(j) PROVE Rest'
      BY <1>2, <2>3 DEF Resubmit, Delete, RetryNow, memory
    <2>4. ASSUME NEW outcomes, Purge(outcomes) PROVE Rest'
      BY <1>2, <2>4 DEF Purge, memory
    <2> QED BY <1>1, <1>7, <2>1, <2>2, <2>3, <2>4 DEF ClientStep, TypeOK
  <1>8. CASE QueueStep
    <2> Rest'
      BY <1>2, <1>4, <1>8 DEF QueueStep, Dispatch, DelayExpires, DriverExits, memory, AwaitStages
    <2> QED BY <1>1 DEF TypeOK
  <1>9. CASE OperatorStep
    <2>1. ASSUME NEW S, NEW rank, Reorder(S, rank) PROVE Rest'
      BY <1>2, <2>1 DEF Reorder, memory
    <2>2. ASSUME NEW value \in BOOLEAN, SetPaused(value) PROVE Rest'
      BY <1>2, <2>2 DEF SetPaused, memory
    <2> QED BY <1>1, <1>9, <2>1, <2>2 DEF OperatorStep, TypeOK
  <1>10. CASE DaemonDies
    <2> Rest'
      BY <1>2, <1>4, <1>10 DEF DaemonDies, Crash, AwaitStages
    <2> QED BY <1>1 DEF TypeOK
  <1>11. CASE UNCHANGED vars
    BY <1>1, <1>2, <1>11 DEF vars, memory, TypeOK
  <1> QED BY <1>5, <1>6, <1>7, <1>8, <1>9, <1>10, <1>11 DEF Next

LEMMA TypeInit == Init => TypeOK
  <1> SUFFICES ASSUME Init PROVE TypeOK
    OBVIOUS
  <1>1. AbsentRow \in Row
    BY QueueAssumption DEF AbsentRow, Row, States, Outcomes
  <1>2. row \in [Ids -> Row]
    BY <1>1 DEF Init
  <1>3. /\ nextId \in Nat /\ crashes \in Nat /\ paused \in BOOLEAN
        /\ placing \subseteq [job : Ids, after : Ids \cup {NoJob}]
        /\ lease \in [Clusters -> Ids \cup {NoJob}]
        /\ procs \subseteq (Ids \X Nat)
    BY DEF Init
  <1> QED BY <1>2, <1>3 DEF Init, TypeOK, AwaitStages, SyncStages

\* The rows of jobs and job_attempts, the slot, the leases and the drivers
\* keep their types in every reachable state.
THEOREM TypeCorrect == Spec => []TypeOK
  BY TypeInit, TypeStep, PTL DEF Spec

-----------------------------------------------------------------------------
(* What the statements do to the rows, as far as the invariants can tell.  *)

\* Job j, if it is there, ends up in one of these states with n more attempts;
\* its pid changes only where the driver's is stored; no other row changes.
RowBecomes(j, states, n) ==
    \A k \in Ids :
        IF k = j /\ Present(j)
        THEN /\ row'[k].state \in states
             /\ row'[k].attempts = row[k].attempts + n
             /\ row'[k].pid = row[k].pid \/ stage = "spawned"
        ELSE row'[k] = row[k]

\* Every row keeps all but its priority.
OnlyPrioritiesMove ==
    \A k \in Ids : /\ row'[k].state = row[k].state
                   /\ row'[k].outcome = row[k].outcome
                   /\ row'[k].attempts = row[k].attempts
                   /\ row'[k].pid = row[k].pid
                   /\ row'[k].log = row[k].log

LEMMA WriteEffect ==
    ASSUME row \in [Ids -> Row], NEW j \in Ids, NEW r \in Row, NEW states,
           Write(j, r) \/ row' = [row EXCEPT ![j] = r],
           NEW n \in Nat,
           r.state \in states, r.attempts = row[j].attempts + n,
           r.pid = row[j].pid \/ stage = "spawned",
           Present(j) \/ Write(j, r)
    PROVE  RowBecomes(j, states, n)
  BY WriteType, ExceptType DEF RowBecomes

LEMMA RunEffects ==
    ASSUME TypeOK
    PROVE  /\ BuildFails => RowBecomes(slot, {"done"}, 0)
           /\ AcquireFails => RowBecomes(slot, {row[slot].state}, 1)
           /\ SettleFailedStart =>
                 RowBecomes(slot, IF OutOfAttempts(slot) THEN {"done"} ELSE {"waiting"}, 0)
           /\ StartAttempt => RowBecomes(slot, {row[slot].state}, 1)
           /\ SetRunning => RowBecomes(slot, {"running"}, 0)
           /\ SpawnFails => RowBecomes(slot, {"done"}, 0)
           /\ RecordPid => RowBecomes(slot, {row[slot].state}, 0)
  <1>1. row \in [Ids -> Row]
    BY DEF TypeOK
  <1>2. ASSUME stage # "idle"
        PROVE  slot \in Ids /\ row[slot] \in Row /\ row[slot].attempts \in Nat
    BY <1>2, InFlight DEF Row
  <1>3. ASSUME BuildFails PROVE RowBecomes(slot, {"done"}, 0)
    <2>1. slot \in Ids /\ row[slot] \in Row /\ row[slot].attempts + 0 = row[slot].attempts
      BY <1>2, <1>3 DEF BuildFails
    <2>2. Write(slot, Finished(row[slot], "failed"))
      BY <1>3 DEF BuildFails
    <2> QED BY <1>1, <2>1, <2>2, FinishedType, WriteEffect DEF Outcomes
  <1>4. ASSUME AcquireFails PROVE RowBecomes(slot, {row[slot].state}, 1)
    <2>1. slot \in Ids /\ row[slot] \in Row
      BY <1>2, <1>4 DEF AcquireFails
    <2>2. CASE Present(slot)
      <3>1. row' = [row EXCEPT ![slot] = FailedStart(row[slot])]
        BY <1>4, <2>2 DEF AcquireFails
      <3> QED BY <1>1, <2>1, <2>2, <3>1, StartedAttemptType, WriteEffect
    <2>3. CASE ~Present(slot)
      BY <1>4, <2>3 DEF AcquireFails, RowBecomes
    <2> QED BY <2>2, <2>3
  <1>5. ASSUME SettleFailedStart
        PROVE  RowBecomes(slot, IF OutOfAttempts(slot) THEN {"done"} ELSE {"waiting"}, 0)
    <2>1. slot \in Ids /\ row[slot] \in Row /\ row[slot].attempts + 0 = row[slot].attempts
      BY <1>2, <1>5 DEF SettleFailedStart
    <2>2. CASE OutOfAttempts(slot)
      <3>1. Write(slot, Finished(row[slot], "failed"))
        BY <1>5, <2>2 DEF SettleFailedStart
      <3>2. RowBecomes(slot, {"done"}, 0)
        BY <1>1, <2>1, <3>1, FinishedType, WriteEffect DEF Outcomes
      <3> QED BY <2>2, <3>2
    <2>3. CASE ~OutOfAttempts(slot)
      <3>1. Write(slot, WaitingAgain(row[slot]))
        BY <1>5, <2>3 DEF SettleFailedStart
      <3>2. RowBecomes(slot, {"waiting"}, 0)
        BY <1>1, <2>1, <3>1, FinishedType, WriteEffect DEF Outcomes
      <3> QED BY <2>3, <3>2
    <2> QED BY <2>2, <2>3
  <1>6. ASSUME StartAttempt PROVE RowBecomes(slot, {row[slot].state}, 1)
    <2>1. slot \in Ids /\ row[slot] \in Row /\ Present(slot)
      BY <1>2, <1>6 DEF StartAttempt, AboutToStart
    <2>2. row' = [row EXCEPT ![slot] = StartedAttempt(row[slot])]
      BY <1>6 DEF StartAttempt
    <2> QED BY <1>1, <2>1, <2>2, StartedAttemptType, WriteEffect
  <1>7. ASSUME SetRunning PROVE RowBecomes(slot, {"running"}, 0)
    <2>1. slot \in Ids /\ row[slot] \in Row /\ row[slot].attempts + 0 = row[slot].attempts
      BY <1>2, <1>7 DEF SetRunning
    <2>2. /\ [row[slot] EXCEPT !.state = "running"] \in Row
          /\ [row[slot] EXCEPT !.state = "running"].state = "running"
          /\ [row[slot] EXCEPT !.state = "running"].attempts = row[slot].attempts
          /\ [row[slot] EXCEPT !.state = "running"].pid = row[slot].pid
      BY <2>1 DEF Row, States
    <2>3. Write(slot, [row[slot] EXCEPT !.state = "running"])
      BY <1>7 DEF SetRunning
    <2> QED BY <1>1, <2>1, <2>2, <2>3, WriteEffect
  <1>8. ASSUME SpawnFails PROVE RowBecomes(slot, {"done"}, 0)
    <2> DEFINE ended == EndedAttempt(row[slot], "notZero")
    <2>1. slot \in Ids /\ row[slot] \in Row /\ row[slot].attempts + 0 = row[slot].attempts
      BY <1>2, <1>8 DEF SpawnFails
    <2>2. ended \in Row /\ ended.attempts = row[slot].attempts /\ ended.pid = row[slot].pid
      BY <2>1, EndedAttemptType DEF Points
    <2>3. Write(slot, Finished(ended, "failed"))
      BY <1>8 DEF SpawnFails
    <2> HIDE DEF ended
    <2> QED BY <1>1, <2>1, <2>2, <2>3, FinishedType, WriteEffect DEF Outcomes
  <1>9. ASSUME RecordPid PROVE RowBecomes(slot, {row[slot].state}, 0)
    <2> DEFINE r == [row[slot] EXCEPT !.pid = row[slot].attempts]
    <2>1. slot \in Ids /\ row[slot] \in Row /\ row[slot].attempts + 0 = row[slot].attempts
      BY <1>2, <1>9 DEF RecordPid
    <2>2. r \in Row /\ r.state = row[slot].state /\ r.attempts = row[slot].attempts
      BY <1>2, <1>9, <2>1 DEF Row, RecordPid
    <2>3. Write(slot, r) /\ stage = "spawned"
      BY <1>9 DEF RecordPid
    <2> HIDE DEF r
    <2> QED BY <1>1, <2>1, <2>2, <2>3, WriteEffect
  <1> QED BY <1>3, <1>4, <1>5, <1>6, <1>7, <1>8, <1>9

\* _finish leaves a done job done; any other it ends, or sends back to the
\* queue with an attempt to spare.
LEMMA DriverDoneEffect ==
    ASSUME TypeOK, NEW rc \in ExitCodes, NEW points \in Points, DriverDone(rc, points)
    PROVE  /\ slot \in Ids
           /\ RowBecomes(slot, {"done", "waiting"}, 0)
           /\ row'[slot].state = "waiting" => row[slot].attempts < MaxAttempts[slot]
           /\ row[slot].state = "done" =>
                 row'[slot].state = "done" /\ row'[slot].outcome = row[slot].outcome
  <1> DEFINE ended == EndedAttempt(row[slot], points)
             after == IF ended.state = "done" THEN ended
                      ELSE FinishedRow(ended, MaxAttempts[slot], rc)
  <1>1. /\ row \in [Ids -> Row] /\ slot \in Ids /\ row[slot] \in Row
        /\ row[slot].attempts \in Nat /\ MaxAttempts[slot] \in Int
    BY InFlight DEF TypeOK, DriverDone, Row
  <1>2. /\ ended \in Row /\ ended.state = row[slot].state /\ ended.pid = row[slot].pid
        /\ ended.attempts = row[slot].attempts /\ ended.outcome = row[slot].outcome
    BY <1>1, EndedAttemptType
  <1>3. Write(slot, after)
    BY DEF DriverDone
  <1> HIDE DEF ended
  <1>4. /\ after \in Row /\ after.attempts = row[slot].attempts
        /\ after.pid = row[slot].pid
        /\ after.state \in {"done", "waiting"}
        /\ after.state = "waiting" => row[slot].attempts < MaxAttempts[slot]
        /\ row[slot].state = "done" =>
              after.state = "done" /\ after.outcome = row[slot].outcome
    <2>1. CASE ended.state = "done"
      BY <1>2, <2>1
    <2>2. CASE ended.state # "done"
      BY <1>1, <1>2, <2>2, FinishedRowType
    <2> QED BY <2>1, <2>2
  <1> HIDE DEF after
  <1>5. RowBecomes(slot, {"done", "waiting"}, 0)
    BY <1>1, <1>3, <1>4, WriteEffect
  <1>6. row'[slot] = IF Present(slot) THEN after ELSE row[slot]
    BY <1>1, <1>3, <1>4, WriteType
  <1> QED BY <1>1, <1>4, <1>5, <1>6 DEF Present

LEMMA CancelEffects ==
    ASSUME TypeOK
    PROVE  /\ \A j \in Ids : CancelWaiting(j) => RowBecomes(j, {"done"}, 0)
           /\ CancelExited => RowBecomes(slot, {"done"}, 0)
           /\ CancelCompletes => RowBecomes(canceling, {"done"}, 0)
  <1>1. row \in [Ids -> Row] /\ \A j \in Ids : row[j].attempts + 0 = row[j].attempts
    BY DEF TypeOK, Row
  <1>2. ASSUME NEW j \in Ids
        PROVE  LET r == Finished(EndedAttempt(row[j], "notZero"), "canceled")
               IN  /\ r \in Row /\ r.state = "done"
                   /\ r.attempts = row[j].attempts /\ r.pid = row[j].pid
    <2> DEFINE ended == EndedAttempt(row[j], "notZero")
    <2>1. ended \in Row /\ ended.attempts = row[j].attempts /\ ended.pid = row[j].pid
      BY <1>1, EndedAttemptType DEF Points
    <2> HIDE DEF ended
    <2>2. LET r == Finished(ended, "canceled")
          IN  /\ r \in Row /\ r.state = "done"
              /\ r.attempts = row[j].attempts /\ r.pid = row[j].pid
      BY <2>1, FinishedType DEF Outcomes
    <2> QED BY <2>2 DEF ended
  <1>3. ASSUME NEW j \in Ids, CancelWaiting(j) PROVE RowBecomes(j, {"done"}, 0)
    <2>1. row' = [row EXCEPT ![j] = Finished(row[j], "canceled")] /\ Present(j)
      BY <1>3 DEF CancelWaiting, Waiting, Present
    <2>2. row[j] \in Row /\ "canceled" \in Outcomes
      BY <1>1 DEF Outcomes
    <2> DEFINE r == Finished(row[j], "canceled")
    <2>3. /\ r \in Row /\ r.state = "done"
          /\ r.attempts = row[j].attempts /\ r.pid = row[j].pid
      BY <2>2, FinishedType
    <2> HIDE DEF r
    <2> QED BY <1>1, <2>1, <2>3, WriteEffect DEF r
  <1>4. ASSUME CancelExited PROVE RowBecomes(slot, {"done"}, 0)
    <2>1. slot \in Ids /\ Present(slot)
      BY <1>4, InFlight DEF CancelExited, Present
    <2>2. row' = [row EXCEPT ![slot] = Finished(EndedAttempt(row[slot], "notZero"), "canceled")]
      BY <1>4 DEF CancelExited
    <2> QED BY <1>1, <1>2, <2>1, <2>2, WriteEffect
  <1>5. ASSUME CancelCompletes PROVE RowBecomes(canceling, {"done"}, 0)
    <2>1. canceling \in Ids
      BY <1>5 DEF CancelCompletes, CancelDue, TypeOK
    <2>2. Write(canceling, Finished(EndedAttempt(row[canceling], "notZero"), "canceled"))
      BY <1>5 DEF CancelCompletes
    <2> QED BY <1>1, <1>2, <2>1, <2>2, WriteEffect
  <1> QED BY <1>3, <1>4, <1>5

LEMMA QueueOrderEffects ==
    ASSUME TypeOK
    PROVE  /\ \A p \in placing : Place(p) => OnlyPrioritiesMove
           /\ \A S \in SUBSET Waiting :
                 \A rank \in Bijection(S, 1..Cardinality(S)) :
                    Reorder(S, rank) => OnlyPrioritiesMove
  <1>1. row \in [Ids -> Row]
    BY DEF TypeOK
  <1>2. ASSUME NEW p \in placing, Place(p) PROVE OnlyPrioritiesMove
    <2>1. p.job \in Ids /\ p.after \in Ids \cup {NoJob}
      BY DEF TypeOK
    <2> QED BY <1>1, <1>2, <2>1, PlacedType DEF Place, OnlyPrioritiesMove
  <1>3. ASSUME NEW S, NEW rank, Reorder(S, rank) PROVE OnlyPrioritiesMove
    <2>1. \A j \in Ids : \A n : LET r == [row[j] EXCEPT !.prio = n]
                            IN  /\ r.state = row[j].state
                                /\ r.outcome = row[j].outcome
                                /\ r.attempts = row[j].attempts
                                /\ r.pid = row[j].pid
                                /\ r.log = row[j].log
      BY <1>1 DEF Row
    <2> QED BY <1>1, <1>3, <2>1 DEF Reorder, OnlyPrioritiesMove
  <1> QED BY <1>2, <1>3

\* A restart touches the running rows whose process it does not find.
LEMMA CrashEffect ==
    ASSUME TypeOK, NEW survivors, NEW alive, Crash(survivors, alive), NEW k \in Ids
    PROVE  /\ row'[k].attempts = row[k].attempts
           /\ \/ row'[k] = row[k]
              \/ row[k].state = "running" /\ row'[k].state \in {"done", "waiting"}
           /\ row'[k].state = "running" => row[k].pid # 0 /\ row'[k] = row[k]
  <1>1. row[k] \in Row /\ MaxAttempts[k] \in Int
    BY QueueAssumption DEF TypeOK
  <1>2. row'[k] = IF row[k].state = "running" /\ ~PidAlive(alive, k)
                  THEN RecoveredRow(row[k], MaxAttempts[k]) ELSE row[k]
    BY DEF Crash
  <1> QED BY <1>1, <1>2, RecoveredRowType DEF PidAlive

-----------------------------------------------------------------------------
(* The inductive invariant.                                                *)

\* Ids are handed out in order and never twice: whoever holds the slot or a
\* lease was submitted, so an id without a row stays without one.
IssuedIds ==
    /\ nextId >= 1
    /\ slot < nextId
    /\ \A c \in Clusters : lease[c] < nextId
    /\ \A j \in Ids : Present(j) => j < nextId

\* A job that may still be started has an attempt left to spend, or a crash
\* that paid for one.
Spendable(j) == row[j].attempts < Budget(j) + crashes
BudgetInv ==
    /\ AttemptsPaidFor
    /\ \A j \in Waiting :
          ~(slot = j /\ stage \in {"startFailed", "starting"}) => Spendable(j)
    /\ stage \in {"claimed", "acquiring", "acquired", "cleared"} => Spendable(slot)

\* While _run holds a lease it is the lease of its job's cluster.
LeaseStages ==
    {"acquired", "cleared", "starting", "spawning", "spawned", "driving", "handoff"}
LeaseInv ==
    /\ LeaseFollowsSlot
    /\ \A c \in Clusters :
          lease[c] = slot /\ slot # NoJob =>
              c = ClusterOf[slot] /\ stage \in LeaseStages

\* From SetRunning to the driver's exit the row says running, and a cancel
\* outlives _run only until the next dispatch.
RunningInv ==
    /\ RunningRowIsDriven
    /\ stage \in {"spawning", "spawned"} /\ Present(slot) =>
          row[slot].state = "running"
    /\ stage = "driving" => row[slot].state # "waiting"
    /\ canceling # NoJob =>
          /\ stage \in {"driving", "handoff", "stopping", "idle"}
          /\ stage = "driving" => slot = canceling

\* Drivers other than the one _run waits for are orphans, one per crash; a job
\* that is done while _run still drives it has no driver any more.
DriversInv ==
    /\ IsFiniteSet(procs)
    /\ IF stage \in DriverStages
       THEN Cardinality(procs \ {Driver}) <= crashes
       ELSE Cardinality(procs) <= crashes
    /\ stage \in DriverStages /\ row[slot].state = "done" => Driver \notin procs

IInv == TypeOK /\ IssuedIds /\ BudgetInv /\ LeaseInv /\ RunningInv /\ DriversInv

-----------------------------------------------------------------------------
(* The steps, grouped by what they leave alone.                            *)

\* A submission or a resubmission: a waiting row at the next id.
Arrival ==
    /\ nextId \in Ids
    /\ nextId' = nextId + 1
    /\ \A k \in Ids : k # nextId => row'[k] = row[k]
    /\ row'[nextId].state = "waiting" /\ row'[nextId].attempts = 0
    /\ row'[nextId].log = <<>>
    /\ UNCHANGED <<slot, stage, canceling, lease, procs, crashes>>

\* A placement or a reorder.
Reranked ==
    /\ OnlyPrioritiesMove
    /\ UNCHANGED <<nextId, slot, stage, canceling, lease, procs, crashes>>

\* A delete or a purge.
Removal ==
    /\ \A k \in Ids :
          \/ row'[k] = row[k]
          \/ row[k].state = "done" /\ row'[k] = AbsentRow
    /\ UNCHANGED <<nextId, slot, stage, canceling, lease, procs, crashes>>

\* Steps that touch only the pause flag, the waits or nothing.
Aside == UNCHANGED <<row, nextId, slot, stage, canceling, lease, procs, crashes>>

Elsewhere ==
    \/ Arrival \/ Reranked \/ Removal \/ Aside
    \/ \E j \in Ids : Dispatch(j)
    \/ \E p \in procs : DriverExits(p)
    \/ \E survivors \in SUBSET procs, alive \in SUBSET Ids : Crash(survivors, alive)

LEMMA StepCases ==
    ASSUME TypeOK, [Next]_vars
    PROVE  RunStep \/ CancelStep \/ Elsewhere
  <1>1. row \in [Ids -> Row]
    BY DEF TypeOK
  <1>2. ASSUME ClientStep PROVE Elsewhere
    <2>1. ASSUME NEW after \in Ids \cup {NoJob}, Submit(after) PROVE Arrival
      BY <1>1, <2>1, FreshRowType DEF Submit, Arrival, memory
    <2>2. ASSUME NEW j \in Ids, Resubmit(j) PROVE Arrival
      BY <1>1, <2>2, FreshRowType DEF Resubmit, Arrival, memory
    <2>3. ASSUME NEW p \in placing, Place(p) PROVE Reranked
      BY <2>3, QueueOrderEffects DEF Place, Reranked, memory
    <2>4. ASSUME NEW j \in Ids, Delete(j) PROVE Removal
      BY <1>1, <2>4 DEF Delete, Removal, memory
    <2>5. ASSUME NEW outcomes, Purge(outcomes) PROVE Removal
      BY <1>1, <2>5 DEF Purge, Removal, memory
    <2>6. ASSUME NEW j \in Ids, RetryNow(j) PROVE Aside
      BY <2>6 DEF RetryNow, Aside
    <2> QED BY <1>2, <2>1, <2>2, <2>3, <2>4, <2>5, <2>6 DEF ClientStep, Elsewhere
  <1>3. ASSUME OperatorStep PROVE Elsewhere
    <2>1. ASSUME NEW S \in SUBSET Waiting, NEW rank \in Bijection(S, 1..Cardinality(S)),
                 Reorder(S, rank)
          PROVE  Reranked
      BY <2>1, QueueOrderEffects DEF Reorder, Reranked, memory
    <2>2. ASSUME NEW value, SetPaused(value) PROVE Aside
      BY <2>2 DEF SetPaused, Aside, memory
    <2> QED BY <1>3, <2>1, <2>2 DEF OperatorStep, Elsewhere
  <1>4. ASSUME QueueStep PROVE Elsewhere
    <2>1. ASSUME NEW j \in Ids, DelayExpires(j) PROVE Aside
      BY <2>1 DEF DelayExpires, Aside
    <2> QED BY <1>4, <2>1 DEF QueueStep, Elsewhere
  <1>5. ASSUME UNCHANGED vars PROVE Aside
    BY <1>5 DEF vars, memory, Aside
  <1> QED BY <1>2, <1>3, <1>4, <1>5 DEF Next, DaemonDies, Elsewhere

-----------------------------------------------------------------------------
(* IInv is inductive: one lemma per part.                                  *)

LEMMA IssuedStep ==
    ASSUME TypeOK, IssuedIds, [Next]_vars
    PROVE  IssuedIds'
  <1> USE DEF IssuedIds, Present, NoJob
  <1>1. /\ row \in [Ids -> Row] /\ row' \in [Ids -> Row] /\ nextId \in Nat
        /\ lease \in [Clusters -> Ids \cup {NoJob}] /\ Ids \subseteq Nat /\ slot \in Nat
        /\ canceling \in Ids \cup {NoJob}
    BY TypeStep DEF TypeOK, Ids
  <1>2. CASE RunStep
    <2>1. slot \in Ids
      BY <1>2, InFlight, RunStepStage
    <2>2. \A k \in Ids : row'[k].state # "absent" => Present(k)
      <3>1. ASSUME NEW states, NEW n, RowBecomes(slot, states, n), NEW k \in Ids,
                   row'[k].state # "absent"
            PROVE  Present(k)
        BY <3>1 DEF RowBecomes
      <3> QED BY <1>2, <3>1, RunEffects, DriverDoneEffect
          DEF RunStep, Acquire, Acquired, VanishedMeanwhile, CanceledMeanwhile, Yield, KeepsSlot,
              StartVanishes, Spawn, Handoff, StopReturns
    <2>3. nextId' = nextId /\ (slot' = slot \/ slot' = NoJob)
      BY <1>2 DEF RunStep, BuildFails, Acquire, AcquireFails, SettleFailedStart, Acquired,
         VanishedMeanwhile, CanceledMeanwhile, Yield, KeepsSlot, StartAttempt, StartVanishes, SetRunning,
         Spawn, SpawnFails, RecordPid, DriverDone, Handoff, StopReturns, LeaveRun, Release
    <2>4. \A c \in Clusters : lease'[c] \in {lease[c], slot, NoJob}
      BY <1>1, <1>2 DEF RunStep, BuildFails, Acquire, AcquireFails, SettleFailedStart, Acquired,
         VanishedMeanwhile, CanceledMeanwhile, Yield, KeepsSlot, StartAttempt, StartVanishes, SetRunning,
         Spawn, SpawnFails, RecordPid, DriverDone, Handoff, StopReturns, LeaveRun, Release
    <2> QED BY <1>1, <2>2, <2>3, <2>4
  <1>3. CASE CancelStep
    <2>1. UNCHANGED <<nextId, slot, lease>>
      BY <1>3 DEF CancelStep, CancelWaiting, CancelRunning, CancelExited, CancelGivesUp,
         CancelCompletes, memory
    <2>2. ASSUME NEW j, NEW states, NEW n, RowBecomes(j, states, n), NEW k \in Ids,
                 row'[k].state # "absent"
          PROVE  Present(k)
      BY <2>2 DEF RowBecomes
    <2>3. \A k \in Ids : row'[k].state # "absent" => Present(k)
      BY <1>3, <2>2, CancelEffects DEF CancelStep, CancelRunning, CancelGivesUp
    <2> QED BY <1>1, <2>1, <2>3
  <1>4. CASE Arrival
    <2>1. nextId' = nextId + 1 /\ UNCHANGED <<slot, lease>>
      BY <1>4 DEF Arrival
    <2>2. \A k \in Ids : k # nextId => row'[k] = row[k]
      BY <1>4 DEF Arrival
    <2>3. \A k \in Ids : row'[k].state # "absent" => k < nextId + 1
      BY <1>1, <2>2
    <2>4. \A c \in Clusters : lease[c] < nextId + 1
      <3>1. \A c \in Clusters : lease[c] \in Ids \cup {NoJob}
        BY DEF TypeOK
      <3>2. \A c \in Clusters : lease[c] \in Nat
        BY <3>1 DEF Ids
      <3> QED BY <1>1, <3>2
    <2> QED BY <1>1, <2>1, <2>3, <2>4
  <1>5. CASE Reranked \/ Removal \/ Aside
    BY <1>1, <1>5 DEF Reranked, OnlyPrioritiesMove, Removal, AbsentRow, Aside
  <1>6. ASSUME NEW j \in Ids, Dispatch(j) PROVE IssuedIds'
    BY <1>1, <1>6 DEF Dispatch, IsHead, Waiting
  <1>7. ASSUME NEW p, DriverExits(p) PROVE IssuedIds'
    BY <1>1, <1>7 DEF DriverExits, memory
  <1>8. ASSUME NEW survivors, NEW alive, Crash(survivors, alive) PROVE IssuedIds'
    <2>1. \A k \in Ids : row'[k].state # "absent" => Present(k)
      BY <1>8, CrashEffect
    <2> QED BY <1>1, <1>8, <2>1 DEF Crash
  <1> QED BY <1>2, <1>3, <1>4, <1>5, <1>6, <1>7, <1>8, StepCases DEF Elsewhere

LEMMA BudgetStep ==
    ASSUME TypeOK, BudgetInv, [Next]_vars
    PROVE  BudgetInv'
  <1> USE DEF BudgetInv, AttemptsPaidFor, Spendable, Waiting
  <1>1. /\ row \in [Ids -> Row] /\ row' \in [Ids -> Row] /\ crashes \in Nat
        /\ \A k \in Ids : row[k].attempts \in Nat
        /\ slot \in Ids \cup {NoJob} /\ NoJob \notin Ids
        /\ (slot = NoJob) <=> (stage = "idle")
    <2>1. NoJob \notin Ids
      BY DEF NoJob, Ids
    <2>2. row' \in [Ids -> Row]
      BY TypeStep DEF TypeOK
    <2> QED BY <2>1, <2>2 DEF TypeOK, Row
  <1>2. \A k \in Ids : /\ Budget(k) \in Nat \ {0}
                       /\ MaxAttempts[k] \in Int /\ MaxAttempts[k] <= Budget(k)
    BY QueueAssumption DEF Budget
  <1>3. CASE RunStep
    <2>1. slot \in Ids
      BY <1>3, InFlight, RunStepStage
    <2>2. crashes' = crashes
      BY <1>3 DEF RunStep, BuildFails, Acquire, AcquireFails, SettleFailedStart, Acquired,
         VanishedMeanwhile, CanceledMeanwhile, Yield, KeepsSlot, StartAttempt, StartVanishes, SetRunning,
         Spawn, SpawnFails, RecordPid, DriverDone, Handoff, StopReturns
    <2>3. CASE BuildFails
      BY <1>1, <2>1, <2>2, <2>3, RunEffects DEF BuildFails, Release, RowBecomes, Present
    <2>4. CASE Acquire \/ Acquired \/ CanceledMeanwhile \/ Yield \/ KeepsSlot
      BY <1>1, <2>1, <2>2, <2>4 DEF Acquire, Acquired, CanceledMeanwhile, Yield, KeepsSlot
    <2>5. CASE AcquireFails
      BY <1>1, <1>2, <2>1, <2>2, <2>5, RunEffects
      DEF AcquireFails, Release, RowBecomes, Present
    <2>6. CASE SettleFailedStart
      BY <1>1, <1>2, <2>1, <2>2, <2>6, RunEffects
      DEF SettleFailedStart, OutOfAttempts, Release, RowBecomes, Present
    <2>7. CASE VanishedMeanwhile \/ StartVanishes \/ StopReturns
      BY <1>1, <2>1, <2>2, <2>7 DEF VanishedMeanwhile, StartVanishes, StopReturns, Release
    <2>8. CASE StartAttempt
      BY <1>1, <1>2, <2>1, <2>2, <2>8, RunEffects
      DEF StartAttempt, AboutToStart, RowBecomes, Present
    <2>9. CASE SetRunning
      BY <1>1, <2>1, <2>2, <2>9, RunEffects DEF SetRunning, RowBecomes, Present
    <2>10. CASE Spawn
      BY <1>1, <2>1, <2>2, <2>10 DEF Spawn
    <2>11. CASE SpawnFails
      BY <1>1, <2>1, <2>2, <2>11, RunEffects
      DEF SpawnFails, LeaveRun, Release, RowBecomes, Present
    <2>12. CASE RecordPid
      BY <1>1, <2>1, <2>2, <2>12, RunEffects DEF RecordPid, RowBecomes, Present
    <2>13. ASSUME NEW rc \in ExitCodes, NEW points \in Points, DriverDone(rc, points)
           PROVE  BudgetInv'
      <3>1. stage' \in {"idle", "handoff"}
        BY <2>13 DEF DriverDone, LeaveRun, Release
      <3>2. stage = "driving"
        BY <2>13 DEF DriverDone
      <3> QED BY <1>1, <1>2, <2>1, <2>2, <2>13, <3>1, <3>2, DriverDoneEffect
          DEF RowBecomes, Present
    <2>14. CASE Handoff
      BY <1>1, <2>1, <2>2, <2>14 DEF Handoff, Release
    <2> QED BY <1>3, <2>3, <2>4, <2>5, <2>6, <2>7, <2>8, <2>9, <2>10, <2>11, <2>12, <2>13,
               <2>14 DEF RunStep
  <1>4. CASE CancelStep
    <2>1. UNCHANGED <<slot, stage, crashes>>
      BY <1>4 DEF CancelStep, CancelWaiting, CancelRunning, CancelExited, CancelGivesUp,
         CancelCompletes, memory
    <2>2. ASSUME NEW j, RowBecomes(j, {"done"}, 0) PROVE BudgetInv'
      BY <1>1, <2>1, <2>2 DEF RowBecomes, Present
    <2>3. CASE UNCHANGED row
      BY <1>1, <2>1, <2>3
    <2> QED BY <1>4, <2>2, <2>3, CancelEffects DEF CancelStep, CancelRunning, CancelGivesUp
  <1>5. CASE Arrival
    <2>1. /\ UNCHANGED <<slot, stage, crashes>> /\ nextId \in Ids
          /\ \A k \in Ids : k # nextId => row'[k] = row[k]
          /\ row'[nextId].state = "waiting" /\ row'[nextId].attempts = 0
      BY <1>5 DEF Arrival
    <2> QED BY <1>1, <1>2, <2>1
  <1>6. CASE Reranked
    BY <1>1, <1>6 DEF Reranked, OnlyPrioritiesMove
  <1>7. CASE Removal
    BY <1>1, <1>2, <1>7 DEF Removal, AbsentRow
  <1>8. CASE Aside
    BY <1>1, <1>8 DEF Aside
  <1>9. ASSUME NEW j \in Ids, Dispatch(j) PROVE BudgetInv'
    BY <1>1, <1>9 DEF Dispatch, IsHead
  <1>10. ASSUME NEW p, DriverExits(p) PROVE BudgetInv'
    BY <1>1, <1>10 DEF DriverExits, memory
  <1>11. ASSUME NEW survivors, NEW alive, Crash(survivors, alive) PROVE BudgetInv'
    <2>1. \A k \in Ids : row'[k].attempts = row[k].attempts
      BY <1>11, CrashEffect
    <2>2. /\ crashes' = crashes + 1 /\ stage' = "idle"
          /\ \A k \in Ids : row[k].attempts <= Budget(k) + crashes
      BY <1>11 DEF Crash
    <2>3. \A k \in Ids : row'[k].attempts < Budget(k) + crashes'
      BY <1>1, <1>2, <2>1, <2>2
    <2>4. \A k \in Ids : row'[k].attempts <= Budget(k) + crashes'
      BY <1>1, <1>2, <2>1, <2>2
    <2> QED BY <2>2, <2>3, <2>4 DEF Budget
  <1> QED BY <1>3, <1>4, <1>5, <1>6, <1>7, <1>8, <1>9, <1>10, <1>11, StepCases DEF Elsewhere

LEMMA LeaseStep ==
    ASSUME TypeOK, IssuedIds, LeaseInv, [Next]_vars
    PROVE  LeaseInv'
  <1> USE DEF LeaseInv, LeaseFollowsSlot, LeaseStages
  <1>1. /\ row \in [Ids -> Row]
        /\ lease \in [Clusters -> Ids \cup {NoJob}]
        /\ slot \in Ids \cup {NoJob} /\ NoJob \notin Ids
        /\ (slot = NoJob) <=> (stage = "idle")
    BY DEF TypeOK, Ids, NoJob
  <1>2. ASSUME ClusterOf[slot] = NoCluster
        PROVE  \A c \in Clusters : lease[c] = slot /\ slot # NoJob => FALSE
    BY <1>2, QueueAssumption
  <1>3. CASE RunStep
    <2>1. slot \in Ids
      BY <1>3, InFlight, RunStepStage
    <2>2. ASSUME NEW states, NEW n, RowBecomes(slot, states, n), NEW k \in Ids, ~Present(k)
          PROVE  row'[k] = row[k]
      BY <2>2 DEF RowBecomes, Present
    <2>3. ASSUME NEW k \in Ids, ~Present(k)
          PROVE  row'[k] = row[k]
      BY <1>3, <2>2, <2>3, RunEffects, DriverDoneEffect
      DEF RunStep, Acquire, Acquired, VanishedMeanwhile, CanceledMeanwhile, Yield, KeepsSlot,
          StartVanishes, Spawn, Handoff, StopReturns
    <2>4. \A k \in Ids : row[k].state = "absent" => row'[k].state = "absent"
      BY <2>3 DEF Present
    <2>5. CASE BuildFails \/ Acquire \/ AcquireFails \/ SettleFailedStart \/ StartVanishes
               \/ StopReturns
      <3>1. UNCHANGED lease /\ \A c \in Clusters : lease[c] # slot
        BY <1>1, <2>1, <2>5 DEF BuildFails, Acquire, AcquireFails, SettleFailedStart,
           StartVanishes, StopReturns
      <3>2. slot' = slot \/ slot' = NoJob
        BY <2>5 DEF BuildFails, Acquire, AcquireFails, SettleFailedStart, StartVanishes,
           StopReturns, Release
      <3> QED BY <1>1, <2>1, <2>4, <3>1, <3>2 DEF Present
    <2>6. CASE Acquired
      BY <1>1, <2>1, <2>4, <2>6 DEF Acquired, Present
    <2>7. CASE VanishedMeanwhile
      BY <1>1, <2>1, <2>4, <2>7 DEF VanishedMeanwhile, Release, Present
    <2>8. CASE CanceledMeanwhile \/ Yield \/ KeepsSlot \/ SetRunning \/ Spawn \/ RecordPid
      <3>1. UNCHANGED <<lease, slot>> /\ stage' \in LeaseStages
        BY <2>8 DEF CanceledMeanwhile, Yield, KeepsSlot, SetRunning, Spawn, RecordPid
      <3> QED BY <1>1, <2>1, <2>4, <3>1 DEF Present
    <2>9. CASE StartAttempt
      <3>1. UNCHANGED <<lease, slot>> /\ stage' \in LeaseStages
        BY <2>9 DEF StartAttempt
      <3> QED BY <1>1, <2>1, <2>4, <3>1 DEF Present
    <2>10. CASE UNCHANGED lease /\ LeaveRun
      <3>1. CASE ClusterOf[slot] = NoCluster
        <4>1. slot' = NoJob /\ \A c \in Clusters : lease[c] # slot
          BY <1>2, <1>1, <2>1, <2>10, <3>1 DEF LeaveRun, Release
        <4> QED BY <1>1, <2>1, <2>4, <2>10, <4>1 DEF Present
      <3>2. CASE ClusterOf[slot] # NoCluster
        BY <1>1, <2>1, <2>4, <2>10, <3>2 DEF LeaveRun, Present
      <3> QED BY <3>1, <3>2
    <2>11. CASE SpawnFails \/ \E rc \in ExitCodes, points \in Points : DriverDone(rc, points)
      BY <2>10, <2>11 DEF SpawnFails, DriverDone
    <2>12. CASE Handoff
      <3>1. \A c \in Clusters : lease'[c] = IF c = ClusterOf[slot] THEN NoJob ELSE lease[c]
        BY <1>1, <2>12 DEF Handoff
      <3>2. \A c \in Clusters : lease'[c] # slot
        BY <1>1, <2>1, <3>1
      <3>3. slot' = slot \/ slot' = NoJob
        BY <2>12 DEF Handoff, Release
      <3> QED BY <1>1, <2>1, <2>4, <3>1, <3>2, <3>3 DEF Present
    <2> QED BY <1>3, <2>5, <2>6, <2>7, <2>8, <2>9, <2>11, <2>12 DEF RunStep
  <1>4. CASE CancelStep
    <2>1. UNCHANGED <<slot, stage, lease>>
      BY <1>4 DEF CancelStep, CancelWaiting, CancelRunning, CancelExited, CancelGivesUp,
         CancelCompletes, memory
    <2>2. ASSUME NEW j, NEW states, NEW n, RowBecomes(j, states, n), NEW k \in Ids, ~Present(k)
          PROVE  row'[k] = row[k]
      BY <2>2 DEF RowBecomes, Present
    <2>3. \A k \in Ids : ~Present(k) => row'[k] = row[k]
      BY <1>4, <2>2, CancelEffects DEF CancelStep, CancelRunning, CancelGivesUp
    <2> QED BY <1>1, <2>1, <2>3 DEF Present
  <1>5. CASE Arrival
    <2>1. \A c \in Clusters : lease[c] # nextId
      BY <1>5, <1>1 DEF IssuedIds, Ids, NoJob, Arrival
    <2> QED BY <1>1, <1>5, <2>1 DEF Arrival, Present
  <1>6. CASE Reranked \/ Removal \/ Aside
    BY <1>1, <1>6 DEF Reranked, OnlyPrioritiesMove, Removal, AbsentRow, Aside, Present
  <1>7. ASSUME NEW j \in Ids, Dispatch(j) PROVE LeaseInv'
    <2>1. \A c \in Clusters : lease[c] # j
      BY <1>1, <1>7 DEF Dispatch, IsHead, Waiting, Present
    <2> QED BY <1>1, <1>7, <2>1 DEF Dispatch, Present
  <1>8. ASSUME NEW p, DriverExits(p) PROVE LeaseInv'
    BY <1>1, <1>8 DEF DriverExits, memory, Present
  <1>9. ASSUME NEW survivors, NEW alive, Crash(survivors, alive) PROVE LeaseInv'
    BY <1>1, <1>9 DEF Crash
  <1> QED BY <1>3, <1>4, <1>5, <1>6, <1>7, <1>8, <1>9, StepCases DEF Elsewhere

LEMMA RunningStep ==
    ASSUME TypeOK, IssuedIds, RunningInv, [Next]_vars
    PROVE  RunningInv'
  <1> USE DEF RunningInv, RunningRowIsDriven, AttemptStages
  <1>1. /\ row \in [Ids -> Row] /\ crashes \in Nat
        /\ slot \in Ids \cup {NoJob} /\ NoJob \notin Ids
        /\ (slot = NoJob) <=> (stage = "idle")
    BY DEF TypeOK, Ids, NoJob
  <1>2. CASE RunStep
    <2>1. slot \in Ids
      BY <1>2, InFlight, RunStepStage
    <2>2. crashes' = crashes /\ canceling' = canceling
      BY <1>2 DEF RunStep, BuildFails, Acquire, AcquireFails, SettleFailedStart, Acquired,
         VanishedMeanwhile, CanceledMeanwhile, Yield, KeepsSlot, StartAttempt, StartVanishes, SetRunning,
         Spawn, SpawnFails, RecordPid, DriverDone, Handoff, StopReturns
    <2>3. CASE BuildFails
      BY <1>1, <2>1, <2>2, <2>3, RunEffects DEF BuildFails, Release, RowBecomes, Present
    <2>4. CASE Acquire \/ Acquired \/ CanceledMeanwhile \/ Yield \/ KeepsSlot
      BY <1>1, <2>1, <2>2, <2>4 DEF Acquire, Acquired, CanceledMeanwhile, Yield, KeepsSlot
    <2>5. CASE AcquireFails
      BY <1>1, <2>1, <2>2, <2>5, RunEffects DEF AcquireFails, Release, RowBecomes, Present
    <2>6. CASE SettleFailedStart
      <3>1. \A k \in Ids : \/ row'[k] = row[k]
                           \/ row'[k].state \in {"done", "waiting"}
        BY <2>6, RunEffects DEF RowBecomes
      <3> QED BY <1>1, <2>1, <2>2, <2>6, <3>1 DEF SettleFailedStart, Release
    <2>7. CASE VanishedMeanwhile \/ StartVanishes \/ StopReturns
      BY <1>1, <2>1, <2>2, <2>7 DEF VanishedMeanwhile, StartVanishes, StopReturns, Release
    <2>8. CASE StartAttempt
      BY <1>1, <2>1, <2>2, <2>8, RunEffects DEF StartAttempt, AboutToStart, RowBecomes, Present
    <2>9. CASE SetRunning
      BY <1>1, <2>1, <2>2, <2>9, RunEffects DEF SetRunning, RowBecomes, Present
    <2>10. CASE Spawn
      BY <1>1, <2>1, <2>2, <2>10 DEF Spawn, Present
    <2>11. CASE SpawnFails
      BY <1>1, <2>1, <2>2, <2>11, RunEffects
      DEF SpawnFails, LeaveRun, Release, RowBecomes, Present
    <2>12. CASE RecordPid
      BY <1>1, <2>1, <2>2, <2>12, RunEffects DEF RecordPid, RowBecomes, Present
    <2>13. ASSUME NEW rc \in ExitCodes, NEW points \in Points, DriverDone(rc, points)
           PROVE  RunningInv'
      <3>1. stage = "driving" /\ stage' \in {"idle", "handoff"}
        BY <2>13 DEF DriverDone, LeaveRun, Release
      <3> QED BY <1>1, <2>1, <2>2, <2>13, <3>1, DriverDoneEffect DEF RowBecomes, Present
    <2>14. CASE Handoff
      BY <1>1, <2>1, <2>2, <2>14 DEF Handoff, Release
    <2> QED BY <1>2, <2>3, <2>4, <2>5, <2>6, <2>7, <2>8, <2>9, <2>10, <2>11, <2>12, <2>13,
               <2>14 DEF RunStep
  <1>3. CASE CancelStep
    <2>1. UNCHANGED <<slot, stage, crashes>>
      BY <1>3 DEF CancelStep, CancelWaiting, CancelRunning, CancelExited, CancelGivesUp,
         CancelCompletes, memory
    <2>2. ASSUME NEW j \in Ids, CancelWaiting(j) PROVE RunningInv'
      <3>1. stage \in {"spawning", "spawned"} => j # slot
        BY <2>2 DEF CancelWaiting, Waiting, Present
      <3>2. RowBecomes(j, {"done"}, 0) /\ canceling' = canceling
        BY <2>2, CancelEffects DEF CancelWaiting, memory
      <3>3. /\ \A k \in Ids : row'[k] = row[k] \/ row'[k].state = "done"
            /\ \A k \in Ids \ {j} : row'[k] = row[k]
        BY <3>2 DEF RowBecomes
      <3>4. RunningRowIsDriven'
        BY <1>1, <2>1, <3>3
      <3>5. stage' = "driving" => row'[slot'].state # "waiting"
        BY <1>1, <2>1, <3>3
      <3> QED BY <1>1, <2>1, <3>1, <3>2, <3>3, <3>4, <3>5 DEF Present
    <2>3. CASE CancelRunning \/ CancelGivesUp
      BY <1>1, <2>1, <2>3 DEF CancelRunning, CancelGivesUp
    <2>4. CASE CancelExited
      BY <1>1, <2>1, <2>4, CancelEffects DEF CancelExited, RowBecomes, Present, memory
    <2>5. CASE CancelCompletes
      <3>1. stage \notin {"spawning", "spawned", "driving"}
        BY <2>5 DEF CancelCompletes, CancelDue
      <3> QED BY <1>1, <2>1, <2>5, <3>1, CancelEffects DEF CancelCompletes, RowBecomes
    <2> QED BY <1>3, <2>2, <2>3, <2>4, <2>5 DEF CancelStep
  <1>4. CASE Arrival
    <2>1. slot # nextId
      BY <1>1 DEF IssuedIds, TypeOK, Ids, NoJob
    <2> QED BY <1>1, <1>4, <2>1 DEF Arrival, Present
  <1>5. CASE Reranked
    BY <1>1, <1>5 DEF Reranked, OnlyPrioritiesMove, Present
  <1>6. CASE Removal
    BY <1>1, <1>6 DEF Removal, AbsentRow, Present
  <1>7. CASE Aside
    BY <1>1, <1>7 DEF Aside, Present
  <1>8. ASSUME NEW j \in Ids, Dispatch(j) PROVE RunningInv'
    BY <1>1, <1>8 DEF Dispatch, CancelDue
  <1>9. ASSUME NEW p, DriverExits(p) PROVE RunningInv'
    BY <1>1, <1>9 DEF DriverExits, memory, Present
  <1>10. ASSUME NEW survivors, NEW alive, Crash(survivors, alive) PROVE RunningInv'
    <2>1. \A k \in Ids : row'[k].state = "running" => row'[k].pid # 0
      BY <1>10, CrashEffect
    <2>2. crashes' > 0
      BY <1>1, <1>10 DEF Crash
    <2> QED BY <1>10, <2>1, <2>2 DEF Crash
  <1> QED BY <1>2, <1>3, <1>4, <1>5, <1>6, <1>7, <1>8, <1>9, <1>10, StepCases DEF Elsewhere

\* Taking an element out of a finite set makes it smaller by one at most.
LEMMA LessOne ==
    ASSUME NEW S, NEW x, IsFiniteSet(S)
    PROVE  /\ Cardinality(S \ {x}) <= Cardinality(S)
           /\ Cardinality(S) <= Cardinality(S \ {x}) + 1
           /\ x \notin S => S \ {x} = S
           /\ Cardinality(S) \in Nat /\ Cardinality(S \ {x}) \in Nat
  <1>1. Cardinality(S) \in Nat
    BY FS_CardinalityType
  <1>2. CASE x \in S
    <2>1. IsFiniteSet(S \ {x}) /\ Cardinality(S \ {x}) = Cardinality(S) - 1
      BY <1>2, FS_RemoveElement
    <2>2. Cardinality(S \ {x}) \in Nat
      BY <2>1, FS_CardinalityType
    <2> QED BY <1>1, <1>2, <2>1, <2>2
  <1>3. CASE x \notin S
    <2>1. S \ {x} = S
      BY <1>3
    <2> QED BY <1>1, <2>1
  <1> QED BY <1>2, <1>3

LEMMA DriversStep ==
    ASSUME TypeOK, IssuedIds, RunningInv, DriversInv, [Next]_vars
    PROVE  DriversInv'
  <1> USE DEF DriversInv, DriverStages
  <1>1. /\ row \in [Ids -> Row] /\ crashes \in Nat /\ IsFiniteSet(procs)
        /\ slot \in Ids \cup {NoJob} /\ NoJob \notin Ids
        /\ (slot = NoJob) <=> (stage = "idle")
        /\ \A k \in Ids : row[k].attempts \in Nat
    <2>1. NoJob \notin Ids
      BY DEF NoJob, Ids
    <2> QED BY <2>1 DEF TypeOK, Row
  <1>2. ASSUME NEW S, S \subseteq procs
        PROVE  IsFiniteSet(S) /\ Cardinality(S) \in Nat /\ Cardinality(S) <= Cardinality(procs)
    BY <1>1, <1>2, FS_Subset, FS_CardinalityType
  <1>3. ASSUME NEW S, NEW x, IsFiniteSet(S)
        PROVE  /\ Cardinality(S \ {x}) <= Cardinality(S)
               /\ Cardinality(S) <= Cardinality(S \ {x}) + 1
               /\ x \notin S => S \ {x} = S
               /\ Cardinality(S) \in Nat /\ Cardinality(S \ {x}) \in Nat
    BY <1>3, LessOne
  <1>4. ASSUME stage' \notin DriverStages, Cardinality(procs) <= crashes,
               procs' = procs, crashes' = crashes
        PROVE  DriversInv'
    BY <1>1, <1>4
  <1>5. ASSUME stage \notin DriverStages \/ Driver \notin procs
        PROVE  Cardinality(procs) <= crashes
    BY <1>1, <1>3, <1>5
  <1>6. CASE RunStep
    <2>1. slot \in Ids
      BY <1>6, InFlight, RunStepStage
    <2>2. crashes' = crashes
      BY <1>6 DEF RunStep, BuildFails, Acquire, AcquireFails, SettleFailedStart, Acquired,
         VanishedMeanwhile, CanceledMeanwhile, Yield, KeepsSlot, StartAttempt, StartVanishes, SetRunning,
         Spawn, SpawnFails, RecordPid, DriverDone, Handoff, StopReturns
    <2>3. CASE BuildFails \/ Acquire \/ AcquireFails \/ SettleFailedStart \/ Acquired
               \/ VanishedMeanwhile \/ CanceledMeanwhile \/ Yield \/ KeepsSlot \/ StartAttempt
               \/ StartVanishes \/ SetRunning \/ SpawnFails \/ Handoff \/ StopReturns
      <3>1. stage \notin DriverStages /\ stage' \notin DriverStages /\ procs' = procs
        BY <2>3 DEF BuildFails, Acquire, AcquireFails, SettleFailedStart, Acquired,
           VanishedMeanwhile, CanceledMeanwhile, Yield, KeepsSlot, StartAttempt, AboutToStart,
           StartVanishes, SetRunning, SpawnFails, Handoff, StopReturns, LeaveRun, Release
      <3> QED BY <2>2, <3>1, <1>4, <1>5
    <2>4. CASE Spawn
      <3>1. /\ stage = "spawning" /\ stage' = "spawned" /\ procs' = procs \cup {Driver}
            /\ Driver' = Driver /\ row' = row /\ slot' = slot
        BY <2>4 DEF Spawn, Driver
      <3>2. IsFiniteSet(procs') /\ procs' \ {Driver'} = procs \ {Driver}
        BY <1>1, <3>1, FS_AddElement
      <3>3. Cardinality(procs' \ {Driver'}) <= crashes'
        <4>1. Cardinality(procs) <= crashes
          BY <3>1, <1>5
        <4> HIDE DEF DriversInv
        <4> QED BY <1>1, <1>2, <1>3, <2>2, <3>2, <4>1
      <3>4. row'[slot'].state # "done"
        BY <3>1 DEF RunningInv, Present
      <3> QED BY <3>1, <3>2, <3>3, <3>4
    <2>5. CASE RecordPid
      <3>1. /\ stage = "spawned" /\ stage' = "driving" /\ procs' = procs /\ slot' = slot
        BY <2>5 DEF RecordPid
      <3>2. row'[slot].state = row[slot].state /\ row'[slot].attempts = row[slot].attempts
        BY <1>1, <2>1, <2>5, RunEffects DEF RowBecomes, Present
      <3>3. Driver' = Driver
        BY <3>1, <3>2 DEF Driver
      <3> QED BY <1>1, <2>2, <3>1, <3>2, <3>3
    <2>6. ASSUME NEW rc \in ExitCodes, NEW points \in Points, DriverDone(rc, points)
          PROVE  DriversInv'
      <3>1. Driver \notin procs /\ stage' \in {"idle", "handoff"} /\ procs' = procs
        BY <2>6 DEF DriverDone, LeaveRun, Release
      <3> QED BY <2>2, <3>1, <1>4, <1>5
    <2> QED BY <1>6, <2>3, <2>4, <2>5, <2>6 DEF RunStep
  \* From here on, steps that leave the slot, its stage and the drivers alone.
  <1>7. ASSUME UNCHANGED <<slot, stage, procs, crashes>>, Driver' = Driver,
               stage \in DriverStages /\ row'[slot].state = "done" =>
                  row[slot].state = "done" \/ Driver \notin procs
        PROVE  DriversInv'
    BY <1>1, <1>7
  <1>8. CASE CancelStep
    <2>1. UNCHANGED <<slot, stage, procs, crashes>>
      BY <1>8 DEF CancelStep, CancelWaiting, CancelRunning, CancelExited, CancelGivesUp,
         CancelCompletes, memory
    <2>2. ASSUME NEW j, RowBecomes(j, {"done"}, 0)
          PROVE  \A k \in Ids : row'[k].attempts = row[k].attempts /\ (k # j => row'[k] = row[k])
      BY <1>1, <2>2 DEF RowBecomes
    <2>3. CASE stage = "idle"
      BY <1>4, <1>5, <2>1, <2>3
    <2>4. CASE stage # "idle"
      <3>1. slot \in Ids
        BY <1>1, <2>4
      <3>2. ASSUME NEW j \in Ids, CancelWaiting(j) PROVE DriversInv'
        <4>1. stage \in DriverStages => j # slot
          BY <3>2 DEF CancelWaiting, Waiting, RunningInv, Present
        <4>2. RowBecomes(j, {"done"}, 0)
          BY <3>2, CancelEffects
        <4>3. row'[slot].attempts = row[slot].attempts /\ (slot # j => row'[slot] = row[slot])
          BY <2>2, <3>1, <4>2
        <4> QED BY <1>7, <2>1, <4>1, <4>3 DEF Driver
      <3>3. CASE CancelRunning \/ CancelGivesUp
        BY <1>7, <2>1, <3>3 DEF CancelRunning, CancelGivesUp, Driver
      <3>4. CASE CancelExited
        <4>1. row'[slot].attempts = row[slot].attempts /\ Driver \notin procs
          BY <2>2, <3>1, <3>4, CancelEffects DEF CancelExited
        <4> QED BY <1>7, <2>1, <4>1 DEF Driver
      <3>5. CASE CancelCompletes
        <4>1. stage \notin DriverStages
          BY <3>5 DEF CancelCompletes, CancelDue, RunningInv
        <4> QED BY <1>4, <1>5, <2>1, <4>1
      <3> QED BY <1>8, <3>2, <3>3, <3>4, <3>5 DEF CancelStep
    <2> QED BY <2>3, <2>4
  <1>9. CASE Arrival
    <2>1. slot # nextId
      BY <1>1 DEF IssuedIds, TypeOK, Ids, NoJob
    <2>2. CASE stage = "idle"
      BY <1>4, <1>5, <1>9, <2>2 DEF Arrival
    <2>3. CASE stage # "idle"
      BY <1>1, <1>7, <1>9, <2>1, <2>3 DEF Arrival, Driver
    <2> QED BY <2>2, <2>3
  <1>10. CASE Reranked
    <2>1. CASE stage = "idle"
      BY <1>4, <1>5, <1>10, <2>1 DEF Reranked
    <2>2. CASE stage # "idle"
      BY <1>1, <1>7, <1>10, <2>2 DEF Reranked, OnlyPrioritiesMove, Driver
    <2> QED BY <2>1, <2>2
  <1>11. CASE Removal
    <2>1. UNCHANGED <<slot, stage, procs, crashes>>
      BY <1>11 DEF Removal
    <2>2. CASE stage \notin DriverStages
      BY <1>4, <1>5, <2>1, <2>2
    <2>3. CASE stage \in DriverStages
      <3>1. slot \in Ids
        BY <1>1, <2>3
      <3>2. CASE row'[slot] = row[slot]
        BY <1>7, <2>1, <3>2 DEF Driver
      <3>3. CASE row[slot].state = "done" /\ row'[slot] = AbsentRow
        <4>1. Cardinality(procs) <= crashes
          BY <1>5, <2>3, <3>3
        <4>2. Cardinality(procs \ {Driver'}) <= Cardinality(procs)
          BY <1>2
        <4>3. Cardinality(procs \ {Driver'}) \in Nat /\ Cardinality(procs) \in Nat
          BY <1>2
        <4>4. row'[slot'].state # "done"
          BY <2>1, <3>3 DEF AbsentRow
        <4> QED BY <1>1, <2>1, <4>1, <4>2, <4>3, <4>4
      <3> QED BY <1>11, <3>1, <3>2, <3>3 DEF Removal
    <2> QED BY <2>2, <2>3
  <1>12. CASE Aside
    BY <1>7, <1>12 DEF Aside, Driver
  <1>13. ASSUME NEW j \in Ids, Dispatch(j) PROVE DriversInv'
    BY <1>1, <1>4, <1>5, <1>13 DEF Dispatch
  <1>14. ASSUME NEW p, DriverExits(p) PROVE DriversInv'
    <2>1. /\ procs' = procs \ {p} /\ Driver' = Driver
          /\ UNCHANGED <<row, slot, stage, crashes>>
      BY <1>14 DEF DriverExits, memory, Driver
    <2>2. IsFiniteSet(procs') /\ Cardinality(procs') \in Nat
          /\ Cardinality(procs') <= Cardinality(procs) /\ Cardinality(procs) \in Nat
      BY <1>2, <2>1
    <2>3. /\ Cardinality(procs' \ {Driver}) <= Cardinality(procs \ {Driver})
          /\ Cardinality(procs' \ {Driver}) \in Nat
          /\ Cardinality(procs \ {Driver}) \in Nat
      <3>1. IsFiniteSet(procs \ {Driver}) /\ procs' \ {Driver} \subseteq procs \ {Driver}
        BY <1>2, <2>1
      <3> QED BY <3>1, FS_Subset, FS_CardinalityType
    <2> QED BY <1>1, <2>1, <2>2, <2>3
  <1>15. ASSUME NEW survivors \in SUBSET procs, NEW alive, Crash(survivors, alive)
         PROVE  DriversInv'
    <2>1. procs' = survivors /\ crashes' = crashes + 1 /\ stage' = "idle"
      BY <1>15 DEF Crash
    <2>2. Cardinality(procs) <= crashes + 1
      <3>1. /\ Cardinality(procs) <= Cardinality(procs \ {Driver}) + 1
            /\ Cardinality(procs) \in Nat /\ Cardinality(procs \ {Driver}) \in Nat
        BY <1>1, <1>3
      <3> QED BY <1>1, <3>1
    <2>3. IsFiniteSet(survivors) /\ Cardinality(survivors) \in Nat
          /\ Cardinality(survivors) <= Cardinality(procs) /\ Cardinality(procs) \in Nat
      BY <1>2
    <2> QED BY <1>1, <2>1, <2>2, <2>3
  <1> QED BY <1>6, <1>8, <1>9, <1>10, <1>11, <1>12, <1>13, <1>14, <1>15, StepCases
      DEF Elsewhere

LEMMA IInvInit == Init => IInv
  <1> SUFFICES ASSUME Init PROVE IInv
    OBVIOUS
  <1>1. TypeOK
    BY TypeInit
  <1>2. \A j \in Ids : row[j].state = "absent" /\ row[j].attempts = 0
    BY DEF Init, AbsentRow
  <1>3. \A j \in Ids : Budget(j) \in Nat \ {0}
    BY QueueAssumption DEF Budget
  <1>4. IssuedIds /\ LeaseInv
    BY <1>2 DEF Init, IssuedIds, Present, NoJob, LeaseInv, LeaseFollowsSlot
  <1>5. BudgetInv
    BY <1>2, <1>3 DEF Init, BudgetInv, AttemptsPaidFor, Spendable, Waiting
  <1>6. RunningInv
    BY <1>2 DEF Init, RunningInv, RunningRowIsDriven
  <1>7. DriversInv
    BY FS_EmptySet DEF Init, DriversInv, DriverStages
  <1> QED BY <1>1, <1>4, <1>5, <1>6, <1>7 DEF IInv

LEMMA IInvStep == IInv /\ [Next]_vars => IInv'
  BY TypeStep, IssuedStep, BudgetStep, LeaseStep, RunningStep, DriversStep DEF IInv

LEMMA Inductive == Spec => []IInv
  BY IInvInit, IInvStep, PTL DEF Spec

-----------------------------------------------------------------------------
(* The attempts without an end.                                            *)

\* The rows of a job's attempts that have no finished_at.
Opens(log) == {n \in DOMAIN log : log[n] = "open"}

\* The attempt _run is driving, if any: the last of its job.
Driven == IF stage \in AttemptStages THEN {<<slot, Len(row[slot].log)>>} ELSE {}

\* The other open attempts were left by dead daemons, one each; a row that is
\* gone took its attempts along.
OpenInv ==
    /\ \A j \in Ids : ~Present(j) => row[j].log = <<>>
    /\ IsFiniteSet(OpenAttempts \ Driven)
    /\ Cardinality(OpenAttempts \ Driven) <= crashes

LEMMA OpenAttemptsAre ==
    OpenAttempts = {p \in Ids \X (UNION {DOMAIN row[j].log : j \in Ids}) :
                      p[2] \in Opens(row[p[1]].log)}
  BY DEF OpenAttempts, Opens

\* Closing leaves a job with no open attempt, and as many attempts as it had.
LEMMA EndedLog ==
    ASSUME NEW r \in Row, NEW p \in Points
    PROVE  /\ Opens(EndedAttempt(r, p).log) = {}
           /\ Len(EndedAttempt(r, p).log) = Len(r.log)
  <1> DEFINE f == [n \in DOMAIN r.log |-> IF r.log[n] = "open" THEN p ELSE r.log[n]]
  <1>1. r.log \in Seq(Points \cup {"open"}) /\ p # "open"
    BY DEF Row, Points
  <1>2. /\ f \in Seq(Points \cup {"open"}) /\ Len(f) = Len(r.log)
        /\ \A n \in DOMAIN f : f[n] # "open"
    BY <1>1
  <1> HIDE DEF f
  <1>3. EndedAttempt(r, p) = [r EXCEPT !.log = f]
    BY DEF EndedAttempt, f
  <1>4. EndedAttempt(r, p).log = f
    BY <1>3 DEF Row
  <1> QED BY <1>2, <1>4 DEF Opens

\* A try adds one open attempt, a bring-up that failed a closed one.
LEMMA StartedLog ==
    ASSUME NEW r \in Row
    PROVE  /\ Opens(StartedAttempt(r).log) = Opens(r.log) \cup {Len(r.log) + 1}
           /\ Len(StartedAttempt(r).log) = Len(r.log) + 1
           /\ Opens(FailedStart(r).log) = Opens(r.log)
  <1>1. r.log \in Seq(Points \cup {"open"})
    BY DEF Row
  <1>2. /\ StartedAttempt(r).log = Append(r.log, "open")
        /\ FailedStart(r).log = Append(r.log, "notZero")
    BY DEF StartedAttempt, FailedStart, Row
  <1> QED BY <1>1, <1>2 DEF Opens

\* Whatever state a row is sent to, its attempts stay as they were.
LEMMA SettledLog ==
    ASSUME NEW r \in Row, NEW o
    PROVE  Finished(r, o).log = r.log /\ WaitingAgain(r).log = r.log
  BY DEF Finished, WaitingAgain, Row

LEMMA FinishedRowLog ==
    ASSUME NEW r \in Row, NEW max, NEW rc
    PROVE  FinishedRow(r, max, rc).log = r.log
  <1>1. FinishedRow(r, max, rc) \in
            {Finished(r, "ok"), Finished(r, "degraded"), Finished(r, "failed"), WaitingAgain(r)}
    BY DEF FinishedRow
  <1> QED BY <1>1, SettledLog

\* A restart closes the attempts of the rows it settles.
LEMMA RecoveredLog ==
    ASSUME NEW r \in Row, NEW max \in Int
    PROVE  Opens(RecoveredRow(r, max).log) = {} /\ RecoveredRow(r, max).state # "absent"
  <1> DEFINE ended == EndedAttempt(r, "notZero")
  <1>1. ended \in Row /\ Opens(ended.log) = {}
    BY EndedAttemptType, EndedLog DEF Points
  <1>2. RecoveredRow(r, max) \in {Finished(ended, "failed"), WaitingAgain(ended)}
    BY DEF RecoveredRow
  <1> HIDE DEF ended
  <1>3. RecoveredRow(r, max).log = ended.log
    BY <1>1, <1>2, SettledLog
  <1> QED BY <1>1, <1>3, RecoveredRowType

\* One more element is one more at most.
LEMMA OneMore ==
    ASSUME NEW S, NEW x, IsFiniteSet(S), NEW n \in Nat, Cardinality(S) <= n
    PROVE  /\ IsFiniteSet(S \cup {x}) /\ Cardinality(S \cup {x}) <= n + 1
           /\ Cardinality(S \cup {x}) \in Nat
  <1>1. Cardinality(S) \in Nat
    BY FS_CardinalityType
  <1>2. /\ IsFiniteSet(S \cup {x})
        /\ Cardinality(S \cup {x}) = IF x \in S THEN Cardinality(S) ELSE Cardinality(S) + 1
    BY FS_AddElement
  <1> QED BY <1>1, <1>2

\* A step that closes attempts, or loses them with their row, and opens none.
OpensNone ==
    /\ \A k \in Ids : /\ Opens(row'[k].log) \subseteq Opens(row[k].log)
                      /\ row'[k].state = "absent" => row'[k].log = <<>>
    /\ crashes' = crashes
    /\ stage \in AttemptStages =>
          \/ Opens(row'[slot].log) = {}
          \/ stage' \in AttemptStages /\ slot' = slot
             /\ Len(row'[slot].log) = Len(row[slot].log)

LEMMA OpensNoneKeeps ==
    ASSUME OpenInv, TypeOK, row' \in [Ids -> Row], OpensNone
    PROVE  OpenInv'
  <1>1. OpenAttempts' \ Driven' \subseteq OpenAttempts \ Driven
    <2> SUFFICES ASSUME NEW p \in OpenAttempts', p \notin Driven'
                 PROVE  p \in OpenAttempts /\ p \notin Driven
      OBVIOUS
    <2>1. PICK j \in Ids : \E n \in Opens(row'[j].log) : p = <<j, n>>
      BY DEF OpenAttempts, Opens
    <2>2. PICK n \in Opens(row'[j].log) : p = <<j, n>>
      BY <2>1
    <2>3. n \in Opens(row[j].log)
      BY <2>2 DEF OpensNone
    <2>4. p \in OpenAttempts
      BY <2>2, <2>3 DEF OpenAttempts, Opens
    <2>5. p \notin Driven
      BY <2>2 DEF Driven, OpensNone
    <2> QED BY <2>4, <2>5
  <1>2. /\ IsFiniteSet(OpenAttempts' \ Driven')
        /\ Cardinality(OpenAttempts' \ Driven') <= Cardinality(OpenAttempts \ Driven)
    BY <1>1, FS_Subset DEF OpenInv
  <1>3. /\ Cardinality(OpenAttempts' \ Driven') \in Nat
        /\ Cardinality(OpenAttempts \ Driven) \in Nat /\ crashes \in Nat
    BY <1>2, FS_CardinalityType DEF OpenInv, TypeOK
  <1>4. Cardinality(OpenAttempts' \ Driven') <= crashes'
    BY <1>2, <1>3 DEF OpenInv, OpensNone
  <1>5. \A j \in Ids : ~Present(j)' => row'[j].log = <<>>
    BY DEF OpensNone, Present
  <1> QED BY <1>2, <1>4, <1>5 DEF OpenInv

\* An UPDATE of a row that closes its attempts ...
LEMMA WriteCloses ==
    ASSUME OpenInv, TypeOK, NEW j \in Ids, NEW r \in Row,
           Write(j, r) \/ (Present(j) /\ row' = [row EXCEPT ![j] = r]),
           r.state # "absent", Opens(r.log) = {}, crashes' = crashes,
           slot = j \/ (UNCHANGED <<stage, slot>> /\ Len(r.log) = Len(row[j].log))
    PROVE  OpensNone
  <1>1. /\ row \in [Ids -> Row] /\ \A k \in Ids : ~Present(k) => row[k].log = <<>>
        /\ \A k \in Ids : row'[k] = IF k = j /\ Present(j) THEN r ELSE row[k]
    BY DEF OpenInv, TypeOK, Write
  <1>2. Opens(<<>>) = {}
    BY DEF Opens
  <1>3. stage \in AttemptStages => slot \in Ids
    BY DEF TypeOK, AttemptStages
  <1> QED BY <1>1, <1>2, <1>3 DEF OpensNone, Present

\* ... or that opens none of them.
LEMMA WriteKeeps ==
    ASSUME OpenInv, TypeOK, NEW j \in Ids, NEW r \in Row,
           Write(j, r) \/ (Present(j) /\ row' = [row EXCEPT ![j] = r]),
           r.state # "absent", crashes' = crashes,
           \/ stage \notin AttemptStages /\ Opens(r.log) = Opens(row[j].log)
           \/ slot' = slot /\ stage' \in AttemptStages /\ r.log = row[j].log
    PROVE  OpensNone
  <1>1. /\ row \in [Ids -> Row] /\ \A k \in Ids : ~Present(k) => row[k].log = <<>>
        /\ \A k \in Ids : row'[k] = IF k = j /\ Present(j) THEN r ELSE row[k]
    BY DEF OpenInv, TypeOK, Write
  <1>2. stage \in AttemptStages => slot \in Ids
    BY DEF TypeOK, AttemptStages
  <1>3. CASE stage \notin AttemptStages /\ Opens(r.log) = Opens(row[j].log)
    BY <1>1, <1>3 DEF OpensNone, Present
  <1>4. CASE slot' = slot /\ stage' \in AttemptStages /\ r.log = row[j].log
    BY <1>1, <1>2, <1>4 DEF OpensNone, Present
  <1> QED BY <1>3, <1>4

LEMMA OpenStep ==
    ASSUME TypeOK, OpenInv, [Next]_vars
    PROVE  OpenInv'
  <1>1. row' \in [Ids -> Row] /\ row \in [Ids -> Row] /\ crashes \in Nat
    BY TypeStep DEF TypeOK
  <1>2. OpensNone => OpenInv'
    BY <1>1, OpensNoneKeeps
  <1>3. \A k \in Ids : row[k].state = "absent" => row[k].log = <<>>
    BY DEF OpenInv, Present
  <1>4. Opens(<<>>) = {}
    BY DEF Opens
  <1>5. stage \in AttemptStages => slot \in Ids
    BY DEF TypeOK, AttemptStages
  <1>6. ASSUME NEW j \in Ids
        PROVE  LET r == EndedAttempt(row[j], "notZero")
               IN  /\ \A o \in Outcomes :
                         /\ Finished(r, o) \in Row /\ Finished(r, o).state = "done"
                         /\ Opens(Finished(r, o).log) = {}
                         /\ Len(Finished(r, o).log) = Len(row[j].log)
    <2>1. "notZero" \in Points
      BY DEF Points
    <2>2. /\ EndedAttempt(row[j], "notZero") \in Row
          /\ Opens(EndedAttempt(row[j], "notZero").log) = {}
          /\ Len(EndedAttempt(row[j], "notZero").log) = Len(row[j].log)
      BY <1>1, <2>1, EndedAttemptType, EndedLog
    <2> QED BY <2>2, FinishedType, SettledLog
  <1>7. CASE RunStep
    <2>1. slot \in Ids /\ row[slot] \in Row /\ MaxAttempts[slot] \in Int
      BY <1>7, InFlight, RunStepStage
    <2>2. "failed" \in Outcomes
      BY DEF Outcomes
    <2>3. CASE BuildFails \/ SettleFailedStart
      <3>1. Write(slot, Finished(row[slot], "failed")) \/ Write(slot, WaitingAgain(row[slot]))
        BY <2>3 DEF BuildFails, SettleFailedStart
      <3>2. \A r \in {Finished(row[slot], "failed"), WaitingAgain(row[slot])} :
               r \in Row /\ r.state # "absent" /\ Opens(r.log) = Opens(row[slot].log)
        BY <2>1, <2>2, FinishedType, SettledLog
      <3>3. stage \notin AttemptStages /\ crashes' = crashes
        BY <2>3 DEF BuildFails, SettleFailedStart, AttemptStages
      <3> QED BY <1>2, <2>1, <3>1, <3>2, <3>3, WriteKeeps
    <2>4. CASE AcquireFails
      <3>1. stage \notin AttemptStages /\ crashes' = crashes
        BY <2>4 DEF AcquireFails, AttemptStages
      <3>2. CASE Present(slot)
        <4>1. row' = [row EXCEPT ![slot] = FailedStart(row[slot])]
          BY <2>4, <3>2 DEF AcquireFails
        <4>2. /\ FailedStart(row[slot]) \in Row /\ FailedStart(row[slot]).state # "absent"
              /\ Opens(FailedStart(row[slot]).log) = Opens(row[slot].log)
          BY <2>1, <3>2, StartedAttemptType, StartedLog DEF Present
        <4> QED BY <1>2, <2>1, <3>1, <3>2, <4>1, <4>2, WriteKeeps
      <3>3. CASE ~Present(slot)
        BY <1>2, <1>3, <2>4, <3>1, <3>3 DEF AcquireFails, OpensNone
      <3> QED BY <3>2, <3>3
    <2>5. CASE StartAttempt
      <3>1. /\ stage \notin AttemptStages /\ stage' = "starting" /\ slot' = slot
            /\ Present(slot) /\ crashes' = crashes
            /\ row' = [row EXCEPT ![slot] = StartedAttempt(row[slot])]
        BY <2>5 DEF StartAttempt, AboutToStart, AttemptStages
      <3>2. /\ row'[slot].state = row[slot].state
            /\ Opens(row'[slot].log) = Opens(row[slot].log) \cup {Len(row[slot].log) + 1}
            /\ Driven = {} /\ Driven' = {<<slot, Len(row[slot].log) + 1>>}
            /\ \A k \in Ids \ {slot} : row'[k] = row[k]
        BY <1>1, <2>1, <3>1, StartedAttemptType, StartedLog DEF Driven, AttemptStages
      <3>3. OpenAttempts' \ Driven' \subseteq OpenAttempts \ Driven
        <4> SUFFICES ASSUME NEW p \in OpenAttempts', p \notin Driven'
                     PROVE  p \in OpenAttempts
          BY <3>2
        <4>1. PICK j \in Ids : \E n \in Opens(row'[j].log) : p = <<j, n>>
          BY DEF OpenAttempts, Opens
        <4>2. PICK n \in Opens(row'[j].log) : p = <<j, n>>
          BY <4>1
        <4>3. n \in Opens(row[j].log)
          BY <3>2, <4>2
        <4> QED BY <4>2, <4>3 DEF OpenAttempts, Opens
      <3>4. /\ IsFiniteSet(OpenAttempts' \ Driven')
            /\ Cardinality(OpenAttempts' \ Driven') <= Cardinality(OpenAttempts \ Driven)
        BY <3>3, FS_Subset DEF OpenInv
      <3>5. /\ Cardinality(OpenAttempts' \ Driven') \in Nat
            /\ Cardinality(OpenAttempts \ Driven) \in Nat
        BY <3>4, FS_CardinalityType DEF OpenInv
      <3>6. Cardinality(OpenAttempts' \ Driven') <= crashes'
        BY <1>1, <3>1, <3>4, <3>5 DEF OpenInv
      <3>7. \A j \in Ids : ~Present(j)' => row'[j].log = <<>>
        BY <1>3, <3>1, <3>2 DEF Present
      <3> QED BY <3>4, <3>6, <3>7 DEF OpenInv
    <2>6. CASE SetRunning \/ RecordPid
      <3> DEFINE running == [row[slot] EXCEPT !.state = "running"]
                 withPid == [row[slot] EXCEPT !.pid = row[slot].attempts]
      <3>1. /\ stage' \in AttemptStages /\ slot' = slot /\ crashes' = crashes
            /\ Write(slot, running) \/ Write(slot, withPid)
        BY <2>6 DEF SetRunning, RecordPid, AttemptStages
      <3>2. /\ running \in Row /\ running.state = "running" /\ running.log = row[slot].log
            /\ withPid \in Row /\ withPid.state = row[slot].state /\ withPid.log = row[slot].log
        BY <2>1 DEF Row, States
      <3> HIDE DEF running, withPid
      <3>3. CASE Present(slot)
        <4>1. withPid.state # "absent"
          BY <3>2, <3>3 DEF Present
        <4> QED BY <1>2, <2>1, <3>1, <3>2, <4>1, WriteKeeps
      <3>4. CASE ~Present(slot)
        <4>1. row' = row
          BY <1>1, <3>1, <3>4 DEF Write
        <4> QED BY <1>2, <1>3, <3>1, <4>1 DEF OpensNone
      <3> QED BY <3>3, <3>4
    <2>7. CASE SpawnFails
      <3>1. Write(slot, Finished(EndedAttempt(row[slot], "notZero"), "failed")) /\ crashes' = crashes
        BY <2>7 DEF SpawnFails
      <3> QED BY <1>2, <1>6, <2>1, <2>2, <3>1, WriteCloses
    <2>8. ASSUME NEW rc \in ExitCodes, NEW points \in Points, DriverDone(rc, points)
          PROVE  OpenInv'
      <3> DEFINE ended == EndedAttempt(row[slot], points)
                 after == IF ended.state = "done" THEN ended
                          ELSE FinishedRow(ended, MaxAttempts[slot], rc)
      <3>1. ended \in Row /\ Opens(ended.log) = {}
        BY <2>1, EndedAttemptType, EndedLog
      <3>2. Write(slot, after) /\ crashes' = crashes
        BY <2>8 DEF DriverDone
      <3> HIDE DEF ended
      <3>3. after \in Row /\ after.state # "absent" /\ Opens(after.log) = {}
        BY <2>1, <2>2, <3>1, FinishedRowType, FinishedRowLog
      <3> HIDE DEF after
      <3> QED BY <1>2, <2>1, <3>2, <3>3, WriteCloses
    <2>9. CASE Acquire \/ Acquired \/ VanishedMeanwhile \/ CanceledMeanwhile \/ Yield \/ KeepsSlot
               \/ StartVanishes \/ Spawn \/ Handoff \/ StopReturns
      <3>1. /\ row' = row /\ crashes' = crashes
            /\ stage \in AttemptStages => stage' \in AttemptStages /\ slot' = slot
        BY <2>9 DEF Acquire, Acquired, VanishedMeanwhile, CanceledMeanwhile, Yield, KeepsSlot,
                    StartVanishes, Spawn, Handoff, StopReturns, AttemptStages
      <3> QED BY <1>2, <1>3, <3>1 DEF OpensNone
    <2> QED BY <1>7, <2>3, <2>4, <2>5, <2>6, <2>7, <2>8, <2>9 DEF RunStep
  <1>8. CASE CancelStep
    <2>1. "canceled" \in Outcomes /\ UNCHANGED <<stage, slot, crashes>>
      BY <1>8 DEF Outcomes, CancelStep, CancelWaiting, CancelRunning, CancelExited,
                  CancelGivesUp, CancelCompletes, memory
    <2>2. ASSUME NEW j \in Ids, CancelWaiting(j) PROVE OpenInv'
      <3>1. /\ row' = [row EXCEPT ![j] = Finished(row[j], "canceled")] /\ Present(j)
            /\ Finished(row[j], "canceled") \in Row
            /\ Finished(row[j], "canceled").state = "done"
            /\ Finished(row[j], "canceled").log = row[j].log
        BY <1>1, <2>1, <2>2, FinishedType, SettledLog DEF CancelWaiting, Waiting, Present
      <3>2. Opens(Finished(row[j], "canceled").log) = Opens(row[j].log)
        BY <3>1
      <3>3. CASE stage \in AttemptStages
        BY <1>2, <2>1, <3>1, <3>3, WriteKeeps
      <3>4. CASE stage \notin AttemptStages
        BY <1>2, <2>1, <3>1, <3>2, <3>4, WriteKeeps
      <3> QED BY <3>3, <3>4
    <2>3. CASE CancelRunning \/ CancelGivesUp
      BY <1>2, <1>3, <2>1, <2>3 DEF CancelRunning, CancelGivesUp, OpensNone
    <2>4. CASE CancelExited
      <3>1. /\ row' = [row EXCEPT ![slot] = Finished(EndedAttempt(row[slot], "notZero"), "canceled")]
            /\ Present(slot) /\ slot \in Ids
        BY <2>4, InFlight DEF CancelExited, Present
      <3> QED BY <1>2, <1>6, <2>1, <3>1, WriteCloses
    <2>5. CASE CancelCompletes
      <3>1. /\ Write(canceling, Finished(EndedAttempt(row[canceling], "notZero"), "canceled"))
            /\ canceling \in Ids
        BY <2>5 DEF CancelCompletes, CancelDue, TypeOK
      <3> QED BY <1>2, <1>6, <2>1, <3>1, WriteCloses
    <2> QED BY <1>8, <2>2, <2>3, <2>4, <2>5 DEF CancelStep
  <1>9. CASE Arrival
    <2>1. \A k \in Ids : row'[k] = row[k] \/ row'[k].log = <<>>
      BY <1>9 DEF Arrival
    <2>2. UNCHANGED <<slot, stage, crashes>>
      BY <1>9 DEF Arrival
    <2> QED BY <1>2, <1>3, <1>4, <1>5, <2>1, <2>2 DEF OpensNone
  <1>10. CASE Reranked
    <2>1. UNCHANGED <<slot, stage, crashes>> /\ OnlyPrioritiesMove
      BY <1>10 DEF Reranked
    <2> QED BY <1>2, <1>3, <1>5, <2>1 DEF OpensNone, OnlyPrioritiesMove
  <1>11. CASE Removal
    <2>1. \A k \in Ids : row'[k] = row[k] \/ row'[k].log = <<>>
      BY <1>11 DEF Removal, AbsentRow
    <2>2. UNCHANGED <<slot, stage, crashes>>
      BY <1>11 DEF Removal
    <2> QED BY <1>2, <1>3, <1>4, <1>5, <2>1, <2>2 DEF OpensNone
  <1>12. CASE Aside
    BY <1>2, <1>3, <1>12 DEF Aside, OpensNone
  <1>13. ASSUME NEW j \in Ids, Dispatch(j) PROVE OpenInv'
    BY <1>2, <1>3, <1>13 DEF Dispatch, OpensNone, TypeOK, AttemptStages
  <1>14. ASSUME NEW p, DriverExits(p) PROVE OpenInv'
    BY <1>2, <1>3, <1>14 DEF DriverExits, memory, OpensNone
  <1>15. ASSUME NEW survivors \in SUBSET procs, NEW alive, Crash(survivors, alive)
         PROVE  OpenInv'
    <2>1. /\ crashes' = crashes + 1 /\ stage' = "idle"
          /\ \A k \in Ids : row'[k] = row[k] \/ row'[k] = RecoveredRow(row[k], MaxAttempts[k])
      BY <1>15 DEF Crash
    <2>2. ASSUME NEW k \in Ids
          PROVE  /\ Opens(RecoveredRow(row[k], MaxAttempts[k]).log) = {}
                 /\ RecoveredRow(row[k], MaxAttempts[k]).state # "absent"
      <3>1. row[k] \in Row /\ MaxAttempts[k] \in Int
        BY <1>1, QueueAssumption
      <3> QED BY <3>1, RecoveredLog
    <2>3. OpenAttempts' \subseteq (OpenAttempts \ Driven) \cup Driven
      BY <2>1, <2>2 DEF OpenAttempts, Opens
    <2>4. /\ IsFiniteSet(OpenAttempts \ Driven)
          /\ Cardinality(OpenAttempts \ Driven) \in Nat
          /\ Cardinality(OpenAttempts \ Driven) <= crashes
      BY FS_CardinalityType DEF OpenInv
    <2>5. \E x : OpenAttempts' \subseteq (OpenAttempts \ Driven) \cup {x}
      BY <2>3 DEF Driven
    <2>6. PICK x : OpenAttempts' \subseteq (OpenAttempts \ Driven) \cup {x}
      BY <2>5
    <2>7. /\ IsFiniteSet((OpenAttempts \ Driven) \cup {x})
          /\ Cardinality((OpenAttempts \ Driven) \cup {x}) <= crashes + 1
          /\ Cardinality((OpenAttempts \ Driven) \cup {x}) \in Nat
      BY <1>1, <2>4, OneMore
    <2>8. /\ IsFiniteSet(OpenAttempts') /\ Cardinality(OpenAttempts') \in Nat
          /\ Cardinality(OpenAttempts') <= Cardinality((OpenAttempts \ Driven) \cup {x})
      BY <2>6, <2>7, FS_Subset, FS_CardinalityType
    <2>9. Driven' = {} /\ OpenAttempts' \ Driven' = OpenAttempts'
      BY <2>1 DEF Driven, AttemptStages
    <2>10. Cardinality(OpenAttempts') <= crashes'
      BY <1>1, <2>1, <2>7, <2>8
    <2>11. \A j \in Ids : ~Present(j)' => row'[j].log = <<>>
      BY <1>3, <2>1, <2>2 DEF Present
    <2> QED BY <2>8, <2>9, <2>10, <2>11 DEF OpenInv
  <1> QED BY <1>7, <1>8, <1>9, <1>10, <1>11, <1>12, <1>13, <1>14, <1>15, StepCases
      DEF Elsewhere

-----------------------------------------------------------------------------
(* The theorems.                                                           *)

\* A job gets max_attempts tries (one, if it allows none), and only a crash of
\* the daemon between counting a try and acting on it buys another.
THEOREM AttemptsBudget == Spec => []AttemptsPaidFor
  <1>1. IInv => AttemptsPaidFor
    BY DEF IInv, BudgetInv
  <1> QED BY <1>1, Inductive, PTL

\* Whoever a cluster's used_by names is the job in the slot, unless that
\* job's row was deleted under it.
THEOREM LeaseOwner == Spec => []LeaseFollowsSlot
  <1>1. IInv => LeaseFollowsSlot
    BY DEF IInv, LeaseInv
  <1> QED BY <1>1, Inductive, PTL

\* A running row is the row of the job being driven, or one a restart left
\* alone because its pid was alive.
THEOREM RunningOwner == Spec => []RunningRowIsDriven
  <1>1. IInv => RunningRowIsDriven
    BY DEF IInv, RunningInv
  <1> QED BY <1>1, Inductive, PTL

\* At most one driver is alive besides the ones dead daemons left behind, and
\* each death leaves at most one.
THEOREM OneDriver == Spec => []DriversPaidFor
  <1>1. IInv => DriversPaidFor
    <2> SUFFICES ASSUME IInv PROVE DriversPaidFor
      OBVIOUS
    <2>1. /\ IsFiniteSet(procs) /\ crashes \in Nat
          /\ IF stage \in DriverStages
             THEN Cardinality(procs \ {Driver}) <= crashes
             ELSE Cardinality(procs) <= crashes
      BY DEF IInv, DriversInv, TypeOK
    <2>2. /\ Cardinality(procs) \in Nat /\ Cardinality(procs \ {Driver}) \in Nat
          /\ Cardinality(procs) <= Cardinality(procs \ {Driver}) + 1
      BY <2>1, LessOne
    <2> QED BY <2>1, <2>2 DEF DriversPaidFor
  <1> QED BY <1>1, Inductive, PTL

\* A done job changes state or outcome only under a cancel that overlaps its
\* _run: before the driver spawns, or while the cancel waits for it to exit.
THEOREM DoneJobsStay == Spec => FinishedStays
  <1> DEFINE Stays(j) ==
        row[j].state = "done" /\ row'[j].state # "absent" =>
            \/ row'[j].state = "done" /\ row'[j].outcome = row[j].outcome
            \/ slot = j /\ stage \in BeforeSpawn
            \/ canceling = j
  <1>1. ASSUME IInv, [Next]_vars, NEW j \in Ids
        PROVE  Stays(j)
    <2> SUFFICES ASSUME row[j].state = "done", row'[j].state # "absent",
                        row'[j] # row[j]
                 PROVE  Stays(j)
      OBVIOUS
    <2>1. TypeOK /\ RunningInv /\ IssuedIds /\ Present(j) /\ j < nextId
      BY <1>1 DEF IInv, IssuedIds, Present
    <2>2. CASE RunStep
      <3>1. slot = j
        BY <2>1, <2>2, RunEffects, DriverDoneEffect
        DEF RunStep, Acquire, Acquired, VanishedMeanwhile, CanceledMeanwhile, Yield, KeepsSlot,
            StartVanishes, Spawn, Handoff, StopReturns, RowBecomes
      <3>2. CASE SpawnFails \/ RecordPid
        BY <2>1, <3>1, <3>2 DEF SpawnFails, RecordPid, RunningInv
      <3>3. ASSUME NEW rc \in ExitCodes, NEW points \in Points, DriverDone(rc, points)
            PROVE  Stays(j)
        BY <2>1, <3>1, <3>3, DriverDoneEffect
      <3> QED BY <2>2, <3>1, <3>2, <3>3
          DEF RunStep, BuildFails, Acquire, AcquireFails, SettleFailedStart, Acquired,
              VanishedMeanwhile, CanceledMeanwhile, Yield, KeepsSlot, StartAttempt, AboutToStart,
              StartVanishes, SetRunning, Spawn, Handoff, StopReturns, BeforeSpawn
    <2>3. CASE CancelStep
      <3>1. ASSUME NEW k, RowBecomes(k, {"done"}, 0)
            PROVE  k = j
        BY <3>1 DEF RowBecomes
      <3> QED BY <2>1, <2>3, <3>1, CancelEffects
          DEF CancelStep, CancelWaiting, Waiting, CancelRunning, CancelExited, CancelGivesUp
    <2>4. CASE Elsewhere
      <3>1. ASSUME NEW survivors, NEW alive, Crash(survivors, alive) PROVE FALSE
        BY <2>1, <3>1, CrashEffect
      <3>2. CASE Arrival
        <4>1. j # nextId
          BY <2>1 DEF TypeOK, Ids
        <4> QED BY <3>2, <4>1 DEF Arrival
      <3>3. CASE Reranked
        BY <3>3 DEF Reranked, OnlyPrioritiesMove
      <3>4. CASE Removal
        BY <3>4 DEF Removal, AbsentRow
      <3> QED BY <2>4, <3>1, <3>2, <3>3, <3>4
          DEF Elsewhere, Aside, Dispatch, DriverExits
    <2> QED BY <1>1, <2>1, <2>2, <2>3, <2>4, StepCases
  <1>2. IInv /\ [Next]_vars => [\A j \in Ids : Stays(j)]_vars
    BY <1>1
  <1> QED BY <1>2, Inductive, PTL DEF Spec, FinishedStays

\* Apart from the attempt being driven, every attempt without an end in the
\* database was left by a dead daemon, at most one by each.
THEOREM AttemptsClosed == Spec => []OpenAttemptsPaidFor
  <1>1. Init => TypeOK /\ OpenInv
    <2> SUFFICES ASSUME Init PROVE OpenInv
      BY TypeInit
    <2>1. \A j \in Ids : row[j].log = <<>>
      BY DEF Init, AbsentRow
    <2>2. OpenAttempts = {} /\ crashes = 0
      BY <2>1 DEF Init, OpenAttempts
    <2>3. OpenAttempts \ Driven = {}
      BY <2>2
    <2> QED BY <2>1, <2>2, <2>3, FS_EmptySet DEF OpenInv
  <1>2. TypeOK /\ OpenInv /\ [Next]_vars => (TypeOK /\ OpenInv)'
    BY TypeStep, OpenStep
  <1>3. TypeOK /\ OpenInv => OpenAttemptsPaidFor
    <2> SUFFICES ASSUME TypeOK, OpenInv PROVE OpenAttemptsPaidFor
      OBVIOUS
    <2> DEFINE Left == OpenAttempts \ Driven
    <2>1. IsFiniteSet(Left) /\ Cardinality(Left) \in Nat /\ Cardinality(Left) <= crashes
          /\ crashes \in Nat
      BY FS_CardinalityType DEF OpenInv, TypeOK
    <2>2. CASE stage \in AttemptStages
      <3>1. /\ IsFiniteSet(Left \cup {<<slot, Len(row[slot].log)>>})
            /\ Cardinality(Left \cup {<<slot, Len(row[slot].log)>>}) <= crashes + 1
            /\ Cardinality(Left \cup {<<slot, Len(row[slot].log)>>}) \in Nat
        <4> HIDE DEF Left
        <4> QED BY <2>1, OneMore
      <3>2. OpenAttempts \subseteq Left \cup {<<slot, Len(row[slot].log)>>}
        BY <2>2 DEF Driven
      <3>3. /\ Cardinality(OpenAttempts) <= Cardinality(Left \cup {<<slot, Len(row[slot].log)>>})
            /\ Cardinality(OpenAttempts) \in Nat
        BY <3>1, <3>2, FS_Subset, FS_CardinalityType
      <3>4. Cardinality(OpenAttempts) <= crashes + 1
        <4> HIDE DEF Left
        <4> QED BY <2>1, <3>1, <3>3
      <3> QED BY <2>2, <3>4 DEF OpenAttemptsPaidFor
    <2>3. CASE stage \notin AttemptStages
      <3>1. Left = OpenAttempts
        BY <2>3 DEF Driven
      <3> QED BY <2>1, <2>3, <3>1 DEF OpenAttemptsPaidFor
    <2> QED BY <2>2, <2>3
  <1> QED BY <1>1, <1>2, <1>3, PTL DEF Spec

-----------------------------------------------------------------------------
(* The queue has one head.                                                 *)

\* ORDER BY priority DESC, id ASC is a strict total order of the waiting jobs.
LEMMA AheadIsTotal ==
    ASSUME TypeOK, NEW j \in Ids, NEW k \in Ids
    PROVE  /\ ~(Ahead(j, k) /\ Ahead(k, j))
           /\ j # k => Ahead(j, k) \/ Ahead(k, j)
           /\ \A m \in Ids : Ahead(j, k) /\ Ahead(k, m) => Ahead(j, m)
  <1>1. \A m \in Ids : row[m].prio \in Int /\ m \in Int
    BY QueueAssumption DEF TypeOK, Row, Ids
  <1> QED BY <1>1 DEF Ahead

\* A queue that is not empty has a head: whoever the fewest are ahead of.
LEMMA HeadExists ==
    ASSUME TypeOK, Waiting # {}
    PROVE  \E h \in Waiting : IsHead(h)
  <1> DEFINE before(k) == {m \in Waiting : Ahead(m, k)}
             sizes == {Cardinality(before(k)) : k \in Waiting}
  <1>1. Waiting \subseteq Ids /\ IsFiniteSet(Waiting)
    BY FiniteIds, FS_Subset DEF Waiting
  <1>2. \A k \in Waiting : IsFiniteSet(before(k)) /\ Cardinality(before(k)) \in Nat
    BY <1>1, FS_Subset, FS_CardinalityType
  <1>3. sizes \in SUBSET Nat /\ sizes # {}
    BY <1>2
  <1>4. PICK n \in sizes : \A s \in sizes : n <= s
    <2> HIDE DEF sizes
    <2> QED BY <1>3, LeastNat
  <1>5. PICK h \in Waiting : n = Cardinality(before(h))
    OBVIOUS
  <1>6. ASSUME NEW k \in Waiting \ {h}, ~Ahead(h, k) PROVE FALSE
    <2>1. Ahead(k, h)
      BY <1>1, <1>6, AheadIsTotal
    <2>2. before(k) \subseteq before(h)
      BY <1>1, <2>1, AheadIsTotal
    <2>3. k \in before(h) /\ k \notin before(k)
      BY <1>1, <2>1, AheadIsTotal
    <2>4. Cardinality(before(k)) < Cardinality(before(h))
      <3>1. /\ Cardinality(before(k)) <= Cardinality(before(h))
            /\ Cardinality(before(h)) = Cardinality(before(k)) => before(h) = before(k)
        BY <1>2, <2>2, FS_Subset
      <3> QED BY <1>2, <2>3, <3>1
    <2>5. Cardinality(before(h)) <= Cardinality(before(k))
      BY <1>4, <1>5
    <2> QED BY <1>2, <2>4, <2>5
  <1> QED BY <1>5, <1>6 DEF IsHead

\* A queue that is not empty has exactly one head, whatever priorities the
\* requests have written: _dispatch and _outranked_by mean the same job.
THEOREM OneHead ==
    Spec => [](Waiting # {} => \E h \in Waiting : \A k \in Ids : IsHead(k) <=> k = h)
  <1>1. ASSUME TypeOK, Waiting # {}
        PROVE  \E h \in Waiting : \A k \in Ids : IsHead(k) <=> k = h
    <2>1. PICK h \in Waiting : IsHead(h)
      BY <1>1, HeadExists
    <2>2. ASSUME NEW k \in Ids, IsHead(k), k # h PROVE FALSE
      <3>1. h \in Ids /\ k \in Waiting /\ Ahead(h, k) /\ Ahead(k, h)
        BY <2>1, <2>2 DEF IsHead, Waiting
      <3> QED BY <1>1, <2>2, <3>1, AheadIsTotal
    <2> QED BY <2>1, <2>2
  <1>2. TypeOK => (Waiting # {} => \E h \in Waiting : \A k \in Ids : IsHead(k) <=> k = h)
    BY <1>1
  <1> QED BY <1>2, TypeCorrect, PTL
=============================================================================
