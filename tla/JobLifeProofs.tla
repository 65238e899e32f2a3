--------------------------- MODULE JobLifeProofs ---------------------------
(***************************************************************************)
(* JobQueue implements JobLife for every number of jobs, clusters, tries   *)
(* and crashes: the initial states map to the initial state, and every     *)
(* step of the queue is a step of a job's life or leaves it alone.         *)
(***************************************************************************)
EXTENDS JobQueueLife, JobQueueProofs

-----------------------------------------------------------------------------
(* What a step does to the rows, seen from JobLife.                        *)

LEMMA LifeFacts ==
    ASSUME IInv
    PROVE  /\ row \in [Ids -> Row] /\ nextId \in Nat /\ crashes \in Nat
           /\ NoJob \notin Ids /\ Ids \subseteq Nat
           /\ \A j \in Ids : /\ row[j].state \in States
                             /\ row[j].attempts \in Nat
                             /\ Budget(j) \in Nat /\ MaxAttempts[j] \in Int
                             /\ MaxAttempts[j] <= Budget(j)
           /\ \A j \in Ids : Present(j) => JobPhase[j] = row[j].state
           /\ \A j \in Ids : ~Present(j) => JobPhase[j] \in {"new", "gone"}
           /\ \A j \in Ids : Life!Alive(j) <=> Present(j)
           /\ \A j \in Ids : Present(j) => JobTries[j] = row[j].attempts
           /\ \A j \in Ids : Life!Allowed(j) = Budget(j) + crashes
  <1>1. /\ row \in [Ids -> Row] /\ nextId \in Nat /\ crashes \in Nat
        /\ NoJob \notin Ids /\ Ids \subseteq Nat
    BY DEF IInv, TypeOK, NoJob, Ids
  <1>2. \A j \in Ids : /\ row[j].state \in States
                       /\ row[j].attempts \in Nat
                       /\ Budget(j) \in Nat /\ MaxAttempts[j] \in Int
                       /\ MaxAttempts[j] <= Budget(j)
    BY <1>1, QueueAssumption DEF Row, Budget
  <1>3. \A j \in Ids : JobPhase[j] = Phase(j) /\ (Present(j) => JobTries[j] = row[j].attempts)
    BY DEF JobPhase, JobTries
  <1>4. \A j \in Ids : Present(j) => Phase(j) = row[j].state
    BY DEF Phase
  <1>5. \A j \in Ids : ~Present(j) => Phase(j) \in {"new", "gone"}
    BY DEF Phase
  <1>6. \A j \in Ids : Present(j) => row[j].state \in {"waiting", "running", "done"}
    BY <1>2 DEF Present, States
  <1>7. \A j \in Ids : Life!Alive(j) <=> Present(j)
    BY <1>3, <1>4, <1>5, <1>6 DEF Life!Alive
  <1>8. \A j \in Ids : Life!Allowed(j) = Budget(j) + crashes
    BY DEF Life!Allowed
  <1> QED BY <1>1, <1>2, <1>3, <1>4, <1>5, <1>7, <1>8

\* A step that writes at most one row changes at most that job's phase and tries.
LEMMA OneRowChanges ==
    ASSUME IInv, IInv', NEW j \in Ids, NEW states, NEW n \in Nat,
           RowBecomes(j, states, n), nextId' = nextId,
           Present(j) => "absent" \notin states
    PROVE  /\ JobPhase' = [JobPhase EXCEPT ![j] = JobPhase'[j]]
           /\ n = 0 => JobTries' = JobTries
           /\ IF Present(j)
              THEN /\ JobPhase'[j] = row'[j].state
                   /\ row'[j].state \in states
                   /\ JobTries' = [JobTries EXCEPT ![j] = @ + n]
              ELSE /\ JobPhase'[j] = JobPhase[j]
                   /\ JobTries' = JobTries
  <1>1. \A k \in Ids : k # j => row'[k] = row[k]
    BY DEF RowBecomes
  <1>2. \A k \in Ids : k # j => Phase(k)' = Phase(k)
    BY <1>1 DEF Phase, Present
  <1>3. JobPhase' = [JobPhase EXCEPT ![j] = JobPhase'[j]]
    BY <1>2 DEF JobPhase
  <1>4. \A k \in Ids : k # j => JobTries'[k] = JobTries[k]
    BY <1>1 DEF JobTries, Present
  <1>5. CASE Present(j)
    <2>1. row'[j].state \in states /\ row'[j].attempts = row[j].attempts + n
      BY <1>5 DEF RowBecomes
    <2>2. Phase(j)' = row'[j].state /\ Present(j)'
      BY <1>5, <2>1 DEF Phase, Present
    <2>3. JobTries'[j] = JobTries[j] + n
      BY <1>5, <2>1, <2>2 DEF JobTries
    <2>4. JobTries' = [JobTries EXCEPT ![j] = @ + n]
      BY <1>4, <2>3 DEF JobTries
    <2>5. n = 0 => JobTries'[j] = JobTries[j]
      BY <1>5, <2>3, LifeFacts
    <2>6. n = 0 => JobTries' = JobTries
      BY <1>4, <2>5 DEF JobTries
    <2> QED BY <1>3, <1>5, <2>1, <2>2, <2>4, <2>6 DEF JobPhase
  <1>6. CASE ~Present(j)
    <2>1. row'[j] = row[j]
      BY <1>6 DEF RowBecomes
    <2>2. Phase(j)' = Phase(j) /\ JobTries'[j] = JobTries[j]
      BY <2>1 DEF Phase, Present, JobTries
    <2>3. JobTries' = JobTries
      BY <1>4, <2>2 DEF JobTries
    <2> QED BY <1>3, <1>6, <2>2, <2>3 DEF JobPhase
  <1> QED BY <1>5, <1>6

-----------------------------------------------------------------------------
(* The steps of _run.                                                      *)

LEMMA RunLives ==
    ASSUME IInv, IInv', RunStep
    PROVE  [Life!LifeNext]_Life!life
  <1> USE DEF AttemptStages
  <1>1. /\ slot \in Ids /\ slot # NoJob /\ NoJob \notin Ids /\ TypeOK
        /\ nextId' = nextId /\ crashes' = crashes
    BY InFlight, RunStepStage
       DEF IInv, TypeOK, NoJob, Ids, RunStep, BuildFails, Acquire, AcquireFails,
           SettleFailedStart, Acquired, VanishedMeanwhile, CanceledMeanwhile, Yield, KeepsSlot,
           StartAttempt, StartVanishes, SetRunning, Spawn, SpawnFails, RecordPid,
           DriverDone, Handoff, StopReturns
  <1>2. row' = row => JobPhase' = JobPhase /\ JobTries' = JobTries
    BY <1>1 DEF JobPhase, JobTries, Phase, Present
  <1>3. JobPhase[slot] \in Life!Phases
    BY <1>1, LifeFacts DEF Life!Phases, States, Present
  \* The slot, or what _run does with it, is over; its row ends in a state allowed.
  <1>5. ASSUME NEW p \in Life!Phases, Life!MayBecome(slot, p),
               JobPhase' = [JobPhase EXCEPT ![slot] = p], JobTries' = JobTries,
               slot' \in {slot, NoJob}, stage' \notin AttemptStages
        PROVE  Life!LifeNext
    <2>1. Life!PutDown(p)
      BY <1>1, <1>5 DEF Life!PutDown
    <2> QED BY <2>1 DEF Life!LifeNext
  <1>6. ASSUME row' = row, slot' \in {slot, NoJob}, stage' \notin AttemptStages
        PROVE  Life!LifeNext
    <2>1. Life!MayBecome(slot, JobPhase[slot])
      BY DEF Life!MayBecome
    <2>2. JobPhase' = [JobPhase EXCEPT ![slot] = JobPhase[slot]]
      BY <1>2, <1>6 DEF JobPhase
    <2> QED BY <1>2, <1>3, <1>5, <1>6, <2>1, <2>2
  <1>7. ASSUME row' = row, slot' = slot,
               stage \in AttemptStages <=> stage' \in AttemptStages
        PROVE  UNCHANGED Life!life
    BY <1>1, <1>2, <1>7 DEF Life!life
  <1>8. ASSUME RowBecomes(slot, {"done"}, 0),
               slot' \in {slot, NoJob}, stage' \notin AttemptStages
        PROVE  Life!LifeNext
    <2>1. /\ JobPhase' = [JobPhase EXCEPT ![slot] = JobPhase'[slot]]
          /\ JobTries' = JobTries
          /\ IF Present(slot) THEN JobPhase'[slot] = "done"
                              ELSE JobPhase'[slot] = JobPhase[slot]
      BY <1>1, <1>8, OneRowChanges, LifeFacts
    <2>2. Life!MayBecome(slot, JobPhase'[slot]) /\ JobPhase'[slot] \in Life!Phases
      BY <1>1, <1>3, <2>1, LifeFacts DEF Life!MayBecome, Life!Phases
    <2> QED BY <1>5, <1>8, <2>1, <2>2
  <1>9. CASE BuildFails
    BY <1>1, <1>8, <1>9, RunEffects DEF BuildFails, Release
  <1>10. CASE Acquire \/ Acquired \/ CanceledMeanwhile \/ Yield \/ KeepsSlot \/ Spawn
    BY <1>7, <1>10 DEF Acquire, Acquired, CanceledMeanwhile, Yield, KeepsSlot, Spawn
  <1>11. CASE VanishedMeanwhile \/ StartVanishes \/ StopReturns \/ Handoff
    BY <1>6, <1>11 DEF VanishedMeanwhile, StartVanishes, StopReturns, Handoff, Release
  <1>12. ASSUME RowBecomes(slot, {row[slot].state}, 1), Present(slot), slot' = slot,
                stage \in {"claimed", "acquiring", "acquired", "cleared"}
         PROVE  Life!LifeNext
    <2>1. /\ JobPhase' = [JobPhase EXCEPT ![slot] = JobPhase'[slot]]
          /\ JobTries' = [JobTries EXCEPT ![slot] = @ + 1]
          /\ JobPhase'[slot] = JobPhase[slot]
      BY <1>1, <1>12, OneRowChanges, LifeFacts DEF Present
    <2>2. JobPhase' = JobPhase
      BY <2>1 DEF JobPhase
    <2>3. JobTries[slot] < Life!Allowed(slot)
      BY <1>1, <1>12, LifeFacts DEF IInv, BudgetInv, Spendable
    <2>4. Life!Try
      BY <1>1, <1>12, <2>1, <2>2, <2>3, LifeFacts DEF Life!Try
    <2> QED BY <2>4 DEF Life!LifeNext
  <1>13. CASE AcquireFails
    <2>1. CASE Present(slot)
      BY <1>1, <1>12, <1>13, <2>1, RunEffects DEF AcquireFails
    <2>2. CASE ~Present(slot)
      BY <1>6, <1>13, <2>2 DEF AcquireFails, Release
    <2> QED BY <2>1, <2>2
  <1>14. CASE StartAttempt
    BY <1>1, <1>12, <1>14, RunEffects DEF StartAttempt, AboutToStart
  <1>15. CASE SettleFailedStart
    <2>1. slot' = NoJob /\ stage' = "idle" /\ stage = "startFailed"
      BY <1>15 DEF SettleFailedStart, Release
    <2>2. CASE OutOfAttempts(slot)
      BY <1>1, <1>8, <1>15, <2>1, <2>2, RunEffects
    <2>3. CASE ~OutOfAttempts(slot)
      <3>1. RowBecomes(slot, {"waiting"}, 0)
        BY <1>1, <1>15, <2>3, RunEffects
      <3>2. /\ JobPhase' = [JobPhase EXCEPT ![slot] = JobPhase'[slot]]
            /\ JobTries' = JobTries
            /\ IF Present(slot) THEN JobPhase'[slot] = "waiting"
                                ELSE JobPhase'[slot] = JobPhase[slot]
        BY <1>1, <3>1, OneRowChanges, LifeFacts
      <3>3. Present(slot) => JobTries[slot] < Budget(slot)
        BY <1>1, <2>3, LifeFacts DEF OutOfAttempts
      <3>4. Life!MayBecome(slot, JobPhase'[slot]) /\ JobPhase'[slot] \in Life!Phases
        BY <1>1, <1>3, <2>1, <3>2, <3>3, LifeFacts DEF Life!MayBecome, Life!Phases
      <3> QED BY <1>5, <2>1, <3>2, <3>4
    <2> QED BY <2>2, <2>3
  <1>16. CASE SetRunning
    <2>1. RowBecomes(slot, {"running"}, 0) /\ slot' = slot
          /\ stage = "starting" /\ stage' = "spawning"
      BY <1>1, <1>16, RunEffects DEF SetRunning
    <2>2. /\ JobPhase' = [JobPhase EXCEPT ![slot] = JobPhase'[slot]]
          /\ JobTries' = JobTries
          /\ IF Present(slot) THEN JobPhase'[slot] = "running"
                              ELSE JobPhase'[slot] = JobPhase[slot]
      BY <1>1, <2>1, OneRowChanges, LifeFacts
    <2>3. CASE Present(slot)
      <3>1. Life!Run
        BY <1>1, <2>1, <2>2, <2>3, LifeFacts DEF Life!Run
      <3> QED BY <3>1 DEF Life!LifeNext
    <2>4. CASE ~Present(slot)
      <3>1. JobPhase' = JobPhase
        BY <2>2, <2>4 DEF JobPhase
      <3> QED BY <1>1, <2>1, <2>2, <3>1 DEF Life!life
    <2> QED BY <2>3, <2>4
  <1>17. CASE SpawnFails
    BY <1>1, <1>8, <1>17, RunEffects DEF SpawnFails, LeaveRun, Release
  <1>18. CASE RecordPid
    <2>1. RowBecomes(slot, {row[slot].state}, 0) /\ slot' = slot
          /\ stage = "spawned" /\ stage' = "driving"
      BY <1>1, <1>18, RunEffects DEF RecordPid
    <2>2. /\ JobPhase' = [JobPhase EXCEPT ![slot] = JobPhase'[slot]]
          /\ JobTries' = JobTries
          /\ JobPhase'[slot] = JobPhase[slot]
      BY <1>1, <2>1, OneRowChanges, LifeFacts DEF Present
    <2>3. JobPhase' = JobPhase
      BY <2>2 DEF JobPhase
    <2> QED BY <1>1, <2>1, <2>2, <2>3 DEF Life!life
  <1>19. ASSUME NEW rc \in ExitCodes, NEW points \in Points, DriverDone(rc, points)
         PROVE  Life!LifeNext
    <2>1. /\ stage = "driving" /\ slot' \in {slot, NoJob}
          /\ stage' \in {"idle", "handoff"}
      BY <1>19 DEF DriverDone, LeaveRun, Release
    <2>2. /\ RowBecomes(slot, {"done", "waiting"}, 0)
          /\ row'[slot].state = "waiting" => row[slot].attempts < MaxAttempts[slot]
          /\ row[slot].state = "done" => row'[slot].state = "done"
      BY <1>1, <1>19, DriverDoneEffect
    <2>3. /\ JobPhase' = [JobPhase EXCEPT ![slot] = JobPhase'[slot]]
          /\ JobTries' = JobTries
          /\ IF Present(slot)
             THEN /\ JobPhase'[slot] = row'[slot].state
                  /\ row'[slot].state \in {"done", "waiting"}
             ELSE JobPhase'[slot] = JobPhase[slot]
      BY <1>1, <2>2, OneRowChanges, LifeFacts
    <2>4. JobPhase'[slot] = "waiting" /\ Present(slot) =>
             JobTries[slot] < Budget(slot) /\ JobPhase[slot] # "done"
      BY <1>1, <2>2, <2>3, LifeFacts
    <2>5. Life!MayBecome(slot, JobPhase'[slot]) /\ JobPhase'[slot] \in Life!Phases
      BY <1>1, <1>3, <2>3, <2>4, LifeFacts DEF Life!MayBecome, Life!Phases
    <2> QED BY <1>5, <2>1, <2>3, <2>5
  <1> QED BY <1>9, <1>10, <1>11, <1>13, <1>14, <1>15, <1>16, <1>17, <1>18, <1>19 DEF RunStep

-----------------------------------------------------------------------------
(* Cancels, requests and deaths.                                           *)

LEMMA CancelLives ==
    ASSUME IInv, IInv', CancelStep
    PROVE  [Life!LifeNext]_Life!life
  <1>1. TypeOK /\ UNCHANGED <<nextId, slot, stage, crashes>>
    BY DEF IInv, CancelStep, CancelWaiting, CancelRunning, CancelExited, CancelGivesUp,
           CancelCompletes, memory
  <1>2. CASE row' = row
    BY <1>1, <1>2 DEF Life!life, JobPhase, JobTries, Phase, Present
  <1>3. ASSUME NEW j \in Ids, RowBecomes(j, {"done"}, 0) PROVE [Life!LifeNext]_Life!life
    <2>1. /\ JobPhase' = [JobPhase EXCEPT ![j] = JobPhase'[j]]
          /\ IF Present(j) THEN JobPhase'[j] = "done" ELSE JobPhase'[j] = JobPhase[j]
      BY <1>1, <1>3, OneRowChanges, LifeFacts
    <2>2. JobTries' = JobTries
      BY <1>1, <1>3, OneRowChanges
    <2>3. CASE Present(j)
      <3>1. Life!Cancel(j)
        BY <1>1, <2>1, <2>2, <2>3, LifeFacts DEF Life!Cancel
      <3> QED BY <3>1 DEF Life!LifeNext
    <2>4. CASE ~Present(j)
      <3>1. JobPhase' = JobPhase
        BY <2>1, <2>4 DEF JobPhase
      <3> QED BY <1>1, <2>2, <3>1 DEF Life!life
    <2> QED BY <2>3, <2>4
  <1>4. \A j \in Ids : CancelWaiting(j) => RowBecomes(j, {"done"}, 0)
    BY <1>1, CancelEffects
  <1>5. CancelExited => slot \in Ids /\ RowBecomes(slot, {"done"}, 0)
    BY <1>1, CancelEffects, InFlight DEF CancelExited
  <1>6. CancelCompletes => canceling \in Ids /\ RowBecomes(canceling, {"done"}, 0)
    BY <1>1, CancelEffects DEF CancelCompletes, CancelDue, TypeOK
  <1> QED BY <1>2, <1>3, <1>4, <1>5, <1>6 DEF CancelStep, CancelRunning, CancelGivesUp

LEMMA ArrivalLives ==
    ASSUME IInv, IInv', Arrival
    PROVE  Life!LifeNext
  <1>1. nextId \in Ids
    BY DEF Arrival
  <1>2. SUFFICES ASSUME NEW j \in Ids, j = nextId PROVE Life!LifeNext
    BY <1>1
  <1>3. /\ nextId' = j + 1 /\ j \in Nat
        /\ \A k \in Ids : k # j => row'[k] = row[k]
        /\ row'[j].state = "waiting" /\ row'[j].attempts = 0
        /\ UNCHANGED <<slot, stage, crashes>>
    BY <1>2, LifeFacts DEF Arrival
  <1>4. ~Present(j)
    BY <1>2, <1>3 DEF IInv, IssuedIds
  <1>5. Phase(j) = "new" /\ JobTries[j] = 0
    BY <1>2, <1>3, <1>4 DEF Phase, JobTries
  <1>6. Present(j)'
    BY <1>3 DEF Present
  <1>7. Phase(j)' = "waiting" /\ JobTries'[j] = 0
    BY <1>3, <1>6 DEF Phase, JobTries
  <1>8. ASSUME NEW k \in Ids, k # j PROVE Phase(k)' = Phase(k) /\ JobTries'[k] = JobTries[k]
    <2>1. k < j + 1 <=> k < j
      BY <1>3, <1>8, LifeFacts
    <2> QED BY <1>2, <1>3, <1>8, <2>1 DEF Phase, Present, JobTries
  <1>9. JobPhase' = [JobPhase EXCEPT ![j] = "waiting"]
    BY <1>7, <1>8 DEF JobPhase
  <1>10. JobTries' = JobTries
    BY <1>5, <1>7, <1>8 DEF JobTries
  <1>11. Life!Enter(j)
    BY <1>3, <1>5, <1>9, <1>10 DEF Life!Enter, JobPhase
  <1> QED BY <1>11 DEF Life!LifeNext

LEMMA RemovalLives ==
    ASSUME IInv, IInv', Removal
    PROVE  Life!LifeNext
  <1> DEFINE S == {k \in Ids : row'[k] # row[k]}
  <1>1. /\ \A k \in S : row[k].state = "done" /\ row'[k] = AbsentRow
        /\ UNCHANGED <<nextId, slot, stage, crashes>>
    BY DEF Removal
  <1>2. \A k \in S : k < nextId /\ Phase(k) = "done" /\ Phase(k)' = "gone"
                    /\ JobTries'[k] = 0
    BY <1>1 DEF IInv, IssuedIds, Phase, Present, AbsentRow, JobTries
  <1>3. \A k \in Ids : k \notin S => Phase(k)' = Phase(k) /\ JobTries'[k] = JobTries[k]
    BY <1>1 DEF Phase, Present, JobTries
  <1>4. JobPhase' = [k \in Ids |-> IF k \in S THEN "gone" ELSE JobPhase[k]]
    BY <1>2, <1>3 DEF JobPhase
  <1>5. JobTries' = [k \in Ids |-> IF k \in S THEN 0 ELSE JobTries[k]]
    BY <1>2, <1>3 DEF JobTries
  <1>6. S \in SUBSET Ids /\ \A k \in S : JobPhase[k] = "done"
    BY <1>2 DEF JobPhase
  <1>7. Life!Remove(S)
    BY <1>1, <1>4, <1>5, <1>6 DEF Life!Remove
  <1> QED BY <1>6, <1>7 DEF Life!LifeNext

LEMMA DeathLives ==
    ASSUME IInv, IInv', NEW survivors, NEW alive, Crash(survivors, alive)
    PROVE  Life!LifeNext
  <1>1. /\ crashes' = crashes + 1 /\ slot' = NoJob /\ stage' = "idle"
        /\ nextId' = nextId
        /\ \A k \in Ids : row'[k] = IF row[k].state = "running" /\ ~PidAlive(alive, k)
                                    THEN RecoveredRow(row[k], MaxAttempts[k]) ELSE row[k]
    BY DEF Crash
  <1>2. \A k \in Ids : row[k] \in Row
    BY LifeFacts
  <1>3. ASSUME NEW k \in Ids
        PROVE  /\ JobTries'[k] = JobTries[k]
               /\ Phase(k)' \in Life!Phases
               /\ \/ Phase(k)' = Phase(k)
                  \/ Phase(k) = "running" /\ Phase(k)' = "done"
                  \/ /\ Phase(k) = "running" /\ Phase(k)' = "waiting"
                     /\ JobTries[k] < Budget(k)
    <2>1. CASE row'[k] = row[k]
      <3>1. Phase(k)' = Phase(k) /\ JobTries'[k] = JobTries[k]
        BY <1>1, <2>1 DEF Phase, Present, JobTries
      <3>2. Phase(k) \in Life!Phases
        <4>1. /\ JobPhase[k] = Phase(k)
              /\ Present(k) => JobPhase[k] = row[k].state
              /\ Present(k) => row[k].state \in {"waiting", "running", "done"}
              /\ ~Present(k) => JobPhase[k] \in {"new", "gone"}
          BY LifeFacts DEF Present, States, JobPhase
        <4> QED BY <4>1 DEF Life!Phases
      <3> QED BY <3>1, <3>2
    <2>2. CASE row'[k] = RecoveredRow(row[k], MaxAttempts[k]) /\ row[k].state = "running"
      <3>1. /\ row'[k].attempts = row[k].attempts
            /\ \/ row'[k].state = "done"
               \/ row'[k].state = "waiting" /\ row[k].attempts < MaxAttempts[k]
        <4>1. row[k] \in Row /\ MaxAttempts[k] \in Int
          BY <1>2, LifeFacts
        <4>2. /\ RecoveredRow(row[k], MaxAttempts[k]).attempts = row[k].attempts
              /\ \/ RecoveredRow(row[k], MaxAttempts[k]).state = "done"
                 \/ /\ RecoveredRow(row[k], MaxAttempts[k]).state = "waiting"
                    /\ row[k].attempts < MaxAttempts[k]
          BY ONLY <4>1, RecoveredRowType
        <4> QED BY <2>2, <4>2
      <3>2. /\ Phase(k) = "running" /\ Phase(k)' = row'[k].state
            /\ JobTries[k] = row[k].attempts /\ JobTries'[k] = row'[k].attempts
        BY <2>2, <3>1 DEF Phase, Present, JobTries
      <3>3. row[k].attempts < MaxAttempts[k] => row[k].attempts < Budget(k)
        BY LifeFacts
      <3> QED BY <3>1, <3>2, <3>3 DEF Life!Phases
    <2> QED BY <1>1, <2>1, <2>2
  <1>4. JobTries' = JobTries
    BY <1>3 DEF JobTries
  <1>5. JobPhase' \in [Ids -> Life!Phases]
    BY <1>3 DEF JobPhase
  <1>6. Life!Die
    BY <1>1, <1>3, <1>4, <1>5, LifeFacts DEF Life!Die, JobPhase, JobTries, AttemptStages
  <1> QED BY <1>6 DEF Life!LifeNext

\* Picking the head of the queue up, and everything that touches no job.
LEMMA ElsewhereLives ==
    ASSUME IInv, IInv', Elsewhere
    PROVE  [Life!LifeNext]_Life!life
  <1>1. ASSUME UNCHANGED <<nextId, slot, stage, crashes>>,
               \A k \in Ids : row'[k].state = row[k].state /\ row'[k].attempts = row[k].attempts
        PROVE  UNCHANGED Life!life
    BY <1>1 DEF Life!life, JobPhase, JobTries, Phase, Present
  <1>2. CASE Arrival \/ Removal
    BY <1>2, ArrivalLives, RemovalLives
  <1>3. CASE Reranked
    BY <1>1, <1>3 DEF Reranked, OnlyPrioritiesMove
  <1>4. CASE Aside
    BY <1>1, <1>4 DEF Aside
  <1>5. ASSUME NEW p, DriverExits(p) PROVE UNCHANGED Life!life
    BY <1>1, <1>5 DEF DriverExits, memory
  <1>6. ASSUME NEW j \in Ids, Dispatch(j) PROVE Life!LifeNext
    <2>1. /\ slot = NoJob /\ slot' = j /\ stage' = "claimed" /\ j \in Waiting
          /\ UNCHANGED <<row, nextId, crashes>>
      BY <1>6 DEF Dispatch, IsHead
    <2>2. stage = "idle"
      BY <2>1 DEF IInv, TypeOK
    <2>3. JobPhase' = JobPhase /\ JobTries' = JobTries /\ JobPhase[j] = "waiting"
      BY <2>1 DEF JobPhase, JobTries, Phase, Present, Waiting
    <2>4. Life!PickUp(j)
      BY <2>1, <2>2, <2>3 DEF Life!PickUp, AttemptStages
    <2> QED BY <2>4 DEF Life!LifeNext
  <1> QED BY <1>2, <1>3, <1>4, <1>5, <1>6, DeathLives DEF Elsewhere

-----------------------------------------------------------------------------

\* The queue starts as the life of jobs none of which has entered.
LEMMA LifeStarts == Init => Life!LifeInit
  BY DEF Init, Life!LifeInit, JobPhase, JobTries, Phase, Present, AbsentRow, AttemptStages, Ids

\* Every step of the queue is a step of a job's life or none.
LEMMA LifeStep == IInv /\ IInv' /\ [Next]_vars => [Life!LifeNext]_Life!life
  <1> SUFFICES ASSUME IInv, IInv', [Next]_vars PROVE [Life!LifeNext]_Life!life
    OBVIOUS
  <1>1. TypeOK
    BY DEF IInv
  <1> QED BY <1>1, StepCases, RunLives, CancelLives, ElsewhereLives

\* JobQueue implements JobLife: every behaviour of the scheduler, its rows and
\* its drivers is, job by job, a life with a budget of tries.
THEOREM QueueImplementsLife == Spec => LivesAsPromised
  BY LifeStarts, LifeStep, Inductive, IInvStep, PTL
     DEF Spec, LivesAsPromised, Life!LifeSpec
=============================================================================
