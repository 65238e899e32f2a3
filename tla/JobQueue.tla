------------------------------ MODULE JobQueue ------------------------------
(***************************************************************************)
(* The daemon's job queue: the rows of the jobs and job_attempts tables    *)
(* (core/jobs.py), the scheduler that runs one job at a time               *)
(* (core/scheduler.py) and the driver processes it spawns                  *)
(* (core/runner.py).                                                       *)
(*                                                                         *)
(* Two kinds of actors interleave.  Coroutines (the dispatch loop, the one *)
(* _run in flight, a cancel request) share the event loop and give it up   *)
(* only where they await; requests served by the thread pool (submit,      *)
(* reorder, delete, purge, retry, resubmit, pause) may run between any two *)
(* database statements.  A stage of _run in SyncStages is one it reaches   *)
(* without awaiting: no other coroutine runs there, threads and a crash    *)
(* can.                                                                    *)
(*                                                                         *)
(* A job's cluster is only as real here as _run sees it: up() returns or   *)
(* raises, and the lease is whom used_by names.                            *)
(***************************************************************************)
EXTENDS Integers, Sequences, FiniteSets, Functions

CONSTANTS
    NumJobs,       \* how many submissions are explored
    Clusters,      \* the clusters jobs can name
    NoCluster,     \* a job that leases nothing
    ClusterOf,     \* spec["cluster"] of each submission
    MaxAttempts,   \* spec["max_attempts"] of each submission: any integer
    SpecPriority,  \* spec["priority"] of each submission
    MaxCrashes     \* how many times the daemon dies

NoJob == 0
Ids == 1..NumJobs     \* AUTOINCREMENT: ids go up and are never handed out twice

ASSUME QueueAssumption ==
    /\ NumJobs \in Nat
    /\ NoCluster \notin Clusters
    /\ ClusterOf \in [Ids -> Clusters \cup {NoCluster}]
    /\ MaxAttempts \in [Ids -> Int]
    /\ SpecPriority \in [Ids -> Int]
    /\ MaxCrashes \in Nat

VARIABLES
    row,         \* jobs and job_attempts: one record per id
    nextId,      \* the next AUTOINCREMENT id
    placing,     \* submissions whose row exists and whose place is not yet written
    paused,      \* _paused, restored from the events table on restart
    slot,        \* _running: the job that owns the daemon
    stage,       \* how far _run has come for it
    delayed,     \* _wait_until: jobs waiting out a failed attempt
    canceling,   \* the job whose cancel() awaits its driver's exit
    lease,       \* used_by of each cluster
    procs,       \* driver processes alive on the machine: <<job, attempt>>
    crashes      \* how often the daemon has died (bounded by MaxCrashes)

memory == <<slot, stage, delayed, canceling, lease>>
vars == <<row, nextId, placing, paused, memory, procs, crashes>>

-----------------------------------------------------------------------------
(* Rows.  `log` holds the job's job_attempts in order: "open" is a row     *)
(* without finished_at, the others say what _dead_on_arrival asks of their *)
(* points column: 0, or not 0 (more than 0, or NULL).  pid 0 is NULL; any  *)
(* other pid is the attempt whose process it names.                        *)

States == {"absent", "waiting", "running", "done"}
Outcomes == {"none", "ok", "degraded", "failed", "canceled"}
Points == {"zero", "notZero"}
Row == [state : States, outcome : Outcomes, prio : Int, attempts : Nat,
        log : Seq(Points \cup {"open"}), pid : Nat]

AbsentRow == [state |-> "absent", outcome |-> "none", prio |-> 0,
              attempts |-> 0, log |-> <<>>, pid |-> 0]
SubmittedRow(j) == [AbsentRow EXCEPT !.state = "waiting", !.prio = SpecPriority[j]]

Present(j) == row[j].state # "absent"
Waiting == {j \in Ids : row[j].state = "waiting"}

\* An UPDATE ... WHERE id = j: no row, no effect.
Write(j, r) == row' = [row EXCEPT ![j] = IF Present(j) THEN r ELSE @]

Finished(r, outcome) == [r EXCEPT !.state = "done", !.outcome = outcome]
WaitingAgain(r) == [r EXCEPT !.state = "waiting"]

StartedAttempt(r) ==
    [r EXCEPT !.attempts = @ + 1, !.log = Append(@, "open")]
FailedStart(r) ==
    [r EXCEPT !.attempts = @ + 1, !.log = Append(@, "notZero")]
\* end_attempt closes every open attempt of the job.
EndedAttempt(r, points) ==
    [r EXCEPT !.log =
        [n \in DOMAIN r.log |-> IF r.log[n] = "open" THEN points ELSE r.log[n]]]

\* Mutant: one try too many.
MutOutOfAttempts(j) == row[j].attempts > MaxAttempts[j]
OutOfAttempts(j) == row[j].attempts >= MaxAttempts[j]
\* _dead_on_arrival, over the attempts as they stand once the last is closed.
DeadOnArrival(log) ==
    /\ Len(log) >= 2
    /\ \A n \in {Len(log) - 1, Len(log)} : log[n] = "zero"

-----------------------------------------------------------------------------
(* The queue order: ORDER BY priority DESC, id ASC.                        *)

Ahead(j, k) ==
    \/ row[j].prio > row[k].prio
    \/ row[j].prio = row[k].prio /\ j < k
IsHead(j) == j \in Waiting /\ \A k \in Waiting \ {j} : Ahead(j, k)

\* place(): where a fresh job goes among the other waiting ones.  k stays
\* behind it when k is behind its anchor; without an anchor it goes last.
ClusterMates(j) ==
    {k \in Waiting \ {j} : ClusterOf[j] # NoCluster /\ ClusterOf[k] = ClusterOf[j]}
Anchors(j, after) == IF after # NoJob THEN {after} ELSE ClusterMates(j)
FallsBehind(k, j, after) ==
    Anchors(j, after) # {} /\ \A a \in Anchors(j, after) : Ahead(a, k)

\* _rank over the order that results: dense priorities, the first highest.
PlacedPriority(k, j, after) ==
    LET others == Waiting \ {j} IN
    IF k = j
    THEN 1 + Cardinality({m \in others : FallsBehind(m, j, after)})
    ELSE 1 + Cardinality({m \in others : Ahead(k, m)})
           + (IF FallsBehind(k, j, after) THEN 0 ELSE 1)
Placed(j, after) ==
    [k \in Ids |-> IF k \in Waiting
                   THEN [row[k] EXCEPT !.prio = PlacedPriority(k, j, after)]
                   ELSE row[k]]

-----------------------------------------------------------------------------
(* The stages of _run and who may run when.                                *)

SyncStages == {"acquired", "cleared", "startFailed", "starting", "spawning", "handoff"}
AwaitStages == {"idle", "claimed", "acquiring", "spawned", "driving", "stopping"}
BeforeSpawn ==
    {"claimed", "acquiring", "acquired", "cleared", "startFailed", "starting"}
DriverStages == {"spawned", "driving"}

OnLoop == stage \in AwaitStages
Driver == <<slot, row[slot].attempts>>

\* The exit of a driver wakes _run first and cancel() behind it, before the
\* loop can dispatch again.
CancelDue == canceling # NoJob /\ ~(slot = canceling /\ stage = "driving")

\* Mutant: the finally forgets to clear _running.
MutRelease == stage' = "idle" /\ UNCHANGED slot
\* _execute's finally: the slot goes back whatever _run did.
Release == slot' = NoJob /\ stage' = "idle"

\* What every way out of _run that holds a lease comes to.
LeaveRun ==
    IF ClusterOf[slot] = NoCluster
    THEN Release
    ELSE stage' = "handoff" /\ UNCHANGED slot

Init ==
    /\ row = [j \in Ids |-> AbsentRow]
    /\ nextId = 1
    /\ placing = {}
    /\ paused = FALSE
    /\ slot = NoJob
    /\ stage = "idle"
    /\ delayed = {}
    /\ canceling = NoJob
    /\ lease = [c \in Clusters |-> NoJob]
    /\ procs = {}
    /\ crashes = 0

-----------------------------------------------------------------------------
(* Requests served by the thread pool.                                     *)

\* enqueue(): `after` must be waiting before the row is inserted.
Submit(after) ==
    /\ nextId \in Ids
    /\ after \in Waiting \cup {NoJob}
    /\ row' = [row EXCEPT ![nextId] = SubmittedRow(nextId)]
    /\ placing' = placing \cup {[job |-> nextId, after |-> after]}
    /\ nextId' = nextId + 1
    /\ UNCHANGED <<paused, memory, procs, crashes>>

\* place(), later in the same request: the job may have been dispatched, or
\* the anchor may have left the queue, in which case nothing is ranked.
Place(p) ==
    /\ placing' = placing \ {p}
    /\ row' = IF p.job \in Waiting /\ p.after \in Waiting \cup {NoJob}
              THEN Placed(p.job, p.after)
              ELSE row
    /\ UNCHANGED <<nextId, paused, memory, procs, crashes>>

\* resubmit(): a copy of the job's spec, queued at its own priority.
Resubmit(j) ==
    /\ nextId \in Ids
    /\ Present(j)
    /\ ClusterOf[nextId] = ClusterOf[j] /\ MaxAttempts[nextId] = MaxAttempts[j]
    /\ row' = [row EXCEPT ![nextId] = SubmittedRow(nextId)]
    /\ nextId' = nextId + 1
    /\ UNCHANGED <<placing, paused, memory, procs, crashes>>

\* reorder(): the listed waiting jobs get priorities N..1, first highest.
Reorder(S, rank) ==
    /\ row' = [j \in Ids |-> IF j \in S THEN [row[j] EXCEPT !.prio = rank[j]]
                                        ELSE row[j]]
    /\ UNCHANGED <<nextId, placing, paused, memory, procs, crashes>>

\* DELETE /jobs/{id}: only a done job, its attempts with it.
Delete(j) ==
    /\ row[j].state = "done"
    /\ row' = [row EXCEPT ![j] = AbsentRow]
    /\ UNCHANGED <<nextId, placing, paused, memory, procs, crashes>>

\* POST /jobs/purge: every done job whose outcome is one of those named.
Purge(outcomes) ==
    LET purged == {j \in Ids : row[j].state = "done" /\ row[j].outcome \in outcomes} IN
    /\ purged # {}
    /\ row' = [j \in Ids |-> IF j \in purged THEN AbsentRow ELSE row[j]]
    /\ UNCHANGED <<nextId, placing, paused, memory, procs, crashes>>

\* retry_now(): drop the wait of a job that is not already trying.
RetryNow(j) ==
    /\ j \in Waiting
    /\ slot # j
    /\ delayed' = delayed \ {j}
    /\ UNCHANGED <<row, nextId, placing, paused, slot, stage, canceling, lease,
                   procs, crashes>>

SetPaused(value) ==
    /\ paused' = value
    /\ UNCHANGED <<row, nextId, placing, memory, procs, crashes>>

-----------------------------------------------------------------------------
(* Dispatch and _run.                                                      *)

\* A wait runs out on the monotonic clock.
DelayExpires(j) ==
    /\ j \in delayed
    /\ delayed' = delayed \ {j}
    /\ UNCHANGED <<row, nextId, placing, paused, slot, stage, canceling, lease,
                   procs, crashes>>

\* Mutant: dispatch without asking whether a job is running.
MutDispatch(j) ==
    /\ OnLoop /\ ~CancelDue
    /\ ~paused
    /\ IsHead(j)
    /\ j \notin delayed
    /\ slot' = j
    /\ stage' = "claimed"
    /\ UNCHANGED <<row, nextId, placing, paused, delayed, canceling, lease,
                   procs, crashes>>

\* _dispatch(): the head of the queue or nobody.
Dispatch(j) ==
    /\ OnLoop /\ ~CancelDue
    /\ slot = NoJob
    /\ ~paused
    /\ IsHead(j)
    /\ j \notin delayed
    /\ slot' = j
    /\ stage' = "claimed"
    /\ UNCHANGED <<row, nextId, placing, paused, delayed, canceling, lease,
                   procs, crashes>>

\* build_command raised: the job ends without trying.
BuildFails ==
    /\ stage = "claimed"
    /\ Write(slot, Finished(row[slot], "failed"))
    /\ Release
    /\ UNCHANGED <<nextId, placing, paused, delayed, canceling, lease, procs,
                   crashes>>

\* await clusters.up(...)
Acquire ==
    /\ stage = "claimed"
    /\ ClusterOf[slot] # NoCluster
    /\ stage' = "acquiring"
    /\ UNCHANGED <<row, nextId, placing, paused, slot, delayed, canceling, lease,
                   procs, crashes>>

\* up() raised: fail_start spends an attempt.  With the row gone it raises
\* in turn, and _execute only returns the slot.
AcquireFails ==
    /\ stage = "acquiring"
    /\ IF Present(slot)
       THEN /\ row' = [row EXCEPT ![slot] = FailedStart(@)]
            /\ stage' = "startFailed"
            /\ UNCHANGED slot
       ELSE Release /\ UNCHANGED row
    /\ UNCHANGED <<nextId, placing, paused, delayed, canceling, lease, procs,
                   crashes>>

\* ... and the job is out of attempts, or waits for another.  (A row deleted
\* in between takes neither write, and a wait nobody is left for is inert.)
SettleFailedStart ==
    /\ stage = "startFailed"
    /\ \/ /\ OutOfAttempts(slot)
          /\ Write(slot, Finished(row[slot], "failed"))
          /\ UNCHANGED delayed
       \/ /\ ~OutOfAttempts(slot)
          /\ Write(slot, WaitingAgain(row[slot]))
          /\ delayed' = delayed \cup {slot}
    /\ Release
    /\ UNCHANGED <<nextId, placing, paused, canceling, lease, procs, crashes>>

\* up() returned: used_by names this job.
Acquired ==
    /\ stage = "acquiring"
    /\ lease' = [lease EXCEPT ![ClusterOf[slot]] = slot]
    /\ stage' = "acquired"
    /\ UNCHANGED <<row, nextId, placing, paused, slot, delayed, canceling, procs,
                   crashes>>

\* Mutant: the exception passes _execute without its finally.
MutVanishedMeanwhile ==
    /\ stage = "acquired"
    /\ ~Present(slot)
    /\ UNCHANGED vars

\* jobs.get(...) is None: the subscript raises past every handler.
VanishedMeanwhile ==
    /\ stage = "acquired"
    /\ ~Present(slot)
    /\ Release
    /\ UNCHANGED <<row, nextId, placing, paused, delayed, canceling, lease, procs,
                   crashes>>

CanceledMeanwhile ==
    /\ stage = "acquired"
    /\ row[slot].state = "done"
    /\ stage' = "handoff"
    /\ UNCHANGED <<row, nextId, placing, paused, slot, delayed, canceling, lease,
                   procs, crashes>>

\* Mutant: the scan passes over the job itself instead of ending there.
MutOutranked(j) ==
    \E k \in Waiting \ {j} :
        k \notin delayed /\ \A m \in Waiting \ {j, k} : Ahead(k, m)

\* _outranked_by(): another job is the head now and could start.
Outranked(j) == \E k \in Ids \ {j} : IsHead(k) /\ k \notin delayed

Yield ==
    /\ stage = "acquired"
    /\ row[slot].state \notin {"done", "absent"}
    /\ Outranked(slot)
    /\ stage' = "handoff"
    /\ UNCHANGED <<row, nextId, placing, paused, slot, delayed, canceling, lease,
                   procs, crashes>>

\* Nobody is ahead, so the job keeps the slot.  A thread may change the order
\* before the attempt is written: nothing looks again.
KeepsSlot ==
    /\ stage = "acquired"
    /\ row[slot].state \notin {"done", "absent"}
    /\ ~Outranked(slot)
    /\ stage' = "cleared"
    /\ UNCHANGED <<row, nextId, placing, paused, slot, delayed, canceling, lease,
                   procs, crashes>>

\* A job without a cluster goes on what _dispatch read.
AboutToStart(j) ==
    \/ stage = "cleared"
    \/ stage = "claimed" /\ ClusterOf[j] = NoCluster

StartAttempt ==
    /\ AboutToStart(slot)
    /\ Present(slot)
    /\ row' = [row EXCEPT ![slot] = StartedAttempt(@)]
    /\ delayed' = delayed \ {slot}
    /\ stage' = "starting"
    /\ UNCHANGED <<nextId, placing, paused, slot, canceling, lease, procs, crashes>>

\* start_attempt found no row and raised.  (After a bring-up it finds one: only
\* a done job is deleted, and since the row was read nobody could end it.)
StartVanishes ==
    /\ stage = "claimed" /\ ClusterOf[slot] = NoCluster
    /\ ~Present(slot)
    /\ delayed' = delayed \ {slot}
    /\ Release
    /\ UNCHANGED <<row, nextId, placing, paused, canceling, lease, procs, crashes>>

\* set_state(RUNNING), whatever the row said.
SetRunning ==
    /\ stage = "starting"
    /\ Write(slot, [row[slot] EXCEPT !.state = "running"])
    /\ stage' = "spawning"
    /\ UNCHANGED <<nextId, placing, paused, slot, delayed, canceling, lease, procs,
                   crashes>>

\* create_subprocess_exec: the process exists before the await returns.
Spawn ==
    /\ stage = "spawning"
    /\ procs' = procs \cup {Driver}
    /\ stage' = "spawned"
    /\ UNCHANGED <<row, nextId, placing, paused, slot, delayed, canceling, lease,
                   crashes>>

\* Mutants: the spawn-failure path forgets the attempt, or the job.
MutSpawnFailsAttempt ==
    /\ stage = "spawning"
    /\ Write(slot, Finished(row[slot], "failed"))
    /\ LeaveRun
    /\ UNCHANGED <<nextId, placing, paused, delayed, canceling, lease, procs,
                   crashes>>
MutSpawnFailsJob ==
    /\ stage = "spawning"
    /\ Write(slot, EndedAttempt(row[slot], "notZero"))
    /\ LeaveRun
    /\ UNCHANGED <<nextId, placing, paused, delayed, canceling, lease, procs,
                   crashes>>

\* Bad cwd, missing binary.
SpawnFails ==
    /\ stage = "spawning"
    /\ Write(slot, Finished(EndedAttempt(row[slot], "notZero"), "failed"))
    /\ LeaveRun
    /\ UNCHANGED <<nextId, placing, paused, delayed, canceling, lease, procs,
                   crashes>>

\* The runner knows the process now, and on_start stores its pid.
RecordPid ==
    /\ stage = "spawned"
    /\ Write(slot, [row[slot] EXCEPT !.pid = row[slot].attempts])
    /\ stage' = "driving"
    /\ UNCHANGED <<nextId, placing, paused, slot, delayed, canceling, lease, procs,
                   crashes>>

\* A driver process ends, whoever still watches it.
DriverExits(p) ==
    /\ procs' = procs \ {p}
    /\ UNCHANGED <<row, nextId, placing, paused, memory, crashes>>

\* _finish and _retry_or_fail, on the exit code and the points ingested so far.
FinishedRow(r, max, rc) ==
    CASE rc = "ok" -> Finished(r, "ok")
      [] rc = "degraded" -> Finished(r, "degraded")
      [] rc = "failedPoints" -> Finished(r, "failed")
      [] rc = "crashed" /\ (r.attempts >= max \/ DeadOnArrival(r.log)) ->
             Finished(r, "failed")
      [] OTHER -> WaitingAgain(r)
ExitCodes == {"ok", "degraded", "failedPoints", "crashed"}

\* Mutant: _finish does not ask whether a cancel got there first.
MutDriverDone(rc, points) ==
    /\ stage = "driving"
    /\ Driver \notin procs
    /\ LET after == FinishedRow(EndedAttempt(row[slot], points), MaxAttempts[slot], rc)
       IN  /\ Write(slot, after)
           /\ delayed' = IF Present(slot) /\ after.state = "waiting"
                         THEN delayed \cup {slot} ELSE delayed
    /\ LeaveRun
    /\ UNCHANGED <<nextId, placing, paused, canceling, lease, procs, crashes>>

DriverDone(rc, points) ==
    /\ stage = "driving"
    /\ Driver \notin procs
    /\ LET ended == EndedAttempt(row[slot], points)
           after == IF ended.state = "done" THEN ended
                    ELSE FinishedRow(ended, MaxAttempts[slot], rc)
       IN  /\ Write(slot, after)
           /\ delayed' = IF Present(slot) /\ after.state = "waiting"
                         THEN delayed \cup {slot} ELSE delayed
    /\ LeaveRun
    /\ UNCHANGED <<nextId, placing, paused, canceling, lease, procs, crashes>>

\* _handoff_cluster: release, then keep the fleet only for a next job on the
\* same cluster; otherwise await clusters.down().
KeepFor(j) == \E k \in Waiting : IsHead(k) /\ ClusterOf[k] = ClusterOf[j]

\* Mutant: a kept fleet keeps its lease as well.
MutHandoff ==
    /\ stage = "handoff"
    /\ IF KeepFor(slot)
       THEN Release /\ UNCHANGED lease
       ELSE /\ stage' = "stopping"
            /\ lease' = [lease EXCEPT ![ClusterOf[slot]] = NoJob]
            /\ UNCHANGED slot
    /\ UNCHANGED <<row, nextId, placing, paused, delayed, canceling, procs, crashes>>

Handoff ==
    /\ stage = "handoff"
    /\ lease' = [lease EXCEPT ![ClusterOf[slot]] = NoJob]
    /\ IF KeepFor(slot) THEN Release ELSE stage' = "stopping" /\ UNCHANGED slot
    /\ UNCHANGED <<row, nextId, placing, paused, delayed, canceling, procs, crashes>>

StopReturns ==
    /\ stage = "stopping"
    /\ Release
    /\ UNCHANGED <<row, nextId, placing, paused, delayed, canceling, lease, procs,
                   crashes>>

-----------------------------------------------------------------------------
(* cancel(), a coroutine of its own.                                       *)

CancelWaiting(j) ==
    /\ OnLoop
    /\ j \in Waiting
    /\ row' = [row EXCEPT ![j] = Finished(@, "canceled")]
    /\ UNCHANGED <<nextId, placing, paused, memory, procs, crashes>>

\* The process is there to be signalled: wait for it to go.
CancelRunning ==
    /\ stage = "driving" /\ Driver \in procs
    /\ row[slot].state = "running"
    /\ canceling' = slot
    /\ UNCHANGED <<row, nextId, placing, paused, slot, stage, delayed, lease, procs,
                   crashes>>

\* The process is gone and _run has not been resumed: killpg says so at once.
CancelExited ==
    /\ stage = "driving" /\ Driver \notin procs
    /\ row[slot].state = "running"
    /\ row' = [row EXCEPT ![slot] = Finished(EndedAttempt(@, "notZero"), "canceled")]
    /\ UNCHANGED <<nextId, placing, paused, memory, procs, crashes>>

\* The driver survived every signal: the job is left alone.
CancelGivesUp ==
    /\ canceling # NoJob
    /\ stage = "driving" /\ slot = canceling /\ Driver \in procs
    /\ canceling' = NoJob
    /\ UNCHANGED <<row, nextId, placing, paused, slot, stage, delayed, lease, procs,
                   crashes>>

\* The driver went, and _run has already recorded what it made of that.
CancelCompletes ==
    /\ OnLoop /\ CancelDue
    /\ Write(canceling, Finished(EndedAttempt(row[canceling], "notZero"), "canceled"))
    /\ canceling' = NoJob
    /\ UNCHANGED <<nextId, placing, paused, slot, stage, delayed, lease, procs,
                   crashes>>

-----------------------------------------------------------------------------
(* The daemon dies and comes back: recover_orphans runs before anything    *)
(* else.  Drivers have sessions of their own and may outlive it; the pid   *)
(* of one that did not may by then name some other process.                *)

RecoveredRow(r, max) ==
    LET ended == EndedAttempt(r, "notZero") IN
    IF r.attempts >= max THEN Finished(ended, "failed") ELSE WaitingAgain(ended)

\* Mutant: a row without a pid is taken for alive.
MutPidAlive(alive, j) == j \in alive
PidAlive(alive, j) == row[j].pid # 0 /\ j \in alive

Crash(survivors, alive) ==
    /\ crashes < MaxCrashes
    /\ \A j \in Ids : <<j, row[j].pid>> \in survivors => j \in alive
    /\ procs' = survivors
    /\ row' = [j \in Ids |->
                IF row[j].state = "running" /\ ~PidAlive(alive, j)
                THEN RecoveredRow(row[j], MaxAttempts[j])
                ELSE row[j]]
    /\ crashes' = crashes + 1
    /\ placing' = {}
    /\ delayed' = {}
    /\ slot' = NoJob
    /\ stage' = "idle"
    /\ canceling' = NoJob
    /\ lease' = [c \in Clusters |-> NoJob]
    /\ UNCHANGED <<nextId, paused>>

-----------------------------------------------------------------------------

RunStep ==
    \/ BuildFails \/ Acquire \/ AcquireFails \/ SettleFailedStart \/ Acquired
    \/ VanishedMeanwhile \/ CanceledMeanwhile \/ Yield \/ KeepsSlot \/ StartAttempt
    \/ StartVanishes \/ SetRunning \/ Spawn \/ SpawnFails \/ RecordPid
    \/ (\E rc \in ExitCodes, points \in Points : DriverDone(rc, points))
    \/ Handoff \/ StopReturns

CancelStep ==
    \/ \E j \in Ids : CancelWaiting(j)
    \/ CancelRunning \/ CancelExited \/ CancelGivesUp \/ CancelCompletes

ClientStep ==
    \/ \E after \in Ids \cup {NoJob} : Submit(after)
    \/ \E p \in placing : Place(p)
    \/ \E j \in Ids : Resubmit(j) \/ Delete(j) \/ RetryNow(j)
    \/ \E outcomes \in SUBSET {"failed", "canceled"} : Purge(outcomes)

QueueStep ==
    \/ \E j \in Ids : Dispatch(j) \/ DelayExpires(j)
    \/ \E p \in procs : DriverExits(p)

\* What an operator may keep doing for ever.
OperatorStep ==
    \/ \E S \in SUBSET Waiting :
          \E rank \in Bijection(S, 1..Cardinality(S)) : Reorder(S, rank)
    \/ \E value \in BOOLEAN : SetPaused(value)

DaemonDies ==
    \E survivors \in SUBSET procs, alive \in SUBSET Ids : Crash(survivors, alive)

Next == RunStep \/ CancelStep \/ ClientStep \/ QueueStep \/ OperatorStep \/ DaemonDies

Spec == Init /\ [][Next]_vars

(* Fairness.  The event loop runs every ready coroutine and polls the queue *)
(* every five seconds whatever wakes it; a bring-up, a stop and a driver    *)
(* end; a wait runs out; a request that began finishes.                     *)
Fairness ==
    /\ WF_vars(RunStep)
    /\ WF_vars(CancelCompletes)
    /\ WF_vars(\E j \in Ids : Dispatch(j))
    /\ WF_vars(\E p \in procs : DriverExits(p))
    /\ WF_vars(\E p \in placing : Place(p))
    /\ \A j \in Ids : WF_vars(DelayExpires(j))

FairSpec == Spec /\ Fairness

-----------------------------------------------------------------------------
(* Properties.                                                             *)

\* Every variable has its type: rows are well-formed, the slot is taken
\* exactly while a _run is in flight.
TypeOK ==
    /\ row \in [Ids -> Row]
    /\ nextId \in Nat
    /\ placing \subseteq [job : Ids, after : Ids \cup {NoJob}]
    /\ paused \in BOOLEAN
    /\ slot \in Ids \cup {NoJob}
    /\ stage \in AwaitStages \cup SyncStages
    /\ (slot = NoJob) <=> (stage = "idle")
    /\ delayed \subseteq Ids
    /\ canceling \in Ids \cup {NoJob}
    /\ lease \in [Clusters -> Ids \cup {NoJob}]
    /\ procs \subseteq (Ids \X Nat)
    /\ crashes \in Nat

\* A job is tried no more often than its max_attempts allows (once, if it
\* allows none), and every try beyond that is paid for by a death of the
\* daemon: attempts are counted in one statement and acted on in another.
Budget(j) == IF MaxAttempts[j] > 1 THEN MaxAttempts[j] ELSE 1
AttemptsPaidFor == \A j \in Ids : row[j].attempts <= Budget(j) + crashes

\* job_attempts is truthful: apart from the attempt being driven, a row
\* without finished_at is one a dead daemon left, at most one per death.
OpenAttempts ==
    UNION {{<<j, n>> : n \in {m \in DOMAIN row[j].log : row[j].log[m] = "open"}} :
           j \in Ids}
AttemptStages == {"starting", "spawning", "spawned", "driving"}
OpenAttemptsPaidFor ==
    Cardinality(OpenAttempts) <= crashes + (IF stage \in AttemptStages THEN 1 ELSE 0)

\* One driver at a time: any driver besides the one _run is waiting for was
\* orphaned by a dead daemon, at most one per death.
DriversPaidFor ==
    Cardinality(procs) <= crashes + (IF stage \in DriverStages THEN 1 ELSE 0)

\* A lease is held by the job in the slot, or by a job whose row was deleted
\* while its cluster came up.
LeaseFollowsSlot ==
    \A c \in Clusters :
        lease[c] # NoJob => lease[c] = slot \/ ~Present(lease[c])

\* A running row belongs to the job being driven; only a restart that found
\* its pid alive leaves one behind.
RunningRowIsDriven ==
    \A j \in Ids :
        row[j].state = "running" =>
            \/ slot = j /\ stage \in AttemptStages
            \/ row[j].pid # 0 /\ crashes > 0

\* A done job keeps its state and its outcome, with two exceptions, both of a
\* cancel that overlaps _run: one that lands before the driver spawns, and one
\* that was waiting for the driver when _run recorded its exit.
FinishedStays ==
    [][\A j \in Ids :
        row[j].state = "done" /\ row'[j].state # "absent" =>
            \/ row'[j].state = "done" /\ row'[j].outcome = row[j].outcome
            \/ slot = j /\ stage \in BeforeSpawn
            \/ canceling = j]_vars

\* No job stays for ever at the head of a queue that is not paused, free to
\* start: whatever is reordered, and in however many bring-ups the slot changes
\* hands, it gets its turn.
CouldStart(k) == IsHead(k) /\ k \notin delayed /\ ~paused
HeadIsServed == \A k \in Ids : CouldStart(k) ~> ~CouldStart(k)

\* The slot always comes back, whatever happens to its job.
SlotReturned == []<>(slot = NoJob)

\* Every job comes to an end once the operator stops pausing and reordering,
\* unless a restart mistook it for running.
OperatorQuiet == <>[]~paused /\ <>[][~OperatorStep]_vars
EveryJobEnds ==
    OperatorQuiet =>
        \A j \in Ids :
            <>[](\/ row[j].state \in {"done", "absent"}
                 \/ row[j].state = "running" /\ crashes > 0)
=============================================================================
