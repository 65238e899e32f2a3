# kitchend, specified

TLA+ modules, model-checking configurations and machine-checked proofs for
Cloud Kitchen: the daemon `kitchend` (job queue, cluster leases, event hub,
ledger) and the library `kitchen` (VM lifecycle, remote backends, sweep
engine). Paths below are relative to `src/kitchend/src/kitchend` and
`src/kitchen/src/kitchen`.

## The system

One asyncio process owns a SQLite database, a fleet of VMs and one driver
process at a time. Coroutines (the dispatch loop, the one `_run` in flight,
cancel requests, tick loops of clusters, the status poller) give the event loop
up only where they `await`. HTTP endpoints that are not `async` run in a thread
pool and can interleave with anything, between any two database statements:
each statement commits on its own.

| part | state | operations | interacts with |
|---|---|---|---|
| job rows, `core/jobs.py` | tables `jobs`, `job_attempts` | submit, place, reorder, start/fail/end attempt, finish, wait again, delete, purge, recover orphans | everything below |
| scheduler, `core/scheduler.py` | `_running`, `_wait_until`, `_paused`, stage of `_run` | dispatch, run, finish, retry or fail, hand off, cancel, retry now, resubmit, pause | rows, runner, clusters |
| runner, `core/runner.py` | driver processes | spawn, wait, cancel | scheduler; drivers outlive the daemon |
| submission, `core/submission.py` | none | check `after`, insert, place | rows, scheduler |
| clusters, `core/clusters.py` | per cluster: row state, `used_by`, `stop_at`, tick task, keep-alive, session, short VMs | up, down, release, create missing, tick, shut down, poll | scheduler, lifecycle, remotes |
| lifecycle and keep-alive, `cluster/` | dead-man timer of each VM, lock file | arm, start, stop, drain, extend, re-arm | remotes |
| remotes, `remote/` | zone cache | start, stop, status, ssh | gcloud, docker, ssh |
| sweep engine, `run/engine.py` | result files of a run directory | run point, resume, retry, write results | driver adapter, events |
| rate search, `run/rates.py` | bracket of the search | climb, bisect | engine |
| driver events, `events/` | append-only `events.jsonl` | emit, read from offset | engine, ingester |
| ingester, `core/ingest.py` | offset and progress per job | poll, apply | rows, ledger |
| ledger, `core/ledger.py` | tables `runs`, `run_points` | apply events, scan disk, delete, trials | ingester, API |
| hub, `core/hub.py` | events table, subscriber queues | emit, broadcast, replay | every part emits |
| API, `api/`; CLI, `main.py`; dashboard, `ui/` | none | requests | all |

What makes each of them right, and what is hard about it:

* Queue and scheduler: the one slot always comes back; a job is tried as often
  as its limit allows and no more; one driver at a time; a lease belongs to the
  job in the slot; what is done stays done; the head of the queue gets its turn.
  Hard: cancel, delete and reorder arrive during the minutes
  `_run` waits for a cluster; counting an attempt and acting on it are separate
  writes and the daemon may die in between; drivers survive the daemon.
* Clusters: nobody but an operator takes a cluster from a job; a fleet has one
  tick loop; a deadline that has come is acted on; row and VMs agree again
  after a restart. Hard: `up`, `down`, the tick loop and
  the poller all await in the middle of an update.
* Lifecycle: an armed VM either is re-armed before its hour ends or is stopped
  in the open. Hard: partial failures of a fleet-wide command; late answers.
* Engine and rate search: a finished point is never run again, an unfinished
  one never counted; the search ends and brackets the knee. Hard: a kill
  between two files; missing data in the middle of the climb.
* Ingester, ledger, hub: every event is applied once, to both tables, and
  seen by a client that reconnects. Hard: crash between offset and ledger;
  replay followed by subscription.

`PROJECT.json` lists every component with its status, and every hazard at its
line with the properties that cover it or the module planned for it.

## Modules

| module | contents |
|---|---|
| `JobQueue` | rows, queue order, scheduler, runner, cancel, crash and recovery |
| `JobLife`, `JobQueueLife` | what the queue promises about a job; the refinement mapping under which `JobQueue` implements it |
| `ClusterLease` | bring-up, lease, tick loop, shutdown, handoff and status poll of clusters that may share VMs, as interleaved coroutines |
| `DeadMan` | the VMs of one cluster, call by call and minute by minute: drain, start, arm, beat, stop, and the timers that power VMs off |
| `KneeSearch` | the rate search, decision by decision, over any answers |
| `SweepEngine` | the driver running that search job after job in one directory: points, attempts, resume, retry, results (EXTENDS `KneeSearch`) |
| `Ingest` | events file, ingester, progress, ledger, and what the scheduler concludes from progress |
| `EventStream` | hub, stream and dashboard page |
| `JobQueueProofs`, `JobLifeProofs`, `ClusterLeaseProofs`, `DeadManProofs`, `StreamProofs`, `IngestProofs`, `SweepProofs` | theorems, for all constants |
| `NatLemmas` | the least element of a set of numbers, and induction as a fact about such sets |
| `MC...` | the instances TLC checks |

`JobQueue` and `ClusterLease` look at the same calls from two sides: to the
queue `up()` succeeds or raises, to the cluster manager the scheduler is one
caller that leases, holds and hands off. `DeadMan` is the inside of the steps
`StartVms`, `IssueStop`, `HeartbeatFails` and `PowersOff` of `ClusterLease`.
`SweepEngine` is the inside of `JobQueue`'s driver, and `Ingest` the way its
events come back as the points of an attempt.

### JobQueue: state and code

| variable | code |
|---|---|
| `row` | one record per id: state, outcome, priority, attempts and pid of `jobs`, and the job's `job_attempts` in order (`log`) |
| `nextId` | `AUTOINCREMENT` |
| `placing` | requests between `jobs.submit` and `jobs.place` in `enqueue` |
| `paused`, `slot`, `delayed` | `_paused`, `_running`, `_wait_until` |
| `stage` | where `_run` is: at an `await` (`claimed`, `acquiring`, `spawned`, `driving`, `stopping`) or between two statements it makes without awaiting (`acquired`, `cleared`, `startFailed`, `starting`, `spawning`, `handoff`) |
| `canceling` | the job whose `cancel()` waits for its driver |
| `lease` | `used_by` of each cluster |
| `procs` | driver processes on the machine, as job and attempt; a pid is the attempt number |
| `crashes` | daemon deaths so far, bounded by `MaxCrashes` |

Atomicity follows the code. An action ends where another actor can come in:
coroutine steps (`Dispatch`, `CancelWaiting`, `CancelCompletes`) happen only
when `_run` is at an await (`OnLoop`), thread-pool requests and a crash happen
anywhere. Within `_run` the writes a crash or a request can separate are
separate actions: the look at the queue after a bring-up (`Yield`, `KeepsSlot`),
counting the attempt (`StartAttempt`), the running state (`SetRunning`), the
process (`Spawn`), its pid (`RecordPid`). An order changed between the look and
the count goes unheeded, as in the code. The wake-up order
of an exiting driver is kept: `_run` records the exit before `cancel()` goes on
(`CancelDue`). Where the code writes a row without reading it first, so does
the action (`Write`), including onto a row deleted meanwhile.

Simplified, and why it does no harm:

* `place`, `reorder`, `delete` and `purge` are one step each; their statements
  interleave in the code (hazards list; see Plan).
* The points of an attempt are `zero` or `notZero`, chosen when it ends: the
  retry rule asks nothing else. `_finish` reads them from progress that lags
  behind the driver, so any value can be there. A NULL (attempts ended by
  cancel, recovery, a failed spawn) counts as `notZero`, as in the comparison.
* Waits are a set: time passes by `DelayExpires`. `retry_now` empties one.
* `up()` returns or raises, with no other effect than `used_by`; what it does
  to the fleet, and what `up`/`down` by hand do to `used_by`, are in
  `ClusterLease`.
* `resubmit` makes a copy: in an instance the next id's constants must be
  those of the source. To the queue `add_trials` and `retry_point` are
  submissions that skip `place`; their effect is in `SweepEngine` and `Ingest`.
* A recovered driver is judged by `os.kill(pid, 0)`: `Crash` lets any set of
  drivers survive and any pid look alive, as long as survivors do.

### ClusterLease: state and code

| variable | code |
|---|---|
| `vm` | what a VM does: `off`, `on` (from STAGING to RUNNING), `stopping` |
| `row` | `clusters.state` |
| `usedBy`, `stopAt` | `used_by`; `stop_at` as no deadline, one ahead, one that has come |
| `task` | `mc.task`, by the name of its tick loop |
| `keepalive`, `covered`, `lock` | `mc.keepalive` (none, with the lock's descriptor, without), its VMs, the flock |
| `proc` | where each coroutine is: callers of `up` and `down`, and tick loops, with the cluster and the locals that matter (`fresh`, `vms`, the reason of a shutdown) |
| `polled` | the status poll in flight with the RUNNING VMs it read |
| `faults`, `crashes` | failed commands and lost heartbeats, daemon deaths, bounded by `MaxFaults`, `MaxCrashes` |
| `raced` | history: since the daemon started, two calls of `up` and `down` were under way at once |

An action is what a coroutine does from one `await` to the next, or what the
command it awaits does in its thread: `Up` ends where `start_vms` begins,
`StartVms` or `StartFails` is the thread, `UpFresh`, `UpLocked` and `UpAgain`
are the rest of `up()`. `_shutdown` is `BeginShutdown` (cancel, clear, write
`stopping`), `IssueStop` (the thread) and one of `StopSucceeds`, `StopFails`
and, in the tick loop's handler, `StopFailsAtDeadline`. The scheduler is one
caller that leases, holds and hands off one cluster at a time, as `JobQueue`
shows; operators call `up` and `down` whenever they like.

Simplified, and why it does no harm:

* Fleets are provisioned and have no jump host, so the awaits that create VMs
  or a tunnel are not there; billing sessions are left out. The probe of the
  VMs that were short is the first part of the start it precedes.
* A canceled tick loop runs its `finally` in the next turn of the event loop,
  before any command can come back: it is part of the step that cancels it.
* `PowersOff` is the dead-man timer without its clock: a VM goes off at any
  time unless a tick loop re-arms it or a caller has just armed it. The hour,
  the half-hour beat and their slack are in `DeadMan`; `HeartbeatFails` stands
  for the end of that slack.
* One status poll is in flight at a time; the refresh an operator asks for is
  another poll of the same kind.
* A stop command that fails names the VMs it left up.
* `Loops` bounds the tick loops that exist at once; a bring-up that would need
  one more waits.
* A daemon that exits in good order stops its fleets (`shutdown_all`); only
  its death is an action.

### JobLife: the promise of the queue

`JobLife` has no rows, coroutines, leases or processes: a job is new, waiting,
running, done or gone; it may be in hand, and while it is it may spend a try.
`MaxTries` and one try per daemon death bound the tries. `JobQueueLife` maps a
job's phase to its row's state (an issued id without a row is gone), its tries
to the attempts the row counts, the job in hand to `_running`, and `trying` to
the stages of `_run` between a counted attempt and its outcome. A done job may
wait again only through a bring-up that overlaps its cancel: `MayBecome` says
exactly when, so that the abstract specification states what the code keeps and
not what a comment in `cancel()` says (see "Observed in the code").

### DeadMan: state and code

| variable | code |
|---|---|
| `vm`, `timer` | a VM's state, and the `shutdown -P +60` it was last given |
| `stale` | names whose entry in the zone cache of `remote/gcloud.py` is out of date |
| `op`, `want`, `asked`, `fresh`, `clock`, `todo`, `missed`, `blamed` | one `up()` with its `start_vms`: where it is, the VMs of the lease, those of this call (the probe first), time spent waiting, VMs still to arm, not armed, named in the error |
| `short` | `mc.short_vms` |
| `loop`, `held`, `since`, `nap`, `beating`, `bad` | `_tick_loop`: the VMs of its keep-alive, time since `last_rearm`, time to the end of its sleep or of its beat, VMs the beat has to arm, an arm failed |
| `closing` | a `_shutdown` under way |
| `cause`, `excused` | history: something happened that may fail this bring-up; VMs started by hand or left by a dead daemon |

Time passes (`Time`) only when nothing is due: waiting for the drain, for ssh
on a VM that boots, for the sleep and for the beat takes time, every other call
is over before a minute is. A call fails VM by VM against one budget of faults,
and its result says which VMs it failed for, as in the code. Creating missing
VMs, the jump host and billing are left out; REPAIRING counts as staging and
SUSPENDED as off.

### KneeSearch and SweepEngine: state and code

| variable | code |
|---|---|
| `stage`, `rate`, `lastGood`, `firstBad`, `measured`, `noResult`, `healthy`, `over`, `passRates`, `passes` | the locals of `search()`: where it is, what it asks, its bracket, the cache of `visit()`, the verdicts, the current pass |
| `summary` | `summary.json` by directory (`rate_R`, or `rate_R/trial_N`) |
| `asked`, `complete` | `searched_rates.json` |
| `results`, `entries` | `sweep_results.json`; what this invocation will merge into it |
| `reported` | points the ledger has a row for, which `next_trial` and retry read |
| `job`, `abort` | `trial_offset`, `trials`, `retry_point` of this invocation; `abort_on_error` |
| `specs` | the specs of the jobs so far: `resubmit` can run any of them again |
| `phase`, `trial`, `todo`, `at`, `attempt`, `staged` | the driver's control: replaying or searching, which trial and rate, which attempt, the outcome being swapped in |
| `spoilt` | history: a searched point ended without a usable summary, or its directory went for a retry before the search ended |

What a point measured is one of the classes the rules of the search tell apart
(`Answers`): no result, committed nothing, saturated by a rule about the point
itself, the same with a worse delivered ratio, saturated only against the
previous point, healthy. The class is the environment's choice at every point,
so nothing is assumed about monotone load curves. It is fixed when the point is
measured: a resumed invocation reads the same. `Kill` can come between any two
files; `Interrupt` writes the results first, as the handler does. The swap of a
retried point is two steps, the renames.

Simplified: one combination of dimensions; whole-number rates, with the code's
rounding (ties to even); one set of search parameters for all invocations;
resume always on, as the daemon submits it; no host release, no pause between
points, no static list of rates.

### Ingest: state and code

| variable | code |
|---|---|
| `file`, `torn` | complete lines of `events.jsonl`; a line a full disk cut short |
| `disk`, `results`, `there`, `entries` | the points' summaries, the results file, whether their directory exists; what this invocation found for each point it went over: a measurement, an error, or a failed retry |
| `state`, `window`, `offset`, `progress`, `attempts` | the job rows: state, `finished_at` within ten seconds, `events_offset`, `progress_json`, ended attempts with the points ingested and those finished |
| `rows`, `writer` | `run_points` by identity (dims, rate and trial); `runs.job_id` |
| `poll`, `todo`, `tracked`, `batch` | `poll_once`: where it is, jobs left, `_tracked`, events not yet applied to the ledger |
| `request`, `entered` | the API request that writes the ledger: where it is, the entries a scan has read and not inserted |
| `apart`, `lossy`, `gaveUp` | history: points whose row a failure, a death or a request took away and no event has brought back; the disk was full; jobs ended as dead on arrival |

`poll_once` does not await: nothing of the event loop comes between its steps
(`OnLoop`), but drivers, requests on threads and a death do, between the
statement that stores offset and progress and each event of the ledger. A line
never changes, so a batch is the set of the numbers of its lines, applied least
first, and the fold of `apply_event` over a read is a function over the lines
(`Folded`). If anything but the ledger raises, `loop()` goes on with the next
poll (`PollRaises`). A point that fails is reported, leaves no summary and is
measured again by the next attempt; a failed retry is reported as
`point.retry_failed` and changes neither progress nor ledger.

The identity of a row is the dims, and they come from two places: live, from
the event; in a scan, from `sweep_results.json`, reduced to the dims the ledger
lists, or the entry's position. `ScanId` is that conversion: for a point it may
be the point's own identity or another one, and then the scan's row lies beside
the live one. Scan and deletion go statement by statement: read the results,
`DELETE`, each `INSERT`; remove the files, delete the rows. They may come while
the job runs.

Simplified: one request at a time; `_upsert_point` is one step, where the code
looks and then updates or inserts; no tags, notes or provenance; the exit code
is any. `Expires` stands for ten seconds and a poll every one: the window ends only
after a poll of this daemon, a poll that raised leaving others, or while the
daemon is down.

### EventStream: state and code

| variable | code |
|---|---|
| `newest`, `limbo`, `ready` | the events table; ids a thread inserted and has not handed over; `_broadcast` calls scheduled on the loop |
| `conn`, `replay`, `queue`, `cursor`, `taken` | the stream: replaying or subscribed, what is left of the replay, the bounded queue, the browser's `Last-Event-ID`; history: what was broadcast to it |
| `answers`, `view`, `shown` | the page: fetches under way with the state they carry, what it shows, the newest it ever showed |

An id stands for an event and the change it reports. There is one subscriber:
queues of different subscribers do not touch each other.

## Runs

All run within five minutes with two workers.

### JobQueue

All use `MCJobQueue`, two submissions.

| run | instance | result |
|---|---|---|
| `queue` | one job on a cluster with three attempts, one with no cluster and `max_attempts` 0; one daemon death | passes: six invariants, one action property, and the refinement `LivesAsPromised`; 1.36 million states |
| `queue_live` | both jobs on one cluster, two attempts each, no death | passes: three liveness properties; 0.77 million states |

Two of these are stated with an exception because the code falls short of what
it says: `FinishedStays` excepts a cancel that overlaps its own `_run`, and
`LeaseFollowsSlot` a lease of a deleted job (see "Observed in the code").
`HeadIsServed` is what the order of the queue comes to: which job starts next is
read and acted on in separate statements, and a bring-up may lose its slot to a
reorder again and again, but a job that stays at the head gets its turn.

Why two jobs are enough to be interesting: one holds the slot while the other
waits behind, is placed before or after it, outranks it during a bring-up,
takes over its fleet or competes for the slot after a restart. Every action and
every disjunct fires, `Resubmit` in the shared-cluster instance. Three attempts
let `_dead_on_arrival` decide before the limit does; `max_attempts` 0 is the
edge at which one try is still made; one death reaches every recovery path and
lets a second driver exist; a second death adds nothing but one more of each,
and the theorems hold for any number. Priorities stay small because `place` and
`reorder` renumber densely. Orders among three and more waiting jobs are not
explored.

In `JobQueue` TLC may always stop at a state in which every job is done and
paused or unpaused forever; `SetPaused` keeps such states from being deadlocks,
so deadlock checking stays on. The other modules are bounded by budgets of
lines, jobs, events or faults, and a state in which they are spent and nothing
is wanted may last, so deadlock is not checked there; what must go on is said by
their liveness properties.

### ClusterLease

| run | instance | result |
|---|---|---|
| `lease` | the scheduler and an operator, one cluster of one VM, two tick loops, one fault | passes: five invariants, one action property; 2.3 million states |
| `lease_operator` | the scheduler and an operator, one cluster of one VM, one tick loop, one daemon death | passes: three liveness properties; 81 thousand states |
| `lease_overlap` | the scheduler and an operator, two clusters of one shared VM | `NoOverlap` fails: two bring-ups at once both pass the busy check |
| `lease_idle` | the scheduler, one cluster, one fault | `IdleHasDeadline` fails: a failed bring-up on a held fleet leaves it kept alive for nobody |

The violations are described under `findings` in `PROJECT.json` with the
comments they contradict, here and below.

An operator is in every claim of `lease`, and the claims say how much of a job's
lease survives that. `LeaseNotLeaked`, `RunningLive` and
`OnlyOperatorsLimitJobs` hold whatever calls overlap: a deadline over a cluster
the scheduler works on was set by an operator who has taken the cluster over,
never left over from the hold after an earlier job. `KeptByOneLoop` and
`JobKeepsLease` hold until two calls of `up` or `down` overlap (`raced`); after
that they do not (see "Observed in the code"). None of them says that a fleet
with a job on it is safe from a stop: a stop that is already under way when the
scheduler leases, and an operator's own `down` or time limit, still stop it. One
VM, shared, is the smallest fleet over which two clusters can hurt each other,
as in `lease_overlap`; what a partial failure leaves up is then everything or
nothing, and `DeadMan` has the fleets of several VMs. Two tick loops let a new
lease start while the old fleet is still stopping; one fault is enough for a
bring-up that fails after a handoff, a deadline whose stop fails and a heartbeat
that gives up.

### DeadMan

| run | instance | result |
|---|---|---|
| `vms` | two VMs, timers of 7 ticks, beats after 2, the deadline after 3, all waits 1 tick; one failing call, one change by hand or death | passes: four invariants, one liveness property; 0.95 million states |
| `timer_late` | the code's own times in minutes: timer 60, beat every 30, deadline 50, a beat up to 5, a tick 1; one fault | `NoSurprise` fails: a timer runs out while the tick loop still tries |

Two VMs make a call succeed for one and fail for the other, and the probe of a
short VM differ from the fleet. `ArmsRecent` bounds how old the last arm of a VM
under the tick loop gets by what the intervals add up to, `OldestArm`: the
deadline, the tick in which it is noticed, the beat that landed late, the beat
that gives up and the arming. Whether that is less than the timer is a matter of
the numbers: here it is 7 against 7, and the code's are 50 + 1 + 2 * 5 minutes
and the arming against 60. `timer_late` shows what that means. A beat arms its
VM as it begins and lands five minutes later; from then on beats fail at 35, 37,
43 and 49 minutes; the next begins at 50, the last moment before the deadline is
looked at again, and at 55, while it is still under way, the VM's timer is 60
minutes old. In whole minutes the timer ties with giving up; in seconds the
fourth failure may come at 49:59 and the VM is off almost a minute earlier. In
that run one VM stands for a fleet of which others answer late (ssh is tried up
to twelve times, ten seconds apart, each attempt up to two minutes), which is
why a beat that has armed this VM may take five minutes more.

One fault is the claim of `NoUnboundedBill`, not a convenience: with two, VMs
without a timer exist (below).

### SweepEngine and KneeSearch

| run | instance | result |
|---|---|---|
| `sweep` | rates 1 to 7 from 4, minimum 2, climb of at most 3, one rate per pass between the bracket's ends and one below, any number of passes; two trials, two attempts, three invocations, two kills or interrupts | passes: three invariants, three action properties, one liveness property; 0.69 million states |

Rates 1 to 7 from 4 hold a descent to the minimum, a climb with a capped and an
uncapped step, the end of the climb at the maximum and passes that refine in
both directions, with every sequence of answers, contradictory ones included.
The points of trial 0 end as an error, or measure dead, worse or healthy. The two
classes left out behave like one of these wherever they are met: a flat point is
worse in the climb and healthy elsewhere, and an over point differs from a worse
one only in a descent, whose one step here already asks about the minimum.
Three invocations are what a history takes: a search that is killed, the
resumed one, and an added trial or a retry on top; they come in any order, a
resumed job after a retry included. Points of trial 1 are
replayed from the recorded rates, so their outcomes matter little and are one
(in `sweep` flat).

### Ingest

| run | instance | result |
|---|---|---|
| `ingest` | two jobs of one run directory, two points, four lines, two drivers, one failed point, one mishap (lost line, death, error of the ingester or the ledger, scan or deletion) | passes: three invariants, one liveness property; 2.8 million states |
| `given_up` | one job, two points, six lines, two drivers, no mishap | `GivenUpForCause` fails: a point that was finished and not yet read does not count, and the job is given up |

Four lines are two runs of two lines, or one run with both points; two drivers
are two attempts of one job (needed to give it up) or one of each. One mishap
at a time, at every point. A scan gives one of the two points the identity its
events have, and the other one its position. `LedgerCurrent` is about the row
the events of a point go to; it does not say that there is no other row.

### EventStream

| run | instance | result |
|---|---|---|
| `stream` | a queue of one, a replay of one, three events, two breaks, two fetches, one lost answer | passes: two invariants, one liveness property; 0.15 million states |

With three events a queue and a replay of one overflow while another event is
under way, and two threads' events overtake each other.

## Fairness

`JobQueue`'s `FairSpec` assumes weak fairness of `_run`'s next step (a bring-up,
a stop and a driver end: `up` and `down` run commands with timeouts; a spawned
driver is assumed to exit), of the dispatch of the head of the queue (the loop
polls every five seconds and is woken by every change), of the rest of a
`cancel()` and of a submission once begun, and of each wait running out. Nothing
is assumed of operators: they may submit, cancel, delete or pause at any time or
never. `EveryJobEnds` has to assume that the operator in the end leaves the
queue unpaused and stops reordering: with an endless reorder a job can be
outranked after each of its bring-ups. No death is assumed or excluded by the
formulas; the run has none because each would multiply the state space.

`ClusterLease`'s `FairSpec` assumes that commands in flight end (`start_vms`,
`vm_stop` and the waits in them have timeouts), that a VM told to stop does,
that the tick loop looks at a deadline that has come (every `TICK_S`), that
time passes, that a job ends, and of the poller strong fairness for each
cluster: one poll at a time, every cluster in turn (`status_poll_loop`). It
assumes nothing of operators, faults, heartbeats, power-offs or deaths.

`FleetSpec` assumes that a bring-up and the tick loop take their next step when
they have one, that time passes, and that a VM told to boot does and one whose
timer has run out goes off. A VM that stops may stop for ever: `UpEnds` rests on
the drain's timeout, as the code does.

`SweepSpec` assumes that a driver that is not killed goes on; `adapter.launch`
is assumed to return or raise. `IngestSpec` assumes that the loop polls (every
second) and finishes its poll. `StreamSpec` assumes that the page's timer ticks
(every thirty seconds) and that each fetch is answered or fails; it assumes
nothing of the stream, so `CatchesUp` holds without a working one.

## Proofs

### JobQueueProofs

It proves for every number of jobs, every set of clusters, all
limits and priorities and any number of deaths, from `QueueAssumption` alone
(the constants have their types and `NoCluster` is no cluster):

| theorem | statement |
|---|---|
| `TypeCorrect` | `Spec => []TypeOK` |
| `AttemptsBudget` | `Spec => []AttemptsPaidFor` |
| `LeaseOwner` | `Spec => []LeaseFollowsSlot` |
| `RunningOwner` | `Spec => []RunningRowIsDriven` |
| `OneDriver` | `Spec => []DriversPaidFor` |
| `DoneJobsStay` | `Spec => FinishedStays` |
| `AttemptsClosed` | `Spec => []OpenAttemptsPaidFor` |
| `OneHead` | `Spec => [](Waiting # {} => exactly one job is the head)` |

None of these invariants is inductive. `IInv` adds what makes them so:

* `IssuedIds`: nothing refers to an id not yet handed out, so a new row has no
  lease, driver or attempt from before.
* `BudgetInv`: a job that can still be started has an attempt left, or a death
  that paid for one. The limit is checked after an attempt and the next one is
  counted much later, so the room has to be carried through the queue, the
  bring-up and recovery.
* `LeaseInv`: while `_run` has a lease it is that of its own job's cluster and
  `_run` is at a stage that will release it.
* `RunningInv`: from the write of `running` to the driver's exit the row says
  running or done, and a pending cancel concerns the job in the slot for as
  long as its driver is driven.
* `DriversInv`: without the current driver at most one process per death is
  alive; a job that became done by a completed cancel has no driver left.

Each step of `Next` is first reduced to its effect on the variables an
invariant reads (`RunEffects`, `CancelEffects`, `StepCases`); then one lemma
per part of `IInv` shows that every case preserves it. `DoneJobsStay` needs
`RunningInv` for the stages at which `_run` writes a row without looking.

`AttemptsClosed` has an invariant of its own, `OpenInv`: the attempts without an
end that are not the one being driven are finite in number and at most the
deaths, and a row that is gone has no attempts. Each step opens, closes or
abandons at most one (`Driven` is the one of `_run`), and only a death abandons.
`OneHead` is what makes "the head of the queue" a name: `_dispatch` takes the
first of `jobs ORDER BY priority DESC, id`, `_outranked_by` and `HeadIsServed`
speak of it, and whatever priorities the requests have written there is one such
job and no other. `Ahead` is a strict order; of finitely many waiting jobs one
with the fewest ahead of it (`LeastNat`) has none.

### JobLifeProofs

`QueueImplementsLife`: `Spec => LivesAsPromised`, again for any number of jobs,
limits and deaths. The initial states map to `LifeInit`, and every step of
`JobQueue`, taken from a state in `IInv`, maps to a step of `JobLife` or leaves
the mapped variables alone: one lemma per group of actions. `IInv` is needed
where the abstract guard looks at something the code does not read again: that
an attempt is counted only with a try left comes from `BudgetInv`, that a job
whose driver ran and which is done does not wait again from `RunningInv`.

### ClusterLeaseProofs

For any clusters, any overlap of their VMs, any operators, tick loops, faults
and deaths, from `LeaseAssumption` (types; a lease asks for VMs of its cluster;
callers, tick loops and `Nobody` are different):

| theorem | statement |
|---|---|
| `TypeCorrect` | `Spec => []TypeOK` |
| `LeasesReturned` | `Spec => []LeaseNotLeaked` |
| `DeadlinesAreOperators` | `Spec => []OnlyOperatorsLimitJobs` |
| `RunningBacked` | `Spec => []RunningLive` |
| `OverlapsRefused` | `Spec => [](~raced => NoOverlap)` |
| `OneTickLoop` | `Spec => []KeptByOneLoop` |
| `OnlyOperatorsTakeOver` | `Spec => JobKeepsLease` |

`TypeInv` adds to the types that a coroutine is on a cluster exactly when it is
not idle (`Placed`). `ClaimInv` carries the first three: `LeaseNotLeaked` needs
that a scheduler that stops a fleet has already given its lease back, since the
stop ends without looking at `used_by`. `AloneInv` carries the last three. The
busy check is made at the beginning of `up()` and relied on at its end, so the
invariant says that in between neither the cluster nor one that shares its VMs
gets a tick loop, and that what an operator brings up is not the scheduler's.
That holds as long as the caller in the middle of a bring-up is the only one
that could create a loop, whoever it is: `SerialInv` is `~raced => AloneInv`,
and operators are in it. `lease_overlap` shows that two calls are enough to
break it, so no weaker assumption than `~raced` would do. Steps that
touch none of this are collected in `Claimless` and `Loopless`, and every start
of a shutdown in `BeginShutdownType`, `BeginShutdownClaims`, `BeginShutdownAlone`.

### DeadManProofs

For any finite fleet, any times, any number of faults and changes by hand, from
`FleetAssumption`:

| theorem | statement |
|---|---|
| `FleetTypeCorrect` | `FleetSpec => []FleetTypeOK` |
| `TimersRearmed` | `FleetSpec => []ArmsRecent` |
| `NoFailureWithoutCause` | `FleetSpec => []FailsForCause` |
| `NoBillUnbounded` | `FleetSpec => []NoUnboundedBill` |

`ArmsRecent` says that an arm somebody still relies on is younger than
`OldestArm`, whatever numbers the intervals are: nothing is assumed of the timer.
What follows for the program is that a timer of at least `OldestArm` would be
enough, and `timer_late` that the code's is not. The inductive `KeepInv` bounds
the age of the last arm in each situation: `Punctual` (how late the loop may be,
from its sleep and beat), `AskedArmed` (a VM a bring-up has armed was armed at
most `clock` ago), `HeldArmed` (a VM of the loop was armed at most `since` and a
beat or bring-up ago) and `BeatArmed` (the beat in progress has just armed it).

`CauseInv` adds to `FailsForCause` why the arming succeeds: as long as nothing has
happened, the VMs still to be armed are up and the cache is right about them, and
none was missed. `BillInv` says where a VM that is up may be without a timer
while a bring-up is under way: among those it still has to arm, those it could
not arm, those it asked for once it cleans up, and anywhere only if the one fault
is spent and the whole fleet is about to be stopped. What ends each of these is a
stop, and `StopsSafely` shows that a stop leaves a VM off, stopping or with the
timer it is given when the stop fails, so long as not both calls fail.

### StreamProofs

For any queue size, replay limit and number of events, from `StreamAssumption`:

| theorem | statement |
|---|---|
| `StreamTypeCorrect` | `StreamSpec => []StreamTypeOK` |
| `NothingBroadcastIsLost` | `StreamSpec => []ShownOrComing` |

What is dropped, is dropped by a full queue, and a queue with a message in it
makes the page fetch what is then the newest state: the invariant is inductive
together with the types (every id taken was issued, `view <= shown`).

### IngestProofs

For any number of jobs, points, lines, attempts, drivers, failed points and
mishaps, and any identities a scan may give the points, from `IngestAssumption`:

| theorem | statement |
|---|---|
| `IngestTyped` | `IngestSpec => []IngestTypeOK` |
| `LedgerKeepsUp` | `IngestSpec => []LedgerCurrent` |
| `CountsLastRun` | `IngestSpec => []ProgressIsLastRun` |

A line once written stays, so each is an invariant of the lines a job was read
to. `LedgerInv` says that the row a point's events go to holds what the last line
read says, but for the points of the batch in progress and those set apart, and
that the batch is a tail of the lines read: a later line about a point is still in
it, so an old value can never overwrite a newer one. A scan sets every point apart
from its `DELETE` on, until an event about it is applied, so nothing depends on
which identity it used. `CountInv` says what the file is while no line was lost:
whole, with a start between two reports of one point (`Once`), each point of the
run in progress among those the driver went over (`Entered`). The count after a
read is that of a fold over the lines; `FoldSteps` shows that this fold exists
and goes line by line, and an induction over the lines that each adds its point
or begins anew.

### SweepProofs

For every grid, all limits, any outcomes, trials, invocations, kills and
interrupts, from `SearchAssumption` and `SweepAssumption`:

| theorem | statement |
|---|---|
| `BracketsKept` | `SweepSpec => []BracketWellFormed` |
| `AsksOnce` | `SweepSpec => []NothingAskedTwice` |
| `SweepTyped` | `SweepSpec => []SweepTypeOK` |
| `SearchesOnce` | `SweepSpec => OneSearch` |
| `ResultsComplete` | `SweepSpec => ResultsCatchUp` |
| `PointsStayDone` | `SweepSpec => DonePointsStay` |

The bracket is used only from the first refinement on; `BracketInv` says how it
comes about: a descent keeps the lowest saturated rate, above the one it asks
about (`Descending`), and a climb has met none (`Climbing`). From then on only
`Rebracket` moves it. That the descent and the climb really go down and up is
arithmetic on halves and steps (`HalvesDown`, `ClimbsUp`). Every step of the
driver leaves the search alone, restarts it, answers it or lets it decide
(`EveryStepSearches`), so the search's invariant is the driver's.

`AsksOnce` rests on order: a descent asks under everything it measured, a climb
over it, and a pass holds rates in rising order that nobody asked about
(`AskInv`). The order of a pass is arithmetic on rounded fractions. A pass has so
few rungs that they lie a whole number apart (`StepsFit`: the spacing is at least
the resolution, which is at least 1); numbers further apart than 1 round to
different ones in their order (`RoundsApart`), and if they are exactly 1 apart
nothing is rounded (`RoundsExactly`); so `Rung` rises (`RungsRise`), the rung
under the last healthy rate is lower than it (`BelowIsLower`), and the filter of
the measured ones keeps the order (`UpperAscends`, an induction over the rungs).
With a `min_resolution` under 1 two rungs could round to one rate.

`SweepTyped` needs to know who waits for a point (`Caller`): a search while
`searched_rates.json` is not complete, a replay with rates left once it is, or a
retry; and that no job goes past the last trial (`JobsTyped`).

`SearchesOnce` is about a search whose parts ran in different drivers. The proof
takes the search as a function of the answers. `Now` is the value of its ten
variables, `Told(s, a)` the value after answer `a`, and `Turned(s)` the value
after a decision between two answers; two lemmas show that the actions of
`KneeSearch` compute exactly these (`AnswerTells`, `DecideTurns`). A way
(`Way(f, p, n, t)`) is then a sequence `p[0] .. p[n]` of such values that starts
`Fresh`, takes each step from the answers in the summaries `f` of trial `t`, and
has asked about every rate that has a summary there. `ReplayInv` says:

* what a search asked about is recorded in `searched_rates.json` (`AskedInv`);
* until a point is spoilt, each trial has a way, and a running search stands on
  it: its variables are `p[i]` for some `i`, and while it waits for a point it
  stands at the end, `i = n` (`WayInv`).

A killed search leaves its way on disk, because the summaries are the way; the
next one starts at `p[0]`, and as a step is a function of the summary it reads
it goes from `p[i]` to `p[i + 1]`. Only at the end of the way can it need a point,
and that point lengthens the way by one. When it ends it stands on a way's last
value, so it asked about everything with a summary (`EndKnowsAll`), which is
everything recorded. Without the last conjunct of `Way` the induction fails: two
searches could have left summaries that no single search asks for.

The first attempt at this proof showed the model wrong. `spoilt` was set when the
retried point's new directory came in, so a driver killed between the two renames
left a search without one of its points and `spoilt` false, and a resumed search
could then find other rates: `OneSearch` fails with two kills, which the run did
not allow. The point is lost when its directory goes, so `SwapOut` sets `spoilt`,
and the run has two kills now.

`ResultsComplete` says what an invocation carries over to `sweep_results.json`.
`CatchInv` relates `entries` to the summaries, trial by trial: those of the trials
it is through with, those of the rates the search measured, and those of the
recorded rates a replay has behind it. A search that ends has measured everything
with a summary, which is `SearchesOnce`'s invariant again; a replay that ends goes
over all recorded rates, so `RecordInv` says that whatever was measured, reported
or retried has a recorded rate, and that the directories of trial 0 stay in one
layout unless the sweep has several trials.

`PointsStayDone` is about directories, because that is what a retry replaces. A
usable summary is safe because `_run_point` looks for one before its first attempt,
in the directory it is about to write: `AtWork` says that during the first attempt,
a retry's apart, nothing usable is there, so a summary that a later attempt
overwrites was written by this very `_run_point`; and that a retry works on its
target. Only two steps touch a summary, the end of an attempt
(`SummaryMoves`) and the swap of a retry; every other leaves it alone
(`SummaryStays`). The swap renames the directory of its target, and with it
whatever lies inside: for a point of trial 0, retried as a sweep of one trial,
that is `rate_R` with the directories of the other trials. The property says so
(`RetriedWith`): a retry may cost these and no other.

### Induction

The provers cannot instantiate the library's induction theorems, which take an
operator as a parameter. `NatLemmas` states induction as a fact about a set: a
set of natural numbers that holds 0 and the successor of each member is all of
them (`NatInductive`, from the well-foundedness of `<`). It is used where a proof
is about every number of lines or rungs: that the recursive functions `Folded`
and `Upper` exist and what they return. `JobQueueProofs` uses the least element
of such a set (`LeastNat`).

### What is only model-checked

The liveness properties: `SlotReturned`, `HeadIsServed`, `EveryJobEnds`,
`DeadlineFires`, `StraysSeen`, `StaleRowsFixed`, `DriverEnds`, `TailRead`,
`CatchesUp` and `UpEnds`. They rest on fairness, which is stated with `ENABLED`,
and the prover has no rules for it. Every invariant and every action property of
a passing run has a theorem. The properties of the runs that expect a violation
are refuted, all but `NoOverlap` outright; that one has `OverlapsRefused` for
the behaviours in which calls do not overlap.

## Observed in the code

Besides the findings, modelling met these. No run claims them: each is an
exception a property states, or outside what a document promises.

* A cancel during a bring-up that then fails is undone: `cancel()` writes
  `canceled`, and `_execute` queues the job again without reading its row
  (`scheduler.py:289`), although the comment in `cancel()` says that it "sees
  this and releases it" (458-459). `FinishedStays` excepts it.
* A job canceled and deleted during its bring-up leaves its lease behind: the
  lookup after `up()` finds no row and raises before any release
  (`scheduler.py:293`; the comment at 251-254 says the lease is released after).
  `LeaseFollowsSlot` excepts it.
* Retrying a point of trial 0 replaces the directory `rate_R`, in which the other
  trials of that rate lie (`engine.py:360`), although `retry_point` means "one
  exact existing point" (`scheduler.py:565`, `routes.py:324`). `DonePointsStay`
  excepts what lies inside. In a sweep submitted with several trials the retried
  point lands in the layout of one trial, and when the submitted job is resumed it
  measures that point again, in its own layout, beside the retried one.
* A scanned entry is keyed on the dims in a fixed list, or its position
  (`ledger.py:242-243`), a live event on its own dims. With a dim outside the list,
  as the `payload` of the README's example (line 133), the two are different rows:
  a scan and the next read lie beside each other, although the comments at
  `ledger.py:27-29` and `235-237` say rows are updated "instead of inserting a
  parallel set". `_upsert_point` itself looks before it inserts and nothing makes
  the identity unique (`db.py:111-120`), so a scan on a thread and the ingester
  can both insert.
* The order is read after a bring-up (`scheduler.py:303`) and the attempt counted
  later (313); a reorder from the thread pool in between goes unheeded, and the
  job runs although another is the head by then.
* Exit code 1 ends a job on its first attempt (`scheduler.py:388-391`), by
  intent of the comment there; the README (lines 85-87) and the docstrings of
  `scheduler.py:11-12` and `jobs.py:29-31` still promise another attempt.
* Two bring-ups of one cluster that overlap replace the keep-alive that owns the
  lock (`clusters.py:424-426`) and leave a tick loop nobody can cancel, and one
  that fails takes the lease of the other.
* A stop that is under way when the scheduler leases the cluster still stops its
  VMs; the bring-up waits for those that drain, not for a command not yet issued.
* A daemon killed between start and arm leaves VMs without a timer.
* Two failing calls leave a VM without a timer: a listing that raises in the
  cleanup skips the arming, and `start_vms` ignores what `vm_stop` says after a
  failed arm.
* In the climb a rate without a result gets the verdict "not saturated" and may
  become the lower end of the bracket later.
* A driver killed between the two renames of a retry leaves the point without a
  summary. `add_trials` after `retry_point` keeps `--retry-point`, and every
  added trial is skipped. A retried point that ends "partial" is swapped in and
  filtered from the results. After an error a resumed search records the union
  of two searches' rates.
* `poll_once`: an `ingest_job` that raises skips the jobs behind it. A finished
  job's ten seconds take in what its successor writes to the same file. What a
  driver wrote last is lost if the daemon dies right after the job ends and
  starts more than ten seconds later. A scan of the directory of a running job
  removes rows of its points until they are reported again, and rows of a
  deleted run come back when its events are read from the start.
* The hub's replay stops at 500 events and there is a gap between replay and
  subscription (`hub.py:49-53`); the page's timer heals both, in thirty seconds.

## Not modelled

* Creating missing VMs, the jump host and its tunnel, billing sessions and the
  orderly shutdown of all clusters (`shutdown_all`) of the cluster manager.
* The docker, ssh, local and mock backends, which have no dead-man switch, and
  copying files: their calls succeed or raise, which `launch` already may.
* A static list of rates, host release, the grid of dimensions: more points of
  the same kind in the same loop.
* Tags, notes, provenance and builds of the ledger; schema migration; settings
  and adapters, read once at start; clocks.
* The MCP server and the command line, which call the HTTP API; the spend
  report, a read-only query; rendering in the dashboard.

## Plan

Left, in this order:

1. `QueueOrder`: place, reorder, `_rank` and delete statement by statement,
   three jobs; ranks as a permutation.
2. `QueueAndFleet`: `JobLife` composed with `ClusterLease`: an idle fleet
   stops, a manual time limit against the handoff.
3. The cluster manager's rest: missing VMs, billing sessions, `shutdown_all`,
   and what a lease may count on while an earlier stop is in flight.
