---------------------------- MODULE ClusterLease ----------------------------
(***************************************************************************)
(* The cluster manager (core/clusters.py): bringing a fleet up, the lease  *)
(* on it, the tick loop that keeps it alive, shutting it down and polling  *)
(* what the VMs really do.  Clusters may share VMs.                        *)
(*                                                                         *)
(* Everything here runs on one event loop and gives it up where it awaits  *)
(* a thread: an action is what one coroutine does between two awaits, or   *)
(* what a command running in its thread does to the VMs.  The coroutines   *)
(* are the callers of up() and down() -- the scheduler and operators -- and *)
(* the tick loops.                                                         *)
(*                                                                         *)
(* Fleets are provisioned and have no jump host: _create_missing and       *)
(* _ensure_jump then return without awaiting.  A probe of the VMs that     *)
(* were short last time is the first part of the start that follows it.    *)
(***************************************************************************)
EXTENDS Integers, FiniteSets

CONSTANTS
    Clusters,
    VMs,
    VMsOf,        \* the VMs of each cluster
    LeaseSets,    \* the parts of a cluster that a caller may ask for
    Scheduler,    \* the caller that leases for jobs, one at a time
    Users,        \* operators calling up and down over the API
    Loops,        \* names for tick loops: as many as can exist at once
    Nobody,
    MaxFaults,    \* how many commands fail and heartbeats are lost
    MaxCrashes

Callers == {Scheduler} \cup Users
Procs == Callers \cup Loops

ASSUME LeaseAssumption ==
    /\ VMsOf \in [Clusters -> (SUBSET VMs) \ {{}}]
    /\ LeaseSets \in [Clusters -> SUBSET ((SUBSET VMs) \ {{}})]
    /\ \A c \in Clusters : \A S \in LeaseSets[c] : S \subseteq VMsOf[c]
    /\ Callers \cap Loops = {} /\ Scheduler \notin Users
    /\ Nobody \notin Procs \cup Clusters
    /\ MaxFaults \in Nat /\ MaxCrashes \in Nat

VARIABLES
    vm,          \* what each VM does
    row,         \* clusters.state
    usedBy,      \* mc.used_by
    stopAt,      \* mc.stop_at: none, ahead, or due
    task,        \* mc.task: the tick loop, or Nobody
    keepalive,   \* mc.keepalive: none, or one that owns the lock, or one that does not
    covered,     \* the VMs mc.keepalive re-arms
    lock,        \* is the keep-alive lock file of the cluster held?
    proc,        \* where each coroutine is
    polled,      \* the status poll in flight and the RUNNING VMs it has read
    faults,      \* failed commands and lost heartbeats so far
    crashes,
    raced        \* a history: since the daemon started, two calls overlapped

limits == <<faults, crashes, raced>>
vars == <<vm, row, usedBy, stopAt, task, keepalive, covered, lock, proc,
          polled, limits>>
keeping == <<keepalive, covered, lock>>

RowStates == {"terminated", "starting", "running", "stopping", "unmanaged"}
Reasons == {"none", "user", "deadline", "heartbeat"}
PCs == {"idle",                                      \* both kinds
        "starting", "started", "failed", "cleaning", \* up()
        "holding",                                   \* the scheduler's job runs
        "stopping", "draining",                      \* _shutdown()
        "asleep", "ending"}              \* the tick loop
ProcState == [pc : PCs, cluster : Clusters \cup {Nobody}, vms : SUBSET VMs,
              fresh : BOOLEAN, reason : Reasons]
Idle == [pc |-> "idle", cluster |-> Nobody, vms |-> {}, fresh |-> FALSE,
         reason |-> "none"]
Busy(pc, c) == [Idle EXCEPT !.pc = pc, !.cluster = c]
NoPoll == [cluster |-> Nobody, running |-> {}]

At(x, pc) == proc[x].pc = pc
On(x) == proc[x].cluster
Goto(x, pc) == proc' = [proc EXCEPT ![x].pc = pc]
Live(c) == task[c] # Nobody
Overlap(c, d) == c # d /\ VMsOf[c] \cap VMsOf[d] # {}

OverlappingActive(c) == {d \in Clusters : Overlap(c, d) /\ Live(d)}
NoneStopping(S) == \A v \in S : vm[v] # "stopping"

Init ==
    /\ vm = [v \in VMs |-> "off"]
    /\ row = [c \in Clusters |-> "terminated"]
    /\ usedBy = [c \in Clusters |-> Nobody]
    /\ stopAt = [c \in Clusters |-> "none"]
    /\ task = [c \in Clusters |-> Nobody]
    /\ keepalive = [c \in Clusters |-> "none"]
    /\ covered = [c \in Clusters |-> {}]
    /\ lock = [c \in Clusters |-> FALSE]
    /\ proc = [x \in Procs |-> Idle]
    /\ polled = NoPoll
    /\ faults = 0
    /\ crashes = 0
    /\ raced = FALSE

\* A command may fail, or a heartbeat be lost, for reasons outside.
Fault(happens) ==
    IF happens THEN faults < MaxFaults /\ faults' = faults + 1 ELSE UNCHANGED faults

\* release_lock and `mc.keepalive = None`, wherever they stand.
LetGo(c) ==
    /\ keepalive' = [keepalive EXCEPT ![c] = "none"]
    /\ covered' = [covered EXCEPT ![c] = {}]
    /\ lock' = [lock EXCEPT ![c] = @ /\ keepalive[c] # "owner"]

\* A caller is inside up() or down() from its first await to its return.  To call
\* either while another is inside is to race; nothing in the code is kept of it.
Inside(x) == proc[x].pc \notin {"idle", "holding"}
Calls(x) ==
    /\ raced' = (raced \/ \E y \in Callers \ {x} : Inside(y))
    /\ UNCHANGED <<faults, crashes>>

-----------------------------------------------------------------------------
(* up()                                                                    *)

\* The deadline of a held fleet survives into the next lease.
MutUp(x, c, want, ttl) ==
    /\ At(x, "idle")
    /\ Live(c) \/ OverlappingActive(c) = {}
    /\ usedBy' = [usedBy EXCEPT ![c] = x]
    /\ stopAt' = IF ttl THEN [stopAt EXCEPT ![c] = "ahead"] ELSE stopAt
    /\ row' = IF Live(c) THEN row ELSE [row EXCEPT ![c] = "starting"]
    /\ proc' = [proc EXCEPT ![x] = [pc |-> "starting", cluster |-> c, vms |-> want,
                                    fresh |-> ~Live(c), reason |-> "none"]]
    /\ UNCHANGED <<vm, task, keeping, polled>>
    /\ Calls(x)

\* As far as its first await.  A cluster that shares VMs with a live one is
\* refused, and nothing is left behind.
Up(x, c, want, ttl) ==
    /\ At(x, "idle")
    /\ Live(c) \/ OverlappingActive(c) = {}
    /\ usedBy' = [usedBy EXCEPT ![c] = x]
    /\ stopAt' = [stopAt EXCEPT ![c] = IF ttl THEN "ahead" ELSE "none"]
    /\ row' = IF Live(c) THEN row ELSE [row EXCEPT ![c] = "starting"]
    /\ proc' = [proc EXCEPT ![x] = [pc |-> "starting", cluster |-> c, vms |-> want,
                                    fresh |-> ~Live(c), reason |-> "none"]]
    /\ UNCHANGED <<vm, task, keeping, polled>>
    /\ Calls(x)

\* start_vms in its thread.  A fresh start waits for the VMs to drain.
StartVms(x) ==
    /\ At(x, "starting")
    /\ NoneStopping(proc[x].vms)
    /\ vm' = [v \in VMs |-> IF v \in proc[x].vms THEN "on" ELSE vm[v]]
    /\ Goto(x, "started")
    /\ UNCHANGED <<row, usedBy, stopAt, task, keeping, polled, limits>>

\* ... or a VM does not start, cannot be armed or, when nothing was drained, is
\* still in STOPPING.  What came up is stopped again, as far as that works.
StartFails(x, stopped, up) ==
    /\ At(x, "starting")
    /\ stopped \subseteq proc[x].vms /\ up \subseteq proc[x].vms \ stopped
    /\ Fault(proc[x].fresh \/ NoneStopping(proc[x].vms))
    /\ vm' = [v \in VMs |-> IF v \in stopped THEN "stopping"
                            ELSE IF v \in up THEN "on" ELSE vm[v]]
    /\ proc' = [proc EXCEPT ![x].pc = "failed", ![x].vms = stopped]
    /\ UNCHANGED <<row, usedBy, stopAt, task, keeping, polled, crashes, raced>>

\* The VMs of S that are up go down, but for those left.
StopAll(S, left) ==
    vm' = [v \in VMs |-> IF v \in S \ left /\ vm[v] = "on" THEN "stopping" ELSE vm[v]]
UpAmong(S) == {v \in S : vm[v] = "on"}

\* _stop_whole_cluster, once the VMs the start itself stopped are down.
CleanUp(x, left) ==
    /\ At(x, "failed")
    /\ NoneStopping(proc[x].vms)
    /\ left \subseteq UpAmong(VMsOf[On(x)])
    /\ StopAll(VMsOf[On(x)], left)
    /\ proc' = [proc EXCEPT ![x].pc = "cleaning",
                            ![x].vms = UpAmong(VMsOf[On(x)]) \ left]
    /\ Fault(left # {})
    /\ UNCHANGED <<row, usedBy, stopAt, task, keeping, polled, crashes, raced>>

\* A state the table does not know.
MutMarkFailed(x) ==
    /\ usedBy' = [usedBy EXCEPT ![On(x)] = Nobody]
    /\ stopAt' = [stopAt EXCEPT ![On(x)] = "none"]
    /\ row' = IF proc[x].fresh THEN [row EXCEPT ![On(x)] = "failed"] ELSE row
    /\ proc' = [proc EXCEPT ![x] = Idle]

\* _mark_bringup_failed, and up() raises.
MarkFailed(x) ==
    /\ usedBy' = [usedBy EXCEPT ![On(x)] = Nobody]
    /\ stopAt' = [stopAt EXCEPT ![On(x)] = "none"]
    /\ row' = IF proc[x].fresh THEN [row EXCEPT ![On(x)] = "terminated"] ELSE row
    /\ proc' = [proc EXCEPT ![x] = Idle]

UpFails(x) ==
    /\ At(x, "cleaning")
    /\ NoneStopping(proc[x].vms)
    /\ MarkFailed(x)
    /\ UNCHANGED <<vm, task, keeping, polled, limits>>

\* up() returns: the scheduler goes on to run its job.
Return(x) == IF x = Scheduler THEN Busy("holding", On(x)) ELSE Idle

NewLoop == CHOOSE t \in Loops : At(t, "idle")

\* A fresh start gets a keep-alive with the lock and a tick loop.
UpFresh(x) ==
    LET t == NewLoop IN
    /\ At(x, "started") /\ proc[x].fresh
    /\ ~lock[On(x)]
    /\ \E l \in Loops : At(l, "idle")
    /\ keepalive' = [keepalive EXCEPT ![On(x)] = "owner"]
    /\ covered' = [covered EXCEPT ![On(x)] = proc[x].vms]
    /\ lock' = [lock EXCEPT ![On(x)] = TRUE]
    /\ row' = [row EXCEPT ![On(x)] = "running"]
    /\ task' = [task EXCEPT ![On(x)] = t]
    /\ proc' = [proc EXCEPT ![x] = Return(x), ![t] = Busy("asleep", On(x))]
    /\ UNCHANGED <<vm, usedBy, stopAt, polled, limits>>

\* The error passes without _mark_bringup_failed: the lease stays.
MutUpLocked(x) ==
    /\ At(x, "started") /\ proc[x].fresh
    /\ lock[On(x)]
    /\ keepalive' = [keepalive EXCEPT ![On(x)] = "bare"]
    /\ covered' = [covered EXCEPT ![On(x)] = proc[x].vms]
    /\ proc' = [proc EXCEPT ![x] = Idle]
    /\ UNCHANGED <<vm, row, usedBy, stopAt, task, lock, polled, limits>>

\* acquire_lock raises.  mc.keepalive is the new object by then; the one that
\* holds the lock, if it was there, is forgotten with the lock still held.
UpLocked(x) ==
    /\ At(x, "started") /\ proc[x].fresh
    /\ lock[On(x)]
    /\ keepalive' = [keepalive EXCEPT ![On(x)] = "bare"]
    /\ covered' = [covered EXCEPT ![On(x)] = proc[x].vms]
    /\ MarkFailed(x)
    /\ UNCHANGED <<vm, task, lock, polled, limits>>

\* A handover: the keep-alive covers what this lease needs as well.
UpAgain(x) ==
    /\ At(x, "started") /\ ~proc[x].fresh
    /\ covered' = IF keepalive[On(x)] = "none" THEN covered
                  ELSE [covered EXCEPT ![On(x)] = @ \cup proc[x].vms]
    /\ proc' = [proc EXCEPT ![x] = Return(x)]
    /\ UNCHANGED <<vm, row, usedBy, stopAt, task, keepalive, lock, polled,
                   limits>>

-----------------------------------------------------------------------------
(* down(), release() and _shutdown().                                      *)

\* The tick loop is forgotten but not canceled.
MutBeginShutdown(x, c, reason) ==
    /\ task' = [task EXCEPT ![c] = Nobody]
    /\ stopAt' = [stopAt EXCEPT ![c] = "none"]
    /\ row' = [row EXCEPT ![c] = "stopping"]
    /\ proc' = [proc EXCEPT ![x] = [Busy("stopping", c) EXCEPT !.reason = reason]]

\* The row is left until the VMs are down.
MutBeginShutdownRow(x, c, reason) ==
    /\ task' = [task EXCEPT ![c] = Nobody]
    /\ stopAt' = [stopAt EXCEPT ![c] = "none"]
    /\ UNCHANGED row
    /\ proc' = [y \in Procs |->
                 IF y = x THEN [Busy("stopping", c) EXCEPT !.reason = reason]
                 ELSE IF y = task[c] THEN Idle ELSE proc[y]]

\* _shutdown as far as its first await.  A tick loop other than the one that
\* asks is canceled; its finally runs in the next turn of the event loop,
\* sooner than any command can end, and so with this step.
BeginShutdown(x, c, reason) ==
    /\ task' = [task EXCEPT ![c] = Nobody]
    /\ stopAt' = [stopAt EXCEPT ![c] = "none"]
    /\ row' = [row EXCEPT ![c] = "stopping"]
    /\ proc' = [y \in Procs |->
                 IF y = x THEN [Busy("stopping", c) EXCEPT !.reason = reason]
                 ELSE IF y = task[c] THEN Idle ELSE proc[y]]
CancelLoop(x, c) == IF task[c] \in {x, Nobody} THEN UNCHANGED keeping ELSE LetGo(c)

\* An operator's down(), refused while somebody uses the cluster.
Down(x, c, force) ==
    /\ At(x, "idle") /\ x \in Users
    /\ usedBy[c] = Nobody \/ force
    /\ usedBy' = [usedBy EXCEPT ![c] = Nobody]
    /\ BeginShutdown(x, c, "user")
    /\ CancelLoop(x, c)
    /\ Calls(x)
    /\ UNCHANGED <<vm, polled>>

\* The handoff when the next job wants this cluster: release() only, with a
\* deadline in case that job does not come.
HandoffKeep ==
    LET c == On(Scheduler) IN
    /\ At(Scheduler, "holding")
    /\ stopAt' = IF usedBy[c] = Nobody THEN stopAt ELSE [stopAt EXCEPT ![c] = "ahead"]
    /\ usedBy' = [usedBy EXCEPT ![c] = Nobody]
    /\ proc' = [proc EXCEPT ![Scheduler] = Idle]
    /\ UNCHANGED <<vm, row, task, keeping, polled, limits>>

\* ... and when it does not: release() and down(force=True).
HandoffStop ==
    /\ At(Scheduler, "holding")
    /\ usedBy' = [usedBy EXCEPT ![On(Scheduler)] = Nobody]
    /\ BeginShutdown(Scheduler, On(Scheduler), "user")
    /\ CancelLoop(Scheduler, On(Scheduler))
    /\ Calls(Scheduler)
    /\ UNCHANGED <<vm, polled>>

\* stop_vms in its thread: every VM of the cluster, but for those it reports.
IssueStop(x, left) ==
    /\ At(x, "stopping")
    /\ left \subseteq UpAmong(VMsOf[On(x)])
    /\ StopAll(VMsOf[On(x)], left)
    /\ proc' = [proc EXCEPT ![x].pc = "draining", ![x].vms = left]
    /\ Fault(left # {})
    /\ UNCHANGED <<row, usedBy, stopAt, task, keeping, polled, crashes, raced>>

Stopped(x) == At(x, "draining") /\ NoneStopping(VMsOf[On(x)] \ proc[x].vms)

\* A tick loop reads the VMs once more and then still has its finally ahead.
StopSucceeds(x) ==
    /\ Stopped(x) /\ proc[x].vms = {}
    /\ LetGo(On(x))
    /\ row' = [row EXCEPT ![On(x)] = "terminated"]
    /\ proc' = [proc EXCEPT ![x] = IF x \in Loops THEN Busy("ending", On(x)) ELSE Idle]
    /\ UNCHANGED <<vm, usedBy, stopAt, task, polled, limits>>

\* Some VM stays up: the cluster is unmanaged.  A tick loop ends with this.
StopFails(x) ==
    /\ Stopped(x) /\ proc[x].vms # {}
    /\ proc[x].reason # "deadline"
    /\ LetGo(On(x))
    /\ row' = [row EXCEPT ![On(x)] = "unmanaged"]
    /\ proc' = [proc EXCEPT ![x] = Idle]
    /\ UNCHANGED <<vm, usedBy, stopAt, task, polled, limits>>

\* When a deadline's stop fails the tick loop's handler tries it once more,
\* by now perhaps against a tick loop that a new up() has started.
StopFailsAtDeadline(x) ==
    /\ Stopped(x) /\ proc[x].vms # {}
    /\ proc[x].reason = "deadline"
    /\ LetGo(On(x))
    /\ BeginShutdown(x, On(x), "heartbeat")
    /\ UNCHANGED <<vm, usedBy, polled, limits>>

-----------------------------------------------------------------------------
(* The tick loop.                                                          *)

\* Only a fleet nobody uses is stopped by its deadline.
MutDeadline(t) ==
    /\ At(t, "asleep")
    /\ stopAt[On(t)] = "due" /\ usedBy[On(t)] = Nobody
    /\ BeginShutdown(t, On(t), "deadline")
    /\ CancelLoop(t, On(t))
    /\ UNCHANGED <<vm, usedBy, polled, limits>>

Deadline(t) ==
    /\ At(t, "asleep")
    /\ stopAt[On(t)] = "due"
    /\ usedBy' = [usedBy EXCEPT ![On(t)] = Nobody]
    /\ BeginShutdown(t, On(t), "deadline")
    /\ CancelLoop(t, On(t))
    /\ UNCHANGED <<vm, polled, limits>>

\* Nothing could be re-armed for too long, or there is no keep-alive to do it
\* with: stop in the open.
HeartbeatFails(t) ==
    /\ At(t, "asleep")
    /\ BeginShutdown(t, On(t), "heartbeat")
    /\ CancelLoop(t, On(t))
    /\ Fault(keepalive[On(t)] # "none")
    /\ UNCHANGED <<vm, usedBy, polled, crashes, raced>>

\* The finally of a tick loop that has shut its cluster down.
LoopEnds(t) ==
    /\ At(t, "ending")
    /\ LetGo(On(t))
    /\ proc' = [proc EXCEPT ![t] = Idle]
    /\ UNCHANGED <<vm, row, usedBy, stopAt, task, polled, limits>>

-----------------------------------------------------------------------------
(* The status poller: read in a thread, reconcile when it is back.         *)

PollRead(c) ==
    /\ polled = NoPoll
    /\ polled' = [cluster |-> c, running |-> {v \in VMsOf[c] : vm[v] = "on"}]
    /\ UNCHANGED <<vm, row, usedBy, stopAt, task, keeping, proc, limits>>

LeasedElsewhere(c) == UNION {VMsOf[d] : d \in {d \in Clusters \ {c} : Live(d)}}

\* Only an unmanaged cluster is found to be down.
MutReconcile(c) ==
    LET running == polled.running \ LeasedElsewhere(c)
        stray == ~Live(c) /\ running # {} /\ row[c] = "terminated"
        gone == ~Live(c) /\ running = {} /\ row[c] = "unmanaged"
    IN
    /\ polled.cluster = c
    /\ polled' = NoPoll
    /\ row' = [row EXCEPT ![c] = IF stray THEN "unmanaged"
                                 ELSE IF gone THEN "terminated" ELSE @]
    /\ UNCHANGED <<vm, usedBy, stopAt, task, keeping, proc, limits>>

Reconcile(c) ==
    LET running == polled.running \ LeasedElsewhere(c)
        stray == ~Live(c) /\ running # {} /\ row[c] = "terminated"
        gone == ~Live(c) /\ running = {} /\ row[c] \in {"running", "unmanaged"}
    IN
    /\ polled.cluster = c
    /\ polled' = NoPoll
    /\ row' = [row EXCEPT ![c] = IF stray THEN "unmanaged"
                                 ELSE IF gone THEN "terminated" ELSE @]
    /\ UNCHANGED <<vm, usedBy, stopAt, task, keeping, proc, limits>>

-----------------------------------------------------------------------------
(* The world: VMs, clocks and the end of the daemon.                       *)

VmDown(v) ==
    /\ vm[v] = "stopping"
    /\ vm' = [vm EXCEPT ![v] = "off"]
    /\ UNCHANGED <<row, usedBy, stopAt, task, keeping, proc, polled, limits>>

\* The dead-man timer of a VM that no tick loop re-arms and nobody has just
\* armed.
PowersOff(v) ==
    /\ vm[v] = "on"
    /\ \A t \in Loops : At(t, "asleep") => v \notin covered[On(t)]
    /\ \A x \in Callers : At(x, "started") => v \notin proc[x].vms
    /\ vm' = [vm EXCEPT ![v] = "off"]
    /\ UNCHANGED <<row, usedBy, stopAt, task, keeping, proc, polled, limits>>

TimePasses(c) ==
    /\ stopAt[c] = "ahead"
    /\ stopAt' = [stopAt EXCEPT ![c] = "due"]
    /\ UNCHANGED <<vm, row, usedBy, task, keeping, proc, polled, limits>>

\* The next daemon believes the rows it finds.
MutCrash ==
    /\ crashes < MaxCrashes
    /\ crashes' = crashes + 1
    /\ usedBy' = [c \in Clusters |-> Nobody]
    /\ stopAt' = [c \in Clusters |-> "none"]
    /\ task' = [c \in Clusters |-> Nobody]
    /\ keepalive' = [c \in Clusters |-> "none"]
    /\ covered' = [c \in Clusters |-> {}]
    /\ lock' = [c \in Clusters |-> FALSE]
    /\ proc' = [x \in Procs |-> Idle]
    /\ polled' = NoPoll
    /\ raced' = FALSE
    /\ UNCHANGED <<vm, row, faults>>

\* The daemon dies; the next one starts with rows that claim nothing is in
\* transition.  A dead process holds no lock.
Crash ==
    /\ crashes < MaxCrashes
    /\ crashes' = crashes + 1
    /\ row' = [c \in Clusters |-> IF row[c] \in {"starting", "stopping"}
                                  THEN "terminated" ELSE row[c]]
    /\ usedBy' = [c \in Clusters |-> Nobody]
    /\ stopAt' = [c \in Clusters |-> "none"]
    /\ task' = [c \in Clusters |-> Nobody]
    /\ keepalive' = [c \in Clusters |-> "none"]
    /\ covered' = [c \in Clusters |-> {}]
    /\ lock' = [c \in Clusters |-> FALSE]
    /\ proc' = [x \in Procs |-> Idle]
    /\ polled' = NoPoll
    /\ raced' = FALSE
    /\ UNCHANGED <<vm, faults>>

-----------------------------------------------------------------------------

CallStep(x) ==
    \/ StartVms(x)
    \/ \E stopped, up \in SUBSET proc[x].vms : StartFails(x, stopped, up)
    \/ \E left \in SUBSET VMs : CleanUp(x, left)
    \/ UpFails(x) \/ UpLocked(x) \/ UpAgain(x) \/ UpFresh(x)

ShutdownStep(x) ==
    \/ \E left \in SUBSET VMs : IssueStop(x, left)
    \/ StopSucceeds(x) \/ StopFails(x) \/ StopFailsAtDeadline(x)

JobEnds == HandoffKeep \/ HandoffStop
PollStep(c) == PollRead(c) \/ Reconcile(c)

Next ==
    \/ \E x \in Callers, c \in Clusters :
          \E want \in LeaseSets[c], ttl \in (IF x \in Users THEN BOOLEAN ELSE {FALSE}) :
              Up(x, c, want, ttl)
    \/ \E x \in Users, c \in Clusters, force \in BOOLEAN : Down(x, c, force)
    \/ JobEnds
    \/ \E x \in Callers : CallStep(x)
    \/ \E x \in Procs : ShutdownStep(x)
    \/ \E t \in Loops : Deadline(t) \/ HeartbeatFails(t) \/ LoopEnds(t)
    \/ \E c \in Clusters : PollStep(c) \/ TimePasses(c)
    \/ \E v \in VMs : VmDown(v) \/ PowersOff(v)
    \/ Crash

Spec == Init /\ [][Next]_vars

Fairness ==
    /\ \A x \in Callers : WF_vars(CallStep(x))
    /\ \A x \in Procs : WF_vars(ShutdownStep(x))
    /\ WF_vars(JobEnds)
    /\ \A t \in Loops : WF_vars(Deadline(t)) /\ WF_vars(LoopEnds(t))
    /\ \A c \in Clusters : WF_vars(TimePasses(c))
    /\ \A v \in VMs : WF_vars(VmDown(v))
    /\ \A c \in Clusters : SF_vars(PollRead(c)) /\ WF_vars(Reconcile(c))

FairSpec == Spec /\ Fairness

-----------------------------------------------------------------------------
(* Properties.                                                             *)

TypeOK ==
    /\ vm \in [VMs -> {"off", "on", "stopping"}]
    /\ row \in [Clusters -> RowStates]
    /\ usedBy \in [Clusters -> Callers \cup {Nobody}]
    /\ stopAt \in [Clusters -> {"none", "ahead", "due"}]
    /\ task \in [Clusters -> Loops \cup {Nobody}]
    /\ keepalive \in [Clusters -> {"none", "owner", "bare"}]
    /\ covered \in [Clusters -> SUBSET VMs]
    /\ lock \in [Clusters -> BOOLEAN]
    /\ proc \in [Procs -> ProcState]
    /\ polled \in [cluster : Clusters \cup {Nobody}, running : SUBSET VMs]
    /\ faults \in Nat /\ crashes \in Nat /\ raced \in BOOLEAN

\* No tick loop outlives its cluster's claim to it: as long as calls of up() and
\* down() do not overlap, a loop that still re-arms timers and watches the deadline
\* is the one the manager would cancel, so that no failed bring-up, deadline or
\* shutdown leaves a second heartbeat behind.
KeptByOneLoop == ~raced => \A t \in Loops : At(t, "asleep") => task[On(t)] = t

\* overlaps() and the check in up(): two clusters that share a VM are never both
\* kept alive, or the release of one would stop the job of the other.
NoOverlap == \A c, d \in Clusters : Live(c) /\ Live(d) => ~Overlap(c, d)

\* The deadline of a fleet held for the queue ends with the next job's lease: one
\* that hangs over the cluster the scheduler works on was set by an operator, who
\* has taken the cluster over.
OnlyOperatorsLimitJobs ==
    \A c \in Clusters : On(Scheduler) = c /\ stopAt[c] # "none" => usedBy[c] \in Users

\* A job loses its cluster only to an operator's own up() or down(): as long as
\* calls do not overlap, neither a tick loop nor the failure of somebody else's
\* bring-up takes used_by from the scheduler before the job is over.
JobKeepsLease ==
    [][\A c \in Clusters :
        usedBy[c] = Scheduler /\ proc'[Scheduler] = proc[Scheduler] /\ ~raced' =>
            \/ usedBy'[c] \in {Scheduler} \cup Users
            \/ \E x \in Users : At(x, "idle") /\ At(x, "stopping")' /\ On(x)' = c]_vars

\* Whatever way a bring-up fails, the scheduler's lease is given back: a cluster
\* in use by the scheduler is one it is starting or running a job on.
LeaseNotLeaked == \A c \in Clusters : usedBy[c] = Scheduler => On(Scheduler) = c

\* A row that says running is backed by a tick loop, whatever polls, failed stops
\* and bring-ups happened; only a daemon's death leaves one behind.
RunningLive == \A c \in Clusters : row[c] = "running" /\ crashes = 0 => Live(c)

\* _mark_bringup_failed and HOLD_FOR_QUEUE_S: a fleet that is kept alive with
\* nobody using it has a deadline at which it stops.
IdleHasDeadline ==
    \A c \in Clusters : Live(c) /\ usedBy[c] = Nobody => stopAt[c] # "none"

\* A deadline that has come is acted on: the fleet stops, unless somebody leases
\* it again before the tick loop looks.
DeadlineFires ==
    \A c \in Clusters : Live(c) /\ stopAt[c] = "due" ~> ~Live(c) \/ stopAt[c] # "due"

\* A VM that stays up is under a tick loop or a call, or some cluster of it is
\* shown as up: the poller lets no VM accrue cost unseen.
StraysSeen ==
    \A v \in VMs :
        LET theirs == {c \in Clusters : v \in VMsOf[c]} IN
        vm[v] = "on" ~> \/ vm[v] # "on"
                        \/ \E c \in theirs : Live(c) \/ row[c] \in {"running", "unmanaged"}
                        \/ \E x \in Procs : On(x) \in theirs

\* The rows come right: a cluster shown as up with no tick loop behind it and its
\* VMs down, which a daemon's death leaves, or a poll that was overtaken by the stop
\* it did not see, is soon terminated.
ShownUp(c) == row[c] \in {"running", "unmanaged"} /\ ~Live(c)
StaleRowsFixed ==
    \A c \in Clusters :
        ShownUp(c) /\ UpAmong(VMsOf[c]) = {} ~> ~ShownUp(c) \/ UpAmong(VMsOf[c]) # {}
=============================================================================
