------------------------- MODULE ClusterLeaseProofs -------------------------
(***************************************************************************)
(* Theorems about ClusterLease, for every number of clusters, VMs, tick    *)
(* loops and operators, any overlap between clusters, and any number of    *)
(* faults and daemon deaths.                                               *)
(***************************************************************************)
EXTENDS ClusterLease, TLAPS

\* A coroutine is at work on a cluster exactly when it is not idle.
Placed ==
    \A x \in Procs : IF At(x, "idle") THEN On(x) = Nobody ELSE On(x) \in Clusters

TypeInv == TypeOK /\ Placed

LEMMA CallersAndLoops ==
    /\ Callers \subseteq Procs /\ Loops \subseteq Procs
    /\ Users \subseteq Callers /\ Scheduler \in Callers
    /\ \A c \in Clusters : c # Nobody
  BY LeaseAssumption DEF Callers, Procs

LEMMA Fields ==
    /\ Idle \in ProcState
    /\ \A p \in ProcState, pc \in PCs :
          [p EXCEPT !.pc = pc] \in ProcState
    /\ \A p \in ProcState, pc \in PCs, S \in SUBSET VMs :
          [[p EXCEPT !.pc = pc] EXCEPT !.vms = S] \in ProcState
    /\ \A pc \in PCs, c \in Clusters : Busy(pc, c) \in ProcState
    /\ \A pc \in PCs, c \in Clusters, r \in Reasons :
          [Busy(pc, c) EXCEPT !.reason = r] \in ProcState
  BY DEF Idle, ProcState, Busy, PCs, Reasons

LEMMA TypeInit == Init => TypeInv
  <1> SUFFICES ASSUME Init PROVE TypeInv
    OBVIOUS
  <1>1. proc \in [Procs -> ProcState] /\ Placed
    BY Fields DEF Init, Placed, Idle, At, On
  <1>2. polled \in [cluster : Clusters \cup {Nobody}, running : SUBSET VMs]
    BY DEF Init, NoPoll
  <1> QED BY <1>1, <1>2 DEF Init, TypeInv, TypeOK, RowStates

-----------------------------------------------------------------------------
(* Type correctness.                                                       *)

\* What a shutdown does as far as its first await.
LEMMA BeginShutdownType ==
    ASSUME TypeInv, NEW x \in Procs, NEW c \in Clusters, NEW r \in Reasons,
           BeginShutdown(x, c, r)
    PROVE  /\ row' \in [Clusters -> RowStates]
           /\ stopAt' \in [Clusters -> {"none", "ahead", "due"}]
           /\ task' \in [Clusters -> Loops \cup {Nobody}]
           /\ proc' \in [Procs -> ProcState]
           /\ Placed'
  <1>1. [Busy("stopping", c) EXCEPT !.reason = r] \in ProcState
    BY Fields DEF PCs
  <1>2. proc' \in [Procs -> ProcState]
    BY <1>1, Fields DEF TypeInv, TypeOK, BeginShutdown
  <1>3. Placed'
    BY CallersAndLoops DEF BeginShutdown, Placed, TypeInv, At, On, Idle, Busy
  <1> QED BY <1>2, <1>3 DEF BeginShutdown, TypeInv, TypeOK, RowStates

LEMMA LetGoType ==
    ASSUME TypeInv, NEW c, LetGo(c)
    PROVE  /\ keepalive' \in [Clusters -> {"none", "owner", "bare"}]
           /\ covered' \in [Clusters -> SUBSET VMs]
           /\ lock' \in [Clusters -> BOOLEAN]
  BY DEF LetGo, TypeInv, TypeOK

LEMMA CancelLoopType ==
    ASSUME TypeInv, NEW x, NEW c, CancelLoop(x, c)
    PROVE  /\ keepalive' \in [Clusters -> {"none", "owner", "bare"}]
           /\ covered' \in [Clusters -> SUBSET VMs]
           /\ lock' \in [Clusters -> BOOLEAN]
  BY LetGoType DEF CancelLoop, keeping, TypeInv, TypeOK

\* The steps of up().
LEMMA UpType ==
    ASSUME TypeInv, NEW x \in Callers, NEW c \in Clusters, NEW want \in LeaseSets[c],
           NEW ttl \in BOOLEAN, Up(x, c, want, ttl)
    PROVE  TypeInv'
  <1>1. x \in Procs /\ want \in SUBSET VMs
    BY CallersAndLoops, LeaseAssumption
  <1>2. [pc |-> "starting", cluster |-> c, vms |-> want, fresh |-> ~Live(c),
         reason |-> "none"] \in ProcState
    BY <1>1 DEF ProcState, PCs, Reasons, Live
  <1>3. proc' \in [Procs -> ProcState]
    BY <1>2 DEF Up, TypeInv, TypeOK
  <1>4. Placed'
    BY <1>1, CallersAndLoops DEF Up, Placed, TypeInv, TypeOK, At, On
  <1>5. /\ usedBy' \in [Clusters -> Callers \cup {Nobody}]
        /\ stopAt' \in [Clusters -> {"none", "ahead", "due"}]
        /\ row' \in [Clusters -> RowStates]
    BY DEF Up, TypeInv, TypeOK, RowStates
  <1> QED BY <1>3, <1>4, <1>5 DEF Up, Calls, TypeInv, TypeOK, keeping

LEMMA CallStepType ==
    ASSUME TypeInv, NEW x \in Callers, CallStep(x)
    PROVE  TypeInv'
  <1>1. x \in Procs
    BY CallersAndLoops
  <1>2. proc[x] \in ProcState /\ proc[x].vms \in SUBSET VMs
    BY <1>1 DEF TypeInv, TypeOK, ProcState
  <1>3. CASE StartVms(x)
    <2>1. proc' \in [Procs -> ProcState]
      BY <1>1, <1>2, <1>3, Fields DEF StartVms, Goto, TypeInv, TypeOK, PCs
    <2>2. Placed'
      BY <1>1, <1>3 DEF StartVms, Goto, TypeInv, TypeOK, Placed, At, On, ProcState
    <2> QED BY <1>3, <2>1, <2>2 DEF StartVms, TypeInv, TypeOK, limits, keeping
  <1>4. ASSUME NEW stopped \in SUBSET proc[x].vms, NEW up \in SUBSET proc[x].vms,
               StartFails(x, stopped, up)
        PROVE  TypeInv'
    <2>1. proc' \in [Procs -> ProcState]
      BY <1>1, <1>2, <1>4, Fields DEF StartFails, TypeInv, TypeOK, PCs
    <2>2. Placed'
      BY <1>1, <1>4 DEF StartFails, TypeInv, TypeOK, Placed, At, On, ProcState
    <2>3. faults' \in Nat
      BY <1>4 DEF StartFails, Fault, TypeInv, TypeOK
    <2> QED BY <1>4, <2>1, <2>2, <2>3 DEF StartFails, TypeInv, TypeOK, limits, keeping
  <1>5. ASSUME NEW left \in SUBSET VMs, CleanUp(x, left)
        PROVE  TypeInv'
    <2>1. On(x) \in Clusters
      BY <1>1, <1>5 DEF CleanUp, TypeInv, Placed, At, On
    <2>2. UpAmong(VMsOf[On(x)]) \ left \in SUBSET VMs
      BY <2>1, LeaseAssumption DEF UpAmong
    <2>3. proc' \in [Procs -> ProcState]
      BY <1>1, <1>2, <1>5, <2>2, Fields DEF CleanUp, TypeInv, TypeOK, PCs
    <2>4. Placed'
      BY <1>1, <1>5 DEF CleanUp, TypeInv, TypeOK, Placed, At, On, ProcState
    <2>5. faults' \in Nat
      BY <1>5 DEF CleanUp, Fault, TypeInv, TypeOK
    <2>6. vm' \in [VMs -> {"off", "on", "stopping"}]
      BY <1>5 DEF CleanUp, StopAll, TypeInv, TypeOK
    <2> QED BY <1>5, <2>3, <2>4, <2>5, <2>6 DEF CleanUp, TypeInv, TypeOK, limits, keeping
  <1>6. ASSUME MarkFailed(x)
        PROVE  /\ usedBy' \in [Clusters -> Callers \cup {Nobody}]
               /\ stopAt' \in [Clusters -> {"none", "ahead", "due"}]
               /\ row' \in [Clusters -> RowStates]
               /\ proc' \in [Procs -> ProcState]
               /\ Placed'
    BY <1>1, <1>6, Fields DEF MarkFailed, TypeInv, TypeOK, RowStates, Placed, At, On, Idle
  <1>7. CASE UpFails(x)
    BY <1>6, <1>7 DEF UpFails, TypeInv, TypeOK, limits, keeping
  <1>8. CASE UpLocked(x)
    BY <1>2, <1>6, <1>8 DEF UpLocked, TypeInv, TypeOK, limits
  <1>9. ASSUME At(x, "started")
        PROVE  On(x) \in Clusters /\ Return(x) \in ProcState
               /\ IF Return(x).pc = "idle" THEN Return(x).cluster = Nobody
                  ELSE Return(x).cluster \in Clusters
    <2>1. On(x) \in Clusters
      BY <1>1, <1>9 DEF TypeInv, Placed, At, On
    <2> QED BY <2>1, Fields DEF Return, PCs, Busy, Idle
  <1>10. CASE UpAgain(x)
    <2>1. proc' \in [Procs -> ProcState]
      BY <1>1, <1>9, <1>10 DEF UpAgain, TypeInv, TypeOK
    <2>2. Placed'
      BY <1>1, <1>9, <1>10 DEF UpAgain, TypeInv, TypeOK, Placed, At, On
    <2>3. covered' \in [Clusters -> SUBSET VMs]
      BY <1>2, <1>10 DEF UpAgain, TypeInv, TypeOK
    <2> QED BY <1>10, <2>1, <2>2, <2>3 DEF UpAgain, TypeInv, TypeOK, limits
  <1>11. CASE UpFresh(x)
    <2>1. NewLoop \in Loops
      BY <1>11 DEF UpFresh, NewLoop
    <2>2. Busy("asleep", On(x)) \in ProcState
      BY <1>9, <1>11, Fields DEF UpFresh, PCs
    <2>3. proc' \in [Procs -> ProcState]
      BY <1>1, <1>9, <1>11, <2>1, <2>2, CallersAndLoops DEF UpFresh, TypeInv, TypeOK
    <2>4. Placed'
      BY <1>1, <1>9, <1>11, <2>1, CallersAndLoops
         DEF UpFresh, TypeInv, TypeOK, Placed, At, On, Busy, Idle
    <2>5. /\ keepalive' \in [Clusters -> {"none", "owner", "bare"}]
          /\ covered' \in [Clusters -> SUBSET VMs]
          /\ lock' \in [Clusters -> BOOLEAN]
          /\ row' \in [Clusters -> RowStates]
          /\ task' \in [Clusters -> Loops \cup {Nobody}]
      BY <1>2, <1>11, <2>1 DEF UpFresh, TypeInv, TypeOK, RowStates
    <2> QED BY <1>11, <2>3, <2>4, <2>5 DEF UpFresh, TypeInv, TypeOK, limits
  <1> QED BY <1>3, <1>4, <1>5, <1>7, <1>8, <1>10, <1>11 DEF CallStep

\* The steps of _shutdown().
LEMMA ShutdownStepType ==
    ASSUME TypeInv, NEW x \in Procs, ShutdownStep(x)
    PROVE  TypeInv'
  <1>1. proc[x] \in ProcState
    BY DEF TypeInv, TypeOK
  <1>2. ASSUME NEW left \in SUBSET VMs, IssueStop(x, left)
        PROVE  TypeInv'
    <2>1. proc' \in [Procs -> ProcState]
      BY <1>1, <1>2, Fields DEF IssueStop, TypeInv, TypeOK, PCs
    <2>2. Placed'
      BY <1>1, <1>2 DEF IssueStop, TypeInv, TypeOK, Placed, At, On, ProcState
    <2>3. faults' \in Nat
      BY <1>2 DEF IssueStop, Fault, TypeInv, TypeOK
    <2>4. vm' \in [VMs -> {"off", "on", "stopping"}]
      BY <1>2 DEF IssueStop, StopAll, TypeInv, TypeOK
    <2> QED BY <1>2, <2>1, <2>2, <2>3, <2>4 DEF IssueStop, TypeInv, TypeOK, limits, keeping
  <1>3. ASSUME Stopped(x) PROVE On(x) \in Clusters
    BY <1>3 DEF Stopped, TypeInv, Placed, At, On
  <1>4. CASE StopSucceeds(x)
    <2>1. Busy("ending", On(x)) \in ProcState
      BY <1>3, <1>4, Fields DEF StopSucceeds, PCs
    <2>2. proc' \in [Procs -> ProcState]
      BY <1>4, <2>1, Fields DEF StopSucceeds, TypeInv, TypeOK
    <2>3. Placed'
      BY <1>3, <1>4 DEF StopSucceeds, TypeInv, TypeOK, Placed, At, On, Busy, Idle
    <2> QED BY <1>4, <2>2, <2>3, LetGoType
            DEF StopSucceeds, TypeInv, TypeOK, limits, RowStates
  <1>5. CASE StopFails(x)
    <2>1. proc' \in [Procs -> ProcState]
      BY <1>5, Fields DEF StopFails, TypeInv, TypeOK
    <2>2. Placed'
      BY <1>5 DEF StopFails, TypeInv, TypeOK, Placed, At, On, Idle
    <2> QED BY <1>5, <2>1, <2>2, LetGoType
            DEF StopFails, TypeInv, TypeOK, limits, RowStates
  <1>6. CASE StopFailsAtDeadline(x)
    <2>1. "heartbeat" \in Reasons
      BY DEF Reasons
    <2> QED BY <1>3, <1>6, <2>1, LetGoType, BeginShutdownType
            DEF StopFailsAtDeadline, TypeInv, TypeOK, limits
  <1> QED BY <1>2, <1>4, <1>5, <1>6 DEF ShutdownStep

\* What operators, the end of a job and the tick loops begin.
LEMMA BeginningsType ==
    ASSUME TypeInv,
           \/ \E x \in Users, c \in Clusters, force \in BOOLEAN : Down(x, c, force)
           \/ JobEnds
           \/ \E t \in Loops : Deadline(t) \/ HeartbeatFails(t) \/ LoopEnds(t)
    PROVE  TypeInv'
  <1>1. \A r \in {"user", "deadline", "heartbeat"} : r \in Reasons
    BY DEF Reasons
  <1>2. ASSUME NEW x \in Users, NEW c \in Clusters, NEW force \in BOOLEAN,
               Down(x, c, force)
        PROVE  TypeInv'
    <2>1. x \in Procs
      BY CallersAndLoops
    <2> QED BY <1>1, <1>2, <2>1, BeginShutdownType, CancelLoopType
            DEF Down, Calls, TypeInv, TypeOK
  <1>3. Scheduler \in Procs
    BY CallersAndLoops
  <1>4. CASE HandoffKeep
    <2>1. proc' \in [Procs -> ProcState]
      BY <1>4, Fields DEF HandoffKeep, TypeInv, TypeOK
    <2>2. Placed'
      BY <1>3, <1>4 DEF HandoffKeep, TypeInv, TypeOK, Placed, At, On, Idle
    <2> QED BY <1>4, <2>1, <2>2 DEF HandoffKeep, TypeInv, TypeOK, limits, keeping
  <1>5. CASE HandoffStop
    <2>1. On(Scheduler) \in Clusters
      BY <1>3, <1>5 DEF HandoffStop, TypeInv, Placed, At, On
    <2> QED BY <1>1, <1>3, <1>5, <2>1, BeginShutdownType, CancelLoopType
            DEF HandoffStop, Calls, TypeInv, TypeOK
  <1>6. ASSUME NEW t \in Loops PROVE t \in Procs
    BY CallersAndLoops
  <1>7. ASSUME NEW t \in Loops, At(t, "asleep") PROVE On(t) \in Clusters
    BY <1>6, <1>7 DEF TypeInv, Placed, At, On
  <1>8. ASSUME NEW t \in Loops, Deadline(t) PROVE TypeInv'
    BY <1>1, <1>6, <1>7, <1>8, BeginShutdownType, CancelLoopType
       DEF Deadline, TypeInv, TypeOK, limits
  <1>9. ASSUME NEW t \in Loops, HeartbeatFails(t) PROVE TypeInv'
    <2>1. faults' \in Nat
      BY <1>9 DEF HeartbeatFails, Fault, TypeInv, TypeOK
    <2> QED BY <1>1, <1>6, <1>7, <1>9, <2>1, BeginShutdownType, CancelLoopType
            DEF HeartbeatFails, TypeInv, TypeOK
  <1>10. ASSUME NEW t \in Loops, LoopEnds(t) PROVE TypeInv'
    <2>1. proc' \in [Procs -> ProcState]
      BY <1>10, Fields DEF LoopEnds, TypeInv, TypeOK
    <2>2. Placed'
      BY <1>6, <1>10 DEF LoopEnds, TypeInv, TypeOK, Placed, At, On, Idle
    <2> QED BY <1>10, <2>1, <2>2, LetGoType DEF LoopEnds, TypeInv, TypeOK, limits
  <1> QED BY <1>2, <1>4, <1>5, <1>8, <1>9, <1>10 DEF JobEnds

\* The poller, the VMs, the clock and the end of the daemon.
LEMMA WorldType ==
    ASSUME TypeInv,
           \/ \E c \in Clusters : PollStep(c) \/ TimePasses(c)
           \/ \E v \in VMs : VmDown(v) \/ PowersOff(v)
           \/ Crash
    PROVE  TypeInv'
  <1>1. ASSUME NEW c \in Clusters, PollRead(c) PROVE TypeInv'
    <2>1. {v \in VMsOf[c] : vm[v] = "on"} \in SUBSET VMs
      BY LeaseAssumption
    <2> QED BY <1>1, <2>1 DEF PollRead, TypeInv, TypeOK, Placed, At, On, limits, keeping
  <1>2. ASSUME NEW c \in Clusters, Reconcile(c) PROVE TypeInv'
    BY <1>2 DEF Reconcile, NoPoll, RowStates, TypeInv, TypeOK, Placed, At, On, limits,
                keeping
  <1>3. ASSUME NEW c \in Clusters, TimePasses(c) PROVE TypeInv'
    BY <1>3 DEF TimePasses, TypeInv, TypeOK, Placed, At, On, limits, keeping
  <1>4. ASSUME NEW v \in VMs, VmDown(v) \/ PowersOff(v) PROVE TypeInv'
    BY <1>4 DEF VmDown, PowersOff, TypeInv, TypeOK, Placed, At, On, limits, keeping
  <1>5. CASE Crash
    <2>1. proc' \in [Procs -> ProcState] /\ Placed'
      BY <1>5, Fields DEF Crash, Placed, Idle, At, On
    <2>2. polled' \in [cluster : Clusters \cup {Nobody}, running : SUBSET VMs]
      BY <1>5 DEF Crash, NoPoll
    <2>3. row' \in [Clusters -> RowStates] /\ crashes' \in Nat
      BY <1>5 DEF Crash, TypeInv, TypeOK, RowStates
    <2> QED BY <1>5, <2>1, <2>2, <2>3 DEF Crash, TypeInv, TypeOK
  <1> QED BY <1>1, <1>2, <1>3, <1>4, <1>5 DEF PollStep

LEMMA TypeStep == TypeInv /\ [Next]_vars => TypeInv'
  <1> SUFFICES ASSUME TypeInv, [Next]_vars PROVE TypeInv'
    OBVIOUS
  <1>1. CASE UNCHANGED vars
    BY <1>1 DEF vars, limits, keeping, TypeInv, TypeOK, Placed, At, On
  <1>2. ASSUME NEW x \in Callers, NEW c \in Clusters, NEW want \in LeaseSets[c],
               NEW ttl \in (IF x \in Users THEN BOOLEAN ELSE {FALSE}),
               Up(x, c, want, ttl)
        PROVE  TypeInv'
    <2>1. ttl \in BOOLEAN
      OBVIOUS
    <2> QED BY <1>2, <2>1, UpType
  <1> QED BY <1>1, <1>2, CallStepType, ShutdownStepType, BeginningsType, WorldType DEF Next

\* Every reachable state is well-typed.
THEOREM TypeCorrect == Spec => []TypeOK
  <1>1. Spec => []TypeInv
    BY TypeInit, TypeStep, PTL DEF Spec
  <1>2. TypeInv => TypeOK
    BY DEF TypeInv
  <1> QED BY <1>1, <1>2, PTL

-----------------------------------------------------------------------------
(* Leases, deadlines and rows, whoever calls.                              *)

\* The scheduler has no lease any more by the time it stops a fleet.
LeaseInv ==
    /\ LeaseNotLeaked
    /\ proc[Scheduler].pc \in {"stopping", "draining"} =>
          \A c \in Clusters : usedBy[c] # Scheduler

ClaimInv == LeaseInv /\ OnlyOperatorsLimitJobs /\ RunningLive

LEMMA ClaimInit == Init => ClaimInv
  BY CallersAndLoops, LeaseAssumption
     DEF Init, ClaimInv, LeaseInv, LeaseNotLeaked, OnlyOperatorsLimitJobs, RunningLive,
         Idle, Callers, Procs

\* A step that leaves the claims alone: no lease, deadline or running row appears,
\* no tick loop goes, and the scheduler stays where it is or has no lease.
Claimless ==
    /\ \A c \in Clusters :
          /\ usedBy'[c] \in {usedBy[c], Nobody}
          /\ stopAt'[c] # "none" => stopAt[c] # "none" /\ usedBy'[c] = usedBy[c]
          /\ row'[c] = "running" => row[c] = "running"
    /\ UNCHANGED <<task, crashes>>
    /\ \/ /\ On(Scheduler)' = On(Scheduler)
          /\ proc'[Scheduler].pc \in {"stopping", "draining"} =>
                proc[Scheduler].pc \in {"stopping", "draining"}
       \/ /\ proc'[Scheduler] = Idle
          /\ \A c \in Clusters : usedBy'[c] # Scheduler

LEMMA ClaimlessKeeps ==
    ASSUME TypeInv, ClaimInv, Claimless
    PROVE  ClaimInv'
  <1>1. Scheduler # Nobody
    BY CallersAndLoops, LeaseAssumption DEF Callers, Procs
  <1>2. LeaseNotLeaked'
    BY <1>1 DEF Claimless, ClaimInv, LeaseInv, LeaseNotLeaked, On
  <1>3. (proc'[Scheduler].pc \in {"stopping", "draining"} =>
            \A c \in Clusters : usedBy'[c] # Scheduler)
    BY <1>1 DEF Claimless, ClaimInv, LeaseInv, Idle
  <1>4. OnlyOperatorsLimitJobs' /\ RunningLive'
    BY <1>1, CallersAndLoops
       DEF Claimless, ClaimInv, OnlyOperatorsLimitJobs, RunningLive, Live, On, Idle
  <1> QED BY <1>2, <1>3, <1>4 DEF ClaimInv, LeaseInv

\* A shutdown that starts on a cluster whose lease has been given back, or that is
\* not the scheduler's.
LEMMA BeginShutdownClaims ==
    ASSUME TypeInv, ClaimInv, NEW x \in Procs, NEW c \in Clusters, NEW r,
           BeginShutdown(x, c, r), UNCHANGED crashes,
           \A d \in Clusters : usedBy'[d] \in {usedBy[d], Nobody},
           \A d \in Clusters \ {c} : usedBy'[d] = usedBy[d],
           x = Scheduler => \A d \in Clusters : usedBy'[d] # Scheduler
    PROVE  ClaimInv'
  <1>1. /\ Scheduler \in Procs /\ Scheduler # Nobody /\ Scheduler \notin Loops
    BY CallersAndLoops, LeaseAssumption DEF Callers, Procs
  <1>2. task[c] # Scheduler
    BY <1>1 DEF TypeInv, TypeOK
  <1>3. x # Scheduler => proc'[Scheduler] = proc[Scheduler]
    BY <1>1, <1>2 DEF BeginShutdown
  <1>4. LeaseInv'
    BY <1>1, <1>3 DEF ClaimInv, LeaseInv, LeaseNotLeaked, On
  <1>5. OnlyOperatorsLimitJobs'
    <2>1. x = Scheduler => On(Scheduler)' = c
      BY <1>1 DEF BeginShutdown, On, Busy, Idle, TypeInv, TypeOK
    <2> QED BY <1>1, <1>3, <2>1
            DEF BeginShutdown, ClaimInv, OnlyOperatorsLimitJobs, On, TypeInv, TypeOK
  <1>6. RunningLive'
    BY DEF BeginShutdown, ClaimInv, RunningLive, Live, TypeInv, TypeOK
  <1> QED BY <1>4, <1>5, <1>6 DEF ClaimInv

LEMMA UpClaims ==
    ASSUME TypeInv, ClaimInv, NEW x \in Callers, NEW c \in Clusters, NEW want,
           NEW ttl \in (IF x \in Users THEN BOOLEAN ELSE {FALSE}), Up(x, c, want, ttl)
    PROVE  ClaimInv'
  <1>1. /\ Scheduler \in Procs /\ Scheduler # Nobody /\ Scheduler \notin Users
        /\ x \in Procs
    BY CallersAndLoops, LeaseAssumption DEF Callers, Procs
  <1>2. ASSUME x = Scheduler
        PROVE  \A d \in Clusters : usedBy[d] # Scheduler
    BY <1>1, <1>2, CallersAndLoops
       DEF Up, TypeInv, Placed, ClaimInv, LeaseInv, LeaseNotLeaked, At, On
  <1>3. LeaseInv'
    <2>1. CASE x = Scheduler
      BY <1>1, <1>2, <2>1 DEF Up, LeaseInv, LeaseNotLeaked, On, TypeInv, TypeOK
    <2>2. CASE x # Scheduler
      BY <1>1, <2>2 DEF Up, ClaimInv, LeaseInv, LeaseNotLeaked, On, TypeInv, TypeOK
    <2> QED BY <2>1, <2>2
  <1>4. OnlyOperatorsLimitJobs'
    BY <1>1 DEF Up, ClaimInv, OnlyOperatorsLimitJobs, On, TypeInv, TypeOK
  <1>5. RunningLive'
    BY DEF Up, Calls, ClaimInv, RunningLive, Live, TypeInv, TypeOK
  <1> QED BY <1>3, <1>4, <1>5 DEF ClaimInv

LEMMA CallStepClaims ==
    ASSUME TypeInv, ClaimInv, NEW x \in Callers, CallStep(x)
    PROVE  ClaimInv'
  <1>1. /\ Scheduler \in Procs /\ Scheduler # Nobody /\ x \in Procs
        /\ Scheduler \notin Loops
    BY CallersAndLoops, LeaseAssumption DEF Callers, Procs
  <1>2. CASE StartVms(x)
    BY <1>1, <1>2, ClaimlessKeeps DEF StartVms, Goto, Claimless, On, TypeInv, TypeOK, limits
  <1>3. ASSUME NEW stopped, NEW up, StartFails(x, stopped, up)
        PROVE  ClaimInv'
    BY <1>1, <1>3, ClaimlessKeeps DEF StartFails, Claimless, On, TypeInv, TypeOK
  <1>4. ASSUME NEW left, CleanUp(x, left)
        PROVE  ClaimInv'
    BY <1>1, <1>4, ClaimlessKeeps DEF CleanUp, Claimless, On, TypeInv, TypeOK
  <1>5. ASSUME MarkFailed(x), ~At(x, "idle"), UNCHANGED <<task, crashes>>
        PROVE  ClaimInv'
    <2>1. On(x) \in Clusters
      BY <1>1, <1>5 DEF TypeInv, Placed
    <2>2. \A c \in Clusters :
             /\ usedBy'[c] \in {usedBy[c], Nobody}
             /\ stopAt'[c] # "none" => stopAt[c] # "none" /\ usedBy'[c] = usedBy[c]
             /\ row'[c] = "running" => row[c] = "running"
      BY <1>5 DEF MarkFailed, TypeInv, TypeOK
    <2>3. x = Scheduler => proc'[x] = Idle /\ \A c \in Clusters : usedBy'[c] # Scheduler
      BY <1>1, <1>5, <2>1 DEF MarkFailed, TypeInv, TypeOK, ClaimInv, LeaseInv, LeaseNotLeaked
    <2>4. x # Scheduler => proc'[Scheduler] = proc[Scheduler]
      BY <1>5 DEF MarkFailed
    <2> QED BY <1>5, <2>2, <2>3, <2>4, ClaimlessKeeps DEF Claimless, On
  <1>6. CASE UpFails(x)
    BY <1>5, <1>6 DEF UpFails, limits, At
  <1>7. CASE UpLocked(x)
    BY <1>5, <1>7 DEF UpLocked, limits, At
  <1>8. Return(Scheduler).cluster = On(Scheduler)
        /\ Return(Scheduler).pc = "holding"
    BY DEF Return, Busy, Idle, On
  <1>9. CASE UpAgain(x)
    BY <1>1, <1>8, <1>9, ClaimlessKeeps
       DEF UpAgain, Claimless, On, TypeInv, TypeOK, limits
  <1>10. CASE UpFresh(x)
    <2>1. NewLoop \in Loops /\ NewLoop # Nobody
      BY <1>10, LeaseAssumption DEF UpFresh, NewLoop, Procs
    <2>2. On(Scheduler)' = On(Scheduler)
          /\ (proc'[Scheduler].pc \in {"stopping", "draining"} =>
                proc[Scheduler].pc \in {"stopping", "draining"})
      BY <1>1, <1>8, <1>10, <2>1 DEF UpFresh, On, TypeInv, TypeOK
    <2>3. LeaseInv' /\ OnlyOperatorsLimitJobs'
      BY <1>10, <2>2
         DEF UpFresh, ClaimInv, LeaseInv, LeaseNotLeaked, OnlyOperatorsLimitJobs
    <2>4. RunningLive'
      BY <1>10, <2>1 DEF UpFresh, ClaimInv, RunningLive, Live, TypeInv, TypeOK, limits
    <2> QED BY <2>3, <2>4 DEF ClaimInv
  <1> QED BY <1>2, <1>3, <1>4, <1>6, <1>7, <1>9, <1>10 DEF CallStep

LEMMA ShutdownStepClaims ==
    ASSUME TypeInv, ClaimInv, NEW x \in Procs, ShutdownStep(x)
    PROVE  ClaimInv'
  <1>1. Scheduler \in Procs /\ Scheduler # Nobody /\ Scheduler \notin Loops
    BY CallersAndLoops, LeaseAssumption DEF Callers, Procs
  <1>2. ASSUME NEW left, IssueStop(x, left) PROVE ClaimInv'
    BY <1>1, <1>2, ClaimlessKeeps DEF IssueStop, Claimless, On, At, TypeInv, TypeOK
  <1>3. ASSUME Stopped(x), x = Scheduler
        PROVE  \A c \in Clusters : usedBy[c] # Scheduler
    BY <1>3 DEF Stopped, At, ClaimInv, LeaseInv
  <1>4. CASE StopSucceeds(x)
    <2>1. \A c \in Clusters : row'[c] = "running" => row[c] = "running"
      BY <1>4 DEF StopSucceeds, TypeInv, TypeOK
    <2>2. x # Scheduler => proc'[Scheduler] = proc[Scheduler]
      BY <1>4 DEF StopSucceeds
    <2>3. x = Scheduler => proc'[Scheduler] = Idle
      BY <1>1, <1>4 DEF StopSucceeds, TypeInv, TypeOK
    <2> QED BY <1>3, <1>4, <2>1, <2>2, <2>3, ClaimlessKeeps
            DEF StopSucceeds, Claimless, On, limits
  <1>5. CASE StopFails(x)
    <2>1. \A c \in Clusters : row'[c] = "running" => row[c] = "running"
      BY <1>5 DEF StopFails, TypeInv, TypeOK
    <2>2. x # Scheduler => proc'[Scheduler] = proc[Scheduler]
      BY <1>5 DEF StopFails
    <2>3. x = Scheduler => proc'[Scheduler] = Idle
      BY <1>1, <1>5 DEF StopFails, TypeInv, TypeOK
    <2> QED BY <1>3, <1>5, <2>1, <2>2, <2>3, ClaimlessKeeps
            DEF StopFails, Claimless, On, limits
  <1>6. CASE StopFailsAtDeadline(x)
    <2>1. On(x) \in Clusters
      BY <1>6 DEF StopFailsAtDeadline, Stopped, TypeInv, Placed, At, On
    <2> QED BY <1>3, <1>6, <2>1, BeginShutdownClaims DEF StopFailsAtDeadline, limits
  <1> QED BY <1>2, <1>4, <1>5, <1>6 DEF ShutdownStep

LEMMA BeginningsClaims ==
    ASSUME TypeInv, ClaimInv,
           \/ \E x \in Users, c \in Clusters, force \in BOOLEAN : Down(x, c, force)
           \/ JobEnds
           \/ \E t \in Loops : Deadline(t) \/ HeartbeatFails(t) \/ LoopEnds(t)
    PROVE  ClaimInv'
  <1>1. /\ Scheduler \in Procs /\ Scheduler # Nobody
        /\ Scheduler \notin Loops /\ Scheduler \notin Users
        /\ Users \subseteq Procs /\ Loops \subseteq Procs
    BY CallersAndLoops, LeaseAssumption DEF Callers, Procs
  <1>2. ASSUME NEW x \in Users, NEW c \in Clusters, NEW force \in BOOLEAN,
               Down(x, c, force)
        PROVE  ClaimInv'
    <2>1. /\ \A d \in Clusters : usedBy'[d] \in {usedBy[d], Nobody}
          /\ \A d \in Clusters \ {c} : usedBy'[d] = usedBy[d]
      BY <1>2 DEF Down, TypeInv, TypeOK
    <2> QED BY <1>1, <1>2, <2>1, BeginShutdownClaims DEF Down, Calls
  <1>3. ASSUME At(Scheduler, "holding"), usedBy' = [usedBy EXCEPT ![On(Scheduler)] = Nobody]
        PROVE  /\ \A d \in Clusters :
                     usedBy'[d] \in {usedBy[d], Nobody} /\ usedBy'[d] # Scheduler
               /\ \A d \in Clusters \ {On(Scheduler)} : usedBy'[d] = usedBy[d]
    BY <1>1, <1>3 DEF ClaimInv, LeaseInv, LeaseNotLeaked, TypeInv, TypeOK
  <1>4. CASE HandoffKeep
    <2>1. proc'[Scheduler] = Idle
      BY <1>1, <1>4 DEF HandoffKeep, TypeInv, TypeOK
    <2>2. LeaseInv'
      BY <1>3, <1>4, <2>1 DEF HandoffKeep, LeaseInv, LeaseNotLeaked, Idle
    <2>3. OnlyOperatorsLimitJobs' /\ RunningLive'
      BY <1>3, <1>4, <2>1, CallersAndLoops
         DEF HandoffKeep, OnlyOperatorsLimitJobs, RunningLive, ClaimInv, Live, limits, On, Idle
    <2> QED BY <2>2, <2>3 DEF ClaimInv
  <1>5. CASE HandoffStop
    <2>1. On(Scheduler) \in Clusters
      BY <1>1, <1>5 DEF HandoffStop, TypeInv, Placed, At, On
    <2> QED BY <1>1, <1>3, <1>5, <2>1, BeginShutdownClaims DEF HandoffStop, Calls
  <1>6. ASSUME NEW t \in Loops, At(t, "asleep") PROVE On(t) \in Clusters
    BY <1>1, <1>6 DEF TypeInv, Placed, At, On
  <1>7. ASSUME NEW t \in Loops, Deadline(t) PROVE ClaimInv'
    <2>1. /\ \A d \in Clusters : usedBy'[d] \in {usedBy[d], Nobody}
          /\ \A d \in Clusters \ {On(t)} : usedBy'[d] = usedBy[d]
      BY <1>7 DEF Deadline, TypeInv, TypeOK
    <2> QED BY <1>1, <1>6, <1>7, <2>1, BeginShutdownClaims DEF Deadline, limits
  <1>8. ASSUME NEW t \in Loops, HeartbeatFails(t) PROVE ClaimInv'
    BY <1>1, <1>6, <1>8, BeginShutdownClaims DEF HeartbeatFails
  <1>9. ASSUME NEW t \in Loops, LoopEnds(t) PROVE ClaimInv'
    BY <1>1, <1>9, ClaimlessKeeps DEF LoopEnds, Claimless, On, TypeInv, TypeOK, limits
  <1> QED BY <1>2, <1>4, <1>5, <1>7, <1>8, <1>9 DEF JobEnds

LEMMA WorldClaims ==
    ASSUME TypeInv, ClaimInv,
           \/ \E c \in Clusters : PollStep(c) \/ TimePasses(c)
           \/ \E v \in VMs : VmDown(v) \/ PowersOff(v)
           \/ Crash
    PROVE  ClaimInv'
  <1>1. ASSUME NEW c \in Clusters, PollStep(c) \/ TimePasses(c) PROVE Claimless
    BY <1>1 DEF PollStep, PollRead, Reconcile, TimePasses, Claimless, TypeInv, TypeOK,
                On, limits
  <1>2. ASSUME NEW v \in VMs, VmDown(v) \/ PowersOff(v) PROVE Claimless
    BY <1>2 DEF VmDown, PowersOff, Claimless, On, limits
  <1>3. CASE Crash
    <2>1. Scheduler # Nobody
      BY CallersAndLoops, LeaseAssumption DEF Callers, Procs
    <2>2. crashes' # 0
      BY <1>3 DEF Crash, TypeInv, TypeOK
    <2> QED BY <1>3, <2>1, <2>2
            DEF Crash, ClaimInv, LeaseInv, LeaseNotLeaked, OnlyOperatorsLimitJobs,
                RunningLive
  <1> QED BY <1>1, <1>2, <1>3, ClaimlessKeeps

LEMMA ClaimStep == TypeInv /\ ClaimInv /\ [Next]_vars => ClaimInv'
  <1> SUFFICES ASSUME TypeInv, ClaimInv, [Next]_vars PROVE ClaimInv'
    OBVIOUS
  <1>1. CASE UNCHANGED vars
    BY <1>1, ClaimlessKeeps DEF vars, limits, Claimless, On
  <1> QED BY <1>1, UpClaims, CallStepClaims, ShutdownStepClaims, BeginningsClaims,
             WorldClaims DEF Next

LEMMA ClaimsHold == Spec => []ClaimInv
  <1>1. Spec => []TypeInv
    BY TypeInit, TypeStep, PTL DEF Spec
  <1> QED BY <1>1, ClaimInit, ClaimStep, PTL DEF Spec

\* However its bring-ups end, the scheduler keeps no lease it is not using.
THEOREM LeasesReturned == Spec => []LeaseNotLeaked
  <1>1. ClaimInv => LeaseNotLeaked
    BY DEF ClaimInv, LeaseInv
  <1> QED BY <1>1, ClaimsHold, PTL

\* A deadline over the cluster the scheduler works on is an operator's, who has
\* taken it over: the deadline of a fleet held for the queue is gone by then.
THEOREM DeadlinesAreOperators == Spec => []OnlyOperatorsLimitJobs
  <1>1. ClaimInv => OnlyOperatorsLimitJobs
    BY DEF ClaimInv
  <1> QED BY <1>1, ClaimsHold, PTL

\* A running row has a tick loop behind it as long as the daemon lives.
THEOREM RunningBacked == Spec => []RunningLive
  <1>1. ClaimInv => RunningLive
    BY DEF ClaimInv
  <1> QED BY <1>1, ClaimsHold, PTL

-----------------------------------------------------------------------------
(* Tick loops and leases, as long as calls of up() and down() do not overlap. *)

\* A caller that is bringing a cluster up.
Bringing == {"starting", "started", "failed", "cleaning"}

\* One call at a time.  While it brings a cluster up, no cluster that shares its
\* VMs is up, nor the cluster itself if its tick loop is to be created, and what an
\* operator brings up is not the scheduler's.
AloneInv ==
    /\ NoOverlap
    /\ \A t \in Loops : At(t, "asleep") => task[On(t)] = t
    /\ \A x, y \in Callers : Inside(x) /\ Inside(y) => x = y
    /\ \A x \in Callers : proc[x].pc \in {"starting", "started"} =>
          /\ \A d \in Clusters : Overlap(On(x), d) => ~Live(d)
          /\ proc[x].fresh => ~Live(On(x))
    /\ \A x \in Users : proc[x].pc \in Bringing => usedBy[On(x)] # Scheduler

SerialInv == ~raced => AloneInv

LEMMA AloneInit == Init => AloneInv
  BY CallersAndLoops DEF Init, AloneInv, NoOverlap, Live, At, Idle, Inside, Bringing

\* A step that starts no tick loop and no call, and stops no tick loop.
Loopless ==
    /\ UNCHANGED task
    /\ \A t \in Loops : proc'[t].pc = "asleep" => proc[t].pc = "asleep" /\ proc'[t] = proc[t]
    /\ \A x \in Callers :
          /\ Inside(x)' => Inside(x)
          /\ proc'[x].pc \in {"starting", "started"} =>
                /\ proc[x].pc \in {"starting", "started"}
                /\ On(x)' = On(x) /\ proc'[x].fresh = proc[x].fresh
          /\ proc'[x].pc \in Bringing => proc[x].pc \in Bringing /\ On(x)' = On(x)
    /\ \A c \in Clusters : usedBy'[c] \in {usedBy[c], Nobody}

LEMMA LooplessKeeps ==
    ASSUME TypeInv, AloneInv, Loopless
    PROVE  AloneInv'
  <1>1. NoOverlap'
    BY DEF AloneInv, Loopless, NoOverlap, Live, Overlap
  <1>2. \A t \in Loops : At(t, "asleep")' => task'[On(t)'] = t
    BY DEF AloneInv, Loopless, At, On
  <1>3. \A x, y \in Callers : Inside(x)' /\ Inside(y)' => x = y
    BY DEF AloneInv, Loopless
  <1>4. ASSUME NEW x \in Callers, proc'[x].pc \in {"starting", "started"}
        PROVE  /\ \A d \in Clusters : Overlap(On(x)', d) => ~Live(d)'
               /\ proc'[x].fresh => ~Live(On(x))'
    BY <1>4 DEF AloneInv, Loopless, Live, On
  <1>5. ASSUME NEW x \in Users, proc'[x].pc \in Bringing
        PROVE  usedBy'[On(x)'] # Scheduler
    <2>1. x \in Callers /\ x \in Procs /\ Scheduler # Nobody
      BY CallersAndLoops, LeaseAssumption DEF Callers, Procs
    <2>2. On(x)' = On(x) /\ proc[x].pc \in Bringing
      BY <1>5, <2>1 DEF Loopless
    <2>3. On(x) \in Clusters /\ usedBy[On(x)] # Scheduler
      BY <1>5, <2>1, <2>2 DEF AloneInv, TypeInv, Placed, At, Bringing
    <2> QED BY <2>1, <2>2, <2>3 DEF Loopless
  <1> QED BY <1>1, <1>2, <1>3, <1>4, <1>5 DEF AloneInv, Overlap

\* A shutdown begins: by a tick loop, or by the only caller.
LEMMA BeginShutdownAlone ==
    ASSUME TypeInv, AloneInv, NEW x \in Procs, NEW c \in Clusters, NEW r,
           BeginShutdown(x, c, r),
           x \in Callers => \A y \in Callers \ {x} : ~Inside(y),
           \A d \in Clusters : usedBy'[d] \in {usedBy[d], Nobody}
    PROVE  AloneInv'
  <1>1. /\ Callers \subseteq Procs /\ Users \subseteq Callers /\ Loops \subseteq Procs
        /\ Scheduler # Nobody /\ Nobody \notin Callers
        /\ \A y \in Callers : y \notin Loops
    BY CallersAndLoops, LeaseAssumption DEF Callers, Procs
  <1>2. \A d \in Clusters : Live(d)' => Live(d)
    BY DEF BeginShutdown, Live, TypeInv, TypeOK
  <1>3. NoOverlap'
    BY <1>2 DEF AloneInv, NoOverlap, Overlap
  <1>4. ASSUME NEW t \in Loops, proc'[t].pc = "asleep"
        PROVE  task'[proc'[t].cluster] = t
    <2>1. t # x /\ t # task[c] /\ proc'[t] = proc[t]
      BY <1>1, <1>4 DEF BeginShutdown, Busy, Idle
    <2>2. task[On(t)] = t
      BY <1>4, <2>1 DEF AloneInv, At
    <2> QED BY <2>1, <2>2 DEF BeginShutdown, On, TypeInv, TypeOK
  <1>5. \A y \in Callers : y # task[c]
    BY <1>1 DEF TypeInv, TypeOK
  <1>6. \A y \in Callers \ {x} : proc'[y] = proc[y]
    BY <1>1, <1>5 DEF BeginShutdown
  <1>7. x \in Callers => proc'[x].pc = "stopping"
    BY DEF BeginShutdown, Busy, Idle
  <1>8. ASSUME NEW y \in Callers, NEW z \in Callers, Inside(y)', Inside(z)'
        PROVE  y = z
    BY <1>6, <1>8 DEF AloneInv, Inside
  <1>9. ASSUME NEW y \in Callers, proc'[y].pc \in Bringing
        PROVE  proc'[y] = proc[y] /\ On(y) \in Clusters
    <2>1. proc'[y] = proc[y]
      BY <1>6, <1>7, <1>9 DEF Bringing
    <2> QED BY <1>1, <1>9, <2>1 DEF TypeInv, Placed, At, Bringing
  <1>10. ASSUME NEW y \in Callers, proc'[y].pc \in {"starting", "started"}
         PROVE  /\ \A d \in Clusters : Overlap(On(y)', d) => ~Live(d)'
                /\ proc'[y].fresh => ~Live(On(y))'
    <2>1. proc'[y] = proc[y] /\ On(y) \in Clusters
      BY <1>9, <1>10 DEF Bringing
    <2> QED BY <1>2, <1>10, <2>1 DEF AloneInv, On
  <1>11. ASSUME NEW y \in Users, proc'[y].pc \in Bringing
         PROVE  usedBy'[On(y)'] # Scheduler
    <2>1. proc'[y] = proc[y] /\ On(y) \in Clusters
      BY <1>1, <1>9, <1>11
    <2> QED BY <1>1, <1>11, <2>1 DEF AloneInv, On
  <1> QED BY <1>3, <1>4, <1>8, <1>10, <1>11 DEF AloneInv, Overlap, At, On

\* up() checks for overlapping fleets; between that and the tick loop it creates
\* nobody else can create one.
LEMMA UpAlone ==
    ASSUME TypeInv, AloneInv, NEW x \in Callers, NEW c \in Clusters, NEW want, NEW ttl,
           Up(x, c, want, ttl), \A y \in Callers \ {x} : ~Inside(y)
    PROVE  AloneInv'
  <1>1. /\ Callers \subseteq Procs /\ Users \subseteq Callers /\ Loops \subseteq Procs
        /\ Scheduler \notin Users /\ x \notin Loops
    BY CallersAndLoops, LeaseAssumption DEF Callers, Procs
  <1>2. proc'[x].pc = "starting" /\ On(x)' = c /\ proc'[x].fresh = ~Live(c)
    BY <1>1 DEF Up, On, TypeInv, TypeOK
  <1>3. \A y \in Procs \ {x} : proc'[y] = proc[y]
    BY DEF Up, TypeInv, TypeOK
  <1>4. UNCHANGED task
    BY DEF Up
  <1>5. NoOverlap' /\ \A t \in Loops : At(t, "asleep")' => task'[On(t)'] = t
    BY <1>1, <1>3, <1>4 DEF AloneInv, NoOverlap, Live, Overlap, At, On
  <1>6. \A d \in Clusters : Overlap(c, d) => ~Live(d)
    BY DEF Up, AloneInv, NoOverlap, OverlappingActive
  <1>7. \A y \in Callers \ {x} : ~Inside(y)' /\ proc'[y].pc \notin Bringing
    BY <1>1, <1>3 DEF Inside, Bringing
  <1>8. x \in Users => usedBy'[c] # Scheduler
    BY <1>1 DEF Up, TypeInv, TypeOK
  <1>9. \A y, z \in Callers : Inside(y)' /\ Inside(z)' => y = z
    BY <1>7
  <1>10. \A y \in Callers : proc'[y].pc \in {"starting", "started"} => y = x
    BY <1>7 DEF Bringing
  <1>11. \A y \in Users : proc'[y].pc \in Bringing => y = x
    BY <1>1, <1>7
  <1> QED BY <1>2, <1>4, <1>5, <1>6, <1>8, <1>9, <1>10, <1>11
          DEF AloneInv, Live, Overlap, On

LEMMA CallStepAlone ==
    ASSUME TypeInv, AloneInv, NEW x \in Callers, CallStep(x)
    PROVE  AloneInv'
  <1>1. /\ Callers \subseteq Procs /\ Users \subseteq Callers /\ Loops \subseteq Procs
        /\ x \in Procs /\ x \notin Loops /\ Nobody \notin Loops
        /\ \A y \in Callers : y \notin Loops
    BY CallersAndLoops, LeaseAssumption DEF Callers, Procs
  <1> USE DEF Bringing, Inside
  <1>2. CASE StartVms(x)
    BY <1>1, <1>2, LooplessKeeps
       DEF StartVms, Goto, Loopless, At, On, TypeInv, TypeOK
  <1>3. ASSUME NEW stopped, NEW up, StartFails(x, stopped, up)
        PROVE  AloneInv'
    BY <1>1, <1>3, LooplessKeeps DEF StartFails, Loopless, At, On, TypeInv, TypeOK
  <1>4. ASSUME NEW left, CleanUp(x, left)
        PROVE  AloneInv'
    BY <1>1, <1>4, LooplessKeeps DEF CleanUp, Loopless, At, On, TypeInv, TypeOK
  <1>5. CASE UpFails(x) \/ UpLocked(x)
    BY <1>1, <1>5, LooplessKeeps
       DEF UpFails, UpLocked, MarkFailed, Loopless, Idle, On, TypeInv, TypeOK
  <1>6. Return(x).pc \in {"holding", "idle"}
    BY DEF Return, Busy, Idle
  <1>7. CASE UpAgain(x)
    BY <1>1, <1>6, <1>7, LooplessKeeps DEF UpAgain, Loopless, On, TypeInv, TypeOK
  <1>8. CASE UpFresh(x)
    <2> DEFINE c == On(x)
    <2>1. /\ NewLoop \in Loops /\ NewLoop # Nobody /\ NewLoop \notin Callers
      BY <1>1, <1>8 DEF UpFresh, NewLoop
    <2>2. c \in Clusters
      BY <1>1, <1>8 DEF UpFresh, TypeInv, Placed, At, On
    <2>3. ~Live(c) /\ \A d \in Clusters : Overlap(c, d) => ~Live(d)
      BY <1>8 DEF UpFresh, AloneInv, At
    <2>4. task' = [task EXCEPT ![c] = NewLoop]
      BY <1>8 DEF UpFresh
    <2>5. NoOverlap'
      <3> SUFFICES ASSUME NEW a \in Clusters, NEW b \in Clusters, Live(a)', Live(b)',
                          Overlap(a, b)
                   PROVE  FALSE
        BY DEF NoOverlap, Overlap
      <3>1. Overlap(b, a) /\ a # b
        BY DEF Overlap
      <3>2. a # c => Live(a)
        BY <2>2, <2>4 DEF Live, TypeInv, TypeOK
      <3>3. b # c => Live(b)
        BY <2>2, <2>4 DEF Live, TypeInv, TypeOK
      <3> QED BY <2>3, <3>1, <3>2, <3>3 DEF AloneInv, NoOverlap
    <2>6. ASSUME NEW t \in Loops, proc'[t].pc = "asleep"
          PROVE  task'[proc'[t].cluster] = t
      <3>1. CASE t = NewLoop
        BY <1>1, <1>8, <2>1, <2>2, <2>4, <3>1 DEF UpFresh, Busy, Idle, TypeInv, TypeOK
      <3>2. CASE t # NewLoop
        <4>1. proc'[t] = proc[t]
          BY <1>1, <1>8, <3>2 DEF UpFresh, TypeInv, TypeOK
        <4>2. task[On(t)] = t
          BY <2>6, <4>1 DEF AloneInv, At
        <4>3. On(t) # c
          BY <1>1, <2>3, <4>2 DEF Live
        <4> QED BY <2>4, <4>1, <4>2, <4>3 DEF On, TypeInv, TypeOK
      <3> QED BY <3>1, <3>2
    <2>7. proc'[x].pc \in {"holding", "idle"}
      BY <1>1, <1>6, <1>8, <2>1 DEF UpFresh, TypeInv, TypeOK
    <2>8. \A y \in Callers \ {x} : proc'[y] = proc[y] /\ ~Inside(y)
      <3>1. Inside(x)
        BY <1>8 DEF UpFresh, At
      <3>2. \A y \in Callers \ {x} : ~Inside(y)
        BY <3>1 DEF AloneInv
      <3> QED BY <1>1, <1>8, <2>1, <3>2 DEF UpFresh, TypeInv, TypeOK
    <2>9. \A y \in Callers : ~Inside(y)' /\ proc'[y].pc \notin Bringing
      BY <2>7, <2>8
    <2> QED BY <1>1, <2>5, <2>6, <2>9 DEF AloneInv, At, On
  <1> QED BY <1>2, <1>3, <1>4, <1>5, <1>7, <1>8 DEF CallStep

LEMMA ShutdownStepAlone ==
    ASSUME TypeInv, AloneInv, NEW x \in Procs, ShutdownStep(x)
    PROVE  AloneInv'
  <1>1. /\ Callers \subseteq Procs /\ Users \subseteq Callers /\ Loops \subseteq Procs
        /\ \A y \in Callers : y \notin Loops
    BY CallersAndLoops, LeaseAssumption DEF Callers, Procs
  <1>2. ASSUME NEW left, IssueStop(x, left) PROVE AloneInv'
    BY <1>1, <1>2, LooplessKeeps
       DEF IssueStop, Loopless, On, At, Inside, Bringing, TypeInv, TypeOK
  <1>3. CASE StopSucceeds(x)
    BY <1>1, <1>3, LooplessKeeps
       DEF StopSucceeds, Loopless, On, Busy, Idle, Inside, Bringing, TypeInv, TypeOK
  <1>4. CASE StopFails(x)
    BY <1>1, <1>4, LooplessKeeps
       DEF StopFails, Loopless, On, Idle, Inside, Bringing, TypeInv, TypeOK
  <1>5. CASE StopFailsAtDeadline(x)
    <2>1. On(x) \in Clusters
      BY <1>5 DEF StopFailsAtDeadline, Stopped, TypeInv, Placed, At, On
    <2>2. x \in Callers => \A y \in Callers \ {x} : ~Inside(y)
      BY <1>5 DEF StopFailsAtDeadline, Stopped, At, AloneInv, Inside
    <2>3. \A d \in Clusters : usedBy'[d] \in {usedBy[d], Nobody}
      BY <1>5 DEF StopFailsAtDeadline
    <2> QED BY <1>5, <2>1, <2>2, <2>3, BeginShutdownAlone DEF StopFailsAtDeadline
  <1> QED BY <1>2, <1>3, <1>4, <1>5 DEF ShutdownStep

\* Who calls while nobody else is inside a call is alone in it.
LEMMA CallsAlone ==
    ASSUME NEW x, Calls(x), ~raced'
    PROVE  ~raced /\ \A y \in Callers \ {x} : ~Inside(y)
  BY DEF Calls

LEMMA BeginningsAlone ==
    ASSUME TypeInv, AloneInv, ~raced',
           \/ \E x \in Users, c \in Clusters, force \in BOOLEAN : Down(x, c, force)
           \/ JobEnds
           \/ \E t \in Loops : Deadline(t) \/ HeartbeatFails(t) \/ LoopEnds(t)
    PROVE  AloneInv'
  <1>1. /\ Callers \subseteq Procs /\ Users \subseteq Callers /\ Loops \subseteq Procs
        /\ Scheduler \in Callers /\ \A y \in Callers : y \notin Loops
    BY CallersAndLoops, LeaseAssumption DEF Callers, Procs
  <1>2. ASSUME NEW x \in Users, NEW c \in Clusters, NEW force \in BOOLEAN,
               Down(x, c, force)
        PROVE  AloneInv'
    <2>1. \A d \in Clusters : usedBy'[d] \in {usedBy[d], Nobody}
      BY <1>2 DEF Down, TypeInv, TypeOK
    <2>2. \A y \in Callers \ {x} : ~Inside(y)
      BY <1>2, CallsAlone DEF Down
    <2> QED BY <1>1, <1>2, <2>1, <2>2, BeginShutdownAlone DEF Down
  <1>3. ASSUME NEW c, usedBy' = [usedBy EXCEPT ![c] = Nobody]
        PROVE  \A d \in Clusters : usedBy'[d] \in {usedBy[d], Nobody}
    BY <1>3 DEF TypeInv, TypeOK
  <1>4. CASE HandoffKeep
    BY <1>1, <1>3, <1>4, LooplessKeeps
       DEF HandoffKeep, Loopless, On, Idle, Inside, Bringing, TypeInv, TypeOK
  <1>5. CASE HandoffStop
    <2>1. On(Scheduler) \in Clusters
      BY <1>1, <1>5 DEF HandoffStop, TypeInv, Placed, At, On
    <2>2. \A y \in Callers \ {Scheduler} : ~Inside(y)
      BY <1>5, CallsAlone DEF HandoffStop
    <2> QED BY <1>1, <1>3, <1>5, <2>1, <2>2, BeginShutdownAlone DEF HandoffStop
  <1>6. ASSUME NEW t \in Loops, Deadline(t) \/ HeartbeatFails(t) PROVE AloneInv'
    <2>1. On(t) \in Clusters
      BY <1>1, <1>6 DEF Deadline, HeartbeatFails, TypeInv, Placed, At, On
    <2>2. \A d \in Clusters : usedBy'[d] \in {usedBy[d], Nobody}
      BY <1>3, <1>6 DEF Deadline, HeartbeatFails
    <2> QED BY <1>1, <1>6, <2>1, <2>2, BeginShutdownAlone DEF Deadline, HeartbeatFails
  <1>7. ASSUME NEW t \in Loops, LoopEnds(t) PROVE AloneInv'
    BY <1>1, <1>7, LooplessKeeps
       DEF LoopEnds, Loopless, On, Idle, Inside, Bringing, TypeInv, TypeOK
  <1> QED BY <1>2, <1>4, <1>5, <1>6, <1>7 DEF JobEnds

LEMMA WorldAlone ==
    ASSUME TypeInv, AloneInv,
           \/ \E c \in Clusters : PollStep(c) \/ TimePasses(c)
           \/ \E v \in VMs : VmDown(v) \/ PowersOff(v)
    PROVE  AloneInv'
  <1>1. ASSUME NEW c \in Clusters, PollStep(c) \/ TimePasses(c) PROVE Loopless
    BY <1>1 DEF PollStep, PollRead, Reconcile, TimePasses, Loopless, On, Inside
  <1>2. ASSUME NEW v \in VMs, VmDown(v) \/ PowersOff(v) PROVE Loopless
    BY <1>2 DEF VmDown, PowersOff, Loopless, On, Inside
  <1> QED BY <1>1, <1>2, LooplessKeeps

LEMMA CrashAlone == Crash => AloneInv'
  BY CallersAndLoops
     DEF Crash, AloneInv, NoOverlap, Live, At, Idle, Inside, Bringing

LEMMA SerialStep == TypeInv /\ SerialInv /\ [Next]_vars => SerialInv'
  <1> SUFFICES ASSUME TypeInv, SerialInv, [Next]_vars, ~raced' PROVE AloneInv'
    BY DEF SerialInv
  <1>1. CASE UNCHANGED vars
    BY <1>1, LooplessKeeps DEF vars, limits, Loopless, On, Inside, SerialInv
  <1>2. CASE Crash
    BY <1>2, CrashAlone
  <1>3. ASSUME NEW x \in Callers, NEW c \in Clusters, NEW want, NEW ttl,
               Up(x, c, want, ttl)
        PROVE  AloneInv'
    BY <1>3, CallsAlone, UpAlone DEF Up, SerialInv
  <1>4. ASSUME NEW x \in Callers, CallStep(x) PROVE AloneInv'
    <2>1. ~raced
      BY <1>4 DEF CallStep, StartVms, StartFails, CleanUp, UpFails, UpLocked, UpAgain,
                  UpFresh, limits
    <2> QED BY <1>4, <2>1, CallStepAlone DEF SerialInv
  <1>5. ASSUME NEW x \in Procs, ShutdownStep(x) PROVE AloneInv'
    <2>1. ~raced
      BY <1>5 DEF ShutdownStep, IssueStop, StopSucceeds, StopFails, StopFailsAtDeadline,
                  limits
    <2> QED BY <1>5, <2>1, ShutdownStepAlone DEF SerialInv
  <1>6. ASSUME \/ \E x \in Users, c \in Clusters, force \in BOOLEAN : Down(x, c, force)
               \/ JobEnds
               \/ \E t \in Loops : Deadline(t) \/ HeartbeatFails(t) \/ LoopEnds(t)
        PROVE  AloneInv'
    <2>1. ~raced
      BY <1>6, CallsAlone DEF Down, JobEnds, HandoffKeep, HandoffStop, Deadline,
                              HeartbeatFails, LoopEnds, limits
    <2> QED BY <1>6, <2>1, BeginningsAlone DEF SerialInv
  <1>7. ASSUME \/ \E c \in Clusters : PollStep(c) \/ TimePasses(c)
               \/ \E v \in VMs : VmDown(v) \/ PowersOff(v)
        PROVE  AloneInv'
    <2>1. ~raced
      BY <1>7 DEF PollStep, PollRead, Reconcile, TimePasses, VmDown, PowersOff, limits
    <2> QED BY <1>7, <2>1, WorldAlone DEF SerialInv
  <1> QED BY <1>1, <1>2, <1>3, <1>4, <1>5, <1>6, <1>7 DEF Next

LEMMA SerialHolds == Spec => []SerialInv
  <1>1. Spec => []TypeInv
    BY TypeInit, TypeStep, PTL DEF Spec
  <1>2. Init => SerialInv
    BY AloneInit DEF SerialInv
  <1> QED BY <1>1, <1>2, SerialStep, PTL DEF Spec

\* As long as calls of up() and down() do not overlap, clusters that share a VM are
\* never both up, whoever calls, whatever fails, stops by its deadline or is polled.
THEOREM OverlapsRefused == Spec => [](~raced => NoOverlap)
  <1>1. SerialInv => (~raced => NoOverlap)
    BY DEF SerialInv, AloneInv
  <1> QED BY <1>1, SerialHolds, PTL

\* Until two calls overlap, each cluster is kept alive by one tick loop, the one
\* that will be canceled.
THEOREM OneTickLoop == Spec => []KeptByOneLoop
  <1>1. SerialInv => KeptByOneLoop
    BY DEF SerialInv, AloneInv, KeptByOneLoop
  <1> QED BY <1>1, SerialHolds, PTL

-----------------------------------------------------------------------------
(* What can take a lease from a job.                                       *)

\* The lease of a cluster the scheduler uses, after a step during which its job
\* goes on.
LEMMA LeaseStep ==
    ASSUME TypeInv, ClaimInv, SerialInv, [Next]_vars, NEW c \in Clusters,
           usedBy[c] = Scheduler, proc'[Scheduler] = proc[Scheduler], ~raced'
    PROVE  \/ usedBy'[c] \in {Scheduler} \cup Users
           \/ \E x \in Users : At(x, "idle") /\ At(x, "stopping")' /\ On(x)' = c
  <1>1. /\ Scheduler \in Procs /\ Scheduler # Nobody /\ Scheduler \notin Users
        /\ Callers \subseteq Procs /\ Users \subseteq Callers /\ Loops \subseteq Procs
        /\ Callers = {Scheduler} \cup Users /\ Scheduler \notin Loops
    BY CallersAndLoops, LeaseAssumption DEF Callers, Procs
  <1>2. On(Scheduler) = c
    BY DEF ClaimInv, LeaseInv, LeaseNotLeaked
  <1>3. ~At(Scheduler, "idle")
    BY <1>1, <1>2, CallersAndLoops DEF TypeInv, Placed
  <1>4. CASE UNCHANGED usedBy
    BY <1>4
  <1>5. CASE Crash
    BY <1>1, <1>3, <1>5 DEF Crash, Idle, At
  <1>6. ASSUME NEW x \in Callers, NEW d \in Clusters, NEW want, NEW ttl,
               Up(x, d, want, ttl)
        PROVE  usedBy'[c] \in {Scheduler} \cup Users
    BY <1>1, <1>6 DEF Up, TypeInv, TypeOK
  <1>7. ASSUME NEW x \in Users, NEW d \in Clusters, NEW force, Down(x, d, force)
        PROVE  \/ usedBy'[c] \in {Scheduler} \cup Users
               \/ \E y \in Users : At(y, "idle") /\ At(y, "stopping")' /\ On(y)' = c
    <2>1. CASE d # c
      BY <1>7, <2>1 DEF Down, TypeInv, TypeOK
    <2>2. CASE d = c
      <3>1. At(x, "idle") /\ proc'[x] = [Busy("stopping", c) EXCEPT !.reason = "user"]
        BY <1>1, <1>7, <2>2 DEF Down, BeginShutdown
      <3>2. At(x, "stopping")' /\ On(x)' = c
        BY <3>1 DEF At, On, Busy, Idle
      <3> QED BY <3>1, <3>2
    <2> QED BY <2>1, <2>2
  <1>8. CASE JobEnds
    <2>1. proc[Scheduler].pc = "holding"
      BY <1>8 DEF JobEnds, HandoffKeep, HandoffStop, At
    <2>2. HandoffKeep => proc'[Scheduler].pc = "idle"
      BY <1>1 DEF HandoffKeep, Idle, TypeInv, TypeOK
    <2>3. HandoffStop => proc'[Scheduler].pc = "stopping"
      BY <1>1 DEF HandoffStop, BeginShutdown, Busy, Idle
    <2> QED BY <1>8, <2>1, <2>2, <2>3 DEF JobEnds
  <1>9. ASSUME NEW x \in Callers, UpFails(x) \/ UpLocked(x)
        PROVE  usedBy'[c] \in {Scheduler} \cup Users
    <2>1. ~raced /\ AloneInv
      BY <1>9 DEF UpFails, UpLocked, limits, SerialInv
    <2>2. MarkFailed(x) /\ proc[x].pc \in {"cleaning", "started"}
      BY <1>9 DEF UpFails, UpLocked, At
    <2>3. CASE x = Scheduler
      <3>1. proc'[Scheduler].pc = "idle"
        BY <1>1, <2>2, <2>3 DEF MarkFailed, Idle, TypeInv, TypeOK
      <3> QED BY <1>3, <3>1 DEF At
    <2>4. CASE x # Scheduler
      <3>1. usedBy[On(x)] # Scheduler
        BY <1>1, <2>1, <2>2, <2>4 DEF AloneInv, Bringing
      <3> QED BY <2>2, <3>1 DEF MarkFailed, TypeInv, TypeOK
    <2> QED BY <2>3, <2>4
  <1>10. ASSUME NEW t \in Loops, Deadline(t)
         PROVE  usedBy'[c] \in {Scheduler} \cup Users
    <2>1. On(t) # c
      BY <1>1, <1>2, <1>10 DEF Deadline, ClaimInv, OnlyOperatorsLimitJobs
    <2> QED BY <1>10, <2>1 DEF Deadline, TypeInv, TypeOK
  <1>11. ASSUME NEW x \in Callers, CallStep(x)
         PROVE  usedBy'[c] \in {Scheduler} \cup Users
    BY <1>9, <1>11 DEF CallStep, StartVms, StartFails, CleanUp, UpAgain, UpFresh
  <1>12. ASSUME NEW x \in Procs, ShutdownStep(x)
         PROVE  UNCHANGED usedBy
    BY <1>12 DEF ShutdownStep, IssueStop, StopSucceeds, StopFails, StopFailsAtDeadline
  <1>13. ASSUME NEW t \in Loops, HeartbeatFails(t) \/ LoopEnds(t)
         PROVE  UNCHANGED usedBy
    BY <1>13 DEF HeartbeatFails, LoopEnds
  <1>14. ASSUME \/ \E d \in Clusters : PollStep(d) \/ TimePasses(d)
                \/ \E v \in VMs : VmDown(v) \/ PowersOff(v)
                \/ UNCHANGED vars
         PROVE  UNCHANGED usedBy
    BY <1>14 DEF PollStep, PollRead, Reconcile, TimePasses, VmDown, PowersOff, vars
  <1> QED BY <1>4, <1>5, <1>6, <1>7, <1>8, <1>10, <1>11, <1>12, <1>13, <1>14 DEF Next

\* As long as calls do not overlap, only an operator's own up() or down() takes a
\* cluster from a running job.
THEOREM OnlyOperatorsTakeOver == Spec => JobKeepsLease
  <1>1. TypeInv /\ ClaimInv /\ SerialInv /\ [Next]_vars =>
           [\A c \in Clusters :
              usedBy[c] = Scheduler /\ proc'[Scheduler] = proc[Scheduler] /\ ~raced' =>
                \/ usedBy'[c] \in {Scheduler} \cup Users
                \/ \E x \in Users :
                      At(x, "idle") /\ At(x, "stopping")' /\ On(x)' = c]_vars
    BY LeaseStep
  <1>2. Spec => []TypeInv
    BY TypeInit, TypeStep, PTL DEF Spec
  <1> QED BY <1>1, <1>2, ClaimsHold, SerialHolds, PTL DEF Spec, JobKeepsLease
=============================================================================
