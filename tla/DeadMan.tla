------------------------------ MODULE DeadMan ------------------------------
(***************************************************************************)
(* The VMs of one cluster and their dead-man switch: a bring-up starts and *)
(* arms them (start_vms in cluster/lifecycle.py under ClusterManager.up),  *)
(* the tick loop re-arms them (_tick_loop over KeepAlive.rearm), a failed  *)
(* bring-up or the end of the lease stops them (_stop_whole_cluster,       *)
(* _shutdown), over a backend whose calls fail one by one (gcloud.py).     *)
(*                                                                         *)
(* Time is counted in steps of Tick.  A wait takes time (draining, arming, *)
(* the sleep and the beat of the loop); the other calls are over before it *)
(* passes.  An armed VM powers itself off when its timer has run out.      *)
(***************************************************************************)
EXTENDS Integers, FiniteSets

CONSTANTS
    VMs,
    Deadman,         \* deadman_minutes (60)
    RearmInterval,   \* REARM_INTERVAL_S (30 min)
    RearmDeadline,   \* REARM_DEADLINE_S (50 min)
    BeatTimeout,     \* BEAT_TIMEOUT_S (5 min)
    TickTime,        \* TICK_S (1 min)
    DrainTimeout,    \* drain_timeout_s (10 min)
    ArmTimeout,      \* what ssh spends on a VM that boots
    MaxFaults, MaxHands   \* bounds: failing calls, changes made by hand

Times == {Deadman, RearmInterval, RearmDeadline, BeatTimeout, TickTime,
          DrainTimeout, ArmTimeout}
ASSUME FleetAssumption ==
    /\ IsFiniteSet(VMs)
    /\ Times \subseteq Nat \ {0}
    /\ RearmInterval <= RearmDeadline
    /\ {MaxFaults, MaxHands} \subseteq Nat

NoTimer == -1

VARIABLES
    vm,        \* "off" | "staging" | "on" | "stopping"
    timer,     \* time to the shutdown of a VM that is on, or NoTimer
    stale,     \* VMs recreated in another zone than the cache says
    op,        \* the bring-up: "none" | "drain" | "start" | "cleanup" |
               \* "arm" | "whole"
    want,      \* the VMs the lease needs
    asked,     \* those of this start_vms: the probe first, or all of them
    fresh,     \* no tick loop when the bring-up began
    clock,     \* time spent draining or arming
    todo, missed,   \* VMs still to arm, VMs that could not be armed
    blamed,    \* failed_vms of the error
    short,     \* ManagedCluster.short_vms
    loop,      \* the tick loop: "none" | "sleep" | "beat"
    held,      \* KeepAlive.vms
    since,     \* time since last_rearm
    nap,       \* time to the end of the sleep or of the beat
    beating,   \* VMs the beat has still to arm
    bad,       \* an arm of the beat failed
    closing,   \* a _shutdown under way
    cause,     \* something happened that may fail the bring-up
    excused,   \* VMs a person started, or the daemon before it died
    faults, hands

fleet == <<vm, timer, stale>>
bringup == <<op, want, asked, fresh, clock, todo, missed, blamed>>
keeper == <<loop, held, since, nap, beating, bad>>
fleetVars == <<fleet, bringup, short, keeper, closing, cause, excused,
               faults, hands>>

Up(v) == vm[v] \in {"staging", "on"}
Adoptable(v) == vm[v] \in {"staging", "on"}
Draining(v) == vm[v] = "stopping"
Fails(n) == faults + n <= MaxFaults /\ faults' = faults + n

NoBringup ==
    /\ op' = "none" /\ want' = {} /\ asked' = {} /\ fresh' = FALSE
    /\ clock' = 0 /\ todo' = {} /\ missed' = {} /\ blamed' = {}
    /\ cause' = FALSE
NoLoop ==
    /\ loop' = "none" /\ held' = {} /\ since' = 0 /\ nap' = 0
    /\ beating' = {} /\ bad' = FALSE

FleetInit ==
    /\ vm = [v \in VMs |-> "off"] /\ timer = [v \in VMs |-> NoTimer]
    /\ stale = {}
    /\ op = "none" /\ want = {} /\ asked = {} /\ fresh = FALSE
    /\ clock = 0 /\ todo = {} /\ missed = {} /\ blamed = {} /\ short = {}
    /\ loop = "none" /\ held = {} /\ since = 0 /\ nap = 0
    /\ beating = {} /\ bad = FALSE
    /\ closing = FALSE /\ cause = FALSE /\ excused = {}
    /\ faults = 0 /\ hands = 0

-----------------------------------------------------------------------------
(* The backend.                                                            *)

\* A listing tells where its VMs are, those it knows already too (vm_status,
\* _discover_all).  Mutant: known names keep their zone.
MutListed(S) == stale
Listed(S) == stale \ S

\* vm_stop(S): all but those in left, of which arm_shutdown reaches armed.
Stops(S, left, armed) ==
    /\ armed \subseteq left /\ left \subseteq S
    /\ stale' = Listed(S)
    /\ Fails(Cardinality(left \ stale') + Cardinality(left \ armed))
    /\ stale' \cap S \subseteq left
    /\ vm' = [v \in VMs |-> IF v \in S \ left THEN "stopping"
                            ELSE IF v \in armed THEN "on" ELSE vm[v]]
    /\ timer' = [v \in VMs |-> IF v \in S \ left THEN NoTimer
                               ELSE IF v \in armed THEN Deadman ELSE timer[v]]
\* The same where nobody looks at what is left.
StopsBlindly(S, left) ==
    /\ left \subseteq S
    /\ stale' = Listed(S)
    /\ Fails(Cardinality(left \ stale'))
    /\ stale' \cap S \subseteq left
    /\ vm' = [v \in VMs |-> IF v \in S \ left THEN "stopping" ELSE vm[v]]
    /\ timer' = [v \in VMs |-> IF v \in S \ left THEN NoTimer ELSE timer[v]]

-----------------------------------------------------------------------------
(* A bring-up: up() and start_vms.                                         *)

\* _probe_set: the VMs that would not start last time, first and alone.
Probe(W) == W \cap short
Begins(W, first, isFresh, drains) ==
    /\ want' = W /\ asked' = first /\ fresh' = isFresh
    /\ op' = IF drains THEN "drain" ELSE "start"
    /\ clock' = 0 /\ todo' = {} /\ missed' = {} /\ blamed' = {}

UpBegins(W) ==
    /\ op = "none" /\ W # {}
    /\ LET isFresh == loop = "none"
           probes == isFresh /\ Probe(W) \notin {{}, W}
       IN  Begins(W, IF probes THEN Probe(W) ELSE W, isFresh,
                  isFresh /\ ~probes)
    /\ UNCHANGED <<fleet, short, keeper, closing, cause, excused, faults, hands>>

\* wait_drained gives up, or one of the listings raises: no cleanup in start_vms.
\* Mutant: it waits for as long as it takes.
MutDrainTimesOut == FALSE
DrainTimesOut ==
    op = "drain" /\ clock >= DrainTimeout /\ \E v \in asked : Draining(v)
NotListed ==
    /\ op \in {"drain", "start"}
    /\ \/ DrainTimesOut /\ UNCHANGED faults
       \/ Fails(1)
    /\ op' = "whole" /\ clock' = 0 /\ cause' = TRUE
    /\ UNCHANGED <<fleet, want, asked, fresh, todo, missed, blamed,
                   short, keeper, closing, excused, hands>>

\* All of them are armed, those that ran before too.  Mutant: only what it starts.
MutToArm == {v \in asked : ~Adoptable(v)}
ToArm == asked

\* The statuses, then vm_start for what is neither up nor on its way: in failed,
\* a VM short of a zone, one that still stops, and one that boots all the same.
Starts(refused, booting) ==
    LET down == {v \in asked : ~Adoptable(v)}
        stuck == {v \in down : Draining(v) \/ v \in Listed(asked)}
        failed == refused \cup stuck
        boots == (down \ failed) \cup booting
    IN  /\ refused \subseteq down \ stuck /\ booting \subseteq refused
        /\ stale' = Listed(asked)
        /\ Fails(Cardinality(refused))
        /\ vm' = [v \in VMs |-> IF v \in boots THEN "staging" ELSE vm[v]]
        /\ blamed' = failed
        /\ cause' = (cause \/ refused # {} \/ \E v \in down : Draining(v))
        /\ clock' = 0
        /\ IF failed = {} THEN op' = "arm" /\ todo' = ToArm
                          ELSE op' = "cleanup" /\ UNCHANGED todo
ReadyToStart ==
    op = "start" \/ (op = "drain" /\ \A v \in asked : ~Draining(v))
StartVMs ==
    /\ ReadyToStart
    /\ \E refused \in SUBSET asked : \E booting \in SUBSET refused :
           Starts(refused, booting)
    /\ excused' = excused \ asked
    /\ UNCHANGED <<timer, want, asked, fresh, missed, short, keeper, closing, hands>>
\* The listing of vm_start raises.
StartRaises ==
    /\ ReadyToStart
    /\ \E v \in asked : ~Adoptable(v)
    /\ Fails(1)
    /\ op' = "cleanup" /\ clock' = 0 /\ cause' = TRUE
    /\ UNCHANGED <<fleet, want, asked, fresh, todo, missed, blamed,
                   short, keeper, closing, excused, hands>>

\* After a partial start everything that is not plainly down is stopped, and
\* what survives is armed.
Partial == {v \in asked : Up(v)}
Cleanup ==
    /\ op = "cleanup"
    /\ op' = "whole"
    /\ \/ \E left \in SUBSET Partial : \E armed \in SUBSET left :
              /\ Stops(Partial, left, armed)
              /\ blamed' = IF left = armed THEN blamed ELSE left \ armed
       \/ Fails(1) /\ blamed' = {} /\ UNCHANGED fleet
    /\ UNCHANGED <<want, asked, fresh, clock, todo, missed, short, keeper,
                   closing, cause, excused, hands>>

\* arm_shutdown on all of them, each by its own ssh that waits for the boot.
ArmLands(v) ==
    /\ op = "arm" /\ v \in todo
    /\ vm[v] = "on" /\ v \notin stale
    /\ timer' = [timer EXCEPT ![v] = Deadman]
    /\ todo' = todo \ {v}
    /\ UNCHANGED <<vm, stale, op, want, asked, fresh, clock, missed, blamed,
                   short, keeper, closing, cause, excused, faults, hands>>
ArmMisses(v) ==
    /\ op = "arm" /\ v \in todo
    /\ \/ (~Up(v) \/ v \in stale) /\ UNCHANGED <<faults, cause>>
       \/ Fails(1) /\ cause' = TRUE
    /\ todo' = todo \ {v} /\ missed' = missed \cup {v}
    /\ UNCHANGED <<fleet, op, want, asked, fresh, clock, blamed,
                   short, keeper, closing, excused, hands>>
\* A VM without a deadline: stop them all, whatever that says.
ArmFails ==
    /\ op = "arm" /\ todo = {} /\ missed # {}
    /\ op' = "whole" /\ clock' = 0 /\ missed' = {}
    /\ LET S == {v \in asked : Up(v)}
       IN  \/ /\ \E left \in SUBSET S : StopsBlindly(S, left)
              /\ blamed' = missed
           \/ Fails(1) /\ blamed' = {} /\ UNCHANGED fleet
    /\ UNCHANGED <<want, asked, fresh, todo, short, keeper, closing, cause,
                   excused, hands>>

\* The probe came up: now the rest.
Probed ==
    /\ op = "arm" /\ todo = {} /\ missed = {} /\ asked # want
    /\ Begins(want, want, fresh, fresh)
    /\ UNCHANGED <<fleet, short, keeper, closing, cause, excused, faults, hands>>
\* The fleet is up: a loop of its own, or the running one covers more.
Extended == held \cup want
UpSucceeds ==
    /\ op = "arm" /\ todo = {} /\ missed = {} /\ asked = want
    /\ short' = {}
    /\ NoBringup
    /\ IF fresh
       THEN /\ loop' = "sleep" /\ held' = want /\ since' = 0 /\ nap' = TickTime
            /\ UNCHANGED <<beating, bad>>
       ELSE /\ held' = IF loop = "none" THEN held ELSE Extended
            /\ UNCHANGED <<loop, since, nap, beating, bad>>
    /\ UNCHANGED <<fleet, closing, excused, faults, hands>>

\* _stop_whole_cluster: all of the fleet, not just what was asked for.
StopWhole ==
    /\ op = "whole"
    /\ LET S == {v \in VMs : Up(v)}
       IN  \/ \E left \in SUBSET S : \E armed \in SUBSET left :
                  Stops(S, left, armed)
           \/ Fails(1) /\ UNCHANGED fleet
    /\ short' = IF blamed = {} THEN short ELSE blamed
    /\ NoBringup
    /\ UNCHANGED <<keeper, closing, excused, hands>>

-----------------------------------------------------------------------------
(* The tick loop.                                                          *)

Sleeps == loop' = "sleep" /\ nap' = TickTime /\ beating' = {} /\ bad' = FALSE
\* _shutdown begins: the loop ends and its keep-alive is gone.  Mutant: it is left.
MutGives ==
    /\ closing' = TRUE /\ loop' = "none"
    /\ UNCHANGED <<held, since, nap, beating, bad>>
Gives == closing' = TRUE /\ NoLoop

\* Awake, and the interval is not over: sleep again.
TooEarly ==
    /\ loop = "sleep" /\ nap = 0 /\ since < RearmInterval
    /\ nap' = TickTime
    /\ UNCHANGED <<fleet, bringup, short, loop, held, since, beating, bad,
                   closing, cause, excused, faults, hands>>
\* rearm: the statuses, then every VM that runs.
BeatBegins ==
    /\ loop = "sleep" /\ nap = 0 /\ since >= RearmInterval
    /\ loop' = "beat" /\ nap' = BeatTimeout
    /\ \/ /\ beating' = {v \in held : vm[v] = "on"} /\ bad' = FALSE
          /\ stale' = Listed(held) /\ UNCHANGED faults
       \/ /\ beating' = {} /\ bad' = TRUE
          /\ Fails(1) /\ UNCHANGED stale
    /\ UNCHANGED <<vm, timer, bringup, short, held, since, closing, cause,
                   excused, hands>>
BeatArms(v) ==
    /\ loop = "beat" /\ v \in beating
    /\ beating' = beating \ {v}
    /\ \/ /\ vm[v] = "on" /\ v \notin stale
          /\ timer' = [timer EXCEPT ![v] = Deadman]
          /\ UNCHANGED <<bad, faults>>
       \/ /\ vm[v] # "on" \/ v \in stale
          /\ bad' = TRUE /\ UNCHANGED <<timer, faults>>
       \/ /\ bad' = TRUE /\ Fails(1) /\ UNCHANGED timer
    /\ UNCHANGED <<vm, stale, bringup, short, loop, held, since, nap, closing,
                   cause, excused, hands>>
BeatLands ==
    /\ loop = "beat" /\ beating = {} /\ ~bad
    /\ Sleeps /\ since' = 0
    /\ UNCHANGED <<fleet, bringup, short, held, closing, cause, excused,
                   faults, hands>>
\* A missed beat is tried again on the next tick, until the deadline: then the
\* fleet is stopped in the open.  Mutant: it is tried for ever.
MutGivesUp == FALSE
GivesUp == since >= RearmDeadline
BeatMissed ==
    /\ loop = "beat"
    /\ \/ beating = {} /\ bad
       \/ nap = 0                    \* abandoned
    /\ IF GivesUp THEN Gives ELSE Sleeps /\ UNCHANGED <<held, since, closing>>
    /\ UNCHANGED <<fleet, bringup, short, cause, excused, faults, hands>>

\* The stop deadline passes, or someone takes the cluster down (where nothing is
\* up that changes nothing).
Down ==
    /\ ~closing
    /\ loop # "none" \/ \E v \in VMs : Up(v)
    /\ Gives
    /\ UNCHANGED <<fleet, bringup, short, cause, excused, faults, hands>>
\* _shutdown: a listing that raises leaves them as they are.
StopFleet ==
    /\ closing
    /\ closing' = FALSE
    /\ LET S == {v \in VMs : Up(v)}
       IN  \/ \E left \in SUBSET S : \E armed \in SUBSET left :
                  Stops(S, left, armed)
           \/ Fails(1) /\ UNCHANGED fleet
    /\ cause' = (op # "none")
    /\ UNCHANGED <<bringup, short, keeper, excused, hands>>

-----------------------------------------------------------------------------
(* The fleet itself, people, and the daemon's death.                       *)

Boots(v) ==
    /\ vm[v] = "staging"
    /\ vm' = [vm EXCEPT ![v] = "on"]
    /\ UNCHANGED <<timer, stale, bringup, short, keeper, closing, cause,
                   excused, faults, hands>>
Stopped(v) ==
    /\ vm[v] = "stopping"
    /\ vm' = [vm EXCEPT ![v] = "off"]
    /\ UNCHANGED <<timer, stale, bringup, short, keeper, closing, cause,
                   excused, faults, hands>>
GoesDown(v) ==
    /\ vm[v] = "on"
    /\ vm' = [vm EXCEPT ![v] = "stopping"]
    /\ timer' = [timer EXCEPT ![v] = NoTimer]
    /\ cause' = (op # "none")
PowersOff(v) ==
    /\ timer[v] = 0
    /\ GoesDown(v)
    /\ UNCHANGED <<stale, bringup, short, keeper, closing, excused, faults, hands>>

ByHand == hands < MaxHands /\ hands' = hands + 1
HandStops(v) ==
    /\ GoesDown(v) /\ ByHand
    /\ UNCHANGED <<stale, bringup, short, keeper, closing, excused, faults>>
HandStarts(v) ==
    /\ vm[v] = "off" /\ ByHand
    /\ vm' = [vm EXCEPT ![v] = "staging"]
    /\ excused' = excused \cup {v}
    /\ UNCHANGED <<timer, stale, bringup, short, keeper, closing, cause, faults>>
\* A VM that is off is deleted and created again in another zone.
Recreated(v) ==
    /\ vm[v] = "off" /\ op = "none" /\ ByHand
    /\ stale' = stale \cup {v}
    /\ UNCHANGED <<vm, timer, bringup, short, keeper, closing, cause, excused,
                   faults>>

\* The daemon dies: what it had started and not armed yet stays as it is.
DaemonDies ==
    /\ ByHand
    /\ excused' = excused \cup {v \in VMs : Up(v) /\ timer[v] = NoTimer}
    /\ closing' = FALSE /\ short' = {} /\ stale' = {}
    /\ NoBringup /\ NoLoop
    /\ UNCHANGED <<vm, timer, faults>>

\* Time passes when nothing is due.
Waits ==
    /\ ~closing
    /\ \A v \in VMs : timer[v] # 0
    /\ loop = "none" \/ nap > 0
    /\ \/ op = "none"
       \/ op = "drain" /\ clock < DrainTimeout /\ ~ReadyToStart
       \/ op = "arm" /\ clock < ArmTimeout /\ todo # {}
Time ==
    /\ Waits
    /\ timer' = [v \in VMs |-> IF timer[v] > 0 THEN timer[v] - 1 ELSE timer[v]]
    /\ clock' = IF op = "none" THEN 0 ELSE clock + 1
    /\ IF loop = "none" THEN UNCHANGED <<since, nap>>
       ELSE since' = since + 1 /\ nap' = nap - 1
    /\ UNCHANGED <<vm, stale, op, want, asked, fresh, todo, missed, blamed, short,
                   loop, held, beating, bad, closing, cause, excused, faults, hands>>

BringupStep ==
    \/ NotListed \/ StartVMs \/ StartRaises \/ Cleanup
    \/ \E v \in VMs : ArmLands(v) \/ ArmMisses(v)
    \/ ArmFails \/ Probed \/ UpSucceeds \/ StopWhole
LoopStep ==
    \/ TooEarly \/ BeatBegins \/ \E v \in VMs : BeatArms(v)
    \/ BeatLands \/ BeatMissed \/ StopFleet
Hands == \E v \in VMs : HandStops(v) \/ HandStarts(v) \/ Recreated(v)
FleetStep == \E v \in VMs : Boots(v) \/ Stopped(v) \/ PowersOff(v)
FleetNext ==
    \/ \E W \in SUBSET VMs : UpBegins(W)
    \/ BringupStep \/ LoopStep \/ Down
    \/ FleetStep \/ Hands \/ DaemonDies \/ Time

FleetSpec ==
    /\ FleetInit /\ [][FleetNext]_fleetVars
    /\ WF_fleetVars(BringupStep) /\ WF_fleetVars(LoopStep)
    /\ WF_fleetVars(Time)
    /\ \A v \in VMs : WF_fleetVars(Boots(v)) /\ WF_fleetVars(PowersOff(v))

-----------------------------------------------------------------------------
(* Properties.                                                             *)

\* The values the variables take.
FleetTypeOK ==
    /\ vm \in [VMs -> {"off", "staging", "on", "stopping"}]
    /\ timer \in [VMs -> {NoTimer} \cup 0..Deadman]
    /\ \A v \in VMs : vm[v] # "on" => timer[v] = NoTimer
    /\ stale \subseteq VMs /\ short \subseteq VMs /\ excused \subseteq VMs
    /\ op \in {"none", "drain", "start", "cleanup", "arm", "whole"}
    /\ asked \subseteq want /\ want \subseteq VMs
    /\ todo \cup missed \cup blamed \subseteq asked
    /\ clock \in 0..(IF op = "drain" THEN DrainTimeout ELSE
                     IF op = "arm" THEN ArmTimeout ELSE 0)
    /\ loop \in {"none", "sleep", "beat"}
    /\ beating \subseteq held /\ held \subseteq VMs
    /\ loop = "none" => held = {} /\ since = 0
    /\ nap \in 0..(IF loop = "beat" THEN BeatTimeout ELSE TickTime)
    /\ since \in Nat
    /\ {fresh, bad, closing, cause} \subseteq BOOLEAN
    /\ faults \in 0..MaxFaults /\ hands \in 0..MaxHands

\* How old an arm can be on which a VM of the loop relies: as old as a bring-up or
\* a beat is long when last_rearm is set, and the last beat that counts begins just
\* after the deadline.
OldestArm == RearmDeadline + TickTime + 2 * BeatTimeout + ArmTimeout

\* REARM_DEADLINE_S: whatever beats fail or are abandoned, and however long
\* bring-ups arm, the loop stops the fleet in the open before the timer of a VM it
\* answers for has counted for OldestArm.  Whether that is soon enough is a matter
\* of the times.
ArmsRecent ==
    \A v \in held : timer[v] # NoTimer => Deadman - timer[v] < OldestArm

\* The comments on BEAT_TIMEOUT_S and in the tick loop: beats may fail and are tried
\* again inside the dead-man window, and when they fail for too long the fleet is
\* stopped in the open; so no VM of a live tick loop powers itself off.
NoSurprise == \A v \in held : loop # "none" => timer[v] # 0

\* Out of a bring-up a VM is off, or on its way, or its timer runs, whoever answers
\* for it then, unless a person started it or the daemon died before it armed it.
\* One call may fail anywhere.
NoUnboundedBill ==
    faults <= 1 =>
        \A v \in VMs : op # "none" \/ v \in excused \/ ~Up(v) \/ timer[v] # NoTimer

\* A bring-up fails for a reason: a call failed, a VM was stopped under it, or
\* it asked a VM that was still stopping; never because the cache is wrong.
FailsForCause == op \in {"cleanup", "whole"} => cause

\* A bring-up comes to an end, however slow the VMs stop or boot.
UpEnds == op # "none" ~> op = "none"
=============================================================================
