---------------------------- MODULE DeadManProofs ----------------------------
(***************************************************************************)
(* For every fleet and all the times of the dead-man switch: the variables *)
(* keep their types, no timer under the tick loop has counted for longer   *)
(* than OldestArm, a bring-up fails for a cause only, and with one failing *)
(* call no VM is left up without a timer.                                  *)
(***************************************************************************)
EXTENDS DeadMan, FiniteSetTheorems, TLAPS

LEMMA TimesAreNat ==
    /\ {Deadman, RearmInterval, RearmDeadline, BeatTimeout, TickTime, DrainTimeout, ArmTimeout}
          \subseteq Nat \ {0}
    /\ RearmInterval <= RearmDeadline /\ MaxFaults \in Nat /\ MaxHands \in Nat
  BY FleetAssumption DEF Times

LEMMA CountsAreNat == \A S \in SUBSET VMs : Cardinality(S) \in Nat
  BY FS_Subset, FS_CardinalityType, FleetAssumption

\* The loop a fresh bring-up found missing is its own to start.
FreshAlone == fresh => loop = "none"

FleetTypes == FleetTypeOK /\ FreshAlone

LEMMA FaultsTyped ==
    ASSUME FleetTypeOK, NEW n \in Nat, Fails(n)
    PROVE  faults' \in 0..MaxFaults
  BY TimesAreNat DEF FleetTypeOK, Fails

\* What stopping VMs does to the fleet, whoever asked for it.
LEMMA StopsTyped ==
    ASSUME FleetTypeOK, NEW S \in SUBSET VMs, NEW left, NEW armed, Stops(S, left, armed)
    PROVE  /\ vm' \in [VMs -> {"off", "staging", "on", "stopping"}]
           /\ timer' \in [VMs -> {NoTimer} \cup 0..Deadman]
           /\ \A v \in VMs : vm'[v] # "on" => timer'[v] = NoTimer
           /\ stale' \subseteq VMs /\ faults' \in 0..MaxFaults
           /\ \A v \in VMs : timer'[v] \in {timer[v], NoTimer, Deadman}
  <1> USE TimesAreNat
  <1>1. /\ left \subseteq S /\ armed \subseteq left /\ stale' \subseteq VMs
    BY DEF Stops, Listed, FleetTypeOK
  <1>2. faults' \in 0..MaxFaults
    <2>1. Cardinality(left \ stale') \in Nat /\ Cardinality(left \ armed) \in Nat
      BY <1>1, CountsAreNat
    <2>2. Cardinality(left \ stale') + Cardinality(left \ armed) \in Nat
      BY <2>1
    <2> QED BY <2>2, FaultsTyped DEF Stops
  <1>3. /\ vm' = [v \in VMs |-> IF v \in S \ left THEN "stopping"
                                ELSE IF v \in armed THEN "on" ELSE vm[v]]
        /\ timer' = [v \in VMs |-> IF v \in S \ left THEN NoTimer
                                   ELSE IF v \in armed THEN Deadman ELSE timer[v]]
    BY DEF Stops
  <1>4. /\ vm \in [VMs -> {"off", "staging", "on", "stopping"}]
        /\ timer \in [VMs -> {NoTimer} \cup 0..Deadman]
        /\ \A v \in VMs : vm[v] # "on" => timer[v] = NoTimer
    BY DEF FleetTypeOK
  <1> QED BY <1>1, <1>2, <1>3, <1>4

LEMMA StopsBlindlyTyped ==
    ASSUME FleetTypeOK, NEW S \in SUBSET VMs, NEW left, StopsBlindly(S, left)
    PROVE  /\ vm' \in [VMs -> {"off", "staging", "on", "stopping"}]
           /\ timer' \in [VMs -> {NoTimer} \cup 0..Deadman]
           /\ \A v \in VMs : vm'[v] # "on" => timer'[v] = NoTimer
           /\ stale' \subseteq VMs /\ faults' \in 0..MaxFaults
           /\ \A v \in VMs : timer'[v] \in {timer[v], NoTimer, Deadman}
  <1> USE TimesAreNat
  <1>1. left \subseteq S /\ stale' \subseteq VMs
    BY DEF StopsBlindly, Listed, FleetTypeOK
  <1>2. faults' \in 0..MaxFaults
    <2>1. Cardinality(left \ stale') \in Nat
      BY <1>1, CountsAreNat
    <2> QED BY <2>1, FaultsTyped DEF StopsBlindly
  <1>3. /\ vm' = [v \in VMs |-> IF v \in S \ left THEN "stopping" ELSE vm[v]]
        /\ timer' = [v \in VMs |-> IF v \in S \ left THEN NoTimer ELSE timer[v]]
    BY DEF StopsBlindly
  <1>4. /\ vm \in [VMs -> {"off", "staging", "on", "stopping"}]
        /\ timer \in [VMs -> {NoTimer} \cup 0..Deadman]
        /\ \A v \in VMs : vm[v] # "on" => timer[v] = NoTimer
    BY DEF FleetTypeOK
  <1> QED BY <1>1, <1>2, <1>3, <1>4

-----------------------------------------------------------------------------
(* The types, by the part of the state they are about.                     *)

MachineTypes ==
    /\ vm \in [VMs -> {"off", "staging", "on", "stopping"}]
    /\ timer \in [VMs -> {NoTimer} \cup 0..Deadman]
    /\ \A v \in VMs : vm[v] # "on" => timer[v] = NoTimer
    /\ stale \subseteq VMs /\ excused \subseteq VMs
    /\ faults \in 0..MaxFaults /\ hands \in 0..MaxHands
BringupTypes ==
    /\ op \in {"none", "drain", "start", "cleanup", "arm", "whole"}
    /\ asked \subseteq want /\ want \subseteq VMs /\ short \subseteq VMs
    /\ todo \cup missed \cup blamed \subseteq asked
    /\ clock \in 0..(IF op = "drain" THEN DrainTimeout ELSE
                     IF op = "arm" THEN ArmTimeout ELSE 0)
    /\ fresh \in BOOLEAN /\ cause \in BOOLEAN
KeeperTypes ==
    /\ loop \in {"none", "sleep", "beat"}
    /\ beating \subseteq held /\ held \subseteq VMs
    /\ loop = "none" => held = {} /\ since = 0
    /\ nap \in 0..(IF loop = "beat" THEN BeatTimeout ELSE TickTime)
    /\ since \in Nat
    /\ bad \in BOOLEAN /\ closing \in BOOLEAN
    /\ FreshAlone

LEMMA TypesByPart == FleetTypes <=> MachineTypes /\ BringupTypes /\ KeeperTypes
  BY DEF FleetTypes, FleetTypeOK, MachineTypes, BringupTypes, KeeperTypes

LEMMA GoesDownTyped ==
    ASSUME MachineTypes, NEW v \in VMs, GoesDown(v)
    PROVE  /\ vm' \in [VMs -> {"off", "staging", "on", "stopping"}]
           /\ timer' \in [VMs -> {NoTimer} \cup 0..Deadman]
           /\ \A u \in VMs : vm'[u] # "on" => timer'[u] = NoTimer
  BY DEF MachineTypes, GoesDown

LEMMA MachineStep == FleetTypes /\ [FleetNext]_fleetVars => MachineTypes'
  <1> SUFFICES ASSUME FleetTypes, [FleetNext]_fleetVars PROVE MachineTypes'
    OBVIOUS
  <1> USE TimesAreNat
  <1>1. MachineTypes /\ BringupTypes /\ KeeperTypes /\ FleetTypeOK
    BY TypesByPart DEF FleetTypes
  <1>2. ASSUME UNCHANGED <<vm, timer>>, stale' \subseteq VMs, excused' \subseteq VMs,
               faults' \in 0..MaxFaults, hands' \in 0..MaxHands
        PROVE  MachineTypes'
    BY <1>1, <1>2 DEF MachineTypes
  <1>3. ASSUME NEW S \in SUBSET VMs, NEW left, NEW armed, Stops(S, left, armed),
               excused' = excused, hands' = hands
        PROVE  MachineTypes'
    <2>1. /\ vm' \in [VMs -> {"off", "staging", "on", "stopping"}]
          /\ timer' \in [VMs -> {NoTimer} \cup 0..Deadman]
          /\ \A v \in VMs : vm'[v] # "on" => timer'[v] = NoTimer
          /\ stale' \subseteq VMs /\ faults' \in 0..MaxFaults
      BY <1>1, <1>3, StopsTyped
    <2> QED BY <1>1, <1>3, <2>1 DEF MachineTypes
  <1>0. ASSUME NEW S \in SUBSET VMs, NEW left, StopsBlindly(S, left),
               excused' = excused, hands' = hands
        PROVE  MachineTypes'
    BY <1>1, <1>0, StopsBlindlyTyped DEF MachineTypes
  <1>4. Fails(1) => faults' \in 0..MaxFaults
    BY <1>1, FaultsTyped
  <1>5. /\ stale \subseteq VMs /\ excused \subseteq VMs
        /\ faults \in 0..MaxFaults /\ hands \in 0..MaxHands
        /\ \A S : Listed(S) \subseteq VMs
        /\ {v \in VMs : Up(v)} \subseteq VMs
        /\ asked \subseteq VMs /\ Partial \subseteq VMs
    BY <1>1 DEF MachineTypes, BringupTypes, Listed, Partial
  <1>6. ByHand => hands' \in 0..MaxHands
    BY <1>5 DEF ByHand
  <1>7. CASE \E W \in SUBSET VMs : UpBegins(W)
    BY <1>2, <1>5, <1>7 DEF UpBegins, fleet
  <1>8. CASE NotListed \/ StartRaises
    BY <1>2, <1>4, <1>5, <1>8 DEF NotListed, StartRaises, fleet
  <1>9. CASE StartVMs
    <2>1. PICK refused \in SUBSET asked : \E booting \in SUBSET refused : Starts(refused, booting)
      BY <1>9 DEF StartVMs
    <2>2. PICK booting \in SUBSET refused : Starts(refused, booting)
      BY <2>1
    <2> DEFINE down == {v \in asked : ~Adoptable(v)}
               stuck == {v \in down : Draining(v) \/ v \in Listed(asked)}
               boots == (down \ (refused \cup stuck)) \cup booting
    <2>3. /\ vm' = [v \in VMs |-> IF v \in boots THEN "staging" ELSE vm[v]]
          /\ stale' = Listed(asked) /\ Fails(Cardinality(refused))
          /\ refused \subseteq down
          /\ UNCHANGED <<timer, hands>> /\ excused' = excused \ asked
      BY <1>9, <2>2 DEF Starts, StartVMs
    <2>4. boots \subseteq down
      BY <2>2, <2>3
    <2>5. \A v \in boots : vm[v] # "on"
      BY <2>4 DEF Adoptable
    <2>6. faults' \in 0..MaxFaults
      <3>1. Cardinality(refused) \in Nat
        BY <1>5, CountsAreNat
      <3> QED BY <1>1, <2>3, <3>1, FaultsTyped
    <2> HIDE DEF boots
    <2> QED BY <1>1, <1>5, <2>3, <2>5, <2>6 DEF MachineTypes
  <1>10. CASE Cleanup
    <2>1. CASE \E left \in SUBSET Partial : \E armed \in SUBSET left : Stops(Partial, left, armed)
      <3>0. PICK left \in SUBSET Partial : \E armed \in SUBSET left : Stops(Partial, left, armed)
        BY <2>1
      <3>1. PICK armed \in SUBSET left : Stops(Partial, left, armed)
        BY <3>0
      <3>2. excused' = excused /\ hands' = hands
        BY <1>10 DEF Cleanup
      <3> QED BY <1>3, <1>5, <3>1, <3>2
    <2>2. CASE Fails(1) /\ UNCHANGED fleet
      BY <1>2, <1>4, <1>5, <1>10, <2>2 DEF Cleanup, fleet
    <2> QED BY <1>10, <2>1, <2>2 DEF Cleanup
  <1>11. ASSUME NEW v \in VMs, ArmLands(v) PROVE MachineTypes'
    BY <1>1, <1>11 DEF ArmLands, MachineTypes
  <1>12. ASSUME NEW v \in VMs, ArmMisses(v) PROVE MachineTypes'
    BY <1>2, <1>4, <1>5, <1>12 DEF ArmMisses, fleet
  <1>13. CASE ArmFails
    <2>1. {v \in asked : Up(v)} \subseteq VMs
      BY <1>5
    <2>2. CASE \E left \in SUBSET {v \in asked : Up(v)} : StopsBlindly({v \in asked : Up(v)}, left)
      BY <1>0, <1>13, <2>1, <2>2 DEF ArmFails
    <2>3. CASE Fails(1) /\ UNCHANGED fleet
      BY <1>2, <1>4, <1>5, <1>13, <2>3 DEF ArmFails, fleet
    <2> QED BY <1>13, <2>2, <2>3 DEF ArmFails
  <1>14. CASE Probed \/ UpSucceeds
    BY <1>2, <1>5, <1>14 DEF Probed, UpSucceeds, fleet
  <1>15. CASE StopWhole \/ StopFleet
    <2>1. CASE \E left \in SUBSET {v \in VMs : Up(v)} : \E armed \in SUBSET left :
                  Stops({v \in VMs : Up(v)}, left, armed)
      <3> DEFINE S == {v \in VMs : Up(v)}
      <3>0. PICK left \in SUBSET S : \E armed \in SUBSET left : Stops(S, left, armed)
        BY <2>1
      <3>1. PICK armed \in SUBSET left : Stops(S, left, armed)
        BY <3>0
      <3>2. excused' = excused /\ hands' = hands
        BY <1>15 DEF StopWhole, StopFleet
      <3>3. S \in SUBSET VMs
        OBVIOUS
      <3> HIDE DEF S
      <3> QED BY <1>3, <3>1, <3>2, <3>3
    <2>2. CASE Fails(1) /\ UNCHANGED fleet
      BY <1>2, <1>4, <1>5, <1>15, <2>2 DEF StopWhole, StopFleet, fleet
    <2> QED BY <1>15, <2>1, <2>2 DEF StopWhole, StopFleet
  <1>16. CASE TooEarly \/ BeatLands \/ BeatMissed \/ Down
    BY <1>2, <1>5, <1>16 DEF TooEarly, BeatLands, BeatMissed, Down, fleet
  <1>17. CASE BeatBegins
    BY <1>2, <1>4, <1>5, <1>17 DEF BeatBegins
  <1>18. ASSUME NEW v \in VMs, BeatArms(v) PROVE MachineTypes'
    BY <1>1, <1>4, <1>18 DEF BeatArms, MachineTypes
  <1>19. ASSUME NEW v \in VMs, Boots(v) \/ Stopped(v) PROVE MachineTypes'
    BY <1>1, <1>19 DEF Boots, Stopped, MachineTypes
  <1>20. ASSUME NEW v \in VMs, PowersOff(v) \/ HandStops(v) PROVE MachineTypes'
    BY <1>1, <1>5, <1>6, <1>20, GoesDownTyped DEF PowersOff, HandStops, MachineTypes
  <1>21. ASSUME NEW v \in VMs, HandStarts(v) PROVE MachineTypes'
    BY <1>1, <1>5, <1>6, <1>21 DEF HandStarts, MachineTypes
  <1>22. ASSUME NEW v \in VMs, Recreated(v) PROVE MachineTypes'
    BY <1>2, <1>5, <1>6, <1>22 DEF Recreated
  <1>23. CASE DaemonDies
    BY <1>2, <1>5, <1>6, <1>23 DEF DaemonDies
  <1>24. CASE Time
    <2>1. \A v \in VMs : (IF timer[v] > 0 THEN timer[v] - 1 ELSE timer[v]) \in {NoTimer} \cup 0..Deadman
      BY <1>1 DEF MachineTypes, NoTimer
    <2>2. \A v \in VMs : timer[v] = NoTimer => ~(timer[v] > 0)
      BY DEF NoTimer
    <2> QED BY <1>1, <1>24, <2>1, <2>2 DEF Time, MachineTypes
  <1>25. CASE UNCHANGED fleetVars
    BY <1>2, <1>5, <1>25 DEF fleetVars, fleet
  <1> QED BY <1>7, <1>8, <1>9, <1>10, <1>11, <1>12, <1>13, <1>14, <1>15, <1>16, <1>17,
             <1>18, <1>19, <1>20, <1>21, <1>22, <1>23, <1>24, <1>25
          DEF FleetNext, BringupStep, LoopStep, FleetStep, Hands

\* A bring-up that begins, or is over, has its own variables typed.
LEMMA BeginsTyped ==
    ASSUME NEW W \in SUBSET VMs, NEW first \in SUBSET W, NEW isFresh \in BOOLEAN,
           NEW drains \in BOOLEAN, Begins(W, first, isFresh, drains),
           cause \in BOOLEAN, cause' = cause, short \subseteq VMs, short' = short
    PROVE  BringupTypes'
  BY TimesAreNat DEF Begins, BringupTypes

LEMMA NoBringupTyped ==
    ASSUME NoBringup, short' \subseteq VMs
    PROVE  BringupTypes'
  <1>1. /\ op' = "none" /\ want' = {} /\ asked' = {} /\ fresh' = FALSE
        /\ clock' = 0 /\ todo' = {} /\ missed' = {} /\ blamed' = {} /\ cause' = FALSE
    BY DEF NoBringup
  <1>2. clock' \in 0..(IF op' = "drain" THEN DrainTimeout ELSE
                      IF op' = "arm" THEN ArmTimeout ELSE 0)
    BY <1>1
  <1> QED BY <1>1, <1>2 DEF BringupTypes

LEMMA BringupTypesStep == FleetTypes /\ [FleetNext]_fleetVars => BringupTypes'
  <1> SUFFICES ASSUME FleetTypes, [FleetNext]_fleetVars PROVE BringupTypes'
    OBVIOUS
  <1> USE TimesAreNat
  <1>1. BringupTypes /\ KeeperTypes
    BY TypesByPart
  <1>2. /\ op \in {"none", "drain", "start", "cleanup", "arm", "whole"}
        /\ asked \subseteq want /\ want \subseteq VMs /\ short \subseteq VMs
        /\ asked \subseteq VMs
        /\ todo \subseteq asked /\ missed \subseteq asked /\ blamed \subseteq asked
        /\ fresh \in BOOLEAN /\ cause \in BOOLEAN
        /\ (loop = "none") \in BOOLEAN
    BY <1>1 DEF BringupTypes
  <1>3. ASSUME UNCHANGED <<bringup, short>>, cause' \in BOOLEAN
        PROVE  BringupTypes'
    BY <1>1, <1>3 DEF bringup, BringupTypes
  <1>4. \* A bring-up that goes on, in a stage that counts no time.
        ASSUME op' \in {"cleanup", "whole"}, clock' = 0,
               UNCHANGED <<want, asked, fresh, short>>, cause' \in BOOLEAN,
               todo' \subseteq asked, missed' \subseteq asked, blamed' \subseteq asked
        PROVE  BringupTypes'
    BY <1>2, <1>4 DEF BringupTypes
  <1>5. ASSUME NEW W \in SUBSET VMs, UpBegins(W) PROVE BringupTypes'
    <2> DEFINE probes == loop = "none" /\ Probe(W) \notin {{}, W}
               first == IF probes THEN Probe(W) ELSE W
               drains == loop = "none" /\ ~probes
    <2>1. Begins(W, first, loop = "none", drains)
      BY <1>5 DEF UpBegins
    <2>2. first \in SUBSET W
      BY DEF Probe
    <2>3. drains \in BOOLEAN /\ UNCHANGED <<cause, short>>
      BY <1>5 DEF UpBegins
    <2> HIDE DEF first, drains
    <2> QED BY <1>2, <2>1, <2>2, <2>3, BeginsTyped
  <1>6. CASE NotListed \/ StartRaises
    BY <1>2, <1>4, <1>6 DEF NotListed, StartRaises
  <1>7. CASE StartVMs
    <2>1. PICK refused \in SUBSET asked : \E booting \in SUBSET refused : Starts(refused, booting)
      BY <1>7 DEF StartVMs
    <2>2. PICK booting \in SUBSET refused : Starts(refused, booting)
      BY <2>1
    <2> DEFINE down == {v \in asked : ~Adoptable(v)}
               stuck == {v \in down : Draining(v) \/ v \in Listed(asked)}
    <2>3. /\ blamed' = refused \cup stuck /\ clock' = 0
          /\ cause' = (cause \/ refused # {} \/ \E v \in down : Draining(v))
          /\ \/ op' = "arm" /\ todo' = ToArm
             \/ op' = "cleanup" /\ UNCHANGED todo
          /\ UNCHANGED <<want, asked, fresh, missed, short>>
      BY <1>7, <2>2 DEF Starts, StartVMs
    <2>4. blamed' \subseteq asked /\ cause' \in BOOLEAN /\ todo' \subseteq asked
      BY <1>2, <2>3 DEF ToArm
    <2> QED BY <1>2, <2>3, <2>4 DEF BringupTypes
  <1>8. CASE Cleanup
    <2>1. clock = 0
      BY <1>1, <1>8 DEF BringupTypes, Cleanup
    <2>2. blamed' \subseteq asked
      <3>1. Partial \subseteq asked
        BY DEF Partial
      <3> QED BY <1>2, <1>8, <3>1 DEF Cleanup
    <2> QED BY <1>2, <1>4, <1>8, <2>1, <2>2 DEF Cleanup
  <1>9. ASSUME NEW v \in VMs, ArmLands(v) \/ ArmMisses(v) PROVE BringupTypes'
    <2>1. todo' \subseteq asked /\ missed' \subseteq asked /\ cause' \in BOOLEAN
      BY <1>2, <1>9 DEF ArmLands, ArmMisses
    <2>2. UNCHANGED <<op, want, asked, fresh, clock, blamed, short>>
      BY <1>9 DEF ArmLands, ArmMisses
    <2> QED BY <1>1, <2>1, <2>2 DEF BringupTypes
  <1>10. CASE ArmFails
    BY <1>2, <1>4, <1>10 DEF ArmFails
  <1>11. CASE Probed
    <2>1. Begins(want, want, fresh, fresh) /\ UNCHANGED <<cause, short>>
      BY <1>11 DEF Probed
    <2> QED BY <1>2, <2>1, BeginsTyped
  <1>12. CASE UpSucceeds
    BY <1>12, NoBringupTyped DEF UpSucceeds
  <1>13. CASE StopWhole
    <2>1. NoBringup /\ short' \in {short, blamed}
      BY <1>13 DEF StopWhole
    <2> QED BY <1>2, <2>1, NoBringupTyped
  <1>14. CASE StopFleet
    BY <1>3, <1>14 DEF StopFleet
  <1>15. CASE TooEarly \/ BeatBegins \/ BeatLands \/ BeatMissed \/ Down
    BY <1>2, <1>3, <1>15 DEF TooEarly, BeatBegins, BeatLands, BeatMissed, Down
  <1>16. ASSUME NEW v \in VMs, BeatArms(v) PROVE BringupTypes'
    BY <1>2, <1>3, <1>16 DEF BeatArms
  <1>17. ASSUME NEW v \in VMs, Boots(v) \/ Stopped(v) \/ HandStarts(v) \/ Recreated(v)
         PROVE  BringupTypes'
    BY <1>2, <1>3, <1>17 DEF Boots, Stopped, HandStarts, Recreated
  <1>18. ASSUME NEW v \in VMs, PowersOff(v) \/ HandStops(v) PROVE BringupTypes'
    BY <1>3, <1>18 DEF PowersOff, HandStops, GoesDown
  <1>19. CASE DaemonDies
    BY <1>19, NoBringupTyped DEF DaemonDies
  <1>20. CASE Time
    <2>1. UNCHANGED <<op, want, asked, fresh, todo, missed, blamed, short, cause>>
      BY <1>20 DEF Time
    <2>2. clock' \in 0..(IF op = "drain" THEN DrainTimeout ELSE
                        IF op = "arm" THEN ArmTimeout ELSE 0)
      BY <1>1, <1>20 DEF Time, Waits, BringupTypes
    <2> QED BY <1>1, <2>1, <2>2 DEF BringupTypes
  <1>21. CASE UNCHANGED fleetVars
    BY <1>2, <1>3, <1>21 DEF fleetVars
  <1> QED BY <1>5, <1>6, <1>7, <1>8, <1>9, <1>10, <1>11, <1>12, <1>13, <1>14, <1>15,
             <1>16, <1>17, <1>18, <1>19, <1>20, <1>21
          DEF FleetNext, BringupStep, LoopStep, FleetStep, Hands

LEMMA NoLoopTyped ==
    ASSUME NoLoop, closing' \in BOOLEAN
    PROVE  KeeperTypes'
  <1>1. /\ loop' = "none" /\ held' = {} /\ since' = 0 /\ nap' = 0
        /\ beating' = {} /\ bad' = FALSE
    BY DEF NoLoop
  <1>2. 0 \in 0..TickTime /\ 0 \in Nat
    BY TimesAreNat
  <1> QED BY <1>1, <1>2 DEF KeeperTypes, FreshAlone

LEMMA KeeperStep == FleetTypes /\ [FleetNext]_fleetVars => KeeperTypes'
  <1> SUFFICES ASSUME FleetTypes, [FleetNext]_fleetVars PROVE KeeperTypes'
    OBVIOUS
  <1> USE TimesAreNat
  <1>1. BringupTypes /\ KeeperTypes
    BY TypesByPart
  <1>2. ASSUME UNCHANGED keeper, closing' \in BOOLEAN, fresh' => loop = "none"
        PROVE  KeeperTypes'
    BY <1>1, <1>2 DEF keeper, KeeperTypes, FreshAlone
  <1>3. /\ closing \in BOOLEAN /\ (fresh => loop = "none")
        /\ want \subseteq VMs /\ held \subseteq VMs /\ beating \subseteq held
    BY <1>1 DEF KeeperTypes, BringupTypes, FreshAlone
  <1>4. ASSUME NEW W \in SUBSET VMs, UpBegins(W) PROVE KeeperTypes'
    BY <1>2, <1>3, <1>4 DEF UpBegins, Begins
  <1>5. CASE NotListed \/ StartRaises \/ StartVMs \/ Cleanup \/ ArmFails
    BY <1>2, <1>3, <1>5 DEF NotListed, StartRaises, StartVMs, Cleanup, ArmFails
  <1>6. ASSUME NEW v \in VMs, ArmLands(v) \/ ArmMisses(v) PROVE KeeperTypes'
    BY <1>2, <1>3, <1>6 DEF ArmLands, ArmMisses
  <1>7. CASE Probed
    BY <1>2, <1>3, <1>7 DEF Probed, Begins
  <1>8. CASE UpSucceeds
    <2>1. fresh' = FALSE /\ closing' = closing
      BY <1>8 DEF UpSucceeds, NoBringup
    <2>2. CASE fresh
      <3>1. held = {} /\ beating = {}
        BY <1>1, <1>3, <2>2 DEF KeeperTypes
      <3>2. /\ loop' = "sleep" /\ held' = want /\ since' = 0 /\ nap' = TickTime
            /\ UNCHANGED <<beating, bad>>
        BY <1>8, <2>2 DEF UpSucceeds
      <3> QED BY <1>1, <1>3, <2>1, <3>1, <3>2 DEF KeeperTypes, FreshAlone
    <2>3. CASE ~fresh
      <3>1. /\ held' = IF loop = "none" THEN held ELSE Extended
            /\ UNCHANGED <<loop, since, nap, beating, bad>>
        BY <1>8, <2>3 DEF UpSucceeds
      <3>2. held \subseteq held' /\ held' \subseteq VMs /\ (loop = "none" => held' = held)
        BY <1>3, <3>1 DEF Extended
      <3> QED BY <1>1, <2>1, <3>1, <3>2 DEF KeeperTypes, FreshAlone
    <2> QED BY <2>2, <2>3
  <1>9. CASE StopWhole
    BY <1>2, <1>3, <1>9 DEF StopWhole, NoBringup
  <1>10. CASE TooEarly
    BY <1>1, <1>10 DEF TooEarly, KeeperTypes, FreshAlone, bringup
  <1>11. CASE BeatBegins
    <2>1. /\ loop' = "beat" /\ nap' = BeatTimeout /\ loop = "sleep"
          /\ beating' \subseteq held /\ bad' \in BOOLEAN
          /\ UNCHANGED <<held, since, closing, fresh>>
      BY <1>11 DEF BeatBegins, bringup
    <2> QED BY <1>1, <2>1 DEF KeeperTypes, FreshAlone
  <1>12. ASSUME NEW v \in VMs, BeatArms(v) PROVE KeeperTypes'
    <2>1. /\ beating' \subseteq beating /\ (bad' = bad \/ bad' = TRUE)
          /\ UNCHANGED <<loop, held, since, nap, closing, fresh>>
      BY <1>12 DEF BeatArms, bringup
    <2>2. bad' \in BOOLEAN /\ beating' \subseteq held
      BY <1>1, <2>1 DEF KeeperTypes
    <2> QED BY <1>1, <2>1, <2>2 DEF KeeperTypes, FreshAlone
  <1>13. CASE BeatLands
    <2>1. /\ loop = "beat" /\ loop' = "sleep" /\ nap' = TickTime /\ beating' = {}
          /\ bad' = FALSE /\ since' = 0 /\ UNCHANGED <<held, closing, fresh>>
      BY <1>13 DEF BeatLands, Sleeps, bringup
    <2>2. nap' \in 0..(IF loop' = "beat" THEN BeatTimeout ELSE TickTime)
      BY <2>1
    <2>3. ~fresh' /\ held \subseteq VMs
      BY <1>1, <2>1 DEF KeeperTypes, FreshAlone
    <2> QED BY <1>1, <2>1, <2>2, <2>3 DEF KeeperTypes, FreshAlone
  <1>14. CASE BeatMissed
    <2>1. CASE GivesUp
      BY <1>14, <2>1, NoLoopTyped DEF BeatMissed, Gives
    <2>2. CASE ~GivesUp
      <3>1. /\ loop = "beat" /\ loop' = "sleep" /\ nap' = TickTime /\ beating' = {}
            /\ bad' = FALSE /\ UNCHANGED <<held, since, closing, fresh>>
        BY <1>14, <2>2 DEF BeatMissed, Sleeps, bringup
      <3>2. nap' \in 0..(IF loop' = "beat" THEN BeatTimeout ELSE TickTime)
        BY <3>1
      <3>3. ~fresh' /\ held \subseteq VMs
        BY <1>1, <3>1 DEF KeeperTypes, FreshAlone
      <3> QED BY <1>1, <3>1, <3>2, <3>3 DEF KeeperTypes, FreshAlone
    <2> QED BY <2>1, <2>2
  <1>15. CASE Down
    BY <1>15, NoLoopTyped DEF Down, Gives
  <1>16. CASE StopFleet
    BY <1>2, <1>3, <1>16 DEF StopFleet, bringup
  <1>17. ASSUME NEW v \in VMs, Boots(v) \/ Stopped(v) \/ HandStarts(v) \/ Recreated(v)
         PROVE  KeeperTypes'
    BY <1>2, <1>3, <1>17 DEF Boots, Stopped, HandStarts, Recreated, bringup
  <1>18. ASSUME NEW v \in VMs, PowersOff(v) \/ HandStops(v) PROVE KeeperTypes'
    BY <1>2, <1>3, <1>18 DEF PowersOff, HandStops, bringup
  <1>19. CASE DaemonDies
    BY <1>19, NoLoopTyped DEF DaemonDies
  <1>20. CASE Time
    <2>1. UNCHANGED <<loop, held, beating, bad, closing, fresh>>
      BY <1>20 DEF Time
    <2>2. CASE loop = "none"
      BY <1>1, <1>20, <2>1, <2>2 DEF Time, KeeperTypes, FreshAlone
    <2>3. CASE loop # "none"
      <3>1. since' = since + 1 /\ nap' = nap - 1 /\ nap > 0
        BY <1>20, <2>3 DEF Time, Waits
      <3> QED BY <1>1, <2>1, <2>3, <3>1 DEF KeeperTypes, FreshAlone
    <2> QED BY <2>2, <2>3
  <1>21. CASE UNCHANGED fleetVars
    BY <1>2, <1>3, <1>21 DEF fleetVars, bringup
  <1> QED BY <1>4, <1>5, <1>6, <1>7, <1>8, <1>9, <1>10, <1>11, <1>12, <1>13, <1>14, <1>15,
             <1>16, <1>17, <1>18, <1>19, <1>20, <1>21
          DEF FleetNext, BringupStep, LoopStep, FleetStep, Hands

LEMMA FleetTypesStart == FleetInit => FleetTypes
  <1> SUFFICES ASSUME FleetInit PROVE FleetTypes
    OBVIOUS
  <1>1. MachineTypes
    BY TimesAreNat DEF FleetInit, MachineTypes
  <1>2. BringupTypes
    <2>1. /\ op = "none" /\ want = {} /\ asked = {} /\ fresh = FALSE /\ short = {}
          /\ clock = 0 /\ todo = {} /\ missed = {} /\ blamed = {} /\ cause = FALSE
      BY DEF FleetInit
    <2>2. clock \in 0..(IF op = "drain" THEN DrainTimeout ELSE
                       IF op = "arm" THEN ArmTimeout ELSE 0)
      BY <2>1
    <2> QED BY <2>1, <2>2 DEF BringupTypes
  <1>3. KeeperTypes
    <2>1. /\ loop = "none" /\ held = {} /\ since = 0 /\ nap = 0
          /\ beating = {} /\ bad = FALSE /\ closing = FALSE
      BY DEF FleetInit
    <2>2. 0 \in 0..TickTime /\ 0 \in Nat
      BY TimesAreNat
    <2> QED BY <2>1, <2>2 DEF KeeperTypes, FreshAlone
  <1> QED BY <1>1, <1>2, <1>3, TypesByPart

LEMMA FleetTypesStep == FleetTypes /\ [FleetNext]_fleetVars => FleetTypes'
  <1> SUFFICES ASSUME FleetTypes, [FleetNext]_fleetVars PROVE FleetTypes'
    OBVIOUS
  <1>1. MachineTypes' /\ BringupTypes' /\ KeeperTypes'
    BY MachineStep, BringupTypesStep, KeeperStep
  <1> QED BY <1>1 DEF FleetTypes, FleetTypeOK, MachineTypes, BringupTypes, KeeperTypes

\* The variables of the fleet, the bring-up and the tick loop keep their types.
THEOREM FleetTypeCorrect == FleetSpec => []FleetTypeOK
  <1>1. FleetTypes => FleetTypeOK
    BY DEF FleetTypes
  <1> QED BY <1>1, FleetTypesStart, FleetTypesStep, PTL DEF FleetSpec
-----------------------------------------------------------------------------
(* The timers under the tick loop.                                         *)

\* How late the loop can be when it sleeps and when it beats.
Punctual ==
    /\ loop = "sleep" => since + nap < RearmDeadline + TickTime
    /\ loop = "beat" => since + nap < RearmDeadline + TickTime + BeatTimeout

\* An armed VM of the bring-up under way was armed since arming began.
AskedArmed ==
    op = "arm" =>
        \A v \in asked \ (todo \cup missed) :
            timer[v] = NoTimer \/ timer[v] + clock >= Deadman

\* An armed VM of the loop was armed no longer before last_rearm than a beat and
\* a bring-up take.
HeldArmed ==
    loop # "none" =>
        \A v \in held :
            timer[v] = NoTimer \/ timer[v] + since + BeatTimeout + ArmTimeout >= Deadman

\* A beat that lands has armed all of them since it began, or a bring-up has.
BeatArmed ==
    (loop = "beat" /\ ~bad) =>
        \A v \in held \ beating :
            timer[v] = NoTimer \/ timer[v] + (BeatTimeout - nap) + ArmTimeout >= Deadman

KeepInv == FleetTypes /\ Punctual /\ AskedArmed /\ HeldArmed /\ BeatArmed

\* A timer that moves without time moving is set afresh or gone.
Fresher == \A v \in VMs : timer'[v] \in {timer[v], NoTimer, Deadman}

LEMMA KeepFacts ==
    ASSUME FleetTypes
    PROVE  /\ loop \in {"none", "sleep", "beat"}
           /\ asked \subseteq VMs /\ want \subseteq VMs /\ held \subseteq VMs
           /\ beating \subseteq held
           /\ clock \in Nat /\ since \in Nat /\ nap \in Nat
           /\ op = "arm" => clock <= ArmTimeout
           /\ loop = "beat" => nap <= BeatTimeout
           /\ \A v \in VMs : timer[v] \in Int
           /\ \A v \in VMs : vm[v] # "on" => timer[v] = NoTimer
  <1> USE TimesAreNat
  <1>1. MachineTypes /\ BringupTypes /\ KeeperTypes
    BY TypesByPart
  <1>2. /\ clock \in Nat /\ (op = "arm" => clock <= ArmTimeout)
    BY <1>1 DEF BringupTypes
  <1>3. nap \in Nat /\ (loop = "beat" => nap <= BeatTimeout)
    BY <1>1 DEF KeeperTypes
  <1>4. \A v \in VMs : timer[v] \in Int
    BY <1>1 DEF MachineTypes, NoTimer
  <1> QED BY <1>1, <1>2, <1>3, <1>4 DEF MachineTypes, BringupTypes, KeeperTypes

LEMMA LoopLeftAlone ==
    ASSUME KeepInv, UNCHANGED keeper, Fresher
    PROVE  Punctual' /\ HeldArmed' /\ BeatArmed'
  <1> USE TimesAreNat, KeepFacts
  <1>1. Punctual'
    BY DEF KeepInv, Punctual, keeper
  <1>2. HeldArmed'
    <2> SUFFICES ASSUME loop' # "none", NEW v \in held'
                 PROVE  timer'[v] = NoTimer
                        \/ timer'[v] + since' + BeatTimeout + ArmTimeout >= Deadman
      BY DEF HeldArmed
    <2>1. v \in held /\ loop # "none" /\ since' = since /\ v \in VMs /\ since \in Nat
      BY DEF keeper, KeepInv
    <2> QED BY <2>1 DEF Fresher, KeepInv, HeldArmed
  <1>3. BeatArmed'
    <2> SUFFICES ASSUME (loop = "beat" /\ ~bad)', NEW v \in (held \ beating)'
                 PROVE  timer'[v] = NoTimer
                        \/ timer'[v] + (BeatTimeout - nap') + ArmTimeout >= Deadman
      BY DEF BeatArmed
    <2>1. /\ v \in held \ beating /\ loop = "beat" /\ ~bad /\ nap' = nap
          /\ v \in VMs /\ nap \in Nat /\ nap <= BeatTimeout
      BY DEF keeper, KeepInv
    <2> QED BY <2>1 DEF Fresher, KeepInv, BeatArmed
  <1> QED BY <1>1, <1>2, <1>3

LEMMA BringupLeftAlone ==
    ASSUME KeepInv, Fresher, UNCHANGED <<op, asked, todo, missed, clock>>
    PROVE  AskedArmed'
  <1> SUFFICES ASSUME op' = "arm", NEW v \in (asked \ (todo \cup missed))'
               PROVE  timer'[v] = NoTimer \/ timer'[v] + clock' >= Deadman
    BY DEF AskedArmed
  <1>1. /\ op = "arm" /\ v \in asked \ (todo \cup missed) /\ clock' = clock
        /\ v \in VMs /\ clock \in Nat
    BY KeepFacts DEF KeepInv
  <1> QED BY <1>1, TimesAreNat DEF Fresher, KeepInv, AskedArmed

LEMMA FresherStep == FleetTypes /\ FleetNext => Fresher \/ Time
  <1> SUFFICES ASSUME FleetTypes, FleetNext, ~Time PROVE Fresher
    OBVIOUS
  <1>1. FleetTypeOK /\ MachineTypes /\ BringupTypes
    BY TypesByPart DEF FleetTypes
  <1>2. timer' = timer => Fresher
    BY DEF Fresher
  <1>3. \A v \in VMs : timer' = [timer EXCEPT ![v] = Deadman] => Fresher
    BY <1>1 DEF Fresher, MachineTypes
  <1>4. \A v \in VMs : GoesDown(v) => Fresher
    BY <1>1 DEF Fresher, GoesDown, MachineTypes
  <1>5. ASSUME NEW S \in SUBSET VMs, NEW left, NEW armed, Stops(S, left, armed)
        PROVE  Fresher
    BY <1>1, <1>5, StopsTyped DEF Fresher
  <1>6. ASSUME NEW S \in SUBSET VMs, NEW left, StopsBlindly(S, left)
        PROVE  Fresher
    BY <1>1, <1>6, StopsBlindlyTyped DEF Fresher
  <1>7. {v \in asked : Up(v)} \in SUBSET VMs /\ {v \in VMs : Up(v)} \in SUBSET VMs
    BY <1>1 DEF BringupTypes
  <1>8. CASE \E W \in SUBSET VMs : UpBegins(W)
    BY <1>2, <1>8 DEF UpBegins, fleet
  <1>9. CASE NotListed \/ StartRaises \/ StartVMs \/ Probed \/ UpSucceeds
    BY <1>2, <1>9 DEF NotListed, StartRaises, StartVMs, Probed, UpSucceeds, fleet
  <1>10. CASE Cleanup
    BY <1>2, <1>5, <1>7, <1>10 DEF Cleanup, Partial, fleet
  <1>11. ASSUME NEW v \in VMs, ArmLands(v) \/ ArmMisses(v) PROVE Fresher
    BY <1>2, <1>3, <1>11 DEF ArmLands, ArmMisses, fleet
  <1>12. CASE ArmFails
    BY <1>2, <1>6, <1>7, <1>12 DEF ArmFails, fleet
  <1>13. CASE StopWhole \/ StopFleet
    BY <1>2, <1>5, <1>7, <1>13 DEF StopWhole, StopFleet, fleet
  <1>14. CASE TooEarly \/ BeatBegins \/ BeatLands \/ BeatMissed \/ Down \/ DaemonDies
    BY <1>2, <1>14 DEF TooEarly, BeatBegins, BeatLands, BeatMissed, Down, DaemonDies, fleet
  <1>15. ASSUME NEW v \in VMs, BeatArms(v) PROVE Fresher
    BY <1>2, <1>3, <1>15 DEF BeatArms
  <1>16. ASSUME NEW v \in VMs,
                Boots(v) \/ Stopped(v) \/ PowersOff(v) \/ HandStops(v) \/ HandStarts(v)
                \/ Recreated(v)
         PROVE  Fresher
    BY <1>2, <1>4, <1>16 DEF Boots, Stopped, PowersOff, HandStops, HandStarts, Recreated
  <1> QED BY <1>8, <1>9, <1>10, <1>11, <1>12, <1>13, <1>14, <1>15, <1>16
          DEF FleetNext, BringupStep, LoopStep, FleetStep, Hands

LEMMA AskedArmedStep == KeepInv /\ [FleetNext]_fleetVars => AskedArmed'
  <1> SUFFICES ASSUME KeepInv, [FleetNext]_fleetVars PROVE AskedArmed'
    OBVIOUS
  <1>1. Fresher \/ Time
    BY FresherStep DEF KeepInv, Fresher, fleetVars, fleet
  <1>2. op' # "arm" => AskedArmed'
    BY DEF AskedArmed
  <1>3. ASSUME NEW W \in SUBSET VMs, UpBegins(W) PROVE AskedArmed'
    BY <1>2, <1>3 DEF UpBegins, Begins
  <1>4. CASE NotListed \/ StartRaises \/ Cleanup \/ ArmFails \/ Probed \/ UpSucceeds
             \/ StopWhole \/ DaemonDies
    BY <1>2, <1>4 DEF NotListed, StartRaises, Cleanup, ArmFails, Probed, UpSucceeds,
                      StopWhole, DaemonDies, Begins, NoBringup
  <1>5. CASE StartVMs
    <2>1. PICK refused \in SUBSET asked : \E booting \in SUBSET refused : Starts(refused, booting)
      BY <1>5 DEF StartVMs
    <2>2. op' = "arm" => todo' = asked
      BY <2>1 DEF Starts, ToArm
    <2> QED BY <1>5, <2>2 DEF StartVMs, AskedArmed
  <1>6. ASSUME NEW u \in VMs, ArmLands(u) PROVE AskedArmed'
    <2> SUFFICES ASSUME NEW v \in (asked \ (todo \cup missed))'
                 PROVE  timer'[v] = NoTimer \/ timer'[v] + clock' >= Deadman
      BY DEF AskedArmed
    <2>1. /\ timer' = [timer EXCEPT ![u] = Deadman] /\ op = "arm" /\ clock' = clock
          /\ v \in asked /\ (v \in asked \ (todo \cup missed) \/ v = u)
      BY <1>6 DEF ArmLands
    <2>2. clock \in Nat /\ v \in VMs /\ timer \in [VMs -> {NoTimer} \cup 0..Deadman]
      BY <2>1, KeepFacts DEF KeepInv, FleetTypes, FleetTypeOK
    <2>3. CASE v = u
      BY <2>1, <2>2, <2>3, TimesAreNat
    <2>4. CASE v # u
      BY <2>1, <2>2, <2>4 DEF KeepInv, AskedArmed
    <2> QED BY <2>3, <2>4
  <1>7. ASSUME NEW u \in VMs, ArmMisses(u) PROVE AskedArmed'
    BY <1>7 DEF ArmMisses, KeepInv, AskedArmed, fleet
  <1>12. ASSUME UNCHANGED bringup, ~Time PROVE AskedArmed'
    BY <1>1, <1>12, BringupLeftAlone DEF bringup
  <1>8. CASE (StopFleet \/ TooEarly \/ BeatBegins \/ BeatLands \/ BeatMissed \/ Down) /\ ~Time
    <2>1. UNCHANGED <<op, want, asked, fresh, clock, todo, missed, blamed>>
      BY <1>8 DEF StopFleet, TooEarly, BeatBegins, BeatLands, BeatMissed, Down, bringup
    <2> QED BY <1>8, <1>12, <2>1 DEF bringup
  <1>9. ASSUME NEW v \in VMs, ~Time,
               BeatArms(v) \/ Boots(v) \/ Stopped(v) \/ PowersOff(v) \/ HandStops(v)
               \/ HandStarts(v) \/ Recreated(v)
        PROVE  AskedArmed'
    <2>1. UNCHANGED bringup
      BY <1>9 DEF BeatArms, Boots, Stopped, PowersOff, HandStops, HandStarts, Recreated
    <2> QED BY <1>9, <1>12, <2>1
  <1>10. CASE Time
    <2> SUFFICES ASSUME op' = "arm", NEW v \in (asked \ (todo \cup missed))'
                 PROVE  timer'[v] = NoTimer \/ timer'[v] + clock' >= Deadman
      BY DEF AskedArmed
    <2>1. /\ op = "arm" /\ v \in asked \ (todo \cup missed) /\ clock' = clock + 1
          /\ clock \in Nat /\ v \in VMs /\ timer[v] \in Int
      BY <1>10, KeepFacts DEF Time, KeepInv
    <2>2. timer'[v] = IF timer[v] > 0 THEN timer[v] - 1 ELSE timer[v]
      BY <1>10, <2>1 DEF Time
    <2>3. timer[v] = NoTimer \/ timer[v] + clock >= Deadman
      BY <2>1 DEF KeepInv, AskedArmed
    <2> QED BY <2>1, <2>2, <2>3, TimesAreNat DEF NoTimer
  <1>11. CASE UNCHANGED fleetVars
    BY <1>1, <1>11, BringupLeftAlone DEF fleetVars, fleet, bringup, Fresher
  <1> QED BY <1>3, <1>4, <1>5, <1>6, <1>7, <1>8, <1>9, <1>10, <1>11
          DEF FleetNext, BringupStep, LoopStep, FleetStep, Hands

LoopInv == Punctual /\ HeldArmed /\ BeatArmed

LEMMA NoLoopKeeps == NoLoop => LoopInv'
  BY DEF NoLoop, LoopInv, Punctual, HeldArmed, BeatArmed

\* last_rearm as it stands: the loop sleeps on.
LEMMA SleepsOn ==
    ASSUME KeepInv, UNCHANGED <<timer, held, since>>, since < RearmDeadline,
           loop # "none", loop' = "sleep", nap' = TickTime
    PROVE  LoopInv'
  <1>1. Punctual'
    BY TimesAreNat, KeepFacts DEF KeepInv, Punctual
  <1> QED BY <1>1 DEF KeepInv, LoopInv, HeldArmed, BeatArmed

LEMMA LoopStepKeeps == KeepInv /\ [FleetNext]_fleetVars => LoopInv'
  <1> SUFFICES ASSUME KeepInv, [FleetNext]_fleetVars PROVE LoopInv'
    OBVIOUS
  <1> USE TimesAreNat
  <1>1. Fresher \/ Time
    BY FresherStep DEF KeepInv, Fresher, fleetVars, fleet
  <1>2. ASSUME UNCHANGED keeper, ~Time PROVE LoopInv'
    BY <1>1, <1>2, LoopLeftAlone DEF LoopInv
  <1>3. /\ loop \in {"none", "sleep", "beat"}
        /\ want \subseteq VMs /\ held \subseteq VMs /\ beating \subseteq held
        /\ clock \in Nat /\ since \in Nat /\ nap \in Nat
        /\ op = "arm" => clock <= ArmTimeout
        /\ loop = "beat" => nap <= BeatTimeout
        /\ \A v \in VMs : timer[v] \in Int
        /\ \A v \in VMs : vm[v] # "on" => timer[v] = NoTimer
    BY KeepFacts DEF KeepInv
  <1>4. /\ Punctual /\ AskedArmed /\ HeldArmed /\ BeatArmed
    BY DEF KeepInv
  <1>5. CASE UpSucceeds
    <2>1. /\ op = "arm" /\ timer' = timer /\ held' \subseteq VMs
          /\ \A v \in want : timer[v] = NoTimer \/ timer[v] + clock >= Deadman
      <3>1. op = "arm" /\ todo = {} /\ missed = {} /\ asked = want /\ timer' = timer
        BY <1>5 DEF UpSucceeds, fleet
      <3>2. held' \subseteq VMs
        BY <1>3, <1>5 DEF UpSucceeds, Extended
      <3> QED BY <1>4, <3>1, <3>2 DEF AskedArmed
    <2>2. CASE fresh
      <3>1. /\ loop' = "sleep" /\ held' = want /\ since' = 0 /\ nap' = TickTime
        BY <1>5, <2>2 DEF UpSucceeds
      <3>2. \A v \in want : timer[v] = NoTimer
                            \/ timer[v] + 0 + BeatTimeout + ArmTimeout >= Deadman
        BY <1>3, <2>1
      <3> QED BY <2>1, <3>1, <3>2 DEF LoopInv, Punctual, HeldArmed, BeatArmed
    <2>3. CASE ~fresh
      <3>1. /\ UNCHANGED <<loop, since, nap, beating, bad>>
            /\ \A v \in held' : v \in held \/ (loop # "none" /\ v \in want)
        BY <1>5, <2>3 DEF UpSucceeds, Extended
      <3>2. Punctual'
        BY <1>4, <3>1 DEF Punctual
      <3>3. \A v \in want : timer[v] = NoTimer
                            \/ timer[v] + since + BeatTimeout + ArmTimeout >= Deadman
        BY <1>3, <2>1
      <3>4. HeldArmed'
        BY <1>4, <2>1, <3>1, <3>3 DEF HeldArmed
      <3>5. loop = "beat" => \A v \in want :
               timer[v] = NoTimer \/ timer[v] + (BeatTimeout - nap) + ArmTimeout >= Deadman
        BY <1>3, <2>1
      <3>6. BeatArmed'
        BY <1>4, <2>1, <3>1, <3>5 DEF BeatArmed
      <3> QED BY <3>2, <3>4, <3>6 DEF LoopInv
    <2> QED BY <2>2, <2>3
  <1>6. CASE TooEarly
    BY <1>3, <1>6, SleepsOn DEF TooEarly, fleet
  <1>7. CASE BeatBegins
    <2>1. /\ loop = "sleep" /\ nap = 0 /\ loop' = "beat" /\ nap' = BeatTimeout
          /\ UNCHANGED <<timer, held, since>>
          /\ (bad' \/ beating' = {v \in held : vm[v] = "on"})
      BY <1>7 DEF BeatBegins
    <2>2. Punctual'
      BY <1>3, <1>4, <2>1 DEF Punctual
    <2>3. HeldArmed'
      BY <1>4, <2>1 DEF HeldArmed
    <2>4. BeatArmed'
      BY <1>3, <2>1 DEF BeatArmed
    <2> QED BY <2>2, <2>3, <2>4 DEF LoopInv
  <1>8. ASSUME NEW u \in VMs, BeatArms(u) PROVE LoopInv'
    <2>1. /\ loop = "beat" /\ beating' = beating \ {u}
          /\ UNCHANGED <<loop, held, since, nap>>
          /\ \/ timer' = [timer EXCEPT ![u] = Deadman] /\ bad' = bad
             \/ timer' = timer /\ bad'
      BY <1>8 DEF BeatArms
    <2>2. timer \in [VMs -> {NoTimer} \cup 0..Deadman]
      BY DEF KeepInv, FleetTypes, FleetTypeOK
    <2>3. Punctual'
      BY <1>4, <2>1 DEF Punctual
    <2>4. ASSUME NEW v \in VMs
          PROVE  timer'[v] = timer[v] \/ timer'[v] = Deadman
      BY <2>1, <2>2
    <2>5. HeldArmed'
      BY <1>3, <1>4, <2>1, <2>4 DEF HeldArmed
    <2>6. BeatArmed'
      <3> SUFFICES ASSUME ~bad', NEW v \in held \ (beating \ {u})
                   PROVE  timer'[v] = NoTimer
                          \/ timer'[v] + (BeatTimeout - nap) + ArmTimeout >= Deadman
        BY <2>1 DEF BeatArmed
      <3>1. timer' = [timer EXCEPT ![u] = Deadman] /\ ~bad
        BY <2>1
      <3>2. CASE v = u
        BY <1>3, <2>1, <2>2, <3>1, <3>2
      <3>3. CASE v # u
        BY <1>3, <1>4, <2>1, <2>2, <3>1, <3>3 DEF BeatArmed
      <3> QED BY <3>2, <3>3
    <2> QED BY <2>3, <2>5, <2>6 DEF LoopInv
  <1>9. CASE BeatLands
    <2>1. /\ loop = "beat" /\ beating = {} /\ ~bad
          /\ loop' = "sleep" /\ nap' = TickTime /\ since' = 0
          /\ UNCHANGED <<timer, held>>
      BY <1>9 DEF BeatLands, Sleeps, fleet
    <2>2. \A v \in held : timer[v] = NoTimer
                          \/ timer[v] + 0 + BeatTimeout + ArmTimeout >= Deadman
      BY <1>3, <1>4, <2>1 DEF BeatArmed
    <2> QED BY <2>1, <2>2 DEF LoopInv, Punctual, HeldArmed, BeatArmed
  <1>10. CASE BeatMissed
    <2>1. CASE GivesUp
      BY <1>10, <2>1, NoLoopKeeps DEF BeatMissed, Gives
    <2>2. CASE ~GivesUp
      <3>1. since < RearmDeadline
        BY <1>3, <2>2 DEF GivesUp
      <3> QED BY <1>10, <2>2, <3>1, SleepsOn DEF BeatMissed, Sleeps, fleet
    <2> QED BY <2>1, <2>2
  <1>11. CASE Down \/ DaemonDies
    BY <1>11, NoLoopKeeps DEF Down, Gives, DaemonDies
  <1>12. CASE Time
    <2>1. CASE loop = "none"
      BY <1>12, <2>1 DEF Time, LoopInv, Punctual, HeldArmed, BeatArmed
    <2>2. CASE loop # "none"
      <3>1. /\ since' = since + 1 /\ nap' = nap - 1 /\ nap > 0
            /\ UNCHANGED <<loop, held, beating, bad>>
            /\ \A v \in VMs : timer'[v] = IF timer[v] > 0 THEN timer[v] - 1 ELSE timer[v]
            /\ \A v \in VMs : timer[v] # 0
        BY <1>12, <2>2 DEF Time, Waits
      <3>2. \A v \in VMs : timer[v] = NoTimer => timer'[v] = NoTimer
        BY <1>3, <3>1 DEF NoTimer
      <3>3. \A v \in VMs : timer'[v] >= timer[v] - 1 /\ timer'[v] \in Int
        BY <1>3, <3>1
      <3>4. Punctual'
        BY <1>3, <1>4, <3>1 DEF Punctual
      <3>5. HeldArmed'
        BY <1>3, <1>4, <3>1, <3>2, <3>3 DEF HeldArmed
      <3>6. BeatArmed'
        BY <1>3, <1>4, <3>1, <3>2, <3>3 DEF BeatArmed
      <3> QED BY <3>4, <3>5, <3>6 DEF LoopInv
    <2> QED BY <2>1, <2>2
  <1>13. CASE (NotListed \/ StartRaises \/ StartVMs \/ Cleanup \/ ArmFails \/ Probed
               \/ StopWhole \/ StopFleet) /\ ~Time
    BY <1>2, <1>13 DEF NotListed, StartRaises, StartVMs, Cleanup, ArmFails, Probed,
                       StopWhole, StopFleet
  <1>14. ASSUME NEW W \in SUBSET VMs, UpBegins(W), ~Time PROVE LoopInv'
    BY <1>2, <1>14 DEF UpBegins
  <1>15. ASSUME NEW v \in VMs, ~Time,
                ArmLands(v) \/ ArmMisses(v) \/ Boots(v) \/ Stopped(v) \/ PowersOff(v)
                \/ HandStops(v) \/ HandStarts(v) \/ Recreated(v)
         PROVE  LoopInv'
    BY <1>2, <1>15 DEF ArmLands, ArmMisses, Boots, Stopped, PowersOff, HandStops,
                       HandStarts, Recreated
  <1>16. CASE UNCHANGED fleetVars
    BY <1>16, LoopLeftAlone DEF fleetVars, fleet, Fresher, LoopInv
  <1> QED BY <1>5, <1>6, <1>7, <1>8, <1>9, <1>10, <1>11, <1>12, <1>13, <1>14, <1>15, <1>16
          DEF FleetNext, BringupStep, LoopStep, FleetStep, Hands

LEMMA KeepInvStart == FleetInit => KeepInv
  BY FleetTypesStart DEF FleetInit, KeepInv, Punctual, AskedArmed, HeldArmed, BeatArmed

LEMMA KeepInvStep == KeepInv /\ [FleetNext]_fleetVars => KeepInv'
  <1> SUFFICES ASSUME KeepInv, [FleetNext]_fleetVars PROVE KeepInv'
    OBVIOUS
  <1>1. FleetTypes' /\ AskedArmed' /\ LoopInv'
    BY FleetTypesStep, AskedArmedStep, LoopStepKeeps DEF KeepInv
  <1> QED BY <1>1 DEF KeepInv, LoopInv

\* The loop is never later than its deadline, a tick and a beat.
LEMMA KeepRecent == KeepInv => ArmsRecent
  <1> SUFFICES ASSUME KeepInv, NEW v \in held, timer[v] # NoTimer
               PROVE  Deadman - timer[v] < OldestArm
    BY DEF ArmsRecent
  <1> USE TimesAreNat
  <1>1. /\ since \in Nat /\ nap \in Nat /\ loop \in {"none", "sleep", "beat"}
        /\ held \subseteq VMs /\ timer[v] \in Int
    BY KeepFacts DEF KeepInv
  <1>2. loop # "none"
    <2>1. KeeperTypes
      BY TypesByPart DEF KeepInv
    <2> QED BY <2>1 DEF KeeperTypes
  <1>3. timer[v] + since + BeatTimeout + ArmTimeout >= Deadman
    BY <1>1, <1>2 DEF KeepInv, HeldArmed
  <1>4. since + nap < RearmDeadline + TickTime + BeatTimeout
    BY <1>1, <1>2 DEF KeepInv, Punctual
  <1> QED BY <1>1, <1>3, <1>4 DEF OldestArm

\* Whatever calls, beats and bring-ups fail or overlap, and whatever the times are,
\* no timer that a tick loop answers for has counted for OldestArm.
THEOREM TimersRearmed == FleetSpec => []ArmsRecent
  <1> QED BY KeepInvStart, KeepInvStep, KeepRecent, PTL DEF FleetSpec
-----------------------------------------------------------------------------
(* Why a bring-up fails.                                                   *)

\* While it arms, what it has still to reach is up and where the cache says,
\* unless something happened; and what it could not reach is a cause.
CauseInv ==
    /\ FailsForCause
    /\ missed # {} => op = "arm" /\ cause
    /\ op = "arm" /\ ~cause => \A v \in todo : Up(v) /\ v \notin stale

\* A step after which something has happened, or which is none of a bring-up.
LEMMA CauseGiven ==
    ASSUME cause' \/ op' = "none", missed' = {} \/ (op' = "arm" /\ cause')
    PROVE  CauseInv'
  BY DEF CauseInv, FailsForCause

\* A step that takes no VM from a bring-up.
LEMMA CauseKept ==
    ASSUME CauseInv, UNCHANGED <<op, missed, todo, cause>>, stale' \subseteq stale,
           \A v \in VMs : Up(v) => Up(v)', todo \subseteq VMs
    PROVE  CauseInv'
  BY DEF CauseInv, FailsForCause

LEMMA StartsForCause ==
    ASSUME FleetTypes, CauseInv, StartVMs
    PROVE  CauseInv'
  <1>1. asked \subseteq VMs
    BY TypesByPart DEF BringupTypes
  <1>2. PICK refused \in SUBSET asked : \E booting \in SUBSET refused : Starts(refused, booting)
    BY DEF StartVMs
  <1>3. PICK booting \in SUBSET refused : Starts(refused, booting)
    BY <1>2
  <1> DEFINE down == {v \in asked : ~Adoptable(v)}
             stuck == {v \in down : Draining(v) \/ v \in Listed(asked)}
             failed == refused \cup stuck
             boots == (down \ failed) \cup booting
  <1>4. /\ missed' = missed /\ stale' = Listed(asked)
        /\ vm' = [v \in VMs |-> IF v \in boots THEN "staging" ELSE vm[v]]
        /\ cause' = (cause \/ refused # {} \/ \E v \in down : Draining(v))
        /\ IF failed = {} THEN op' = "arm" /\ todo' = asked ELSE op' = "cleanup"
    BY <1>3 DEF Starts, StartVMs, ToArm
  <1>5. CASE failed # {}
    <2>1. refused # {} \/ \E v \in down : Draining(v)
      BY <1>5 DEF Listed
    <2>2. missed = {}
      BY DEF CauseInv, StartVMs, ReadyToStart
    <2> QED BY <1>4, <2>1, <2>2, CauseGiven
  <1>6. CASE failed = {}
    <2>1. op' = "arm" /\ todo' = asked
      BY <1>4, <1>6
    <2>2. ASSUME NEW v \in asked PROVE v \notin stale' /\ Up(v)'
      <3>1. v \notin stale'
        BY <1>4 DEF Listed
      <3>2. v \in VMs /\ vm'[v] = IF v \in boots THEN "staging" ELSE vm[v]
        BY <1>1, <1>4
      <3>3. v \notin boots => Adoptable(v)
        BY <1>6
      <3>4. Up(v)'
        BY <3>2, <3>3 DEF Adoptable, Up
      <3> QED BY <3>1, <3>4
    <2>3. missed' # {} => cause'
      BY <1>4 DEF CauseInv
    <2> QED BY <2>1, <2>2, <2>3 DEF CauseInv, FailsForCause
  <1> QED BY <1>5, <1>6

LEMMA CauseStep == FleetTypes /\ CauseInv /\ [FleetNext]_fleetVars => CauseInv'
  <1> SUFFICES ASSUME FleetTypes, CauseInv, [FleetNext]_fleetVars PROVE CauseInv'
    OBVIOUS
  <1>1. BringupTypes /\ MachineTypes
    BY TypesByPart
  <1>2. /\ todo \subseteq VMs /\ cause \in BOOLEAN
        /\ \A S : Listed(S) \subseteq stale
    BY <1>1 DEF BringupTypes, Listed
  <1>3. CASE \E W \in SUBSET VMs : UpBegins(W)
    BY <1>3 DEF UpBegins, Begins, CauseInv, FailsForCause
  <1>4. CASE NotListed \/ StartRaises
    BY <1>4, CauseGiven DEF NotListed, StartRaises, ReadyToStart, CauseInv
  <1>5. CASE Cleanup
    BY <1>5, CauseGiven DEF Cleanup, CauseInv, FailsForCause
  <1>6. ASSUME NEW v \in VMs, ArmLands(v) PROVE CauseInv'
    BY <1>6 DEF ArmLands, CauseInv, FailsForCause, Up
  <1>7. ASSUME NEW v \in VMs, ArmMisses(v) PROVE CauseInv'
    <2>1. cause' /\ op' = "arm"
      BY <1>7 DEF ArmMisses, CauseInv
    <2> QED BY <2>1, CauseGiven
  <1>8. CASE ArmFails
    BY <1>8, CauseGiven DEF ArmFails, CauseInv
  <1>9. CASE Probed
    BY <1>9 DEF Probed, Begins, CauseInv, FailsForCause
  <1>10. CASE UpSucceeds \/ StopWhole \/ DaemonDies
    BY <1>10, CauseGiven DEF UpSucceeds, StopWhole, DaemonDies, NoBringup
  <1>11. CASE StopFleet
    <2>1. op' = op /\ missed' = missed /\ cause' = (op # "none")
      BY <1>11 DEF StopFleet, bringup
    <2> QED BY <2>1, CauseGiven DEF CauseInv
  <1>12. CASE TooEarly \/ BeatLands \/ BeatMissed \/ Down
    BY <1>2, <1>12, CauseKept DEF TooEarly, BeatLands, BeatMissed, Down, bringup, fleet, Up
  <1>13. CASE BeatBegins
    BY <1>2, <1>13, CauseKept DEF BeatBegins, bringup, Up
  <1>14. ASSUME NEW v \in VMs, BeatArms(v) PROVE CauseInv'
    BY <1>2, <1>14, CauseKept DEF BeatArms, bringup, Up
  <1>15. ASSUME NEW v \in VMs, Boots(v) \/ Stopped(v) \/ HandStarts(v) PROVE CauseInv'
    <2>1. \A u \in VMs : Up(u) => Up(u)'
      BY <1>1, <1>15 DEF Boots, Stopped, HandStarts, Up, MachineTypes
    <2> QED BY <1>2, <1>15, <2>1, CauseKept DEF Boots, Stopped, HandStarts, bringup
  <1>16. ASSUME NEW v \in VMs, PowersOff(v) \/ HandStops(v) PROVE CauseInv'
    <2>1. op' = op /\ missed' = missed /\ cause' = (op # "none")
      BY <1>16 DEF PowersOff, HandStops, GoesDown, bringup
    <2> QED BY <2>1, CauseGiven DEF CauseInv
  <1>17. ASSUME NEW v \in VMs, Recreated(v) PROVE CauseInv'
    BY <1>17 DEF Recreated, bringup, CauseInv, FailsForCause
  <1>18. CASE Time
    BY <1>2, <1>18, CauseKept DEF Time, Up
  <1>19. CASE UNCHANGED fleetVars
    BY <1>2, <1>19, CauseKept DEF fleetVars, fleet, bringup, Up
  <1> QED BY <1>3, <1>4, <1>5, <1>6, <1>7, <1>8, <1>9, <1>10, <1>11, <1>12, <1>13,
             <1>14, <1>15, <1>16, <1>17, <1>18, <1>19, StartsForCause
          DEF FleetNext, BringupStep, LoopStep, FleetStep, Hands

\* A bring-up of up() and start_vms fails only because a call failed, a VM was
\* stopped under it or asked for while it still stopped.
THEOREM NoFailureWithoutCause == FleetSpec => []FailsForCause
  <1>1. FleetInit => FleetTypes /\ CauseInv
    BY FleetTypesStart DEF FleetInit, CauseInv, FailsForCause
  <1>2. FleetTypes /\ CauseInv /\ [FleetNext]_fleetVars => (FleetTypes /\ CauseInv)'
    BY FleetTypesStep, CauseStep
  <1>3. CauseInv => FailsForCause
    BY DEF CauseInv
  <1> QED BY <1>1, <1>2, <1>3, PTL DEF FleetSpec

-----------------------------------------------------------------------------
(* What runs without a deadline.                                           *)

\* Nobody pays for v without end.
Safe(v) == ~Up(v) \/ timer[v] # NoTimer \/ v \in excused

\* The VMs of a bring-up that may be up with no timer yet: those it has to arm,
\* or could not arm, and all it asked for once it fails.  The cleanup leaves none,
\* unless that is what fails; then the stop of the whole fleet does not.
BillInv ==
    faults <= 1 =>
        \A v \in VMs :
            \/ Safe(v)
            \/ op \in {"cleanup", "whole"} /\ faults = 1
            \/ op = "cleanup" /\ v \in asked
            \/ op = "arm" /\ v \in todo \cup missed

\* A stop that at most one call fails leaves every VM of it off or armed.
LEMMA StopsSafely ==
    ASSUME MachineTypes, NEW S \in SUBSET VMs, NEW left, NEW armed, Stops(S, left, armed),
           excused' = excused, faults' <= 1
    PROVE  /\ \A v \in S : Safe(v)'
           /\ \A v \in VMs : Safe(v) => Safe(v)'
           /\ faults <= faults'
  <1>1. /\ armed \subseteq left /\ left \subseteq S /\ stale' = stale \ S
        /\ faults' = faults + Cardinality(left \ stale') + Cardinality(left \ armed)
        /\ vm' = [v \in VMs |-> IF v \in S \ left THEN "stopping"
                                ELSE IF v \in armed THEN "on" ELSE vm[v]]
        /\ timer' = [v \in VMs |-> IF v \in S \ left THEN NoTimer
                                   ELSE IF v \in armed THEN Deadman ELSE timer[v]]
    <2>1. Cardinality(left \ stale') \in Nat /\ Cardinality(left \ armed) \in Nat /\ faults \in Nat
      BY CountsAreNat, TimesAreNat DEF Stops, MachineTypes
    <2>2. faults' = faults + (Cardinality(left \ stale') + Cardinality(left \ armed))
      BY DEF Stops, Fails
    <2>3. faults' = faults + Cardinality(left \ stale') + Cardinality(left \ armed)
      BY <2>1, <2>2
    <2> QED BY <2>3 DEF Stops, Listed
  <1>2. faults \in Nat /\ Cardinality(left) \in Nat /\ Cardinality(left \ armed) \in Nat
    BY <1>1, CountsAreNat, TimesAreNat DEF MachineTypes
  <1>3. IsFiniteSet(left) /\ IsFiniteSet(left \ armed)
    BY <1>1, FS_Subset, FleetAssumption
  <1>4. left \ stale' = left
    BY <1>1
  <1>5. left \subseteq armed
    <2>1. left \ armed # {} => Cardinality(left \ armed) # 0 /\ Cardinality(left) # 0
      BY <1>3, FS_EmptySet
    <2>2. faults' = faults + Cardinality(left) + Cardinality(left \ armed)
      BY <1>1, <1>4
    <2>3. left \ armed = {}
      BY <1>2, <2>1, <2>2
    <2> QED BY <2>3
  <1>6. faults <= faults'
    BY <1>1, <1>2, <1>4
  <1>7. \A v \in S : Safe(v)'
    BY <1>1, <1>5, TimesAreNat DEF Safe, Up, NoTimer
  <1>8. \A v \in VMs : Safe(v) => Safe(v)'
    BY <1>1, <1>7 DEF Safe, Up
  <1> QED BY <1>6, <1>7, <1>8

\* The same for a stop nobody looks at, when no call fails at all.
LEMMA StopsBlindlySafely ==
    ASSUME MachineTypes, NEW S \in SUBSET VMs, NEW left, StopsBlindly(S, left),
           excused' = excused
    PROVE  /\ faults' = faults => \A v \in S : Safe(v)'
           /\ \A v \in VMs : Safe(v) => Safe(v)'
           /\ faults <= faults'
  <1>1. /\ left \subseteq S /\ stale' = stale \ S
        /\ faults' = faults + Cardinality(left \ stale')
        /\ vm' = [v \in VMs |-> IF v \in S \ left THEN "stopping" ELSE vm[v]]
        /\ timer' = [v \in VMs |-> IF v \in S \ left THEN NoTimer ELSE timer[v]]
    BY DEF StopsBlindly, Listed, Fails
  <1>2. faults \in Nat /\ Cardinality(left) \in Nat
    BY <1>1, CountsAreNat, TimesAreNat DEF MachineTypes
  <1>0. IsFiniteSet(left)
    BY <1>1, FS_Subset, FleetAssumption
  <1>3. left \ stale' = left
    BY <1>1
  <1>4. faults <= faults' /\ (faults' = faults => left = {})
    BY <1>0, <1>1, <1>2, <1>3, FS_EmptySet
  <1>5. \A v \in S \ left : Safe(v)'
    BY <1>1 DEF Safe, Up
  <1>6. \A v \in VMs : Safe(v) => Safe(v)'
    BY <1>1 DEF Safe, Up
  <1> QED BY <1>4, <1>5, <1>6

LEMMA AllSafe == (\A v \in VMs : Safe(v)') => BillInv'
  BY DEF BillInv

\* Steps that change no bring-up and leave what was safe so.
LEMMA BillKept ==
    ASSUME MachineTypes, BillInv, UNCHANGED <<op, asked, todo, missed>>,
           faults' \in Nat, faults' <= 1 => faults <= faults',
           faults' <= 1 => \A v \in VMs : Safe(v) => Safe(v)'
    PROVE  BillInv'
  <1>1. faults \in Nat
    BY TimesAreNat DEF MachineTypes
  <1> SUFFICES ASSUME faults' <= 1, NEW v \in VMs
               PROVE  \/ Safe(v)'
                      \/ op \in {"cleanup", "whole"} /\ faults' = 1
                      \/ op = "cleanup" /\ v \in asked
                      \/ op = "arm" /\ v \in todo \cup missed
    BY DEF BillInv
  <1>2. faults <= 1 /\ (faults = 1 => faults' = 1) /\ (Safe(v) => Safe(v)')
    BY <1>1
  <1> QED BY <1>2 DEF BillInv

LEMMA BillStep == FleetTypes /\ BillInv /\ [FleetNext]_fleetVars => BillInv'
  <1> SUFFICES ASSUME FleetTypes, BillInv, [FleetNext]_fleetVars PROVE BillInv'
    OBVIOUS
  <1>1. MachineTypes /\ MachineTypes' /\ BringupTypes
    BY TypesByPart, MachineStep
  <1>2. /\ faults \in Nat /\ faults' \in Nat /\ asked \subseteq VMs /\ Partial \subseteq VMs
        /\ todo \subseteq asked /\ missed \subseteq asked
        /\ {v \in asked : Up(v)} = Partial
    BY <1>1, TimesAreNat DEF MachineTypes, BringupTypes, Partial
  <1>3. Fails(1) => faults' = faults + 1
    BY DEF Fails
  <1>4. ASSUME UNCHANGED <<vm, timer>>, excused' = excused
        PROVE  \A v \in VMs : Safe(v) => Safe(v)'
    BY <1>4 DEF Safe, Up
  <1>5. ASSUME NEW W \in SUBSET VMs, UpBegins(W) PROVE BillInv'
    BY <1>4, <1>5 DEF UpBegins, Begins, fleet, BillInv, Safe, Up
  <1>6. CASE NotListed \/ StartRaises
    <2>1. \A v \in VMs : faults <= 1 => Safe(v)
      BY <1>6 DEF BillInv, NotListed, StartRaises, ReadyToStart
    <2>2. UNCHANGED <<vm, timer>> /\ excused' = excused /\ faults <= faults'
      BY <1>2, <1>3, <1>6 DEF NotListed, StartRaises, fleet
    <2>3. faults' <= 1 => \A v \in VMs : Safe(v)'
      BY <1>2, <1>4, <2>1, <2>2
    <2> QED BY <2>3, AllSafe DEF BillInv
  <1>7. CASE StartVMs
    <2>1. PICK refused \in SUBSET asked : \E booting \in SUBSET refused : Starts(refused, booting)
      BY <1>7 DEF StartVMs
    <2>2. PICK booting \in SUBSET refused : Starts(refused, booting)
      BY <2>1
    <2>3. /\ timer' = timer /\ excused' = excused \ asked
          /\ UNCHANGED <<asked, missed>> /\ faults' = faults + Cardinality(refused)
          /\ \/ op' = "arm" /\ todo' = asked
             \/ op' = "cleanup"
      BY <1>7, <2>2 DEF StartVMs, Starts, ToArm, Fails
    <2>4. \A v \in VMs \ asked : vm'[v] = vm[v]
      BY <2>2 DEF Starts
    <2>5. faults <= faults'
      BY <1>2, <2>3, CountsAreNat
    <2>6. op # "arm" /\ op \notin {"cleanup", "whole"}
      BY <1>7 DEF StartVMs, ReadyToStart
    <2>7. \A v \in VMs \ asked : faults' <= 1 => Safe(v)'
      BY <1>2, <2>3, <2>4, <2>5, <2>6 DEF BillInv, Safe, Up
    <2> QED BY <2>3, <2>7 DEF BillInv
  <1>8. CASE Cleanup
    <2>1. op = "cleanup" /\ op' = "whole" /\ excused' = excused
      BY <1>8 DEF Cleanup
    <2>2. ASSUME NEW left, NEW armed, Stops(Partial, left, armed), faults' <= 1
          PROVE  BillInv'
      <3>1. /\ \A v \in Partial : Safe(v)'
            /\ \A v \in VMs : Safe(v) => Safe(v)'
            /\ faults <= faults'
        BY <1>1, <1>2, <2>1, <2>2, StopsSafely
      <3>2. \A v \in asked : Safe(v)'
        BY <1>2, <3>1 DEF Partial, Safe
      <3> QED BY <1>2, <2>1, <2>2, <3>1, <3>2 DEF BillInv
    <2>3. CASE Fails(1) /\ UNCHANGED fleet
      BY <1>2, <1>3, <2>1, <2>3 DEF BillInv, Safe, Up, fleet
    <2>4. CASE faults' > 1
      BY <1>2, <2>4 DEF BillInv
    <2> QED BY <1>2, <1>8, <2>2, <2>3, <2>4 DEF Cleanup
  <1>9. ASSUME NEW v \in VMs, ArmLands(v) PROVE BillInv'
    <2>1. /\ timer' = [timer EXCEPT ![v] = Deadman] /\ UNCHANGED <<vm, excused, faults>>
          /\ op = "arm" /\ op' = op /\ todo' = todo \ {v} /\ missed' = missed
      BY <1>9 DEF ArmLands
    <2>2. timer'[v] = Deadman /\ \A u \in VMs \ {v} : timer'[u] = timer[u]
      BY <1>1, <1>9, <2>1 DEF MachineTypes
    <2>3. Safe(v)'
      BY <2>2, TimesAreNat DEF Safe, NoTimer
    <2> QED BY <2>1, <2>2, <2>3 DEF BillInv, Safe, Up
  <1>10. ASSUME NEW v \in VMs, ArmMisses(v) PROVE BillInv'
    <2>1. /\ UNCHANGED <<vm, timer, excused>> /\ faults <= faults'
          /\ op = "arm" /\ op' = op /\ todo' \cup missed' = todo \cup missed
      BY <1>2, <1>3, <1>10 DEF ArmMisses, fleet
    <2> QED BY <1>2, <1>4, <2>1 DEF BillInv
  <1>11. CASE ArmFails
    <2>1. /\ op = "arm" /\ todo = {} /\ op' = "whole" /\ excused' = excused
      BY <1>11 DEF ArmFails
    <2>2. \A v \in VMs : faults <= 1 => Safe(v) \/ v \in asked
      BY <1>2, <2>1 DEF BillInv
    <2>3. ASSUME NEW left, StopsBlindly(Partial, left) PROVE BillInv'
      <3>1. /\ faults' = faults => \A v \in Partial : Safe(v)'
            /\ \A v \in VMs : Safe(v) => Safe(v)'
            /\ faults <= faults'
        BY <1>1, <1>2, <2>1, <2>3, StopsBlindlySafely
      <3>2. faults' = faults => \A v \in asked : Safe(v)'
        BY <1>2, <3>1 DEF Partial, Safe
      <3> QED BY <1>2, <2>1, <2>2, <3>1, <3>2 DEF BillInv
    <2>4. CASE Fails(1) /\ UNCHANGED fleet
      BY <1>2, <1>3, <2>1, <2>4 DEF BillInv
    <2> QED BY <1>2, <1>11, <2>3, <2>4 DEF ArmFails
  <1>12. CASE Probed
    BY <1>4, <1>12 DEF Probed, Begins, fleet, BillInv
  <1>13. CASE UpSucceeds
    <2>1. /\ op = "arm" /\ todo = {} /\ missed = {} /\ op' = "none"
          /\ UNCHANGED <<vm, timer, excused, faults>>
      BY <1>13 DEF UpSucceeds, NoBringup, fleet
    <2> QED BY <1>4, <2>1 DEF BillInv
  <1>14. CASE StopWhole
    <2>1. op = "whole" /\ excused' = excused
      BY <1>14 DEF StopWhole
    <2> DEFINE S == {v \in VMs : Up(v)}
    <2>2. ASSUME NEW left, NEW armed, Stops(S, left, armed), faults' <= 1
          PROVE  BillInv'
      <3>1. /\ \A v \in S : Safe(v)'
            /\ \A v \in VMs : Safe(v) => Safe(v)'
        BY <1>1, <2>1, <2>2, StopsSafely
      <3>2. \A v \in VMs : v \in S \/ Safe(v)
        BY DEF Safe
      <3> QED BY <3>1, <3>2, AllSafe
    <2>3. CASE Fails(1) /\ UNCHANGED fleet
      <3>1. faults' <= 1 => \A v \in VMs : Safe(v)
        BY <1>2, <1>3, <2>1, <2>3 DEF BillInv
      <3>2. faults' <= 1 => \A v \in VMs : Safe(v)'
        BY <1>4, <2>1, <2>3, <3>1 DEF fleet
      <3> QED BY <3>2 DEF BillInv
    <2>4. CASE faults' > 1
      BY <1>2, <2>4 DEF BillInv
    <2>5. (\E left, armed : Stops(S, left, armed)) \/ (Fails(1) /\ UNCHANGED fleet)
      BY <1>14 DEF StopWhole
    <2>6. faults' <= 1 \/ faults' > 1
      BY <1>2
    <2> HIDE DEF S
    <2> QED BY <2>2, <2>3, <2>4, <2>5, <2>6
  <1>15. CASE StopFleet
    <2>1. excused' = excused /\ UNCHANGED <<op, asked, todo, missed>>
      BY <1>15 DEF StopFleet, bringup
    <2> DEFINE S == {v \in VMs : Up(v)}
    <2>2. ASSUME NEW left, NEW armed, Stops(S, left, armed), faults' <= 1
          PROVE  BillInv'
      <3>1. /\ \A v \in VMs : Safe(v) => Safe(v)'
            /\ faults <= faults'
        BY <1>1, <2>1, <2>2, StopsSafely
      <3> QED BY <1>1, <1>2, <2>1, <3>1, BillKept
    <2>3. CASE Fails(1) /\ UNCHANGED fleet
      BY <1>1, <1>2, <1>3, <1>4, <2>1, <2>3, BillKept DEF fleet
    <2>4. CASE faults' > 1
      BY <1>2, <2>4 DEF BillInv
    <2>5. (\E left, armed : Stops(S, left, armed)) \/ (Fails(1) /\ UNCHANGED fleet)
      BY <1>15 DEF StopFleet
    <2>6. faults' <= 1 \/ faults' > 1
      BY <1>2
    <2> HIDE DEF S
    <2> QED BY <2>2, <2>3, <2>4, <2>5, <2>6
  <1>16. CASE TooEarly \/ BeatLands \/ BeatMissed \/ Down
    <2>1. UNCHANGED <<vm, timer, excused, faults, op, asked, todo, missed>>
      BY <1>16 DEF TooEarly, BeatLands, BeatMissed, Down, fleet, bringup
    <2> QED BY <1>1, <1>2, <1>4, <2>1, BillKept
  <1>17. CASE BeatBegins
    <2>1. UNCHANGED <<vm, timer, excused, op, asked, todo, missed>> /\ faults <= faults'
      BY <1>2, <1>3, <1>17 DEF BeatBegins, bringup
    <2> QED BY <1>1, <1>2, <1>4, <2>1, BillKept
  <1>18. ASSUME NEW v \in VMs, BeatArms(v) PROVE BillInv'
    <2>1. /\ UNCHANGED <<vm, excused, op, asked, todo, missed>> /\ faults <= faults'
          /\ timer' = timer \/ timer' = [timer EXCEPT ![v] = Deadman]
      BY <1>2, <1>3, <1>18 DEF BeatArms, bringup
    <2>2. \A u \in VMs : timer'[u] = timer[u] \/ timer'[u] # NoTimer
      BY <1>1, <2>1, TimesAreNat DEF MachineTypes, NoTimer
    <2>3. \A u \in VMs : Safe(u) => Safe(u)'
      BY <2>1, <2>2 DEF Safe, Up
    <2> QED BY <1>1, <1>2, <2>1, <2>3, BillKept
  <1>19. ASSUME NEW v \in VMs,
                Boots(v) \/ Stopped(v) \/ PowersOff(v) \/ HandStops(v) \/ HandStarts(v)
         PROVE  BillInv'
    <2>1. UNCHANGED <<faults, op, asked, todo, missed>>
      BY <1>19 DEF Boots, Stopped, PowersOff, HandStops, HandStarts, bringup
    <2>2. \A u \in VMs : Safe(u) => Safe(u)'
      BY <1>1, <1>19 DEF Boots, Stopped, PowersOff, HandStops, HandStarts, GoesDown,
                        MachineTypes, Safe, Up
    <2> QED BY <1>1, <1>2, <2>1, <2>2, BillKept
  <1>20. ASSUME NEW v \in VMs, Recreated(v) PROVE BillInv'
    <2>1. UNCHANGED <<vm, timer, excused, faults, op, asked, todo, missed>>
      BY <1>20 DEF Recreated, bringup
    <2> QED BY <1>1, <1>2, <1>4, <2>1, BillKept
  <1>21. CASE DaemonDies
    BY <1>21, AllSafe DEF DaemonDies, Safe, Up
  <1>22. CASE Time
    <2>1. /\ UNCHANGED <<vm, excused, faults, op, asked, todo, missed>>
          /\ timer' = [v \in VMs |-> IF timer[v] > 0 THEN timer[v] - 1 ELSE timer[v]]
      BY <1>22 DEF Time
    <2>2. \A v \in VMs : timer[v] # NoTimer => timer'[v] # NoTimer
      BY <1>1, <2>1, TimesAreNat DEF MachineTypes, NoTimer
    <2>3. \A v \in VMs : Safe(v) => Safe(v)'
      BY <2>1, <2>2 DEF Safe, Up
    <2> QED BY <1>1, <1>2, <2>1, <2>3, BillKept
  <1>23. CASE UNCHANGED fleetVars
    <2>1. UNCHANGED <<vm, timer, excused, faults, op, asked, todo, missed>>
      BY <1>23 DEF fleetVars, fleet, bringup
    <2> QED BY <1>1, <1>2, <1>4, <2>1, BillKept
  <1> QED BY <1>5, <1>6, <1>7, <1>8, <1>9, <1>10, <1>11, <1>12, <1>13, <1>14, <1>15,
             <1>16, <1>17, <1>18, <1>19, <1>20, <1>21, <1>22, <1>23
          DEF FleetNext, BringupStep, LoopStep, FleetStep, Hands

\* Out of a bring-up no VM runs without a deadline, unless a person started it, the
\* daemon died under it or two calls failed: every way out of up() and start_vms
\* leaves what it started armed or stopped.
THEOREM NoBillUnbounded == FleetSpec => []NoUnboundedBill
  <1>1. FleetInit => FleetTypes /\ BillInv
    <2>1. FleetInit => BillInv
      BY DEF FleetInit, BillInv, Safe, Up
    <2> QED BY <2>1, FleetTypesStart
  <1>2. FleetTypes /\ BillInv /\ [FleetNext]_fleetVars => (FleetTypes /\ BillInv)'
    BY FleetTypesStep, BillStep
  <1>3. FleetTypes /\ BillInv => NoUnboundedBill
    BY DEF BillInv, Safe, NoUnboundedBill
  <1> QED BY <1>1, <1>2, <1>3, PTL DEF FleetSpec

=============================================================================
