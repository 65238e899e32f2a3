------------------------------ MODULE JobLife ------------------------------
(***************************************************************************)
(* What the queue promises about a job, whatever rows, coroutines, leases  *)
(* and processes it takes: a job enters once, waits, is in hand alone,     *)
(* spends its tries, is over, and is gone for good when it is removed.     *)
(* Every death of the daemon may cost any job one try more.                *)
(***************************************************************************)
EXTENDS Integers

CONSTANTS
    Jobs,
    Nobody,      \* not a job
    MaxTries     \* the tries each job may spend

VARIABLES
    phase,     \* "new" | "waiting" | "running" | "done" | "gone"
    tries,     \* tries spent: starts of a driver and failed bring-ups
    inHand,    \* the job the daemon works on
    trying,    \* it has spent a try and the outcome is open
    deaths

life == <<phase, tries, inHand, trying, deaths>>

LifeInit ==
    /\ phase = [j \in Jobs |-> "new"]
    /\ tries = [j \in Jobs |-> 0]
    /\ inHand = Nobody /\ trying = FALSE
    /\ deaths = 0

Allowed(j) == MaxTries[j] + deaths
Alive(j) == phase[j] \in {"waiting", "running", "done"}

Enter(j) ==
    /\ phase[j] = "new"
    /\ phase' = [phase EXCEPT ![j] = "waiting"]
    /\ UNCHANGED <<tries, inHand, trying, deaths>>

PickUp(j) ==
    /\ inHand = Nobody /\ phase[j] = "waiting"
    /\ inHand' = j
    /\ UNCHANGED <<phase, tries, trying, deaths>>

\* A try is spent and fails there and then, or its outcome is open.
Try ==
    /\ inHand # Nobody /\ ~trying
    /\ Alive(inHand)
    /\ tries[inHand] < Allowed(inHand)
    /\ tries' = [tries EXCEPT ![inHand] = @ + 1]
    /\ trying' \in BOOLEAN
    /\ UNCHANGED <<phase, inHand, deaths>>

Run ==
    /\ trying /\ Alive(inHand)
    /\ phase' = [phase EXCEPT ![inHand] = "running"]
    /\ UNCHANGED <<tries, inHand, trying, deaths>>

\* A job waits again only with a try left, and one that is done stays done once
\* its driver has run; what is gone is written no more.
MayBecome(j, p) ==
    \/ p = phase[j]
    \/ Alive(j) /\ p = "done"
    \/ /\ Alive(j) /\ p = "waiting"
       /\ tries[j] < MaxTries[j]
       /\ phase[j] = "done" => ~trying
\* The try is over, the job is put down, or both; a running one is neither.
PutDown(p) ==
    /\ inHand # Nobody
    /\ MayBecome(inHand, p)
    /\ phase' = [phase EXCEPT ![inHand] = p]
    /\ trying' = FALSE
    /\ inHand' \in {inHand, Nobody}
    /\ UNCHANGED <<tries, deaths>>

Cancel(j) ==
    /\ Alive(j)
    /\ phase' = [phase EXCEPT ![j] = "done"]
    /\ UNCHANGED <<tries, inHand, trying, deaths>>

Remove(S) ==
    /\ \A j \in S : phase[j] = "done"
    /\ phase' = [j \in Jobs |-> IF j \in S THEN "gone" ELSE phase[j]]
    /\ tries' = [j \in Jobs |-> IF j \in S THEN 0 ELSE tries[j]]
    /\ UNCHANGED <<inHand, trying, deaths>>

\* Of the jobs that ran some are taken to be running still.
Phases == {"new", "waiting", "running", "done", "gone"}
Die ==
    /\ deaths' = deaths + 1
    /\ inHand' = Nobody /\ trying' = FALSE
    /\ phase' \in [Jobs -> Phases]
    /\ \A j \in Jobs :
          \/ phase'[j] = phase[j]
          \/ phase[j] = "running" /\ phase'[j] = "done"
          \/ /\ phase[j] = "running" /\ phase'[j] = "waiting"
             /\ tries[j] < MaxTries[j]
    /\ UNCHANGED tries

LifeNext ==
    \/ \E j \in Jobs : Enter(j) \/ PickUp(j) \/ Cancel(j)
    \/ Try \/ Run \/ \E p \in Phases : PutDown(p)
    \/ \E S \in SUBSET Jobs : Remove(S)
    \/ Die

LifeSpec == LifeInit /\ [][LifeNext]_life
=============================================================================
