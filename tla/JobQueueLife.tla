---------------------------- MODULE JobQueueLife ----------------------------
(***************************************************************************)
(* JobQueue implements JobLife: a job's phase is the state of its row, its *)
(* tries are the attempts the row counts, the job in hand is _running.     *)
(***************************************************************************)
EXTENDS JobQueue

Phase(j) ==
    CASE Present(j) -> row[j].state
      [] ~Present(j) /\ j < nextId -> "gone"
      [] OTHER -> "new"

JobPhase == [j \in Ids |-> Phase(j)]
JobTries == [j \in Ids |-> IF Present(j) THEN row[j].attempts ELSE 0]

Life == INSTANCE JobLife WITH
    Jobs <- Ids, Nobody <- NoJob, MaxTries <- [j \in Ids |-> Budget(j)],
    phase <- JobPhase, tries <- JobTries,
    inHand <- slot,
    trying <- stage \in AttemptStages,
    deaths <- crashes

\* The queue keeps the promise of JobLife: whatever requests, cancels, failures
\* and deaths overlap, a job is tried only while it is in hand, alone, with a
\* try left or a death that pays for it, and waits again only with a try left.
LivesAsPromised == Life!LifeSpec
=============================================================================
