------------------------------- MODULE Ingest -------------------------------
(***************************************************************************)
(* What becomes of the events a driver writes: the daemon's ingester       *)
(* (core/ingest.py) tails <run_dir>/events.jsonl from an offset on the job *)
(* row, folds the lines into the job's progress and feeds the ledger       *)
(* (core/ledger.py); the scheduler judges an attempt by that progress.  A  *)
(* job may be started again in its run directory, and a second job (more   *)
(* trials, a retried point) may follow it there.                           *)
(*                                                                         *)
(* The daemon can die at any point and start again; the file, the rows and *)
(* the driver survive it.  A line the disk had no room for is torn or gone. *)
(* Requests that write the ledger run on threads of their own, statement by *)
(* statement; at most one of them at a time is modelled.                   *)
(***************************************************************************)
EXTENDS Integers, Sequences, FiniteSets, FiniteSetsExt

CONSTANTS
    NJobs,           \* jobs that write into the run directory, one after another
    Points,          \* points of the sweep, as the live events name them
    Ids,             \* identities of run_points rows: dims, rate and trial
    ScanId,          \* the identity a scan gives the entry of a point: of its dims
                     \* only those the ledger lists, or its position
    MaxLines, MaxStarts, MaxFailures, MaxMishaps   \* bounds: lines written or lost,
                     \* drivers started, failed points in the file, and lost lines,
                     \* deaths, errors of the ingester, requests together

Jobs == 1..NJobs

ASSUME IngestAssumption ==
    /\ NJobs \in Nat \ {0}
    /\ IsFiniteSet(Points) /\ Points \subseteq Ids /\ ScanId \in [Points -> Ids]
    /\ {MaxLines, MaxStarts, MaxFailures, MaxMishaps} \subseteq Nat

VARIABLES
    \* what survives
    file,        \* the complete lines of events.jsonl
    torn,        \* bytes without a newline follow them
    disk,        \* the measurement of each point in its summary.json ...
    results,     \* ... and what sweep_results.json says of it
    there,       \* the sweep's directory exists
    entries,     \* what the driver's invocation found for each point it went over
    driver,      \* the job whose driver runs, or Nobody
    state,       \* jobs.state, here "new" | "waiting" | "running" | "done"
    window,      \* finished_at less than ten seconds ago: "no" | "fresh", or
                 \* "polled" by this daemon since
    offset,      \* jobs.events_offset, in lines
    progress,    \* jobs.progress_json
    attempts,    \* job_attempts that ended: the points ingested of them, and those
                 \* their drivers had finished
    rows,        \* run_points
    writer,      \* runs.job_id, or Nobody where the run has no row
    \* the daemon's memory
    up, watched, \* it runs; the scheduler awaits this job's driver
    poll,        \* where poll_once is
    todo,        \* jobs it has still to read
    tracked,     \* _tracked
    batch,       \* the lines whose events are not yet applied to the ledger
    request,     \* where the request is that writes the ledger
    entered,     \* the entries a scan has read and not inserted yet
    \* bounds and history
    starts, mishaps,
    lossy,       \* the disk was full at some time
    gaveUp,      \* jobs ended because two attempts produced no points
    apart        \* points whose row a failure, a death or a request took away,
                 \* and no event has brought back

sweepDir == <<disk, results, there>>
runDir == <<file, torn, sweepDir, entries, driver>>
jobRows == <<state, window, offset, progress, attempts, gaveUp>>
ledger == <<rows, writer, apart>>
requests == <<request, entered>>
memory == <<up, watched, poll, todo, tracked, batch, requests>>
budget == <<starts, mishaps, lossy>>

Mishap == mishaps < MaxMishaps /\ mishaps' = mishaps + 1
ingestVars == <<runDir, jobRows, ledger, memory, budget>>

Nobody == 0
NoValue == 0
Failed == -1      \* an error instead of a measurement
Kept == -2        \* a failed retry: the entry on disk is kept
Null == -1
NoMeasurement == [p \in Points |-> NoValue]
NoRows == [i \in Ids |-> NoValue]
NewProgress == [done |-> 0, runState |-> "none"]

Init ==
    /\ file = <<>> /\ torn = FALSE
    /\ disk = NoMeasurement /\ results = NoMeasurement /\ there = FALSE
    /\ entries = NoMeasurement /\ driver = Nobody
    /\ state = [j \in Jobs |-> IF j = 1 THEN "waiting" ELSE "new"]
    /\ window = [j \in Jobs |-> "no"]
    /\ offset = [j \in Jobs |-> 0]
    /\ progress = [j \in Jobs |-> NewProgress]
    /\ attempts = [j \in Jobs |-> <<>>]
    /\ rows = NoRows /\ writer = Nobody
    /\ up = TRUE /\ watched = Nobody
    /\ poll = "sleeping" /\ todo = {} /\ tracked = {} /\ batch = {}
    /\ request = "none" /\ entered = NoMeasurement
    /\ starts = 0 /\ mishaps = 0 /\ lossy = FALSE
    /\ gaveUp = {} /\ apart = {}

-----------------------------------------------------------------------------
(* The driver's side: EventEmitter.  An event carries the job it is run    *)
(* for (run_id).                                                           *)

Started(j) == [type |-> "started", by |-> j]
Point(j, p, v) == [type |-> "point", by |-> j, point |-> p, value |-> v]
RetryFailed(j) == [type |-> "retry_failed", by |-> j]
Finished(j) == [type |-> "finished", by |-> j]
Corrupt == [type |-> "corrupt"]

\* os.write of one line in append mode: it joins a torn predecessor.  A full
\* disk takes part of the line, or refuses it; the run is told of neither.
Emit(e) ==
    /\ Len(file) + (IF lossy THEN 1 ELSE 0) < MaxLines
    /\ \/ /\ file' = Append(file, IF torn THEN Corrupt ELSE e)
          /\ torn' = FALSE
          /\ UNCHANGED <<mishaps, lossy>>
       \/ /\ Mishap /\ lossy' = TRUE
          /\ torn' \in {TRUE, torn}
          /\ UNCHANGED file

FailureLines == {i \in DOMAIN file :
    \/ file[i].type = "retry_failed"
    \/ file[i].type = "point" /\ file[i].value = Failed}
MayFail == Cardinality(FailureLines) < MaxFailures

GoneOver == {p \in Points : entries[p] # NoValue}

\* A point is taken off disk by a resumed invocation, or measured, or measured again
\* because the job retries it; or it fails, is reported all the same and leaves no
\* summary, so that the next invocation measures it again.
Reports(p) ==
    /\ driver # Nobody
    /\ p \notin GoneOver
    /\ \E v \in {disk[p], Len(file) + 1, Failed} :
          /\ v # NoValue
          /\ v = Failed => disk[p] = NoValue /\ MayFail
          /\ v # disk[p] => disk[p] = NoValue \/ driver > 1
          /\ disk' = [disk EXCEPT ![p] = IF v = Failed THEN @ ELSE v]
          /\ entries' = [entries EXCEPT ![p] = v]
          /\ Emit(Point(driver, p, v))
    /\ there' = TRUE
    /\ UNCHANGED <<results, driver, jobRows, ledger, memory, starts>>

\* The retry of a point fails: what is on disk stays, and neither the progress nor
\* the ledger takes notice.
RetryFails(p) ==
    /\ driver > 1 /\ MayFail
    /\ p \notin GoneOver
    /\ entries' = [entries EXCEPT ![p] = Kept]
    /\ Emit(RetryFailed(driver))
    /\ there' = TRUE
    /\ UNCHANGED <<disk, results, driver, jobRows, ledger, memory, starts>>

\* The sweep ends: sweep_results.json is merged, then the last events.  Where the
\* directory is gone that raises, as any death of the driver.
DriverEnds ==
    /\ driver # Nobody
    /\ there
    /\ results' = [p \in Points |-> IF entries[p] \in {NoValue, Kept} THEN results[p]
                                    ELSE entries[p]]
    /\ Emit(Finished(driver))
    /\ driver' = Nobody
    /\ UNCHANGED <<disk, there, entries, jobRows, ledger, memory, starts>>

DriverDies ==
    /\ driver # Nobody
    /\ driver' = Nobody
    /\ UNCHANGED <<file, torn, sweepDir, entries, jobRows, ledger, memory, budget>>

-----------------------------------------------------------------------------
(* The scheduler's side.  poll_once does not await, so what runs on the    *)
(* same event loop runs between two polls.                                 *)

OnLoop == up /\ poll = "sleeping"

\* A driver starts, writes run.started and makes the sweep's directory.
Starts(j) ==
    /\ OnLoop /\ starts < MaxStarts
    /\ state[j] = "waiting" /\ \A k \in Jobs : state[k] # "running"
    /\ driver = Nobody
    /\ starts' = starts + 1
    /\ state' = [state EXCEPT ![j] = "running"]
    /\ driver' = j /\ watched' = j
    /\ entries' = NoMeasurement /\ there' = TRUE
    /\ Emit(Started(j))
    /\ UNCHANGED <<disk, results, window, offset, progress, attempts, gaveUp, ledger,
                   up, poll, todo, tracked, batch, requests>>

Becomes(j, s) ==
    /\ state' = [state EXCEPT ![j] = s]
    /\ window' = IF s = "done" THEN [window EXCEPT ![j] = "fresh"] ELSE window

\* The points the last driver had finished, whether or not they were ingested.
FinishedPoints == {p \in Points : entries[p] \notin {NoValue, Kept}}

\* end_attempt with the points ingested so far; a driver that reported nothing has 0
\* of them, too.
Attempted(j) == [attempts EXCEPT ![j] =
    Append(@, [points |-> progress[j].done, finished |-> Cardinality(FinishedPoints)])]

\* _dead_on_arrival: neither of the last two attempts.
DeadOnArrival(tries) ==
    Len(tries) >= 2 /\ \A i \in {Len(tries) - 1, Len(tries)} : tries[i].points = 0

\* _finish and _retry_or_fail: the contract's exit codes and the last attempt
\* end the job, any other exit code lets it wait for another attempt.
Settles(j) ==
    /\ OnLoop /\ watched = j /\ driver = Nobody
    /\ watched' = Nobody
    /\ attempts' = Attempted(j)
    /\ \/ Becomes(j, "done") /\ UNCHANGED gaveUp
       \/ /\ DeadOnArrival(attempts'[j])
          /\ Becomes(j, "done")
          /\ gaveUp' = gaveUp \cup {j}
       \/ /\ ~DeadOnArrival(attempts'[j])
          /\ Becomes(j, "waiting")
          /\ UNCHANGED gaveUp
    /\ UNCHANGED <<runDir, offset, progress, ledger, up, poll, todo, tracked, batch,
                   requests, budget>>

\* A waiting job is canceled.
Cancels(j) ==
    /\ OnLoop /\ state[j] = "waiting"
    /\ Becomes(j, "done")
    /\ UNCHANGED <<runDir, offset, progress, attempts, gaveUp, ledger, memory, budget>>

\* A job for the same directory is taken only when no other is unfinished.
Extends(j) ==
    /\ up /\ state[j] = "new" /\ state[j - 1] = "done"
    /\ state' = [state EXCEPT ![j] = "waiting"]
    /\ UNCHANGED <<runDir, window, offset, progress, attempts, gaveUp, ledger, memory,
                   budget>>

\* The ten seconds pass.  A poll comes every second, so one began in between,
\* unless the daemon was down.
Expires(j) ==
    /\ \/ window[j] = "polled" /\ j \notin todo
       \/ window[j] = "fresh" /\ ~up
    /\ window' = [window EXCEPT ![j] = "no"]
    /\ UNCHANGED <<runDir, state, offset, progress, attempts, gaveUp, ledger, memory,
                   budget>>

-----------------------------------------------------------------------------
(* The ingester.                                                           *)

\* apply_event, failed points included; other types are ignored.  Mutant:
\* run.started goes on with the counts of the run before.
MutApplyEvent(p, e) ==
    CASE e.type = "started" -> [p EXCEPT !.runState = "running"]
      [] e.type = "point" -> [p EXCEPT !.done = @ + 1]
      [] e.type = "finished" -> [p EXCEPT !.runState = "finished"]
      [] OTHER -> p
ApplyEvent(p, e) ==
    CASE e.type = "started" -> [NewProgress EXCEPT !.runState = "running"]
      [] e.type = "point" -> [p EXCEPT !.done = @ + 1]
      [] e.type = "finished" -> [p EXCEPT !.runState = "finished"]
      [] OTHER -> p

\* read_all: the lines from an offset on that parse, by their number; a line
\* stays what it is.
ReadFrom(n) == {i \in n + 1..Len(file) : file[i].type # "corrupt"}

\* The progress p once the events of the lines first..last are applied to it.
Folded(p, first, last) ==
    LET after[n \in first - 1..last] ==
            IF n < first THEN p
            ELSE IF file[n].type = "corrupt" THEN after[n - 1]
            ELSE ApplyEvent(after[n - 1], file[n])
    IN after[last]

Running == {j \in Jobs : state[j] = "running"}

\* poll_once asks for the running and the freshly finished jobs, and for those
\* it saw running before.  Mutant: for the running ones.
MutToRead == Running
ToRead == Running \cup {j \in Jobs : window[j] # "no"} \cup tracked

PollBegins ==
    /\ OnLoop
    /\ poll' = "reading"
    /\ todo' = ToRead
    /\ window' = [j \in Jobs |-> IF window[j] = "fresh" THEN "polled" ELSE window[j]]
    /\ UNCHANGED <<runDir, state, offset, progress, attempts, gaveUp, ledger, up,
                   watched, tracked, batch, requests, budget>>

NextToRead(j) == j \in todo /\ \A k \in todo : j <= k

\* The one statement that stores the offset and the progress.  Mutant: the
\* newline counts twice.
MutStores(j) ==
    /\ offset' = [offset EXCEPT ![j] = Len(file) + 1]
    /\ progress' = [progress EXCEPT ![j] = Folded(@, offset[j] + 1, Len(file))]
Stores(j) ==
    /\ offset' = [offset EXCEPT ![j] = Len(file)]
    /\ progress' = [progress EXCEPT ![j] = Folded(@, offset[j] + 1, Len(file))]

\* ingest_job, up to the ledger.
Ingests(j) ==
    /\ poll = "reading" /\ NextToRead(j)
    /\ ReadFrom(offset[j]) # {}
    /\ Stores(j)
    /\ batch' = ReadFrom(offset[j])
    /\ poll' = "applying"
    /\ UNCHANGED <<runDir, state, window, attempts, gaveUp, ledger, up, watched, todo,
                   tracked, requests, budget>>

NothingNew(j) ==
    /\ poll = "reading" /\ NextToRead(j)
    /\ ReadFrom(offset[j]) = {}
    /\ todo' = todo \ {j}
    /\ UNCHANGED <<runDir, jobRows, ledger, up, watched, poll, tracked, batch,
                   requests, budget>>

\* _upsert_point.  Mutant: a row that is there keeps its metrics.
MutUpsert(i, v) == rows' = [rows EXCEPT ![i] = IF @ = NoValue THEN v ELSE @]
Upsert(i, v) == rows' = [rows EXCEPT ![i] = v]

\* job.progress goes to the hub, and it is the next job's turn.
Announces(j) == poll' = "reading" /\ todo' = todo \ {j}

\* apply_events, event by event: a point makes the run or notes its writer, and
\* sets its row, under the dims of the event.
AppliesOne(j) ==
    /\ poll = "applying" /\ NextToRead(j)
    /\ \E i \in batch :
          /\ \A k \in batch : i <= k
          /\ batch' = batch \ {i}
          /\ IF file[i].type = "point"
             THEN /\ Upsert(file[i].point, file[i].value)
                  /\ writer' = j
                  /\ apart' = apart \ {file[i].point}
             ELSE UNCHANGED ledger
    /\ IF batch' = {} THEN Announces(j) ELSE UNCHANGED <<poll, todo>>
    /\ UNCHANGED <<runDir, jobRows, up, watched, tracked, requests, budget>>

\* The points some of these lines are about.
PointsOf(lines) == {file[i].point : i \in {k \in lines : file[k].type = "point"}}

\* The ledger raises, as it does where a request removes the run between two of its
\* statements: progress must survive it, the batch does not.
LedgerFails(j) ==
    /\ poll = "applying" /\ NextToRead(j)
    /\ Mishap
    /\ batch' = {}
    /\ apart' = apart \cup PointsOf(batch)
    /\ Announces(j)
    /\ UNCHANGED <<runDir, jobRows, rows, writer, up, watched, tracked, requests,
                   starts, lossy>>

\* Reading, storing or announcing raises: loop() goes on with the next poll.  The
\* ten seconds of `finished_at` are ten polls, so one that raised leaves others.
PollRaises ==
    /\ poll = "reading"
    /\ Mishap
    /\ poll' = "sleeping" /\ todo' = {}
    /\ window' = [j \in Jobs |-> IF window[j] = "polled" THEN "fresh" ELSE window[j]]
    /\ UNCHANGED <<runDir, state, offset, progress, attempts, gaveUp, ledger, up,
                   watched, tracked, batch, requests, starts, lossy>>

\* No job changed its state meanwhile, so `running` is what it is now.
PollEnds ==
    /\ poll = "reading" /\ todo = {}
    /\ poll' = "sleeping"
    /\ tracked' = Running
    /\ UNCHANGED <<runDir, jobRows, ledger, up, watched, todo, batch, requests, budget>>

PollStep ==
    \/ PollBegins \/ PollEnds
    \/ \E j \in Jobs : Ingests(j) \/ NothingNew(j) \/ AppliesOne(j)

-----------------------------------------------------------------------------
(* The ledger's other writers are requests, on threads of their own.       *)

\* Of p, the value the last of the first n lines about it carries.
LastValue(p, n) ==
    LET about == {i \in 1..n : file[i].type = "point" /\ file[i].point = p} IN
    IF about = {} THEN NoValue ELSE file[Max(about)].value
ReadTo == Max({offset[j] : j \in Jobs})

NoRequest == request = "none" /\ up /\ Mishap

\* _index_sweep_dir reads the results file ...
ScanReads ==
    /\ NoRequest
    /\ \E p \in Points : results[p] # NoValue
    /\ request' = "read" /\ entered' = results
    /\ UNCHANGED <<runDir, jobRows, ledger, up, watched, poll, todo, tracked, batch,
                   starts, lossy>>

\* ... then makes the run's row, owned by the newest job of the directory, or finds
\* it, and deletes its points ...
ScanClears ==
    /\ request = "read"
    /\ request' = "cleared"
    /\ writer' = IF writer # Nobody THEN writer
                 ELSE Max({j \in Jobs : state[j] # "new"})
    /\ rows' = NoRows
    /\ apart' = Points
    /\ UNCHANGED <<runDir, jobRows, up, watched, poll, todo, tracked, batch, entered,
                   budget>>

\* ... and inserts the entries one by one, under the dims the ledger lists.
ScanInserts(p) ==
    /\ request = "cleared" /\ entered[p] # NoValue
    /\ Upsert(ScanId[p], entered[p])
    /\ apart' = apart \cup ({ScanId[p]} \cap Points)
    /\ entered' = [entered EXCEPT ![p] = NoValue]
    /\ request' = IF entered' = NoMeasurement THEN "none" ELSE "cleared"
    /\ UNCHANGED <<runDir, jobRows, writer, up, watched, poll, todo, tracked, batch,
                   budget>>

\* delete_run with delete_files: first the sweep's directory goes, whoever writes
\* into it; events.jsonl lies one level above and stays.
RemovesFiles ==
    /\ NoRequest /\ writer # Nobody
    /\ request' = "removed"
    /\ disk' = NoMeasurement /\ results' = NoMeasurement /\ there' = FALSE
    /\ UNCHANGED <<file, torn, entries, driver, jobRows, ledger, up, watched, poll,
                   todo, tracked, batch, entered, starts, lossy>>

\* Then, or without that, the run and its points.
DeleteRun ==
    /\ \/ NoRequest
       \/ request = "removed" /\ UNCHANGED mishaps
    /\ writer # Nobody
    /\ request' = "none"
    /\ rows' = NoRows /\ writer' = Nobody
    /\ apart' = Points
    /\ UNCHANGED <<runDir, jobRows, up, watched, poll, todo, tracked, batch, entered,
                   starts, lossy>>

Request ==
    \/ ScanReads \/ ScanClears \/ \E p \in Points : ScanInserts(p)
    \/ RemovesFiles \/ DeleteRun

-----------------------------------------------------------------------------
(* The daemon dies; it starts and recovers its jobs.                       *)

DaemonDies ==
    /\ up /\ Mishap
    /\ up' = FALSE /\ watched' = Nobody
    /\ poll' = "sleeping" /\ todo' = {} /\ tracked' = {} /\ batch' = {}
    /\ request' = "none" /\ entered' = NoMeasurement
    /\ apart' = apart \cup PointsOf(batch)
    /\ window' = [j \in Jobs |-> IF window[j] = "polled" THEN "fresh" ELSE window[j]]
    /\ UNCHANGED <<runDir, state, offset, progress, attempts, gaveUp, rows, writer,
                   starts, lossy>>

\* recover_orphans: a running job whose driver is gone waits again or is done,
\* its attempt closed without points; a driver that lives runs on, awaited by
\* nobody.
DaemonStarts ==
    /\ ~up
    /\ up' = TRUE
    /\ LET orphans == {j \in Running : driver # j} IN
       IF orphans = {} THEN UNCHANGED <<state, window, attempts>>
       ELSE \E j \in orphans, s \in {"waiting", "done"} :
               /\ Becomes(j, s)
               /\ attempts' = [attempts EXCEPT ![j] =
                     Append(@, [points |-> Null, finished |-> Cardinality(FinishedPoints)])]
    /\ UNCHANGED <<runDir, offset, progress, gaveUp, ledger, watched, poll, todo,
                   tracked, batch, requests, budget>>

IngestNext ==
    \/ \E p \in Points : Reports(p) \/ RetryFails(p)
    \/ DriverDies \/ DriverEnds
    \/ \E j \in Jobs : Starts(j) \/ Settles(j) \/ Cancels(j) \/ Expires(j)
                       \/ LedgerFails(j)
    \/ \E j \in Jobs \ {1} : Extends(j)
    \/ PollStep \/ PollRaises \/ Request
    \/ DaemonDies \/ DaemonStarts

\* The loop polls every second, whatever else the daemon does.
IngestSpec == Init /\ [][IngestNext]_ingestVars /\ WF_ingestVars(PollStep)

-----------------------------------------------------------------------------
(* Properties.                                                             *)

Values == {Failed} \cup 0..MaxLines + 1
Lines == {Corrupt} \cup {Started(j) : j \in Jobs} \cup {Finished(j) : j \in Jobs}
         \cup {RetryFailed(j) : j \in Jobs}
         \cup {Point(j, p, v) : j \in Jobs, p \in Points, v \in Values}

\* The values the variables take.
IngestTypeOK ==
    /\ file \in Seq(Lines) /\ Len(file) <= MaxLines
    /\ {torn, there} \subseteq BOOLEAN
    /\ {disk, results, entered} \subseteq [Points -> Values]
    /\ entries \in [Points -> Values \cup {Kept}]
    /\ rows \in [Ids -> Values]
    /\ {driver, watched, writer} \subseteq Jobs \cup {Nobody}
    /\ state \in [Jobs -> {"new", "waiting", "running", "done"}]
    /\ window \in [Jobs -> {"no", "fresh", "polled"}]
    /\ offset \in [Jobs -> 0..Len(file)]
    /\ progress \in [Jobs -> [done : Nat, runState : {"none", "running", "finished"}]]
    /\ attempts \in [Jobs -> Seq([points : Nat \cup {Null}, finished : Nat])]
    /\ poll \in {"sleeping", "reading", "applying"}
    /\ todo \subseteq Jobs /\ tracked \subseteq Jobs
    /\ batch \subseteq {i \in DOMAIN file : file[i] # Corrupt}
    /\ poll = "applying" <=> batch # {}
    /\ request \in {"none", "read", "cleared", "removed"}
    /\ ~up => watched = Nobody /\ poll = "sleeping" /\ request = "none"
    /\ gaveUp \subseteq Jobs /\ apart \subseteq Points

\* Progress counts the points of one run: whatever attempts and jobs share the
\* file, and however the daemon was restarted in between, a job's count is that
\* of the points in the last run among the lines it was read to, each once.
LastStart(n) ==
    LET starting == {i \in 1..n : file[i].type = "started"} IN
    IF starting = {} THEN 0 ELSE Max(starting)
PointsRead(n) == PointsOf(LastStart(n) + 1..n)
ProgressIsLastRun ==
    \A j \in Jobs : ~lossy => progress[j].done = Cardinality(PointsRead(offset[j]))

\* The ledger keeps up: whenever no batch is being applied, the row that the live
\* events of a point go to holds what the last line about it says, of the lines any
\* job was read to, but for what a ledger error, a death in the middle of a batch or a
\* request took away.  A scan is such a request, from its DELETE on: the next event of
\* a point, read again by the next job at the latest, puts its row right.  A row the
\* scan made under other dims is none of these, and stays beside it.
LedgerCurrent ==
    batch = {} => \A p \in Points \ apart : rows[p] = LastValue(p, ReadTo)

\* _retry_or_fail: a job is given up when its last two attempts died before
\* finishing a point.
GivenUpForCause ==
    \A j \in gaveUp : \A i \in {Len(attempts[j]) - 1, Len(attempts[j])} :
        attempts[j][i].finished = 0

\* The tail of a run is not lost: what a job's driver wrote is read after the job
\* ended, unless the daemon dies before its next poll.
Unread(j) == \E i \in offset[j] + 1..Len(file) :
                file[i].type # "corrupt" /\ file[i].by = j
TailRead ==
    \A j \in Jobs :
        (up /\ window[j] # "no" /\ Unread(j)) ~> (~Unread(j) \/ ~up)
=============================================================================
