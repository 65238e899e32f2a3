---------------------------- MODULE SweepEngine ----------------------------
(***************************************************************************)
(* The sweep engine (run/engine.py) running the experiment of one job      *)
(* after another in one sweep directory: the knee search of KneeSearch     *)
(* asks, _run_point measures and writes summary.json, searched_rates.json  *)
(* keeps what was asked, and sweep_results.json is merged at the end.      *)
(*                                                                         *)
(* One combination of dimensions with a rate search.  The files outlive    *)
(* the process; the rest is its memory, lost when it is killed.  The class *)
(* of a summary is settled when it is measured.                            *)
(***************************************************************************)
EXTENDS KneeSearch, SequencesExt

CONSTANTS
    BaseTrials,      \* trials of the job as submitted
    LastTrial,       \* the highest trial number anybody adds (a bound)
    RetryPoints,     \* the points that are retried (a bound)
    FirstOutcomes,   \* what the points of trial 0 may measure (a bound) ...
    LaterOutcomes,   \* ... those of later trials ...
    RetryOutcomes,   \* ... and a point that is retried
    MaxAttempts, RetryDead,   \* max_attempts and retry_dead of the spec
    MaxJobs,         \* invocations of the driver (a bound)
    MaxKills         \* kills and interrupts (a bound)

Grid == 1..MaxRate
Trials == 0..LastTrial
Points == Grid \X Trials
Absent == "absent"
Nowhere == <<NoRate, 0>>    \* no point is the target

\* What an attempt may come to.  "error": launch or analyze raised.  The rest
\* writes summary.json: "partial" carries an `error` of the adapter's, "bare"
\* lacks the keys a search needs (and reads as a collapse).
Outcomes == {"error", "partial", "bare", "dead", "over", "worse", "flat", "healthy"}
Summaries == Outcomes \ {"error"}

ASSUME SweepAssumption ==
    /\ BaseTrials \in Nat \ {0} /\ LastTrial \in Nat /\ BaseTrials <= LastTrial + 1
    /\ RetryPoints \subseteq Points
    /\ FirstOutcomes \cup LaterOutcomes \cup RetryOutcomes \subseteq Outcomes
    /\ MaxAttempts \in Nat \ {0} /\ RetryDead \in BOOLEAN
    /\ MaxJobs \in Nat /\ MaxKills \in Nat

VARIABLES
    summary,     \* summary.json of each point directory
    asked,       \* searched_rates.json: the rates ...
    complete,    \* ... and `complete`; the key exists once a rate is asked
    results,     \* sweep_results.json by identity
    reported,    \* points with an event the ledger makes a row of
    abort,       \* abort_on_error of the spec
    specs,       \* the specs of the jobs so far: trial_offset, trials, retry_point
    job,         \* that of this invocation
    phase,       \* where the driver is
    trial,       \* the trial it is in
    todo,        \* rates it still has to replay
    at,          \* the rate of the point it is running
    attempt,     \* the number of this attempt
    staged,      \* the outcome that is being swapped in
    entries,     \* result.entries by identity
    jobs, kills,
    spoilt       \* history: a searched point ended without a usable summary, or its
                 \* directory went for a retry in the middle of the search

files == <<summary, asked, complete, results>>
driver == <<phase, trial, todo, at, attempt, staged, entries>>
sweepVars == <<files, reported, abort, specs, job, driver, jobs, kills, spoilt,
               searchVars>>

\* A point directory: rate_R, or rate_R/trial_N below it.
Flat == -1
Dirs == Grid \X (Trials \cup {Flat})

\* What a search reads in an entry.
AsAnswer(o) == CASE o \in {"error", "partial"} -> "none"
                 [] o = "bare" -> "over"
                 [] OTHER -> o
HasError(o) == o \in {"error", "partial"}

\* One record written among the others: a file, or the entry of a point.
Put(f, d, o) == [e \in DOMAIN f \cup {d} |-> IF e = d THEN o ELSE f[e]]

-----------------------------------------------------------------------------
(* Directories.                                                            *)

\* point_rel_dir under `multi`.
Multi(j) == j.trials > 1 \/ j.offset > 0
DirOf(j, r, t) == <<r, IF Multi(j) THEN t ELSE Flat>>
\* What is inside a point directory: rate_R holds every trial_N of its rate.
Inside(d) == IF d[2] = Flat THEN {e \in Dirs : e[1] = d[1]} ELSE {d}

\* completed_entry with SEARCH_REQUIRED_KEYS.
Usable(f, d) == d \in DOMAIN f /\ f[d] # "bare"
MutReusable(d) == Usable(summary, d) /\ summary[d] # "dead"
Reusable(d) == Usable(summary, d)

Retrying == job.target # Nowhere
Here(r) == <<r, trial>>

-----------------------------------------------------------------------------

Nothing == [d \in {} |-> Absent]
BaseJob == [offset |-> 0, trials |-> BaseTrials, target |-> Nowhere]

SweepInit ==
    /\ summary = Nothing
    /\ asked = <<>> /\ complete = FALSE
    /\ results = Nothing
    /\ reported = {}
    /\ abort \in BOOLEAN
    /\ specs = {BaseJob} /\ job = BaseJob
    /\ phase = "idle" /\ trial = 0 /\ todo = <<>> /\ at = NoRate
    /\ attempt = 0 /\ staged = Absent /\ entries = Nothing
    /\ jobs = 0 /\ kills = 0
    /\ spoilt = FALSE
    /\ SearchInit

\* The local variables of search() at its start.
SearchAnew ==
    /\ stage' = "starting" /\ rate' = StartRate
    /\ lastGood' = NoRate /\ firstBad' = NoRate
    /\ measured' = {} /\ noResult' = {} /\ healthy' = {} /\ over' = {}
    /\ passRates' = <<>> /\ passes' = 0

Gone ==
    /\ phase' = "idle" /\ trial' = 0 /\ todo' = <<>> /\ at' = NoRate
    /\ attempt' = 0 /\ staged' = Absent /\ entries' = Nothing
    /\ SearchAnew

-----------------------------------------------------------------------------
(* The daemon starts the driver: for a job again (with --resume), the one   *)
(* as submitted or any later one, for more trials, or for one point again. *)

Launch(j) ==
    /\ phase = "idle" /\ jobs < MaxJobs
    /\ jobs' = jobs + 1
    /\ specs' = specs \cup {j}
    /\ job' = j
    /\ phase' = "deploying"
    /\ trial' = j.offset
    /\ UNCHANGED <<files, reported, abort, todo, at, attempt, staged, entries,
                   kills, spoilt, searchVars>>

Run == \E j \in specs : Launch(j)

\* next_trial of the ledger, and added_trials_spec: every other option of the
\* last job's command is kept, --retry-point too.
NextTrial(t) == /\ \E p \in reported : p[2] = t - 1
                /\ \A p \in reported : p[2] < t
AddTrials ==
    \E t \in Trials :
        /\ NextTrial(t)
        /\ Launch([job EXCEPT !.offset = t, !.trials = 1])

\* retried_point_spec.
RetryPoint(p) ==
    /\ p \in reported \cap RetryPoints
    /\ Launch([offset |-> p[2], trials |-> 1, target |-> p])

-----------------------------------------------------------------------------
(* SweepEngine.run and _run_combo.                                         *)

Deploys ==
    /\ phase = "deploying"
    /\ phase' \in {"combo", "writing"}    \* check and deploy() may raise
    /\ UNCHANGED <<files, reported, abort, specs, job, trial, todo, at, attempt, staged,
                   entries, jobs, kills, spoilt, searchVars>>

ToNextTrial == phase' = "combo" /\ trial' = trial + 1

LastOfJob == job.offset + job.trials - 1
AllTrialsDone ==
    /\ phase = "combo" /\ trial > LastOfJob
    /\ phase' = "writing"
    /\ UNCHANGED <<files, reported, abort, specs, job, trial, todo, at, attempt, staged,
                   entries, jobs, kills, spoilt, searchVars>>

SkipTrial ==
    /\ phase = "combo" /\ trial <= LastOfJob
    /\ Retrying /\ trial # job.target[2]
    /\ ToNextTrial
    /\ UNCHANGED <<files, reported, abort, specs, job, todo, at, attempt, staged, entries,
                   jobs, kills, spoilt, searchVars>>

StartRetry ==
    /\ phase = "combo" /\ trial <= LastOfJob
    /\ Retrying /\ trial = job.target[2]
    /\ phase' = "running" /\ at' = job.target[1] /\ attempt' = 1
    /\ UNCHANGED <<files, reported, abort, specs, job, trial, todo, staged, entries, jobs,
                   kills, spoilt, searchVars>>

StartReplay ==
    /\ phase = "combo" /\ trial <= LastOfJob
    /\ ~Retrying /\ complete
    /\ phase' = "replaying" /\ todo' = asked
    /\ UNCHANGED <<files, reported, abort, specs, job, trial, at, attempt, staged, entries,
                   jobs, kills, spoilt, searchVars>>

\* SearchedRates.start.
StartSearch ==
    /\ phase = "combo" /\ trial <= LastOfJob
    /\ ~Retrying /\ ~complete
    /\ phase' = "searching"
    /\ SearchAnew
    /\ UNCHANGED <<files, reported, abort, specs, job, trial, todo, at, attempt, staged,
                   entries, jobs, kills, spoilt>>

-----------------------------------------------------------------------------
(* One point.  Its end goes back to whoever asked.                         *)

Recorded(r) == IF Contains(asked, r) THEN asked ELSE Append(asked, r)

\* The caller gets outcome o of the point.
Returns(o) ==
    IF Retrying
    THEN ToNextTrial /\ UNCHANGED <<todo, searchVars>>
    ELSE IF complete
    THEN /\ phase' = "replaying" /\ todo' = Tail(todo)
         /\ UNCHANGED <<trial, searchVars>>
    ELSE /\ phase' = "searching"
         /\ Answer(AsAnswer(o))
         /\ UNCHANGED <<trial, todo>>

\* A point done earlier is taken off disk.  Mutants: the search is told that it
\* has no result; it is missing from the results.
MutReuseMute(r) ==
    /\ Reusable(DirOf(job, r, trial))
    /\ entries' = Put(entries, Here(r), summary[DirOf(job, r, trial)])
    /\ reported' = reported \cup {Here(r)}
    /\ Returns("error")
    /\ UNCHANGED <<summary, complete, results, abort, specs, job, at, attempt, staged,
                   jobs, kills, spoilt>>
MutReuseSilent(r) ==
    /\ Reusable(DirOf(job, r, trial))
    /\ reported' = reported \cup {Here(r)}
    /\ Returns(summary[DirOf(job, r, trial)])
    /\ UNCHANGED <<summary, complete, results, abort, specs, job, at, attempt, staged,
                   entries, jobs, kills, spoilt>>
Reuse(r) ==
    LET o == summary[DirOf(job, r, trial)] IN
    /\ Reusable(DirOf(job, r, trial))
    /\ entries' = Put(entries, Here(r), o)
    /\ reported' = reported \cup {Here(r)}
    /\ Returns(o)
    /\ UNCHANGED <<summary, complete, results, abort, specs, job, at, attempt, staged,
                   jobs, kills, spoilt>>

StartPoint(r) ==
    /\ ~Reusable(DirOf(job, r, trial))
    /\ phase' = "running" /\ at' = r /\ attempt' = 1
    /\ UNCHANGED <<summary, complete, results, reported, abort, specs, job, trial, todo,
                   staged, entries, jobs, kills, spoilt, searchVars>>

\* measure(): the rate is recorded before the point runs.
Measure ==
    /\ phase = "searching" /\ stage \in Asking
    /\ asked' = Recorded(rate)
    /\ Reuse(rate) \/ StartPoint(rate)

Replay ==
    /\ phase = "replaying" /\ todo # <<>>
    /\ UNCHANGED asked
    /\ Reuse(Head(todo)) \/ StartPoint(Head(todo))

MayMeasure == IF Retrying THEN RetryOutcomes
              ELSE IF trial = 0 THEN FirstOutcomes ELSE LaterOutcomes
TriesAgain(o) ==
    /\ o = "error" \/ (o = "dead" /\ RetryDead)
    /\ attempt < MaxAttempts
\* summary.json of an attempt outside a retry; an error writes none.  Mutant:
\* it does.
MutWritten(o) ==
    IF Retrying THEN summary ELSE Put(summary, DirOf(job, at, trial), o)
Written(o) ==
    IF Retrying \/ o = "error" THEN summary
    ELSE Put(summary, DirOf(job, at, trial), o)

FailsAttempt ==
    /\ phase = "running"
    /\ \E o \in MayMeasure :
          /\ TriesAgain(o)
          /\ summary' = Written(o)
    /\ attempt' = attempt + 1
    /\ UNCHANGED <<asked, complete, results, reported, abort, specs, job, phase, trial,
                   todo, at, staged, entries, jobs, kills, spoilt, searchVars>>

\* The end of _run_point: the event, the entry, and PointFailed.
Concludes(o) ==
    /\ entries' = Put(entries, Here(at), o)
    /\ reported' = IF Retrying /\ o = "error" THEN reported
                                              ELSE reported \cup {Here(at)}
    /\ at' = NoRate /\ attempt' = 0
    /\ IF abort /\ HasError(o)
       THEN phase' = "writing" /\ UNCHANGED <<trial, todo, searchVars>>
       ELSE Returns(o)
    /\ UNCHANGED <<asked, complete, results, abort, specs, job, jobs, kills>>

EndsPoint ==
    /\ phase = "running"
    /\ \E o \in MayMeasure :
          /\ ~TriesAgain(o)
          /\ ~Retrying \/ o = "error"
          /\ summary' = Written(o)
          /\ spoilt' = (spoilt \/ (~Retrying /\ o \in {"error", "bare"}))
          /\ Concludes(o)
    /\ UNCHANGED staged

\* A retry swaps its directory in: the old one is renamed away ...
SwapOut ==
    /\ phase = "running" /\ Retrying
    /\ \E o \in MayMeasure \ {"error"} :
          /\ ~TriesAgain(o)
          /\ staged' = o
    /\ summary' = Restrict(summary, DOMAIN summary \ Inside(DirOf(job, at, trial)))
    /\ phase' = "swapping"
    /\ spoilt' = (spoilt \/ ~complete)
    /\ UNCHANGED <<asked, complete, results, reported, abort, specs, job, trial, todo, at,
                   attempt, entries, jobs, kills, searchVars>>

\* ... and the new one takes its place.
SwapIn ==
    /\ phase = "swapping"
    /\ summary' = Put(summary, DirOf(job, at, trial), staged)
    /\ Concludes(staged)
    /\ staged' = Absent
    /\ UNCHANGED spoilt

-----------------------------------------------------------------------------

Decides ==
    /\ phase = "searching"
    /\ Decide
    /\ UNCHANGED <<files, reported, abort, specs, job, driver, jobs, kills, spoilt>>

EndSearch ==
    /\ phase = "searching" /\ stage \in Ended
    /\ complete' = TRUE
    /\ ToNextTrial
    /\ SearchAnew
    /\ UNCHANGED <<summary, asked, results, reported, abort, specs, job, todo, at, attempt,
                   staged, entries, jobs, kills, spoilt>>

EndReplay ==
    /\ phase = "replaying" /\ todo = <<>>
    /\ ToNextTrial
    /\ UNCHANGED <<files, reported, abort, specs, job, todo, at, attempt, staged, entries,
                   jobs, kills, spoilt, searchVars>>

\* _write_results: this invocation's entries replace those of the same points;
\* a retry writes no error.
Merged ==
    LET mine == {p \in DOMAIN entries : ~(Retrying /\ HasError(entries[p]))}
    IN  [p \in mine \cup DOMAIN results |->
            IF p \in mine THEN entries[p] ELSE results[p]]

WriteResults ==
    /\ phase = "writing"
    /\ results' = Merged
    /\ Gone
    /\ UNCHANGED <<summary, asked, complete, reported, abort, specs, job, jobs, kills, spoilt>>

-----------------------------------------------------------------------------
(* SIGINT writes the results so far; a kill writes nothing.                *)

Interrupt ==
    /\ phase # "idle" /\ kills < MaxKills
    /\ kills' = kills + 1
    /\ results' = Merged
    /\ Gone
    /\ UNCHANGED <<summary, asked, complete, reported, abort, specs, job, jobs, spoilt>>

Kill ==
    /\ phase # "idle" /\ kills < MaxKills
    /\ kills' = kills + 1
    /\ Gone
    /\ UNCHANGED <<files, reported, abort, specs, job, jobs, spoilt>>

DriverStep ==
    \/ Deploys \/ AllTrialsDone \/ SkipTrial \/ StartRetry \/ StartReplay
    \/ StartSearch \/ Measure \/ Replay \/ FailsAttempt \/ EndsPoint
    \/ SwapOut \/ SwapIn \/ Decides \/ EndSearch \/ EndReplay \/ WriteResults

SweepNext ==
    \/ Run \/ AddTrials \/ (\E p \in Points : RetryPoint(p))
    \/ DriverStep
    \/ Interrupt \/ Kill

\* A driver that is not killed goes on.
SweepSpec == SweepInit /\ [][SweepNext]_sweepVars /\ WF_sweepVars(DriverStep)

-----------------------------------------------------------------------------
(* Properties.                                                             *)

SweepTypeOK ==
    /\ SearchTypeOK
    /\ DOMAIN summary \subseteq Dirs /\ Range(summary) \subseteq Summaries
    /\ asked \in Seq(Grid) /\ complete \in BOOLEAN
    /\ \A f \in {results, entries} :
          DOMAIN f \subseteq Points /\ Range(f) \subseteq Outcomes
    /\ reported \subseteq Points
    /\ specs \subseteq [offset : Nat, trials : Nat \ {0}, target : Points \cup {Nowhere}]
    /\ job \in specs
    /\ phase \in {"idle", "deploying", "combo", "searching", "replaying",
                  "running", "swapping", "writing"}
    /\ trial \in Nat /\ attempt \in 0..MaxAttempts
    /\ todo \in Seq(Grid) /\ at \in Grid \cup {NoRate}
    /\ staged \in Summaries \cup {Absent}

\* A point that is done never runs again: whatever is killed and resumed, a usable
\* summary changes only by another attempt of the _run_point that wrote it, or by a
\* retry whose directory it lies in: that of the point retried, and for a point of
\* trial 0 the directory rate_R, where the other trials of its rate lie too.
RunningIt(d) == phase = "running" /\ ~Retrying /\ d = DirOf(job, at, trial) /\ attempt > 1
RetriedWith(d) == Retrying /\ d \in Inside(DirOf(job, job.target[1], job.target[2]))
DonePointsStay ==
    [][\A d \in Dirs :
          Usable(summary, d) /\ ~(d \in DOMAIN summary' /\ summary'[d] = summary[d])
          => RunningIt(d) \/ RetriedWith(d)]_sweepVars

\* The summary of a point, wherever the layout of its job put it.
SummaryOf(p) ==
    LET d == IF p[2] = 0 /\ p \notin DOMAIN summary THEN <<p[1], Flat>> ELSE p
    IN  IF d \in DOMAIN summary THEN summary[d] ELSE Absent

\* A search that was killed and resumed, however often, ends with the rates of
\* one search: the replayed prefix takes it the same way again.  Not where a point it
\* asked about was left without a usable summary, or retried meanwhile.
OneSearch ==
    [][phase = "searching" /\ complete' /\ ~complete /\ ~spoilt
       /\ (\A r \in Range(asked) : SummaryOf(Here(r)) # Absent)
       => Range(asked) = measured]_sweepVars

\* When an invocation that is no retry ends by itself, sweep_results.json
\* agrees with every summary on disk of the trials it ran, those of killed
\* predecessors included.  Not where a searched point was ever left without a usable
\* summary, or a point was retried before its search was complete: the resumed search
\* may then take another way, past points that are on disk.
ResultsCatchUp ==
    [][phase = "writing" /\ kills' = kills /\ trial > LastOfJob /\ ~Retrying /\ ~spoilt
       => \A p \in Points :
             p[2] \in job.offset..LastOfJob /\ SummaryOf(p) # Absent
             => p \in DOMAIN results' /\ results'[p] = SummaryOf(p)]_sweepVars

\* Whatever the measurements say, the search comes to an end and the driver
\* finishes: no endless halving, climbing or refining.
DriverEnds == phase # "idle" ~> phase = "idle"
=============================================================================
