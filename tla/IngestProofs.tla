---------------------------- MODULE IngestProofs ----------------------------
(***************************************************************************)
(* For every number of jobs, points, lines, drivers and mishaps: the       *)
(* types, what the ledger's rows hold, and what a job's progress counts.  *)
(* A line once written stays, so each of these is an invariant of the      *)
(* lines up to where a job was read; the fold that reads on from there is  *)
(* an induction over the lines (FoldSteps, NatInductive).                  *)
(***************************************************************************)
EXTENDS Ingest, FiniteSetTheorems, SequenceTheorems, NatLemmas, TLAPS

-----------------------------------------------------------------------------
(* Lines and sets of line numbers.                                         *)

LEMMA LineFacts ==
    ASSUME NEW e \in Lines
    PROVE  /\ e.type \in {"corrupt", "started", "point", "retry_failed", "finished"}
           /\ e.type = "corrupt" <=> e = Corrupt
           /\ e.type = "point" => e.point \in Points /\ e.value \in Values
  BY DEF Lines, Corrupt, Started, Point, RetryFailed, Finished

LEMMA LinesSuit ==
    ASSUME NEW j \in Jobs, NEW p \in Points, NEW v \in Values
    PROVE  {Corrupt, Started(j), Finished(j), RetryFailed(j), Point(j, p, v)} \subseteq Lines
  BY DEF Lines

\* A non-empty set of numbers up to n has a greatest element, its Max.
LEMMA MaxOf ==
    ASSUME NEW n \in Nat, NEW S \in SUBSET (0..n), S # {}
    PROVE  Max(S) \in S /\ \A x \in S : x <= Max(S)
  <1> DEFINE T == {n - x : x \in S}
  <1>0. ASSUME NEW x \in S PROVE x \in Nat /\ n - x \in Nat /\ n - x \in T
    <2>1. x \in 0..n
      OBVIOUS
    <2>2. x \in Nat /\ n - x \in Nat
      BY <2>1
    <2>3. n - x \in T
      BY Zenon
    <2> QED BY <2>2, <2>3
  <1>1. T \subseteq Nat /\ T # {}
    BY <1>0
  <1>2. PICK y \in T : \A z \in T : y <= z
    BY <1>1, LeastNat
  <1>3. PICK x \in S : y = n - x
    BY <1>2
  <1>4. ASSUME NEW z \in S PROVE x >= z
    <2>1. n - x <= n - z
      BY <1>0, <1>2, <1>3
    <2> QED BY <1>0, <2>1
  <1> QED BY <1>3, <1>4 DEF Max

\* The progress as it goes from line to line.
OnLine(q, n) == IF file[n].type = "corrupt" THEN q ELSE ApplyEvent(q, file[n])

Folds(after, p, first, last) ==
    /\ after[first - 1] = p
    /\ \A n \in first..last : after[n] = OnLine(after[n - 1], n)
    /\ Folded(p, first, last) = after[last]

LEMMA FoldSteps ==
    ASSUME NEW p, NEW first \in Nat \ {0}, NEW last \in Nat, first - 1 <= last
    PROVE  \E after : Folds(after, p, first, last)
  <1> DEFINE
        Val(f, n) == IF n < first THEN p ELSE OnLine(f[n - 1], n)
        Good(d) == \E f : f = [n \in first - 1..first - 1 + d |-> Val(f, n)]
        T == {d \in Nat : Good(d)}
  <1>1. 0 \in T
    <2>1. [n \in first - 1..first - 1 |-> p]
             = [n \in first - 1..first - 1 |-> Val([k \in first - 1..first - 1 |-> p], n)]
      OBVIOUS
    <2> QED BY <2>1
  <1>2. ASSUME NEW d \in T PROVE d + 1 \in T
    <2>1. PICK f : f = [n \in first - 1..first - 1 + d |-> Val(f, n)]
      OBVIOUS
    <2> DEFINE g == [n \in first - 1..first + d |->
                        IF n = first + d THEN OnLine(f[n - 1], n) ELSE f[n]]
    <2>2. ASSUME NEW n \in first - 1..first + d PROVE g[n] = Val(g, n)
      <3>1. CASE n = first + d
        BY <3>1
      <3>2. CASE n = first - 1
        BY <2>1, <3>2
      <3>3. CASE n \in first..first - 1 + d
        <4>1. g[n] = f[n] /\ g[n - 1] = f[n - 1]
          BY <3>3
        <4>2. f[n] = Val(f, n)
          BY <2>1, <3>3
        <4> QED BY <3>3, <4>1, <4>2
      <3> QED BY <3>1, <3>2, <3>3
    <2>3. g = [n \in first - 1..first - 1 + (d + 1) |-> Val(g, n)]
      BY <2>2
    <2> HIDE DEF g, Val
    <2>4. Good(d + 1)
      BY <2>3
    <2> QED BY <2>4
  <1>3. T = Nat
    BY <1>1, <1>2, NatInductive
  <1>4. Good(last - (first - 1))
    <2>1. last - (first - 1) \in Nat
      OBVIOUS
    <2>2. \A d \in T : Good(d)
      OBVIOUS
    <2> HIDE DEF Good, T
    <2> QED BY <1>3, <2>1, <2>2
  <1> DEFINE
        Is(f) == f = [n \in first - 1..last |->
                         IF n < first THEN p
                         ELSE IF file[n].type = "corrupt" THEN f[n - 1]
                         ELSE ApplyEvent(f[n - 1], file[n])]
        after == CHOOSE f : Is(f)
  <1>5. Is(after)
    <2>1. \E f : Is(f)
      BY <1>4 DEF OnLine
    <2> QED BY <2>1
  <1>6. Folded(p, first, last) = after[last]
    BY DEF Folded
  <1> HIDE DEF after
  <1>7. after[first - 1] = p
    BY <1>5
  <1>8. \A n \in first..last : after[n] = OnLine(after[n - 1], n)
    BY <1>5 DEF OnLine
  <1>9. Folds(after, p, first, last)
    BY <1>6, <1>7, <1>8 DEF Folds
  <1> QED BY <1>9

-----------------------------------------------------------------------------
(* Types.                                                                  *)

Progresses == [done : Nat, runState : {"none", "running", "finished"}]

\* What applying one event does to the progress.
LEMMA EventEffects ==
    ASSUME NEW q \in Progresses, NEW e \in Lines, e # Corrupt
    PROVE  /\ ApplyEvent(q, e) \in Progresses
           /\ ApplyEvent(q, e).done = IF e.type = "started" THEN 0
                                      ELSE IF e.type = "point" THEN q.done + 1
                                      ELSE q.done
  <1>1. e.type \in {"started", "point", "retry_failed", "finished"}
    BY LineFacts
  <1>2. CASE e.type = "started"
    BY <1>2 DEF ApplyEvent, Progresses, NewProgress
  <1>3. CASE e.type = "point"
    BY <1>3 DEF ApplyEvent, Progresses
  <1>4. CASE e.type = "finished"
    BY <1>4 DEF ApplyEvent, Progresses
  <1>5. CASE e.type = "retry_failed"
    BY <1>5 DEF ApplyEvent
  <1> QED BY <1>1, <1>2, <1>3, <1>4, <1>5

LEMMA FoldedType ==
    ASSUME file \in Seq(Lines), NEW p \in Progresses,
           NEW first \in Nat \ {0}, first - 1 <= Len(file)
    PROVE  Folded(p, first, Len(file)) \in Progresses
  <1>0. Len(file) \in Nat
    OBVIOUS
  <1>1. PICK after : Folds(after, p, first, Len(file))
    BY <1>0, FoldSteps
  <1> DEFINE
        Q(d) == first - 1 + d <= Len(file) => after[first - 1 + d] \in Progresses
        T == {d \in Nat : Q(d)}
  <1>2. 0 \in T
    BY <1>1 DEF Folds
  <1>3. ASSUME NEW d \in T PROVE d + 1 \in T
    <2> SUFFICES ASSUME first + d <= Len(file) PROVE after[first + d] \in Progresses
      OBVIOUS
    <2>1. after[first + d - 1] \in Progresses
      OBVIOUS
    <2>2. after[first + d] = OnLine(after[first + d - 1], first + d)
      BY <1>1 DEF Folds
    <2>3. file[first + d] \in Lines
      OBVIOUS
    <2> QED BY <2>1, <2>2, <2>3, EventEffects, LineFacts DEF OnLine
  <1>4. T = Nat
    BY <1>2, <1>3, NatInductive
  <1>5. Q(Len(file) - (first - 1))
    <2>1. Len(file) - (first - 1) \in Nat /\ \A d \in T : Q(d)
      OBVIOUS
    <2> HIDE DEF Q, T
    <2> QED BY <1>4, <2>1
  <1> QED BY <1>1, <1>5 DEF Folds

\* A line written, or lost: the file grows at its end or stays.
LEMMA EmitEffects ==
    ASSUME file \in Seq(Lines), Len(file) <= MaxLines, torn \in BOOLEAN,
           NEW e \in Lines, Emit(e)
    PROVE  /\ file' \in Seq(Lines) /\ Len(file') <= MaxLines /\ Len(file) <= Len(file')
           /\ \A i \in 1..Len(file) : file'[i] = file[i]
           /\ \A i \in Len(file) + 1..Len(file') : file'[i] \in {e, Corrupt}
           /\ torn' \in BOOLEAN
  <1>1. CASE /\ Len(file) + 1 <= MaxLines
             /\ file' = Append(file, IF torn THEN Corrupt ELSE e) /\ torn' = FALSE
    <2>1. PICK f \in Lines : f = IF torn THEN Corrupt ELSE e
      BY DEF Lines
    <2>1b. f \in {e, Corrupt}
      BY <2>1
    <2>2. file' = Append(file, f)
      BY <1>1, <2>1
    <2>3. Append(file, f) \in Seq(Lines) /\ Len(Append(file, f)) = Len(file) + 1
      BY AppendProperties
    <2>4. \A i \in 1..Len(file) : Append(file, f)[i] = file[i]
      OBVIOUS
    <2>4b. Append(file, f)[Len(file) + 1] = f
      OBVIOUS
    <2>5. Len(file) \in Nat /\ MaxLines \in Nat
      BY IngestAssumption
    <2>6. torn' \in BOOLEAN
      BY <1>1
    <2>7. \A i \in Len(file) + 1..Len(file') : file'[i] \in {e, Corrupt}
      BY <2>1b, <2>2, <2>3, <2>4b, <2>5
    <2> QED BY <1>1, <2>2, <2>3, <2>4, <2>5, <2>6, <2>7
  <1>2. CASE file' = file /\ torn' \in {TRUE, torn}
    <2>1. torn' \in BOOLEAN
      BY <1>2
    <2>2. Len(file) <= Len(file) /\ Len(file) + 1..Len(file) = {}
      OBVIOUS
    <2> QED BY <1>2, <2>1, <2>2
  <1>3. Len(file) + (IF lossy THEN 1 ELSE 0) < MaxLines => Len(file) + 1 <= MaxLines
    BY IngestAssumption
  <1> QED BY <1>1, <1>2, <1>3 DEF Emit

\* The job that made the run directory is there from the start.
TypeInv == IngestTypeOK /\ state[1] # "new"

LEMMA StartTyped == Init => TypeInv
  <1> SUFFICES ASSUME Init PROVE TypeInv
    OBVIOUS
  <1>1. <<>> \in Seq(Lines) /\ Len(<<>>) = 0
    BY EmptySeq
  <1>1b. <<>> \in Seq([points : Nat \cup {Null}, finished : Nat])
    BY EmptySeq
  <1>2. NewProgress \in [done : Nat, runState : {"none", "running", "finished"}]
    BY DEF NewProgress
  <1>3. NoMeasurement \in [Points -> Values] /\ NoRows \in [Ids -> Values]
    BY IngestAssumption DEF NoMeasurement, NoRows, NoValue, Values
  <1>4. file \in Seq(Lines) /\ Len(file) <= MaxLines
    BY <1>1, IngestAssumption DEF Init
  <1>5. offset \in [Jobs -> 0..Len(file)]
    BY <1>1 DEF Init
  <1>6. attempts \in [Jobs -> Seq([points : Nat \cup {Null}, finished : Nat])]
    BY <1>1b DEF Init
  <1>7. progress \in [Jobs -> [done : Nat, runState : {"none", "running", "finished"}]]
    BY <1>2 DEF Init
  <1>8. IngestTypeOK
    BY <1>3, <1>4, <1>5, <1>6, <1>7 DEF Init, IngestTypeOK
  <1>9. state[1] # "new"
    BY IngestAssumption DEF Init, Jobs
  <1> QED BY <1>8, <1>9 DEF TypeInv

\* Whatever is written, what was read stays readable.
LEMMA FileGrows ==
    ASSUME IngestTypeOK, NEW e \in Lines, Emit(e)
    PROVE  /\ file' \in Seq(Lines) /\ Len(file') <= MaxLines
           /\ torn' \in BOOLEAN
           /\ 0..Len(file) \subseteq 0..Len(file')
           /\ offset \in [Jobs -> 0..Len(file')]
           /\ batch \subseteq {i \in DOMAIN file' : file'[i] # Corrupt}
  <1>1. /\ file' \in Seq(Lines) /\ Len(file') <= MaxLines /\ Len(file) <= Len(file')
        /\ \A i \in 1..Len(file) : file'[i] = file[i]
        /\ torn' \in BOOLEAN
    BY EmitEffects DEF IngestTypeOK
  <1>2. 0..Len(file) \subseteq 0..Len(file') /\ DOMAIN file = 1..Len(file)
        /\ DOMAIN file' = 1..Len(file') /\ DOMAIN file \subseteq DOMAIN file'
    BY <1>1 DEF IngestTypeOK
  <1>3. offset \in [Jobs -> 0..Len(file')]
    BY <1>2 DEF IngestTypeOK
  <1>4. batch \subseteq {i \in DOMAIN file' : file'[i] # Corrupt}
    BY <1>1, <1>2 DEF IngestTypeOK
  <1> QED BY <1>1, <1>2, <1>3, <1>4

LEMMA PointsOfBatch ==
    ASSUME IngestTypeOK
    PROVE  PointsOf(batch) \subseteq Points
  <1> SUFFICES ASSUME NEW i \in batch, file[i].type = "point" PROVE file[i].point \in Points
    BY DEF PointsOf
  <1>1. file[i] \in Lines
    BY DEF IngestTypeOK
  <1> QED BY <1>1, LineFacts

LEMMA FinishedIsCount == Cardinality(FinishedPoints) \in Nat
  <1>1. FinishedPoints \subseteq Points
    BY DEF FinishedPoints
  <1> QED BY <1>1, IngestAssumption, FS_Subset, FS_CardinalityType

LEMMA TypeStep ==
    ASSUME IngestTypeOK, state[1] # "new", [IngestNext]_ingestVars
    PROVE  IngestTypeOK'
  <1> DEFINE
        Tries == Seq([points : Nat \cup {Null}, finished : Nat])
        States == [Jobs -> {"new", "waiting", "running", "done"}]
        Windows == [Jobs -> {"no", "fresh", "polled"}]
  <1> USE DEF IngestTypeOK
  <1>0. 1 \in Jobs
    BY IngestAssumption DEF Jobs
  <1>1. ASSUME NEW p \in Points, Reports(p) PROVE IngestTypeOK'
    <2>1. PICK v \in {disk[p], Len(file) + 1, Failed} :
             /\ disk' = [disk EXCEPT ![p] = IF v = Failed THEN @ ELSE v]
             /\ entries' = [entries EXCEPT ![p] = v]
             /\ Emit(Point(driver, p, v))
      BY <1>1 DEF Reports
    <2>2. v \in Values /\ driver \in Jobs
      BY <1>1, IngestAssumption DEF Reports, Values, Nobody
    <2>3. Point(driver, p, v) \in Lines
      BY <2>2, LinesSuit
    <2>4. disk' \in [Points -> Values] /\ entries' \in [Points -> Values \cup {Kept}]
      BY <2>1, <2>2
    <2> QED BY <1>1, <2>1, <2>3, <2>4, FileGrows DEF Reports, jobRows, ledger, memory, requests
  <1>1a. ASSUME NEW p \in Points, RetryFails(p) PROVE IngestTypeOK'
    <2>1. driver \in Jobs /\ Emit(RetryFailed(driver))
      BY <1>1a DEF RetryFails, Nobody
    <2>2. RetryFailed(driver) \in Lines
      BY <2>1 DEF Lines
    <2>3. entries' \in [Points -> Values \cup {Kept}]
      BY <1>1a DEF RetryFails
    <2> QED BY <1>1a, <2>1, <2>2, <2>3, FileGrows DEF RetryFails, jobRows, ledger, memory, requests
  <1>2. CASE DriverEnds
    <2>1. driver \in Jobs /\ Emit(Finished(driver))
      BY <1>2 DEF DriverEnds, Nobody
    <2>2. Finished(driver) \in Lines
      BY <2>1 DEF Lines
    <2>3. results' \in [Points -> Values]
      BY <1>2 DEF DriverEnds
    <2> QED BY <1>2, <2>1, <2>2, <2>3, FileGrows DEF DriverEnds, jobRows, ledger, memory, requests
  <1>3. CASE DriverDies
    BY <1>3 DEF DriverDies, sweepDir, jobRows, ledger, memory, requests, budget
  <1>4. ASSUME NEW j \in Jobs, Starts(j) PROVE IngestTypeOK'
    <2>1. Emit(Started(j)) /\ Started(j) \in Lines
      BY <1>4 DEF Starts, Lines
    <2>2. NoMeasurement \in [Points -> Values \cup {Kept}]
      BY IngestAssumption DEF NoMeasurement, NoValue, Values
    <2> QED BY <1>4, <2>1, <2>2, FileGrows DEF Starts, OnLoop, ledger, requests
  <1>5. ASSUME NEW j \in Jobs, Settles(j) PROVE IngestTypeOK'
    <2> DEFINE r == [points |-> progress[j].done, finished |-> Cardinality(FinishedPoints)]
    <2>1. r \in [points : Nat \cup {Null}, finished : Nat]
      BY FinishedIsCount
    <2> HIDE DEF r
    <2>2. attempts' = [attempts EXCEPT ![j] = Append(@, r)]
      BY <1>5 DEF Settles, Attempted, r
    <2>3. attempts' \in [Jobs -> Tries]
      BY <2>1, <2>2, AppendProperties
    <2>4. state' \in States /\ window' \in Windows /\ gaveUp' \subseteq Jobs
      BY <1>5 DEF Settles, Becomes
    <2> HIDE DEF Tries
    <2> QED
      BY <1>5, <2>3, <2>4
      DEF Settles, OnLoop, runDir, sweepDir, ledger, requests, budget, Tries
  <1>6. ASSUME NEW j \in Jobs, Cancels(j) PROVE IngestTypeOK'
    <2>1. state' \in States /\ window' \in Windows
      BY <1>6 DEF Cancels, Becomes
    <2> QED BY <1>6, <2>1 DEF Cancels, runDir, sweepDir, ledger, memory, requests, budget
  <1>6a. ASSUME NEW j \in Jobs, Expires(j) PROVE IngestTypeOK'
    BY <1>6a DEF Expires, runDir, sweepDir, ledger, memory, requests, budget
  <1>6b. ASSUME NEW j \in Jobs, Extends(j) PROVE IngestTypeOK'
    BY <1>6b DEF Extends, runDir, sweepDir, ledger, memory, requests, budget
  <1>7. CASE PollBegins \/ PollEnds
    BY <1>7 DEF PollBegins, PollEnds, OnLoop, ToRead, Running, runDir, sweepDir, jobRows,
              ledger, requests, budget
  <1>8. ASSUME NEW j \in Jobs, Ingests(j) PROVE IngestTypeOK'
    <2>1. /\ offset' = [offset EXCEPT ![j] = Len(file)]
          /\ progress' = [progress EXCEPT ![j] = Folded(@, offset[j] + 1, Len(file))]
      BY <1>8 DEF Ingests, Stores
    <2>2. offset' \in [Jobs -> 0..Len(file)]
      BY <2>1
    <2>3. Folded(progress[j], offset[j] + 1, Len(file)) \in Progresses
      <3>1. PICK first \in Nat \ {0} : first = offset[j] + 1 /\ first - 1 <= Len(file)
        <4>1. offset[j] \in 0..Len(file)
          OBVIOUS
        <4> HIDE DEF IngestTypeOK
        <4> QED BY <4>1
      <3>2. progress[j] \in Progresses /\ file \in Seq(Lines)
        BY DEF Progresses
      <3> HIDE DEF IngestTypeOK
      <3>3. Folded(progress[j], first, Len(file)) \in Progresses
        BY <3>1, <3>2, FoldedType
      <3> QED BY <3>1, <3>3
    <2>4. progress' \in [Jobs -> [done : Nat, runState : {"none", "running", "finished"}]]
      BY <2>1, <2>3 DEF Progresses
    <2>5. batch' \subseteq {i \in DOMAIN file : file[i] # Corrupt}
      BY <1>8 DEF Ingests, ReadFrom, Corrupt
    <2> QED
      BY <1>8, <2>2, <2>4, <2>5 DEF Ingests, runDir, sweepDir, ledger, requests, budget
  <1>9. ASSUME NEW j \in Jobs, NothingNew(j) PROVE IngestTypeOK'
    BY <1>9 DEF NothingNew, runDir, sweepDir, jobRows, ledger, requests, budget
  <1>10. ASSUME NEW j \in Jobs, AppliesOne(j) PROVE IngestTypeOK'
    <2>1. PICK i \in batch :
             /\ batch' = batch \ {i}
             /\ IF file[i].type = "point"
                THEN /\ Upsert(file[i].point, file[i].value)
                     /\ writer' = j
                     /\ apart' = apart \ {file[i].point}
                ELSE UNCHANGED ledger
      BY <1>10 DEF AppliesOne
    <2>2. file[i] \in Lines
      OBVIOUS
    <2>3. rows' \in [Ids -> Values] /\ writer' \in Jobs \cup {Nobody} /\ apart' \subseteq Points
      BY <2>1, <2>2, LineFacts, IngestAssumption DEF Upsert, ledger
    <2> QED
      BY <1>10, <2>1, <2>3
      DEF AppliesOne, Announces, runDir, sweepDir, jobRows, requests, budget
  <1>11. ASSUME NEW j \in Jobs, LedgerFails(j) PROVE IngestTypeOK'
    <2>1. apart' \subseteq Points
      BY <1>11, PointsOfBatch DEF LedgerFails
    <2> QED BY <1>11, <2>1 DEF LedgerFails, Announces, runDir, sweepDir, jobRows, requests
  <1>11a. CASE PollRaises
    <2>1. window' \in Windows
      BY <1>11a DEF PollRaises
    <2> QED BY <1>11a, <2>1 DEF PollRaises, runDir, sweepDir, ledger, requests
  <1>12. CASE ScanReads
    BY <1>12 DEF ScanReads, NoRequest, runDir, sweepDir, jobRows, ledger
  <1>12a. CASE ScanClears
    <2>1. writer' \in Jobs \cup {Nobody}
      <3> DEFINE known == {j \in Jobs : state[j] # "new"}
      <3>1. Max(known) \in Jobs
        <4>1. known # {} /\ known \subseteq Jobs
          BY <1>0
        <4>2. NJobs \in Nat /\ Jobs \subseteq 0..NJobs
          BY IngestAssumption DEF Jobs
        <4> HIDE DEF known
        <4>3. known \in SUBSET (0..NJobs)
          BY <4>1, <4>2
        <4>4. Max(known) \in known
          BY <4>1, <4>2, <4>3, MaxOf
        <4> QED BY <4>1, <4>4
      <3> QED BY <1>12a, <3>1 DEF ScanClears
    <2>2. rows' \in [Ids -> Values] /\ apart' \subseteq Points
      BY <1>12a, IngestAssumption DEF ScanClears, NoRows, NoValue, Values
    <2>3. up
      BY <1>12a DEF ScanClears
    <2> QED BY <1>12a, <2>1, <2>2, <2>3 DEF ScanClears, runDir, sweepDir, jobRows, budget
  <1>12b. ASSUME NEW p \in Points, ScanInserts(p) PROVE IngestTypeOK'
    <2>1. rows' \in [Ids -> Values] /\ apart' \subseteq Points
      BY <1>12b DEF ScanInserts, Upsert
    <2>2. entered' \in [Points -> Values]
      BY <1>12b, IngestAssumption DEF ScanInserts, NoValue, Values
    <2>3. up /\ request' \in {"none", "cleared"}
      BY <1>12b DEF ScanInserts
    <2> QED BY <1>12b, <2>1, <2>2, <2>3 DEF ScanInserts, runDir, sweepDir, jobRows, budget
  <1>13. CASE RemovesFiles
    <2>1. NoMeasurement \in [Points -> Values]
      BY IngestAssumption DEF NoMeasurement, NoValue, Values
    <2> QED BY <1>13, <2>1 DEF RemovesFiles, NoRequest, jobRows, ledger
  <1>13a. CASE DeleteRun
    <2>1. rows' \in [Ids -> Values]
      BY <1>13a, IngestAssumption DEF DeleteRun, NoRows, NoValue, Values
    <2>2. request' = "none" /\ writer' = Nobody /\ apart' = Points
      BY <1>13a DEF DeleteRun
    <2> QED BY <1>13a, <2>1, <2>2 DEF DeleteRun, runDir, sweepDir, jobRows
  <1>14. CASE DaemonDies
    <2>1. apart' \subseteq Points
      BY <1>14, PointsOfBatch DEF DaemonDies
    <2>2. window' \in Windows
      BY <1>14 DEF DaemonDies
    <2>3. NoMeasurement \in [Points -> Values]
      BY IngestAssumption DEF NoMeasurement, NoValue, Values
    <2> QED BY <1>14, <2>1, <2>2, <2>3 DEF DaemonDies, runDir, sweepDir, Nobody
  <1>15. CASE DaemonStarts
    <2>1. CASE UNCHANGED <<state, window, attempts>>
      BY <1>15, <2>1 DEF DaemonStarts, runDir, sweepDir, ledger, requests, budget
    <2>2. ASSUME NEW j \in Jobs, NEW s \in {"waiting", "done"}, Becomes(j, s),
                 attempts' = [attempts EXCEPT ![j] =
                     Append(@, [points |-> Null,
                                finished |-> Cardinality(FinishedPoints)])]
          PROVE  IngestTypeOK'
      <3> DEFINE r == [points |-> Null, finished |-> Cardinality(FinishedPoints)]
      <3>1. r \in [points : Nat \cup {Null}, finished : Nat]
        BY FinishedIsCount
      <3> HIDE DEF r
      <3>2. attempts' = [attempts EXCEPT ![j] = Append(@, r)]
        BY <2>2 DEF r
      <3>3. attempts' \in [Jobs -> Tries]
        BY <3>1, <3>2, AppendProperties
      <3>4. state' \in States /\ window' \in Windows
        BY <2>2 DEF Becomes
      <3> QED
        BY <1>15, <3>3, <3>4 DEF DaemonStarts, runDir, sweepDir, ledger, requests, budget
    <2> QED BY <1>15, <2>1, <2>2 DEF DaemonStarts, Running
  <1>16. CASE UNCHANGED ingestVars
    BY <1>16 DEF ingestVars, runDir, sweepDir, jobRows, ledger, memory, requests, budget
  <1> QED
    BY <1>1, <1>1a, <1>2, <1>3, <1>4, <1>5, <1>6, <1>6a, <1>6b, <1>7, <1>8, <1>9, <1>10,
       <1>11, <1>11a, <1>12, <1>12a, <1>12b, <1>13, <1>13a, <1>14, <1>15, <1>16
    DEF IngestNext, PollStep, Request

LEMMA StateOfFirst ==
    ASSUME IngestTypeOK, state[1] # "new", [IngestNext]_ingestVars
    PROVE  state'[1] # "new"
  <1>1. 1 \in Jobs
    BY IngestAssumption DEF Jobs
  <1> USE DEF IngestTypeOK
  <1>2. CASE UNCHANGED state
    BY <1>2
  <1>3. ASSUME NEW j \in Jobs, NEW s \in {"running", "waiting", "done"},
               state' = [state EXCEPT ![j] = s]
        PROVE  state'[1] # "new"
    BY <1>1, <1>3
  <1> HIDE DEF IngestTypeOK
  <1> QED
    BY <1>2, <1>3
    DEF IngestNext, PollStep, Reports, RetryFails, DriverEnds, DriverDies, Starts,
        Settles, Cancels, Expires, Extends, Becomes, PollBegins, PollEnds, Ingests,
        NothingNew, AppliesOne, LedgerFails, PollRaises, Request, ScanReads, ScanClears,
        ScanInserts, RemovesFiles, DeleteRun, DaemonDies, DaemonStarts, Running,
        ingestVars, jobRows

LEMMA TypeInvStep == TypeInv /\ [IngestNext]_ingestVars => TypeInv'
  BY TypeStep, StateOfFirst DEF TypeInv

\* For every number of jobs, lines, drivers and mishaps, the rows, the daemon's
\* memory and the run directory hold what they are declared to hold.
THEOREM IngestTyped == IngestSpec => []IngestTypeOK
  <1>1. IngestSpec => []TypeInv
    BY StartTyped, TypeInvStep, PTL DEF IngestSpec
  <1>2. TypeInv => IngestTypeOK
    BY DEF TypeInv
  <1> QED BY <1>1, <1>2, PTL

-----------------------------------------------------------------------------
(* What the steps move.                                                    *)

\* The parts of an event line the invariants tell apart.
LEMMA EventKinds ==
    ASSUME NEW j, NEW p, NEW v
    PROVE  /\ Started(j).type = "started" /\ Finished(j).type = "finished"
           /\ Corrupt.type = "corrupt" /\ RetryFailed(j).type = "retry_failed"
           /\ Point(j, p, v).type = "point"
           /\ Point(j, p, v).point = p /\ Point(j, p, v).value = v
  BY DEF Started, Finished, RetryFailed, Corrupt, Point

\* A line comes from the driver's steps.
LEMMA FileMoves ==
    ASSUME IngestTypeOK, [IngestNext]_ingestVars
    PROVE  \/ \E p \in Points : Reports(p) \/ RetryFails(p)
           \/ DriverEnds
           \/ \E j \in Jobs : Starts(j)
           \/ UNCHANGED file
  BY DEF IngestNext, PollStep, DriverDies, Settles, Cancels, Expires, Extends,
         PollBegins, PollEnds, Ingests, NothingNew, AppliesOne, Announces, LedgerFails,
         PollRaises, Request, ScanReads, ScanClears, ScanInserts, RemovesFiles,
         DeleteRun, DaemonDies, DaemonStarts, ingestVars, runDir, budget

\* Progress and offset move when a job's lines are read.
LEMMA ReadMoves ==
    ASSUME [IngestNext]_ingestVars
    PROVE  (\E j \in Jobs : Ingests(j)) \/ UNCHANGED <<offset, progress>>
  BY DEF IngestNext, PollStep, Reports, RetryFails, DriverEnds, DriverDies, Starts,
         Settles, Cancels, Expires, Extends, PollBegins, PollEnds, NothingNew,
         AppliesOne, Announces, LedgerFails, PollRaises, Request, ScanReads, ScanClears,
         ScanInserts, RemovesFiles, DeleteRun, DaemonDies, DaemonStarts, ingestVars,
         jobRows

\* The line an action writes; the others stay.
LEMMA Written ==
    ASSUME IngestTypeOK, NEW e \in Lines, Emit(e)
    PROVE  /\ Len(file) <= Len(file')
           /\ \A i \in 1..Len(file) : file'[i] = file[i]
           /\ \A i \in Len(file) + 1..Len(file') : file'[i] \in {e, Corrupt}
  BY EmitEffects DEF IngestTypeOK

LEMMA EmitByOne ==
    ASSUME IngestTypeOK, NEW e \in Lines, Emit(e)
    PROVE  Len(file') <= Len(file) + 1 /\ Len(file) \in Nat /\ Len(file') \in Nat
  <1>1. file' = Append(file, IF torn THEN Corrupt ELSE e) \/ file' = file
    BY DEF Emit
  <1> QED BY <1>1 DEF IngestTypeOK

\* Reading on changes nothing of what was read.
LEMMA FileKeeps ==
    ASSUME IngestTypeOK, [IngestNext]_ingestVars
    PROVE  Len(file) <= Len(file') /\ \A i \in 1..Len(file) : file'[i] = file[i]
  <1>1a. ASSUME NEW p \in Points, RetryFails(p) PROVE \E e \in Lines : Emit(e)
    BY <1>1a DEF RetryFails, Nobody, IngestTypeOK, Lines
  <1>1. ASSUME NEW p \in Points, Reports(p) PROVE \E e \in Lines : Emit(e)
    <2>1. PICK v \in {disk[p], Len(file) + 1, Failed} : Emit(Point(driver, p, v))
      BY <1>1 DEF Reports
    <2>2. v \in Values /\ driver \in Jobs
      BY <1>1, IngestAssumption DEF Reports, Values, Nobody, IngestTypeOK
    <2> QED BY <2>1, <2>2, LinesSuit
  <1>2. ASSUME DriverEnds PROVE \E e \in Lines : Emit(e)
    BY <1>2 DEF DriverEnds, Nobody, IngestTypeOK, Lines
  <1>3. ASSUME NEW j \in Jobs, Starts(j) PROVE \E e \in Lines : Emit(e)
    BY <1>3 DEF Starts, Lines
  <1>4. Len(file) <= Len(file)
    BY DEF IngestTypeOK
  <1>5. (\E e \in Lines : Emit(e)) \/ file' = file
    BY <1>1, <1>1a, <1>2, <1>3, FileMoves
  <1> QED BY <1>4, <1>5, Written

-----------------------------------------------------------------------------
(* What the ledger holds.  A batch is what is left of the lines up to the  *)
(* furthest any job was read to, so the last of it about a point is the    *)
(* last line about that point, even when a second job reads the file again *)
(* from its start and sets rows back on the way.                           *)

About(p, i) == file[i].type = "point" /\ file[i].point = p

RowsCurrent ==
    \A p \in Points \ (apart \cup PointsOf(batch)) : rows[p] = LastValue(p, ReadTo)
BatchIsTail ==
    \A i \in batch : /\ i <= ReadTo
                     /\ \A k \in i..ReadTo : file[k].type # "corrupt" => k \in batch
LedgerInv == RowsCurrent /\ BatchIsTail

LEMMA LastIsLast ==
    ASSUME NEW p, NEW n \in Nat, NEW i \in 1..n, About(p, i),
           \A k \in i + 1..n : ~About(p, k)
    PROVE  LastValue(p, n) = file[i].value
  <1> DEFINE about == {k \in 1..n : About(p, k)}
  <1>1. about \in SUBSET (0..n) /\ i \in about
    OBVIOUS
  <1>2. \A k \in about : k <= i
    OBVIOUS
  <1>3. LastValue(p, n) = IF about = {} THEN NoValue ELSE file[Max(about)].value
    BY DEF LastValue, About
  <1>4. i \in Nat /\ \A k \in about : k \in Nat
    OBVIOUS
  <1> HIDE DEF about
  <1>5. Max(about) \in about /\ i <= Max(about)
    BY <1>1, MaxOf
  <1>6. Max(about) = i
    BY <1>2, <1>4, <1>5
  <1> QED BY <1>1, <1>3, <1>6

LEMMA LastStaysLast ==
    ASSUME NEW p, NEW m \in Nat, NEW n \in Nat, m <= n,
           \A k \in m + 1..n : ~About(p, k)
    PROVE  LastValue(p, n) = LastValue(p, m)
  <1>1. {k \in 1..n : About(p, k)} = {k \in 1..m : About(p, k)}
    OBVIOUS
  <1> QED BY <1>1 DEF LastValue, About

LEMMA ReadToIs ==
    ASSUME IngestTypeOK
    PROVE  /\ Len(file) \in Nat /\ ReadTo \in 0..Len(file)
           /\ \E j \in Jobs : ReadTo = offset[j]
           /\ \A j \in Jobs : offset[j] <= ReadTo
  <1> DEFINE R == {offset[j] : j \in Jobs}
  <1>1. Len(file) \in Nat /\ offset \in [Jobs -> 0..Len(file)]
    BY DEF IngestTypeOK
  <1>2. 1 \in Jobs
    BY IngestAssumption DEF Jobs
  <1>3. R \in SUBSET (0..Len(file)) /\ R # {}
    BY <1>1, <1>2
  <1> HIDE DEF R
  <1>4. Max(R) \in R /\ \A x \in R : x <= Max(R)
    BY <1>1, <1>3, MaxOf
  <1> QED BY <1>1, <1>3, <1>4 DEF ReadTo, R

LEMMA LedgerMoves ==
    ASSUME [IngestNext]_ingestVars
    PROVE  \/ \E j \in Jobs : Ingests(j) \/ AppliesOne(j)
           \/ \E j \in Jobs : LedgerFails(j)
           \/ DaemonDies \/ ScanClears \/ DeleteRun
           \/ \E p \in Points : ScanInserts(p)
           \/ UNCHANGED <<rows, apart, batch, offset>>
  BY DEF IngestNext, PollStep, Reports, RetryFails, DriverEnds, DriverDies, Starts,
         Settles, Cancels, Expires, Extends, PollBegins, PollEnds, NothingNew,
         PollRaises, Request, ScanReads, RemovesFiles, DaemonStarts, ingestVars,
         jobRows, ledger, memory

\* A line that was read stays, so what the lines read say stays too.
LEMMA LastValueKept ==
    ASSUME IngestTypeOK, [IngestNext]_ingestVars, NEW p, NEW n \in 0..Len(file)
    PROVE  LastValue(p, n)' = LastValue(p, n)
  <1>1. Len(file) \in Nat
    BY DEF IngestTypeOK
  <1>2. \A i \in 1..n : file'[i] = file[i]
    BY <1>1, FileKeeps
  <1> DEFINE about == {i \in 1..n : About(p, i)}
  <1>3. about' = about
    BY <1>2 DEF About
  <1>4. about # {} => Max(about) \in 1..n
    <2>1. n \in Nat /\ about \in SUBSET (0..n) /\ about \subseteq 1..n
      BY <1>1
    <2> HIDE DEF about
    <2> QED BY <2>1, MaxOf
  <1>5. /\ LastValue(p, n) = IF about = {} THEN NoValue ELSE file[Max(about)].value
        /\ LastValue(p, n)' = IF about' = {} THEN NoValue ELSE file'[Max(about')].value
    BY DEF LastValue, About
  <1> HIDE DEF about
  <1> QED BY <1>2, <1>3, <1>4, <1>5

LEMMA PointsKept ==
    ASSUME IngestTypeOK, [IngestNext]_ingestVars, NEW B \in SUBSET DOMAIN file
    PROVE  PointsOf(B)' = PointsOf(B)
  <1>1. \A i \in 1..Len(file) : file'[i] = file[i]
    BY FileKeeps
  <1>2. DOMAIN file = 1..Len(file)
    BY DEF IngestTypeOK
  <1>3. \A i \in B : file'[i] = file[i]
    BY <1>1, <1>2
  <1> QED BY <1>3 DEF PointsOf

\* Where the lines read and the batch stay, and only points taken away move.
LEMMA LedgerKept ==
    ASSUME IngestTypeOK, LedgerInv, [IngestNext]_ingestVars,
           UNCHANGED <<batch, offset>>,
           \A p \in Points \ apart' : p \notin apart /\ rows'[p] = rows[p]
    PROVE  LedgerInv'
  <1>1. ReadTo' = ReadTo /\ ReadTo \in 0..Len(file) /\ Len(file) \in Nat
    BY ReadToIs DEF ReadTo
  <1>2. batch \subseteq DOMAIN file /\ DOMAIN file = 1..Len(file)
    BY DEF IngestTypeOK
  <1>3. PointsOf(batch)' = PointsOf(batch)
    BY <1>2, PointsKept
  <1>4. RowsCurrent'
    <2> SUFFICES ASSUME NEW p \in Points \ (apart' \cup PointsOf(batch)')
                 PROVE  rows'[p] = LastValue(p, ReadTo)'
      BY DEF RowsCurrent
    <2>1. PICK n \in 0..Len(file) : n = ReadTo
      BY <1>1
    <2>2. LastValue(p, n)' = LastValue(p, n)
      BY LastValueKept
    <2>3. LastValue(p, ReadTo)' = LastValue(p, n)'
      BY <1>1, <2>1
    <2> QED BY <1>3, <2>1, <2>2, <2>3 DEF LedgerInv, RowsCurrent
  <1>5. BatchIsTail'
    BY <1>1, <1>2, FileKeeps DEF LedgerInv, BatchIsTail
  <1> QED BY <1>4, <1>5 DEF LedgerInv

LEMMA LedgerIngests ==
    ASSUME IngestTypeOK, LedgerInv, NEW j \in Jobs, Ingests(j)
    PROVE  LedgerInv'
  <1>0. /\ Len(file) \in Nat /\ ReadTo \in 0..Len(file) /\ offset[j] \in 0..Len(file)
        /\ offset[j] <= ReadTo /\ offset \in [Jobs -> 0..Len(file)]
    BY ReadToIs DEF IngestTypeOK
  <1>1. /\ batch = {} /\ batch' = ReadFrom(offset[j])
        /\ file' = file /\ rows' = rows /\ apart' = apart
        /\ offset' = [offset EXCEPT ![j] = Len(file)]
    BY DEF Ingests, Stores, IngestTypeOK, runDir, ledger
  <1>2. ReadTo' = Len(file)
    <2> DEFINE R == {offset'[k] : k \in Jobs}
    <2>1. Len(file) \in R /\ R \in SUBSET (0..Len(file)) /\ \A x \in R : x <= Len(file)
      BY <1>0, <1>1
    <2> HIDE DEF R
    <2>2. Max(R) \in R /\ Len(file) <= Max(R)
      BY <1>0, <2>1, MaxOf
    <2>3. Max(R) = Len(file)
      <3>1. \A m \in R : m \in 0..Len(file) /\ m <= Len(file)
        BY <2>1
      <3>2. \A m \in R : Len(file) <= m => m = Len(file)
        BY <1>0, <3>1
      <3> QED BY <2>2, <3>2
    <2>4. ReadTo' = Max(R)
      BY DEF ReadTo, R, Max
    <2> QED BY <2>3, <2>4
  <1>3. RowsCurrent'
    <2> SUFFICES ASSUME NEW p \in Points \ (apart' \cup PointsOf(batch)')
                 PROVE  rows'[p] = LastValue(p, ReadTo)'
      BY DEF RowsCurrent
    <2>1. \A k \in offset[j] + 1..Len(file) : ~About(p, k)
      BY <1>0, <1>1 DEF PointsOf, About, ReadFrom
    <2>2. LastValue(p, Len(file)) = LastValue(p, ReadTo)
      <3>1. \A k \in ReadTo + 1..Len(file) : ~About(p, k)
        BY <1>0, <2>1
      <3> QED BY <1>0, <3>1, LastStaysLast
    <2>3. rows[p] = LastValue(p, ReadTo)
      BY <1>1 DEF LedgerInv, RowsCurrent, PointsOf
    <2>4. LastValue(p, ReadTo)' = LastValue(p, Len(file))
      BY <1>1, <1>2 DEF LastValue
    <2> QED BY <1>1, <2>2, <2>3, <2>4
  <1>4. BatchIsTail'
    BY <1>0, <1>1, <1>2 DEF BatchIsTail, ReadFrom
  <1> QED BY <1>3, <1>4 DEF LedgerInv

LEMMA LedgerApplies ==
    ASSUME IngestTypeOK, LedgerInv, NEW j \in Jobs, AppliesOne(j)
    PROVE  LedgerInv'
  <1>1. PICK i \in batch :
           /\ \A k \in batch : i <= k
           /\ batch' = batch \ {i}
           /\ IF file[i].type = "point"
              THEN /\ Upsert(file[i].point, file[i].value)
                   /\ apart' = apart \ {file[i].point}
              ELSE UNCHANGED ledger
    BY DEF AppliesOne
  <1>2. file' = file /\ offset' = offset
    BY DEF AppliesOne, runDir, jobRows
  <1>3. /\ ReadTo' = ReadTo /\ ReadTo \in 0..Len(file) /\ Len(file) \in Nat
        /\ batch \subseteq 1..Len(file) /\ rows \in [Ids -> Values] /\ Points \subseteq Ids
        /\ \A k \in batch : file[k] \in Lines
    <2>1. ReadTo' = ReadTo
      BY <1>2 DEF ReadTo
    <2>2. ReadTo \in 0..Len(file) /\ Len(file) \in Nat
      BY ReadToIs
    <2>3. /\ batch \subseteq 1..Len(file) /\ rows \in [Ids -> Values]
          /\ \A k \in batch : file[k] \in Lines
      BY DEF IngestTypeOK
    <2>4. Points \subseteq Ids
      BY IngestAssumption
    <2> QED BY <2>1, <2>2, <2>3, <2>4
  <1>4. BatchIsTail'
    <2> SUFFICES ASSUME NEW m \in batch' PROVE
                   m <= ReadTo /\ \A k \in m..ReadTo : file[k].type # "corrupt" => k \in batch'
      BY <1>2, <1>3 DEF BatchIsTail
    <2>1. m \in batch /\ i < m /\ i \in Nat /\ m \in Nat
      BY <1>1, <1>3
    <2>2. m <= ReadTo /\ \A k \in m..ReadTo : file[k].type # "corrupt" => k \in batch
      BY <2>1 DEF LedgerInv, BatchIsTail
    <2> QED BY <1>1, <1>3, <2>1, <2>2
  <1>5. RowsCurrent'
    <2> SUFFICES ASSUME NEW p \in Points \ (apart' \cup PointsOf(batch)')
                 PROVE  rows'[p] = LastValue(p, ReadTo)
      <3>1. \A p \in Points : LastValue(p, ReadTo)' = LastValue(p, ReadTo)
        BY <1>2, <1>3 DEF LastValue
      <3> QED BY <3>1 DEF RowsCurrent
    <2>1. \A k \in batch \ {i} : ~About(p, k)
      BY <1>1, <1>2 DEF PointsOf, About
    <2>2. CASE About(p, i)
      <3>1. rows' = [rows EXCEPT ![p] = file[i].value]
        BY <1>1, <2>2 DEF About, Upsert
      <3>2. \A k \in i + 1..ReadTo : ~About(p, k)
        <4> SUFFICES ASSUME NEW k \in i + 1..ReadTo, About(p, k) PROVE FALSE
          OBVIOUS
        <4>1. k \in i..ReadTo /\ k # i
          BY <1>3
        <4>2. file[k].type # "corrupt"
          BY DEF About
        <4>3. k \in batch
          BY <1>1, <4>1, <4>2 DEF LedgerInv, BatchIsTail
        <4> QED BY <2>1, <4>1, <4>3
      <3>3. i \in 1..ReadTo /\ ReadTo \in Nat
        BY <1>1, <1>3 DEF LedgerInv, BatchIsTail
      <3>4. LastValue(p, ReadTo) = file[i].value
        BY <2>2, <3>2, <3>3, LastIsLast
      <3> QED BY <1>3, <3>1, <3>4
    <2>3. CASE ~About(p, i)
      <3>1. p \notin PointsOf(batch)
        BY <2>1, <2>3 DEF PointsOf, About
      <3>2. p \notin apart /\ rows'[p] = rows[p]
        BY <1>1, <1>3, <2>3 DEF About, Upsert, ledger
      <3> QED BY <3>1, <3>2 DEF LedgerInv, RowsCurrent
    <2> QED BY <2>2, <2>3
  <1> QED BY <1>4, <1>5 DEF LedgerInv

\* A batch that is dropped leaves its points apart.
LEMMA LedgerDrops ==
    ASSUME IngestTypeOK, LedgerInv, batch' = {}, apart' = apart \cup PointsOf(batch),
           UNCHANGED <<file, offset, rows>>
    PROVE  LedgerInv'
  <1>1. ReadTo' = ReadTo /\ \A p \in Points : LastValue(p, ReadTo)' = LastValue(p, ReadTo)
    BY DEF ReadTo, LastValue
  <1>2. RowsCurrent'
    BY <1>1 DEF LedgerInv, RowsCurrent
  <1> QED BY <1>2 DEF LedgerInv, BatchIsTail

LEMMA LedgerStep ==
    ASSUME IngestTypeOK, LedgerInv, [IngestNext]_ingestVars
    PROVE  LedgerInv'
  <1>1. ASSUME (\E j \in Jobs : LedgerFails(j)) \/ DaemonDies PROVE LedgerInv'
    BY <1>1, LedgerDrops DEF LedgerFails, DaemonDies, runDir, jobRows
  <1>2. CASE ScanClears \/ DeleteRun
    <2>1. UNCHANGED <<offset, batch>> /\ apart' = Points
      BY <1>2 DEF ScanClears, DeleteRun, jobRows
    <2> QED BY <2>1, LedgerKept
  <1>3. ASSUME NEW p \in Points, ScanInserts(p) PROVE LedgerInv'
    <2>1. /\ UNCHANGED <<offset, batch>>
          /\ rows' = [rows EXCEPT ![ScanId[p]] = entered[p]]
          /\ apart' = apart \cup ({ScanId[p]} \cap Points)
      BY <1>3 DEF ScanInserts, Upsert, jobRows
    <2>2. ASSUME NEW q \in Points \ apart' PROVE q \notin apart /\ rows'[q] = rows[q]
      BY <2>1, IngestAssumption DEF IngestTypeOK
    <2> QED BY <2>1, <2>2, LedgerKept
  <1>4. CASE UNCHANGED <<rows, apart, batch, offset>>
    BY <1>4, LedgerKept
  <1> QED BY <1>1, <1>2, <1>3, <1>4, LedgerMoves, LedgerIngests, LedgerApplies

LEMMA LedgerStart == Init => LedgerInv
  <1> SUFFICES ASSUME Init PROVE LedgerInv
    OBVIOUS
  <1>1. IngestTypeOK /\ file = <<>> /\ batch = {} /\ rows = NoRows
    BY StartTyped DEF Init, TypeInv
  <1>2. ReadTo = 0
    BY <1>1, ReadToIs
  <1>3. \A p \in Points : LastValue(p, ReadTo) = NoValue
    BY <1>2 DEF LastValue
  <1> QED BY <1>1, <1>3, IngestAssumption DEF LedgerInv, RowsCurrent, BatchIsTail, NoRows, NoValue

\* The rows that the live events of the points go to are those of the lines read:
\* whichever job of the directory read them, in however many batches, and whatever
\* identities a scan gives its entries, whenever a request comes between two
\* statements of another writer: a row that no ledger error, death, scan or deletion
\* took away holds what the last line about its point says.
THEOREM LedgerKeepsUp == IngestSpec => []LedgerCurrent
  <1>1. TypeInv /\ LedgerInv /\ [IngestNext]_ingestVars => TypeInv' /\ LedgerInv'
    BY TypeInvStep, LedgerStep DEF TypeInv
  <1>2. IngestSpec => [](TypeInv /\ LedgerInv)
    BY <1>1, StartTyped, LedgerStart, PTL DEF IngestSpec
  <1>3. TypeInv /\ LedgerInv => LedgerCurrent
    BY DEF LedgerInv, RowsCurrent, LedgerCurrent, PointsOf
  <1> QED BY <1>2, <1>3, PTL

-----------------------------------------------------------------------------
(* What the count counts.  While no line was lost, a run's points are in   *)
(* the file once each, and a start stands between the points of two runs.  *)

NoCorrupt == \A i \in DOMAIN file : file[i].type # "corrupt"
Once == \A p \in Points : \A i, k \in DOMAIN file :
           i < k /\ About(p, i) /\ About(p, k) => \E m \in i..k : file[m].type = "started"
Entered == \A p \in Points : \A i \in DOMAIN file :
              About(p, i) => p \in GoneOver \/ \E m \in i..Len(file) : file[m].type = "started"
Clean == ~torn /\ NoCorrupt /\ Once /\ Entered
Counts(q, n) == IsFiniteSet(PointsRead(n)) /\ q.done = Cardinality(PointsRead(n))
Counted == \A j \in Jobs : Counts(progress[j], offset[j])
CountInv == ~lossy => Clean /\ Counted

LEMMA LastStartIs ==
    ASSUME NEW n \in Nat
    PROVE  LastStart(n) \in 0..n /\ \A k \in LastStart(n) + 1..n : file[k].type # "started"
  <1> DEFINE starting == {i \in 1..n : file[i].type = "started"}
  <1>1. starting \in SUBSET (0..n) /\ starting \subseteq 1..n
        /\ \A k \in 1..n : file[k].type = "started" => k \in starting
    OBVIOUS
  <1>2. LastStart(n) = IF starting = {} THEN 0 ELSE Max(starting)
    BY DEF LastStart
  <1> HIDE DEF starting
  <1>3. CASE starting = {}
    BY <1>1, <1>2, <1>3
  <1>4. CASE starting # {}
    <2>1. Max(starting) \in starting /\ \A x \in starting : x <= Max(starting)
      BY <1>1, <1>4, MaxOf
    <2>2. PICK m \in 1..n : m = Max(starting)
      BY <1>1, <2>1
    <2>3. \A k \in m + 1..n : file[k].type # "started"
      BY <1>1, <2>1, <2>2
    <2> QED BY <1>2, <1>4, <2>2, <2>3
  <1> QED BY <1>3, <1>4

LEMMA LastStartMoves ==
    ASSUME NEW n \in Nat \ {0}
    PROVE  /\ file[n].type = "started" => LastStart(n) = n
           /\ file[n].type # "started" => LastStart(n) = LastStart(n - 1)
  <1>1. ASSUME file[n].type = "started" PROVE LastStart(n) = n
    <2>1. LastStart(n) \in 0..n /\ \A k \in LastStart(n) + 1..n : file[k].type # "started"
      BY LastStartIs
    <2> QED BY <1>1, <2>1
  <1>2. ASSUME file[n].type # "started" PROVE LastStart(n) = LastStart(n - 1)
    <2>1. {i \in 1..n : file[i].type = "started"} = {i \in 1..n - 1 : file[i].type = "started"}
      BY <1>2
    <2> QED BY <2>1 DEF LastStart
  <1> QED BY <1>1, <1>2

\* From one line to the next, the points of the run change as the count does.
LEMMA PointsReadMoves ==
    ASSUME IngestTypeOK, Once, NEW n \in 1..Len(file)
    PROVE  /\ file[n].type = "started" => PointsRead(n) = {}
           /\ file[n].type = "point" => /\ PointsRead(n) = PointsRead(n - 1) \cup {file[n].point}
                                        /\ file[n].point \notin PointsRead(n - 1)
           /\ file[n].type \notin {"started", "point"} => PointsRead(n) = PointsRead(n - 1)
  <1>0. Len(file) \in Nat /\ n \in Nat \ {0} /\ n - 1 \in Nat /\ DOMAIN file = 1..Len(file)
    BY DEF IngestTypeOK
  <1>1. ASSUME file[n].type = "started" PROVE PointsRead(n) = {}
    BY <1>0, <1>1, LastStartMoves DEF PointsRead, PointsOf
  <1>2. ASSUME file[n].type # "started"
        PROVE  PointsRead(n) = PointsOf(LastStart(n - 1) + 1..n)
    BY <1>0, <1>2, LastStartMoves DEF PointsRead
  <1>3. LastStart(n - 1) \in 0..n - 1
        /\ \A k \in LastStart(n - 1) + 1..n - 1 : file[k].type # "started"
    BY <1>0, LastStartIs
  <1> DEFINE before == LastStart(n - 1) + 1..n - 1
  <1>4. LastStart(n - 1) + 1..n = before \cup {n}
    BY <1>0, <1>3
  <1>5. PointsRead(n - 1) = PointsOf(before)
    BY DEF PointsRead
  <1>6. ASSUME file[n].type = "point"
        PROVE  /\ PointsRead(n) = PointsRead(n - 1) \cup {file[n].point}
               /\ file[n].point \notin PointsRead(n - 1)
    <2>1. PointsRead(n) = PointsOf(before \cup {n})
      BY <1>2, <1>4, <1>6
    <2>2. PointsOf(before \cup {n}) = PointsOf(before) \cup {file[n].point}
      BY <1>6 DEF PointsOf
    <2>3. ASSUME NEW i \in before, About(file[n].point, i) PROVE FALSE
      <3>1. file[n] \in Lines
        BY <1>0 DEF IngestTypeOK
      <3>2. file[n].point \in Points /\ About(file[n].point, n)
        BY <1>6, <3>1, LineFacts DEF About
      <3>3. i \in DOMAIN file /\ n \in DOMAIN file /\ i < n
        BY <1>0, <1>3
      <3>4. PICK m \in i..n : file[m].type = "started"
        BY <2>3, <3>2, <3>3 DEF Once
      <3>5. m # n
        BY <1>6, <3>4
      <3>6. m \in before
        BY <1>0, <1>3, <3>3, <3>5
      <3> QED BY <1>3, <3>4, <3>6
    <2> HIDE DEF before
    <2>4. file[n].point \notin PointsOf(before)
      BY <2>3 DEF PointsOf, About
    <2> QED BY <1>5, <2>1, <2>2, <2>4
  <1>7. ASSUME file[n].type \notin {"started", "point"} PROVE PointsRead(n) = PointsRead(n - 1)
    <2>1. PointsRead(n) = PointsOf(before \cup {n})
      BY <1>2, <1>4, <1>7
    <2>2. PointsOf(before \cup {n}) = PointsOf(before)
      BY <1>7 DEF PointsOf
    <2> QED BY <1>5, <2>1, <2>2
  <1> QED BY <1>1, <1>6, <1>7

LEMMA FoldedCounts ==
    ASSUME IngestTypeOK, NoCorrupt, Once, NEW j \in Jobs, Counts(progress[j], offset[j])
    PROVE  Counts(Folded(progress[j], offset[j] + 1, Len(file)), Len(file))
  <1>0. PICK first \in Nat \ {0} : first = offset[j] + 1 /\ first - 1 <= Len(file)
    <2>1. offset[j] \in 0..Len(file)
      BY DEF IngestTypeOK
    <2> QED BY <2>1
  <1>00. Len(file) \in Nat /\ progress[j] \in Progresses /\ offset[j] \in Nat
         /\ DOMAIN file = 1..Len(file)
    BY DEF IngestTypeOK, Progresses
  <1>1. PICK after : Folds(after, progress[j], first, Len(file))
    BY <1>0, <1>00, FoldSteps
  <1> DEFINE
        Q(d) == first - 1 + d <= Len(file) =>
                   /\ after[first - 1 + d] \in Progresses
                   /\ Counts(after[first - 1 + d], first - 1 + d)
        T == {d \in Nat : Q(d)}
  <1>2. 0 \in T
    <2>1. first - 1 + 0 = offset[j] /\ first - 1 = offset[j]
      BY <1>0, <1>00
    <2>2. after[offset[j]] = progress[j]
      BY <1>1, <2>1 DEF Folds
    <2> QED BY <1>00, <2>1, <2>2
  <1>3. ASSUME NEW d \in T PROVE d + 1 \in T
    <2> SUFFICES ASSUME first + d <= Len(file)
                 PROVE  after[first + d] \in Progresses /\ Counts(after[first + d], first + d)
      OBVIOUS
    <2> DEFINE n == first + d
    <2>1. after[n - 1] \in Progresses /\ Counts(after[n - 1], n - 1)
      OBVIOUS
    <2>2. after[n] = OnLine(after[n - 1], n)
      BY <1>1 DEF Folds
    <2>3. n \in 1..Len(file) /\ file[n] \in Lines
      BY DEF IngestTypeOK
    <2> HIDE DEF n, Q, T
    <2>4. file[n].type # "corrupt" /\ file[n] # Corrupt
      BY <1>00, <2>3, LineFacts DEF NoCorrupt
    <2>5. /\ after[n] \in Progresses
          /\ after[n].done = IF file[n].type = "started" THEN 0
                             ELSE IF file[n].type = "point" THEN after[n - 1].done + 1
                             ELSE after[n - 1].done
      BY <2>1, <2>2, <2>3, <2>4, EventEffects DEF OnLine
    <2>6. CASE file[n].type = "started"
      BY <2>3, <2>5, <2>6, PointsReadMoves, FS_EmptySet DEF n, Counts
    <2>7. CASE file[n].type = "point"
      <3>1. /\ PointsRead(n) = PointsRead(n - 1) \cup {file[n].point}
            /\ file[n].point \notin PointsRead(n - 1)
        BY <2>3, <2>7, PointsReadMoves
      <3>2. /\ IsFiniteSet(PointsRead(n))
            /\ Cardinality(PointsRead(n)) = Cardinality(PointsRead(n - 1)) + 1
        <4>1. IsFiniteSet(PointsRead(n - 1))
          BY <2>1 DEF Counts
        <4>2. \A S, x : IsFiniteSet(S) /\ x \notin S =>
                 IsFiniteSet(S \cup {x}) /\ Cardinality(S \cup {x}) = Cardinality(S) + 1
          BY FS_AddElement
        <4>3. /\ IsFiniteSet(PointsRead(n - 1) \cup {file[n].point})
              /\ Cardinality(PointsRead(n - 1) \cup {file[n].point})
                   = Cardinality(PointsRead(n - 1)) + 1
          BY <3>1, <4>1, <4>2
        <4> QED BY <3>1, <4>3
      <3> QED BY <2>1, <2>5, <2>7, <3>2 DEF n, Counts
    <2>8. CASE file[n].type \notin {"started", "point"}
      BY <2>1, <2>3, <2>5, <2>8, PointsReadMoves DEF n, Counts
    <2> QED BY <2>6, <2>7, <2>8
  <1>4. T = Nat
    BY <1>2, <1>3, NatInductive
  <1>5. Q(Len(file) - (first - 1))
    <2>1. Len(file) - (first - 1) \in Nat /\ \A d \in T : Q(d)
      BY <1>0, <1>00
    <2> HIDE DEF Q, T
    <2> QED BY <1>4, <2>1
  <1>6. Folded(progress[j], offset[j] + 1, Len(file)) = after[Len(file)]
    BY <1>0, <1>1 DEF Folds
  <1>7. first - 1 + (Len(file) - (first - 1)) = Len(file)
    BY <1>0, <1>00
  <1> QED BY <1>00, <1>5, <1>6, <1>7

\* Where nothing was lost before and nothing is now, a line is written whole.
LEMMA WritesWhole ==
    ASSUME IngestTypeOK, ~torn, ~lossy', NEW e, Emit(e)
    PROVE  /\ ~torn' /\ Len(file') = Len(file) + 1 /\ file'[Len(file) + 1] = e
           /\ \A i \in 1..Len(file) : file'[i] = file[i]
           /\ DOMAIN file = 1..Len(file) /\ DOMAIN file' = 1..Len(file) + 1
           /\ Len(file) \in Nat
  <1>1. file' = Append(file, e)
    BY DEF Emit
  <1>2. ~torn'
    BY DEF Emit
  <1>3. file \in Seq(Lines)
    BY DEF IngestTypeOK
  <1> QED BY <1>1, <1>2, <1>3

\* Losing a line is not forgotten.
LEMMA LossyStays ==
    ASSUME [IngestNext]_ingestVars
    PROVE  lossy => lossy'
  BY DEF IngestNext, PollStep, Reports, RetryFails, DriverEnds, DriverDies, Starts,
         Settles, Cancels, Expires, Extends, PollBegins, PollEnds, Ingests, NothingNew,
         AppliesOne, Announces, LedgerFails, PollRaises, Request, ScanReads, ScanClears,
         ScanInserts, RemovesFiles, DeleteRun, DaemonDies, DaemonStarts, Emit,
         ingestVars, budget

LEMMA CleanMoves ==
    ASSUME [IngestNext]_ingestVars
    PROVE  \/ \E p \in Points : Reports(p) \/ RetryFails(p)
           \/ DriverEnds
           \/ \E j \in Jobs : Starts(j)
           \/ UNCHANGED <<file, torn, entries>>
  BY DEF IngestNext, PollStep, DriverDies, Settles, Cancels, Expires, Extends,
         PollBegins, PollEnds, Ingests, NothingNew, AppliesOne, Announces, LedgerFails,
         PollRaises, Request, ScanReads, ScanClears, ScanInserts, RemovesFiles,
         DeleteRun, DaemonDies, DaemonStarts, ingestVars, runDir, sweepDir

\* A line whose point was not gone over in this run, or that has none.
LEMMA CleanWrite ==
    ASSUME IngestTypeOK, Clean, ~lossy', NEW e, Emit(e), e.type # "corrupt",
           e.type = "point" => e.point \notin GoneOver /\ e.point \in GoneOver',
           e.type = "started" \/ GoneOver \subseteq GoneOver'
    PROVE  Clean'
  <1>1. /\ ~torn' /\ Len(file') = Len(file) + 1 /\ file'[Len(file) + 1] = e
        /\ \A i \in 1..Len(file) : file'[i] = file[i]
        /\ DOMAIN file = 1..Len(file) /\ DOMAIN file' = 1..Len(file) + 1
        /\ Len(file) \in Nat
    BY WritesWhole DEF Clean
  <1> DEFINE n == Len(file) + 1
  <1>2. NoCorrupt'
    BY <1>1 DEF Clean, NoCorrupt
  <1>3. \A i \in 1..Len(file) : \A p \in Points : About(p, i)' <=> About(p, i)
    BY <1>1 DEF About
  <1>4. Once'
    <2> SUFFICES ASSUME NEW p \in Points, NEW i \in DOMAIN file', NEW k \in DOMAIN file',
                        i < k, About(p, i)', About(p, k)'
                 PROVE  \E m \in i..k : file'[m].type = "started"
      BY DEF Once
    <2>1. CASE k # n
      <3>1. i \in 1..Len(file) /\ k \in 1..Len(file)
        BY <1>1, <2>1
      <3>2. PICK m \in i..k : file[m].type = "started"
        BY <1>1, <1>3, <3>1 DEF Clean, Once
      <3> QED BY <1>1, <3>1, <3>2
    <2>2. CASE k = n
      <3>1. i \in 1..Len(file) /\ About(p, i)
        BY <1>1, <1>3, <2>2
      <3>2. p \notin GoneOver
        BY <1>1, <2>2 DEF About
      <3>3. PICK m \in i..Len(file) : file[m].type = "started"
        BY <1>1, <3>1, <3>2 DEF Clean, Entered
      <3> QED BY <1>1, <2>2, <3>1, <3>3
    <2> QED BY <2>1, <2>2
  <1>5. Entered'
    <2> SUFFICES ASSUME NEW p \in Points, NEW i \in DOMAIN file', About(p, i)',
                        p \notin GoneOver'
                 PROVE  \E m \in i..Len(file') : file'[m].type = "started"
      BY DEF Entered
    <2>1. CASE e.type = "started"
      BY <1>1, <2>1
    <2>2. CASE e.type # "started"
      <3>1. i \in 1..Len(file) /\ About(p, i) /\ p \notin GoneOver
        BY <1>1, <1>3, <2>2 DEF About
      <3>2. PICK m \in i..Len(file) : file[m].type = "started"
        BY <1>1, <3>1 DEF Clean, Entered
      <3> QED BY <1>1, <3>1, <3>2
    <2> QED BY <2>1, <2>2
  <1> QED BY <1>1, <1>2, <1>4, <1>5 DEF Clean

LEMMA CleanStep ==
    ASSUME IngestTypeOK, Clean, ~lossy', [IngestNext]_ingestVars
    PROVE  Clean'
  <1>1. ASSUME NEW p \in Points, Reports(p) PROVE Clean'
    <2>1. PICK v : Emit(Point(driver, p, v))
      BY <1>1 DEF Reports
    <2>2. p \notin GoneOver /\ p \in GoneOver' /\ GoneOver \subseteq GoneOver'
      BY <1>1 DEF Reports, GoneOver, IngestTypeOK
    <2>3. Point(driver, p, v).type = "point" /\ Point(driver, p, v).point = p
      BY EventKinds
    <2> QED BY <2>1, <2>2, <2>3, CleanWrite
  <1>1a. ASSUME NEW p \in Points, RetryFails(p) PROVE Clean'
    <2>1. Emit(RetryFailed(driver)) /\ GoneOver \subseteq GoneOver'
      BY <1>1a DEF RetryFails, GoneOver, IngestTypeOK
    <2>2. RetryFailed(driver).type = "retry_failed"
      BY EventKinds
    <2> QED BY <2>1, <2>2, CleanWrite
  <1>2. CASE DriverEnds
    <2>1. Emit(Finished(driver)) /\ GoneOver' = GoneOver
      BY <1>2 DEF DriverEnds, GoneOver
    <2>2. Finished(driver).type = "finished"
      BY EventKinds
    <2> QED BY <2>1, <2>2, CleanWrite
  <1>3. ASSUME NEW j \in Jobs, Starts(j) PROVE Clean'
    <2>1. Emit(Started(j)) /\ Started(j).type = "started"
      BY <1>3, EventKinds DEF Starts
    <2> QED BY <2>1, CleanWrite
  <1>4. CASE UNCHANGED <<file, torn, entries>>
    BY <1>4 DEF Clean, NoCorrupt, Once, Entered, About, GoneOver
  <1> QED BY <1>1, <1>1a, <1>2, <1>3, <1>4, CleanMoves

LEMMA PointsReadKept ==
    ASSUME IngestTypeOK, [IngestNext]_ingestVars, NEW n \in 0..Len(file)
    PROVE  PointsRead(n)' = PointsRead(n)
  <1>1. Len(file) \in Nat /\ n \in Nat
    BY DEF IngestTypeOK
  <1>2. \A i \in 1..n : file'[i] = file[i]
    BY <1>1, FileKeeps
  <1>3. {i \in 1..n : file[i].type = "started"}' = {i \in 1..n : file[i].type = "started"}
    BY <1>2
  <1>4. LastStart(n)' = LastStart(n)
    BY <1>3 DEF LastStart
  <1>5. LastStart(n) + 1..n \subseteq 1..n
    BY <1>1, LastStartIs
  <1> QED BY <1>2, <1>4, <1>5 DEF PointsRead, PointsOf

LEMMA CountedStep ==
    ASSUME IngestTypeOK, Clean, Counted, [IngestNext]_ingestVars
    PROVE  Counted'
  <1>0. /\ Len(file) \in Nat /\ offset \in [Jobs -> 0..Len(file)] /\ DOMAIN progress = Jobs
    BY DEF IngestTypeOK
  <1>1. ASSUME UNCHANGED <<offset, progress>>, NEW j \in Jobs
        PROVE  Counts(progress[j], offset[j])'
    <2>1. PICK n \in 0..Len(file) : n = offset[j]
      BY <1>0
    <2>2. PointsRead(n)' = PointsRead(n)
      BY PointsReadKept
    <2>3. PointsRead(offset[j])' = PointsRead(n)'
      BY <1>1, <2>1
    <2> QED BY <1>1, <2>1, <2>2, <2>3 DEF Counted, Counts
  <1>2. ASSUME NEW k \in Jobs, Ingests(k), NEW j \in Jobs
        PROVE  Counts(progress[j], offset[j])'
    <2>1. /\ offset' = [offset EXCEPT ![k] = Len(file)]
          /\ progress' = [progress EXCEPT ![k] = Folded(@, offset[k] + 1, Len(file))]
      BY <1>2 DEF Ingests, Stores
    <2>2. PICK n \in 0..Len(file) : n = offset'[j]
      BY <1>0, <2>1
    <2>3. PointsRead(n)' = PointsRead(n)
      BY PointsReadKept
    <2>4. PointsRead(offset[j])' = PointsRead(n)'
      BY <2>2
    <2>5. Counts(progress'[j], n)
      <3>1. CASE j = k
        <4>1. Counts(Folded(progress[k], offset[k] + 1, Len(file)), Len(file))
          BY FoldedCounts DEF Clean, Counted
        <4>2. n = Len(file) /\ progress'[j] = Folded(progress[k], offset[k] + 1, Len(file))
          BY <1>0, <2>1, <2>2, <3>1
        <4> QED BY <4>1, <4>2
      <3>2. CASE j # k
        <4>1. n = offset[j] /\ progress'[j] = progress[j]
          BY <1>0, <2>1, <2>2, <3>2
        <4> QED BY <4>1 DEF Counted
      <3> QED BY <3>1, <3>2
    <2> QED BY <2>3, <2>4, <2>5 DEF Counts
  <1> QED BY <1>1, <1>2, ReadMoves DEF Counted

LEMMA CountStart == Init => CountInv
  <1> SUFFICES ASSUME Init PROVE CountInv
    OBVIOUS
  <1>1. Clean
    BY DEF Init, Clean, NoCorrupt, Once, Entered
  <1>2. PointsRead(0) = {}
    <2>1. LastStart(0) \in 0..0
      BY LastStartIs
    <2> QED BY <2>1 DEF PointsRead, PointsOf
  <1>3. Counted
    BY <1>2, FS_EmptySet DEF Init, Counted, Counts, NewProgress
  <1> QED BY <1>1, <1>3 DEF CountInv

\* A job's count is that of the points of the last run it read: while no line
\* was lost, no attempt, no second job in the file and no restart of the daemon
\* makes the count miss a point, or hold one twice, or one of an earlier run.
THEOREM CountsLastRun == IngestSpec => []ProgressIsLastRun
  <1>1. TypeInv /\ CountInv /\ [IngestNext]_ingestVars => TypeInv' /\ CountInv'
    BY TypeInvStep, LossyStays, CleanStep, CountedStep DEF TypeInv, CountInv
  <1>2. IngestSpec => [](TypeInv /\ CountInv)
    BY <1>1, StartTyped, CountStart, PTL DEF IngestSpec
  <1>3. CountInv => ProgressIsLastRun
    BY DEF CountInv, Counted, Counts, ProgressIsLastRun
  <1> QED BY <1>2, <1>3, PTL
=============================================================================
