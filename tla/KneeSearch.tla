----------------------------- MODULE KneeSearch -----------------------------
(***************************************************************************)
(* The search for a protocol's knee (run/rates.py, search): offer more     *)
(* load until a point saturates, or less until one does not, then sample   *)
(* the bracket between the last healthy and the first saturated rate in    *)
(* passes, each of which brackets the knee anew.                           *)
(*                                                                         *)
(* The search is a process that waits in measure() for the rate it asked   *)
(* about; what the measurement says is the environment's choice, one of    *)
(* Answers.  Rates are whole numbers: a start whose halves are not whole   *)
(* is outside the model.                                                   *)
(***************************************************************************)
EXTENDS Integers, Sequences

CONSTANTS
    StartRate, MinRate, MaxRate,   \* spec.search.start, min_rate, max_rate
    MaxStep,                       \* max_step of the climb
    RefineSteps,                   \* refine_steps of a pass
    MaxPasses,                     \* max_refine_passes, or Unlimited for None
    Tolerance,                     \* knee_tolerance, in hundredths
    Resolution                     \* min_resolution

Unlimited == -1
NoRate == 0

ASSUME SearchAssumption ==
    /\ {StartRate, MinRate, MaxRate, MaxStep, Resolution} \subseteq Nat \ {0}
    /\ MinRate <= StartRate /\ StartRate <= MaxRate
    /\ RefineSteps \in Nat \ {0}
    /\ MaxPasses \in Nat \cup {Unlimited}
    /\ Tolerance \in Nat

VARIABLES
    stage,       \* where search() is
    rate,        \* the rate it is asking about
    lastGood,    \* last_good
    firstBad,    \* first_bad
    measured,    \* the keys of `measured`
    noResult,    \* those whose value is None
    healthy,     \* rates with a verdict: not saturated ...
    over,        \* ... and saturated
    passRates,   \* the rates this pass still has to ask about
    passes       \* passes begun

bracket == <<lastGood, firstBad>>
searchVars == <<stage, rate, bracket, measured, noResult, healthy, over,
                passRates, passes>>

Asking == {"starting", "halving", "climbing", "refining"}
Ended == {"abandoned", "settled"}

\* What a point says.  "none": no result.  "dead": it committed nothing.
\* "over": a rule about the point itself says saturated; "worse": so it does,
\* and delivered/offered is no better than at the rate before.  "flat": only
\* the plateau rule would say so, which compares with the rate before.
Answers == {"none", "dead", "over", "worse", "flat", "healthy"}

\* saturated(point, prev_delivered)
Saturated(a, compared) == a \in {"dead", "over", "worse"} \/ (compared /\ a = "flat")

SearchInit ==
    /\ stage = "starting"
    /\ rate = StartRate
    /\ lastGood = NoRate /\ firstBad = NoRate
    /\ measured = {} /\ noResult = {} /\ healthy = {} /\ over = {}
    /\ passRates = <<>>
    /\ passes = 0

-----------------------------------------------------------------------------
(* What every answer leaves behind: visit() remembers the point, and the   *)
(* caller its verdict.                                                     *)

Visited(a) ==
    /\ measured' = measured \cup {rate}
    /\ noResult' = IF a = "none" THEN noResult \cup {rate} ELSE noResult
Judged(a, compared) ==
    IF Saturated(a, compared)
    THEN over' = over \cup {rate} /\ UNCHANGED healthy
    ELSE healthy' = healthy \cup {rate} /\ UNCHANGED over
Unjudged == UNCHANGED <<healthy, over>>

Abandon == stage' = "abandoned" /\ UNCHANGED <<rate, bracket, passRates, passes>>

Lesser(x, y) == IF x <= y THEN x ELSE y
Greater(x, y) == IF x >= y THEN x ELSE y

\* next_climb_rate, and the climb's loop condition.  Mutant: the climb is held at
\* max_rate.
MutClimbFrom(r) ==
    /\ stage' = "climbing"
    /\ rate' = Lesser(MaxRate, r + Lesser(r, MaxStep))
ClimbFrom(r) ==
    LET next == r + Lesser(r, MaxStep) IN
    IF next <= MaxRate
    THEN stage' = "climbing" /\ rate' = next
    ELSE stage' = "abandoned" /\ UNCHANGED rate

-----------------------------------------------------------------------------
(* The start, and the descent from a start that is saturated.              *)

Low == stage \in {"starting", "halving"}
\* Halving made delivered/offered worse: this is not load saturation.
NotLoad(a) == stage = "halving" /\ a = "worse"

LowAbandons(a) ==
    /\ Low
    /\ \/ a \in {"dead", "none"}
       \/ NotLoad(a)
       \/ Saturated(a, FALSE) /\ rate <= MinRate
    /\ Visited(a)
    /\ IF a = "dead" /\ stage = "halving" THEN Unjudged ELSE Judged(a, FALSE)
    /\ Abandon

Halve(a) ==
    /\ Low
    /\ a # "dead" /\ ~NotLoad(a)
    /\ Saturated(a, FALSE) /\ rate > MinRate
    /\ Visited(a) /\ Judged(a, FALSE)
    /\ firstBad' = rate
    /\ rate' = Greater(MinRate, rate \div 2)
    /\ stage' = "halving"
    /\ UNCHANGED <<lastGood, passRates, passes>>

\* A healthy rate: climb from it, or refine if a saturated one is known.
LowServes(a) ==
    /\ Low
    /\ a # "none" /\ ~Saturated(a, FALSE)
    /\ Visited(a) /\ Judged(a, FALSE)
    /\ lastGood' = rate
    /\ IF firstBad = NoRate THEN ClimbFrom(rate)
                            ELSE stage' = "narrowing" /\ UNCHANGED rate
    /\ UNCHANGED <<firstBad, passRates, passes>>

-----------------------------------------------------------------------------
(* The climb.                                                              *)

ClimbSaturates(a) ==
    /\ stage = "climbing"
    /\ Saturated(a, TRUE)
    /\ Visited(a) /\ Judged(a, TRUE)
    /\ firstBad' = rate
    /\ stage' = "narrowing"
    /\ UNCHANGED <<rate, lastGood, passRates, passes>>

\* Without a result the climb goes on and last_good stays; the verdict of
\* such a rate is "not saturated" all the same.
ClimbGoesOn(a) ==
    /\ stage = "climbing"
    /\ ~Saturated(a, TRUE)
    /\ Visited(a) /\ Judged(a, TRUE)
    /\ lastGood' = IF a = "none" THEN lastGood ELSE rate
    /\ ClimbFrom(rate)
    /\ UNCHANGED <<firstBad, passRates, passes>>

-----------------------------------------------------------------------------
(* A refinement pass over the bracket.                                     *)

\* round() of n / d: to the nearest whole number, a tie to the even one.
Rounded(n, d) ==
    LET q == n \div d
        twice == 2 * (n % d)
    IN  IF twice < d \/ (twice = d /\ q % 2 = 0) THEN q ELSE q + 1

\* resolution_at(last_good), in hundredths.
Spacing == Greater(Tolerance * lastGood, 100 * Resolution)
Span == firstBad - lastGood
Steps == Lesser(RefineSteps, (100 * Span) \div Spacing - 1)

\* last_good + step * i, with step = span / (steps + 1).
Rung(i) == Rounded(lastGood * (Steps + 1) + Span * i, Steps + 1)

\* Mutant: a pass does not ask which rates were measured before.
MutUnasked(r) == lastGood < r /\ r < firstBad
Unasked(r) == lastGood < r /\ r < firstBad /\ r \notin measured
\* The rungs of the pass that were not asked about, in their order.
Upper ==
    LET upTo[n \in 0..Steps] ==
            IF n = 0 THEN <<>>
            ELSE IF Unasked(Rung(n)) THEN Append(upTo[n - 1], Rung(n)) ELSE upTo[n - 1]
    IN upTo[Steps]
\* One step under the last healthy rate.
Below == Rung(-1)
PassRates ==
    IF Below > MinRate /\ Below \notin measured THEN <<Below>> \o Upper ELSE Upper

Wide == 100 * Span > Spacing
PassesLeft == MaxPasses = Unlimited \/ passes < MaxPasses

\* The loop ends: narrow enough, out of passes, or no finer question to ask.
Settle ==
    /\ stage = "narrowing"
    /\ \/ ~Wide
       \/ ~PassesLeft
       \/ Steps < 1
       \/ Steps >= 1 /\ Upper = <<>>
    /\ stage' = "settled"
    /\ UNCHANGED <<rate, bracket, measured, noResult, healthy, over, passRates,
                   passes>>

BeginPass ==
    /\ stage = "narrowing"
    /\ Wide /\ PassesLeft /\ Steps >= 1
    /\ Upper # <<>>
    /\ passes' = passes + 1
    /\ rate' = Head(PassRates)
    /\ passRates' = Tail(PassRates)
    /\ stage' = "refining"
    /\ UNCHANGED <<bracket, measured, noResult, healthy, over>>

NextOfPass ==
    IF passRates = <<>>
    THEN stage' = "rebracketing" /\ UNCHANGED <<rate, passRates>>
    ELSE /\ rate' = Head(passRates)
         /\ passRates' = Tail(passRates)
         /\ UNCHANGED stage

\* Going up, a rate that commits nothing ends the search.
RefineStops(a) ==
    /\ stage = "refining"
    /\ a = "dead" /\ rate >= lastGood
    /\ Visited(a) /\ Unjudged
    /\ Abandon

\* No result, or nothing committed below a rate that served: no evidence.
RefineLearnsNothing(a) ==
    /\ stage = "refining"
    /\ a = "none" \/ (a = "dead" /\ rate < lastGood)
    /\ Visited(a) /\ Unjudged
    /\ NextOfPass
    /\ UNCHANGED <<bracket, passes>>

RefineJudges(a) ==
    /\ stage = "refining"
    /\ a \notin {"none", "dead"}
    /\ Visited(a) /\ Judged(a, FALSE)
    /\ NextOfPass
    /\ UNCHANGED <<bracket, passes>>

-----------------------------------------------------------------------------
(* Brackets anew off every verdict: the lowest saturated rate and the      *)
(* highest healthy one under it.                                           *)

IsFirstBad(bad) == bad \in over /\ \A r \in over : bad <= r
GoodBelow(bad) == {r \in healthy : r < bad}

\* Mutant: the ends of the bracket move independently of each other, as in the
\* version the code's comment remembers.
MutRebracket ==
    /\ stage = "rebracketing"
    /\ \E bad \in over : \A r \in over : bad <= r /\ firstBad' = bad
    /\ \E good \in healthy : \A r \in healthy : r <= good /\ lastGood' = good
    /\ stage' = "narrowing"
    /\ UNCHANGED <<rate, measured, noResult, healthy, over, passRates, passes>>

Rebracket ==
    /\ stage = "rebracketing"
    /\ \E bad \in over :
          /\ IsFirstBad(bad)
          /\ firstBad' = bad
          /\ IF GoodBelow(bad) = {}
             THEN stage' = "abandoned" /\ UNCHANGED lastGood
             ELSE /\ \E good \in GoodBelow(bad) :
                        /\ \A r \in GoodBelow(bad) : r <= good
                        /\ lastGood' = good
                  /\ stage' = "narrowing"
    /\ UNCHANGED <<rate, measured, noResult, healthy, over, passRates, passes>>

-----------------------------------------------------------------------------

\* measure(rate) returned a.
Answer(a) ==
    \/ LowAbandons(a) \/ Halve(a) \/ LowServes(a)
    \/ ClimbSaturates(a) \/ ClimbGoesOn(a)
    \/ RefineStops(a) \/ RefineLearnsNothing(a) \/ RefineJudges(a)

\* What search() does between two measurements.
Decide == Settle \/ BeginPass \/ Rebracket

SearchNext == Decide \/ \E a \in Answers : Answer(a)
SearchSpec == SearchInit /\ [][SearchNext]_searchVars

-----------------------------------------------------------------------------
(* Properties.                                                             *)

Rates == Nat \ {0}
SearchTypeOK ==
    /\ stage \in Asking \cup {"narrowing", "rebracketing"} \cup Ended
    /\ rate \in Rates
    /\ lastGood \in Nat /\ firstBad \in Nat
    /\ measured \subseteq Rates /\ noResult \subseteq measured
    /\ healthy \subseteq measured /\ over \subseteq measured
    /\ passRates \in Seq(Rates)
    /\ passes \in Nat

Bracketed == stage \in {"narrowing", "refining", "rebracketing", "settled"}

\* However the answers contradict each other, the bracket is well formed: it
\* ends in a rate judged saturated, begins in one judged healthy under it, and
\* whenever it is used no saturated rate is known under it (rates.py, the
\* comment on re-bracketing).
BracketWellFormed ==
    Bracketed =>
        /\ lastGood \in healthy /\ firstBad \in over
        /\ lastGood < firstBad
        /\ stage \in {"narrowing", "settled"} => \A r \in over : firstBad <= r

\* A rate is asked about at most once: no pass comes back to a rate some
\* earlier step measured, and the cache of visit() is never needed.
NothingAskedTwice == stage \in Asking => rate \notin measured
=============================================================================
