---------------------------- MODULE SweepProofs ----------------------------
(***************************************************************************)
(* For every grid, all limits of the search and any history of drivers:    *)
(* the bracket of the knee search is well formed, no rate is asked about   *)
(* twice (the rungs of a pass lie a whole number apart, so they rise, and  *)
(* what rises is met once), a point that is done is lost only to a retry,  *)
(* the files and the driver hold points of the sweep, a resumed search     *)
(* asks what the killed ones asked (it is a function of the answers, and   *)
(* the summaries on disk are the answers), and the results catch up with   *)
(* the summaries.                                                          *)
(***************************************************************************)
EXTENDS SweepEngine, NatLemmas, SequenceTheorems, TLAPS

\* The bracket, and what leads up to it: the descent keeps the lowest saturated
\* rate above the one it asks about, the climb has met none.
Descending ==
    /\ rate \in Rates /\ over \subseteq Rates
    /\ firstBad \in over /\ rate < firstBad
    /\ \A r \in over : firstBad <= r
Climbing ==
    /\ rate \in Rates /\ over = {}
    /\ lastGood \in healthy \cap Rates /\ lastGood < rate
BracketInv ==
    /\ stage = "starting" => rate \in Rates /\ over = {} /\ firstBad = NoRate
    /\ stage = "halving" => Descending
    /\ stage = "climbing" => Climbing
    /\ BracketWellFormed

LEMMA LimitsTyped ==
    /\ {StartRate, MinRate, MaxRate, MaxStep, Resolution} \subseteq Nat \ {0}
  BY SearchAssumption

LEMMA AnewBracketed == SearchAnew => BracketInv'
  BY LimitsTyped DEF SearchAnew, BracketInv, BracketWellFormed, Bracketed, Rates, NoRate

LEMMA StartBracketed == SearchInit => BracketInv
  BY LimitsTyped DEF SearchInit, BracketInv, BracketWellFormed, Bracketed, Rates, NoRate

\* A step of the climb goes up.
LEMMA ClimbsUp ==
    ASSUME NEW r \in Rates, ClimbFrom(r), stage' = "climbing"
    PROVE  rate' \in Rates /\ r < rate'
  BY LimitsTyped DEF ClimbFrom, Lesser, Rates

\* The halves of a rate over the minimum are lower.
LEMMA HalvesDown ==
    ASSUME rate \in Rates, rate > MinRate
    PROVE  /\ Greater(MinRate, rate \div 2) \in Rates
           /\ Greater(MinRate, rate \div 2) < rate
  BY LimitsTyped DEF Greater, Rates

LEMMA AbandonBracketed == Abandon => BracketInv'
  BY DEF Abandon, BracketInv, BracketWellFormed, Bracketed

LEMMA HalveBracketed ==
    ASSUME BracketInv, NEW a, Halve(a)
    PROVE  BracketInv'
  <1>1. /\ stage' = "halving" /\ firstBad' = rate
        /\ over' = over \cup {rate}
        /\ rate' = Greater(MinRate, rate \div 2)
    BY DEF Halve, Judged
  <1>2. rate \in Rates /\ over \subseteq Rates /\ \A r \in over : rate <= r
    <2>1. CASE stage = "starting"
      BY <2>1 DEF BracketInv
    <2>2. CASE stage = "halving"
      BY <2>2 DEF BracketInv, Descending, Rates
    <2> QED BY <2>1, <2>2 DEF Halve, Low
  <1>3. rate' \in Rates /\ rate' < rate
    BY <1>1, <1>2, HalvesDown DEF Halve
  <1>4. Descending'
    BY <1>1, <1>2, <1>3 DEF Descending, Rates
  <1> QED BY <1>1, <1>4 DEF BracketInv, BracketWellFormed, Bracketed

LEMMA LowServesBracketed ==
    ASSUME BracketInv, NEW a, LowServes(a)
    PROVE  BracketInv'
  <1>1. /\ lastGood' = rate /\ firstBad' = firstBad
        /\ over' = over /\ healthy' = healthy \cup {rate}
    BY DEF LowServes, Judged
  <1>2. CASE stage = "starting"
    <2>1. rate \in Rates /\ over = {} /\ ClimbFrom(rate)
      BY <1>2 DEF BracketInv, LowServes
    <2>2. CASE stage' = "climbing"
      <3>1. Climbing'
        BY <1>1, <2>1, <2>2, ClimbsUp DEF Climbing
      <3> QED BY <2>2, <3>1 DEF BracketInv, BracketWellFormed, Bracketed
    <2>3. CASE stage' = "abandoned"
      BY <2>3 DEF BracketInv, BracketWellFormed, Bracketed
    <2> QED BY <2>1, <2>2, <2>3 DEF ClimbFrom
  <1>3. CASE stage = "halving"
    <2>1. Descending
      BY <1>3 DEF BracketInv
    <2>2. stage' = "narrowing"
      BY <2>1 DEF LowServes, Descending, Rates, NoRate
    <2>3. BracketWellFormed'
      BY <1>1, <2>1, <2>2 DEF BracketWellFormed, Descending
    <2> QED BY <2>2, <2>3 DEF BracketInv
  <1> QED BY <1>2, <1>3 DEF LowServes, Low

LEMMA ClimbBracketed ==
    ASSUME BracketInv, NEW a, ClimbSaturates(a) \/ ClimbGoesOn(a)
    PROVE  BracketInv'
  <1>1. Climbing
    BY DEF BracketInv, ClimbSaturates, ClimbGoesOn
  <1>2. CASE ClimbSaturates(a)
    <2>1. /\ stage' = "narrowing" /\ firstBad' = rate /\ lastGood' = lastGood
          /\ over' = {rate} /\ healthy' = healthy
      BY <1>1, <1>2 DEF ClimbSaturates, Judged, Climbing
    <2>2. BracketWellFormed'
      BY <1>1, <2>1 DEF BracketWellFormed, Climbing, Rates
    <2> QED BY <2>1, <2>2 DEF BracketInv
  <1>3. CASE ClimbGoesOn(a)
    <2>1. /\ over' = {} /\ healthy' = healthy \cup {rate}
          /\ lastGood' \in {lastGood, rate} /\ ClimbFrom(rate)
      BY <1>1, <1>3 DEF ClimbGoesOn, Judged, Climbing
    <2>2. CASE stage' = "climbing"
      <3>1. rate' \in Rates /\ rate < rate'
        BY <1>1, <2>1, <2>2, ClimbsUp DEF Climbing
      <3>2. Climbing'
        BY <1>1, <2>1, <3>1 DEF Climbing, Rates
      <3> QED BY <2>2, <3>2 DEF BracketInv, BracketWellFormed, Bracketed
    <2>3. CASE stage' = "abandoned"
      BY <2>3 DEF BracketInv, BracketWellFormed, Bracketed
    <2> QED BY <2>1, <2>2, <2>3 DEF ClimbFrom
  <1> QED BY <1>2, <1>3

LEMMA RefineBracketed ==
    ASSUME BracketInv, NEW a, RefineStops(a) \/ RefineLearnsNothing(a) \/ RefineJudges(a)
    PROVE  BracketInv'
  <1>1. CASE RefineStops(a)
    BY <1>1, AbandonBracketed DEF RefineStops
  <1>2. CASE RefineLearnsNothing(a) \/ RefineJudges(a)
    <2>1. /\ stage' \in {"refining", "rebracketing"}
          /\ lastGood' = lastGood /\ firstBad' = firstBad
          /\ healthy \subseteq healthy' /\ over \subseteq over'
      BY <1>2 DEF RefineLearnsNothing, RefineJudges, NextOfPass, Judged, Unjudged, bracket
    <2>2. lastGood \in healthy /\ firstBad \in over /\ lastGood < firstBad
      BY <1>2 DEF BracketInv, BracketWellFormed, Bracketed, RefineLearnsNothing, RefineJudges
    <2> QED BY <2>1, <2>2 DEF BracketInv, BracketWellFormed
  <1> QED BY <1>1, <1>2

LEMMA AnswerBracketed ==
    ASSUME BracketInv, NEW a, Answer(a)
    PROVE  BracketInv'
  <1>1. CASE LowAbandons(a)
    BY <1>1, AbandonBracketed DEF LowAbandons
  <1> QED BY <1>1, HalveBracketed, LowServesBracketed, ClimbBracketed, RefineBracketed
          DEF Answer

LEMMA DecideBracketed ==
    ASSUME BracketInv, Decide
    PROVE  BracketInv'
  <1>1. CASE Settle
    BY <1>1 DEF Settle, BracketInv, BracketWellFormed, Bracketed, bracket
  <1>2. CASE BeginPass
    BY <1>2 DEF BeginPass, BracketInv, BracketWellFormed, Bracketed, bracket
  <1>3. CASE Rebracket
    <2>1. PICK bad \in over :
              /\ IsFirstBad(bad) /\ firstBad' = bad
              /\ IF GoodBelow(bad) = {}
                 THEN stage' = "abandoned" /\ UNCHANGED lastGood
                 ELSE /\ \E good \in GoodBelow(bad) :
                            /\ \A r \in GoodBelow(bad) : r <= good
                            /\ lastGood' = good
                      /\ stage' = "narrowing"
      BY <1>3 DEF Rebracket
    <2>2. over' = over /\ healthy' = healthy
      BY <1>3 DEF Rebracket
    <2>3. CASE GoodBelow(bad) = {}
      BY <2>1, <2>3 DEF BracketInv, BracketWellFormed, Bracketed
    <2>4. CASE GoodBelow(bad) # {}
      <3>1. stage' = "narrowing" /\ lastGood' \in healthy /\ lastGood' < bad
        BY <2>1, <2>4 DEF GoodBelow
      <3>2. BracketWellFormed'
        BY <2>1, <2>2, <3>1 DEF BracketWellFormed, IsFirstBad
      <3> QED BY <3>1, <3>2 DEF BracketInv
    <2> QED BY <2>3, <2>4
  <1> QED BY <1>1, <1>2, <1>3 DEF Decide

\* What a step of the driver does to the search.
SearchStep ==
    \/ UNCHANGED searchVars
    \/ SearchAnew
    \/ Decide
    \/ \E a : Answer(a)

LEMMA ReturnsSearchStep ==
    ASSUME NEW o, Returns(o)
    PROVE  SearchStep
  BY DEF Returns, SearchStep

LEMMA ReuseSearchStep ==
    ASSUME NEW r, Reuse(r) \/ StartPoint(r)
    PROVE  SearchStep
  BY ReturnsSearchStep DEF Reuse, StartPoint, SearchStep

LEMMA ConcludesSearchStep ==
    ASSUME NEW o, Concludes(o)
    PROVE  SearchStep
  BY ReturnsSearchStep DEF Concludes, SearchStep

LEMMA EveryStepSearches ==
    ASSUME SweepNext
    PROVE  SearchStep
  <1>1. CASE Run \/ AddTrials \/ \E p \in Points : RetryPoint(p)
    BY <1>1 DEF Run, AddTrials, RetryPoint, Launch, SearchStep
  <1>2. CASE Deploys \/ AllTrialsDone \/ SkipTrial \/ StartRetry \/ StartReplay \/ EndReplay
    BY <1>2 DEF Deploys, AllTrialsDone, SkipTrial, StartRetry, StartReplay, EndReplay, SearchStep
  <1>3. CASE StartSearch \/ EndSearch
    BY <1>3 DEF StartSearch, EndSearch, SearchStep
  <1>4. CASE Measure
    BY <1>4, ReuseSearchStep DEF Measure
  <1>5. CASE Replay
    BY <1>5, ReuseSearchStep DEF Replay
  <1>6. CASE FailsAttempt \/ SwapOut
    BY <1>6 DEF FailsAttempt, SwapOut, SearchStep
  <1>7. CASE EndsPoint
    BY <1>7, ConcludesSearchStep DEF EndsPoint
  <1>8. CASE SwapIn
    BY <1>8, ConcludesSearchStep DEF SwapIn
  <1>9. CASE Decides
    BY <1>9 DEF Decides, SearchStep
  <1>10. CASE WriteResults \/ Interrupt \/ Kill
    BY <1>10 DEF WriteResults, Interrupt, Kill, Gone, SearchStep
  <1> QED BY <1>1, <1>2, <1>3, <1>4, <1>5, <1>6, <1>7, <1>8, <1>9, <1>10
          DEF SweepNext, DriverStep

LEMMA StepBracketed ==
    ASSUME BracketInv, [SweepNext]_sweepVars
    PROVE  BracketInv'
  <1>1. CASE UNCHANGED searchVars
    BY <1>1 DEF searchVars, bracket, BracketInv, BracketWellFormed, Bracketed, Descending, Climbing
  <1>2. CASE UNCHANGED sweepVars
    BY <1>1, <1>2 DEF sweepVars
  <1>3. CASE SweepNext
    <2>1. SearchStep
      BY <1>3, EveryStepSearches
    <2>2. CASE \E a : Answer(a)
      BY <2>2, AnswerBracketed
    <2> QED BY <1>1, <2>1, <2>2, AnewBracketed, DecideBracketed DEF SearchStep
  <1> QED BY <1>2, <1>3

\* Whatever points measure, drivers die and invocations resume, the bracket the
\* search of rates.py refines ends in a saturated rate, begins in a healthy one
\* under it, and no saturated rate is known under it.
THEOREM BracketsKept == SweepSpec => []BracketWellFormed
  <1>1. SweepInit => BracketInv
    BY StartBracketed DEF SweepInit
  <1>2. BracketInv /\ [SweepNext]_sweepVars => BracketInv'
    BY StepBracketed
  <1>3. BracketInv => BracketWellFormed
    BY DEF BracketInv
  <1> QED BY <1>1, <1>2, <1>3, PTL DEF SweepSpec

-----------------------------------------------------------------------------
(* Division and the rounding of the rates.                                 *)

\* A number is its quotient and its remainder.
LEMMA Divided ==
    ASSUME NEW n \in Int, NEW d \in Nat \ {0},
           NEW q \in Int, n \div d = q, NEW m \in Int, n % d = m
    PROVE  n = d * q + m
  OBVIOUS

LEMMA Division ==
    ASSUME NEW n \in Int, NEW d \in Nat \ {0}
    PROVE  \E q \in Int, m \in 0..d - 1 : n \div d = q /\ n % d = m /\ n = d * q + m
  <1>1. n \div d \in Int /\ n % d \in Int /\ 0 <= n % d /\ n % d < d
    OBVIOUS
  <1>2. PICK q \in Int, m \in 0..d - 1 : n \div d = q /\ n % d = m
    BY <1>1
  <1>3. n = d * q + m
    BY <1>2, Divided
  <1> QED BY <1>2, <1>3

\* A product with a larger factor is larger.
LEMMA Times ==
    ASSUME NEW d \in Nat \ {0}, NEW p \in Int, NEW q \in Int
    PROVE  /\ d * p \in Int
           /\ p < q => d * p + d <= d * q
  OBVIOUS

\* Rounding moves a quotient by at most a half.
LEMMA RoundedNear ==
    ASSUME NEW n \in Int, NEW d \in Nat \ {0}
    PROVE  /\ Rounded(n, d) \in Int
           /\ 2 * n - d <= 2 * (d * Rounded(n, d))
           /\ 2 * (d * Rounded(n, d)) <= 2 * n + d
  <1>1. PICK q \in Int, m \in 0..d - 1 : n \div d = q /\ n % d = m /\ n = d * q + m
    BY Division
  <1>2. /\ Rounded(n, d) \in {q, q + 1}
        /\ Rounded(n, d) = q => 2 * m <= d
        /\ Rounded(n, d) = q + 1 => 2 * m >= d
    BY <1>1 DEF Rounded
  <1>3. d * q \in Int /\ d * (q + 1) = d * q + d
    OBVIOUS
  <1> QED BY <1>1, <1>2, <1>3

\* Numbers that lie further apart than the divisor round to different quotients, in
\* their order, and a multiple of the divisor to its factor.
LEMMA RoundsApart ==
    ASSUME NEW d \in Nat \ {0}, NEW n \in Int, NEW k \in Int, n + d < k
    PROVE  Rounded(n, d) < Rounded(k, d)
  <1> DEFINE p == Rounded(n, d)
             q == Rounded(k, d)
  <1>1. /\ p \in Int /\ q \in Int
        /\ 2 * (d * p) <= 2 * n + d
        /\ 2 * k - d <= 2 * (d * q)
    BY RoundedNear
  <1> HIDE DEF p, q
  <1>2. d * p \in Int /\ d * q \in Int
    BY <1>1
  <1>3. d * p < d * q
    BY <1>1, <1>2
  <1>4. p < q
    BY <1>1, <1>3, Times
  <1> QED BY <1>4 DEF p, q

LEMMA RoundsExactly ==
    ASSUME NEW d \in Nat \ {0}, NEW k \in Int
    PROVE  Rounded(d * k, d) = k
  <1> DEFINE q == Rounded(d * k, d)
             n == d * k
  <1>1. n \in Int
    OBVIOUS
  <1>2. /\ q \in Int
        /\ 2 * n - d <= 2 * (d * q)
        /\ 2 * (d * q) <= 2 * n + d
    BY <1>1, RoundedNear
  <1> HIDE DEF q
  <1>3. ~ (q < k)
    BY <1>1, <1>2, Times
  <1>4. ~ (k < q)
    BY <1>1, <1>2, Times
  <1> QED BY <1>2, <1>3, <1>4 DEF q

-----------------------------------------------------------------------------
(* The rungs of a pass lie at least a whole number apart, so they rise.    *)

Narrows == lastGood \in Nat /\ firstBad \in Nat /\ lastGood < firstBad

LEMMA StepsFit ==
    ASSUME Narrows, Steps >= 1
    PROVE  Steps \in Nat /\ Span \in Nat /\ Steps + 1 <= Span
  <1>1. RefineSteps \in Nat /\ Tolerance \in Nat /\ Resolution \in Nat \ {0}
    BY SearchAssumption
  <1>2. Span \in Nat
    BY DEF Narrows, Span
  <1>3. Tolerance * lastGood \in Nat
    BY <1>1 DEF Narrows
  <1>4. Spacing \in Nat /\ Spacing >= 100
    BY <1>1, <1>3 DEF Spacing, Greater
  <1>5. PICK q \in Int, m \in 0..Spacing - 1 :
            (100 * Span) \div Spacing = q /\ 100 * Span = Spacing * q + m
    <2> DEFINE n == 100 * Span
    <2>1. n \in Int /\ Spacing \in Nat \ {0}
      BY <1>2, <1>4
    <2> HIDE DEF n
    <2>2. \E q \in Int, m \in 0..Spacing - 1 :
              n \div Spacing = q /\ n % Spacing = m /\ n = Spacing * q + m
      BY <2>1, Division
    <2> QED BY <2>2 DEF n
  <1>6. Steps \in Int /\ Steps + 1 <= q
    BY <1>1, <1>5 DEF Steps, Lesser
  <1>7. Steps + 1 <= Span
    <2> SUFFICES ASSUME Span < Steps + 1 PROVE FALSE
      BY <1>2, <1>6
    <2>1. Span < q
      BY <1>2, <1>6
    <2>2. Spacing * Span + Spacing <= Spacing * q
      BY <1>2, <1>4, <2>1, Times
    <2>3. 100 * Span <= Spacing * Span
      BY <1>2, <1>4
    <2>4. Spacing * Span \in Int /\ Spacing * q \in Int
      BY <1>2, <1>4
    <2> QED BY <1>2, <1>4, <1>5, <2>2, <2>3, <2>4
  <1> QED BY <1>2, <1>6, <1>7

LEMMA RungsRise ==
    ASSUME Narrows, Steps >= 1, NEW i \in Int
    PROVE  Rung(i) \in Int /\ Rung(i) < Rung(i + 1)
  <1> DEFINE d == Steps + 1
             l == lastGood
             w == Span
  <1>1. d \in Nat \ {0} /\ l \in Nat /\ w \in Nat /\ d <= w
    BY StepsFit DEF Narrows
  <1>2. Rung(i) = Rounded(l * d + w * i, d) /\ Rung(i + 1) = Rounded(l * d + w * (i + 1), d)
    BY DEF Rung
  <1> HIDE DEF d, l, w
  <1>3. l * d + w * i \in Int /\ l * d + w * (i + 1) = (l * d + w * i) + w
    BY <1>1
  <1>4. CASE d < w
    <2>1. l * d + w * (i + 1) \in Int /\ (l * d + w * i) + d < l * d + w * (i + 1)
      BY <1>1, <1>3, <1>4
    <2> QED BY <1>1, <1>2, <1>3, <2>1, RoundsApart, RoundedNear
  <1>5. CASE d = w
    <2>1. l * d + w * i = d * (l + i) /\ l * d + w * (i + 1) = d * (l + i + 1)
      BY <1>1, <1>5
    <2>2. l + i \in Int /\ l + i + 1 \in Int
      BY <1>1
    <2>3. Rung(i) = l + i
      BY <1>1, <1>2, <2>1, <2>2, RoundsExactly
    <2>4. Rung(i + 1) = l + i + 1
      BY <1>1, <1>2, <2>1, <2>2, RoundsExactly
    <2> QED BY <2>2, <2>3, <2>4
  <1> QED BY <1>1, <1>4, <1>5

\* The rate a pass asks about first lies under the last healthy one.
LEMMA BelowIsLower ==
    ASSUME Narrows, Steps >= 1
    PROVE  Below \in Int /\ Below < lastGood
  <1>1. Rung(0) = lastGood
    <2> DEFINE d == Steps + 1
               l == lastGood
    <2>1. d \in Nat \ {0} /\ l \in Nat /\ Span \in Nat
      BY StepsFit DEF Narrows
    <2>2. Rung(0) = Rounded(l * d + Span * 0, d)
      BY DEF Rung
    <2> HIDE DEF d, l
    <2>3. l * d + Span * 0 = d * l
      BY <2>1
    <2> QED BY <2>1, <2>2, <2>3, RoundsExactly DEF l
  <1>2. Rung(-1) \in Int /\ Rung(-1) < Rung(-1 + 1)
    BY RungsRise
  <1> QED BY <1>1, <1>2 DEF Below

-----------------------------------------------------------------------------
(* The rates of a pass, one rung after another.                            *)

NextRung(s, n) == IF Unasked(Rung(n)) THEN Append(s, Rung(n)) ELSE s
RungByRung(upTo) ==
    /\ upTo[0] = <<>>
    /\ \A n \in 1..Steps : upTo[n] = NextRung(upTo[n - 1], n)
    /\ Upper = upTo[Steps]

LEMMA UpperByRung ==
    ASSUME Steps \in Nat
    PROVE  \E upTo : RungByRung(upTo)
  <1> DEFINE
        Val(f, n) == IF n = 0 THEN <<>> ELSE NextRung(f[n - 1], n)
        Good(d) == \E f : f = [n \in 0..d |-> Val(f, n)]
        T == {d \in Nat : Good(d)}
  <1>1. 0 \in T
    <2>1. [n \in 0..0 |-> <<>>] = [n \in 0..0 |-> Val([k \in 0..0 |-> <<>>], n)]
      OBVIOUS
    <2> QED BY <2>1
  <1>2. ASSUME NEW d \in T PROVE d + 1 \in T
    <2>1. PICK f : f = [n \in 0..d |-> Val(f, n)]
      OBVIOUS
    <2> DEFINE g == [n \in 0..d + 1 |-> IF n = d + 1 THEN NextRung(f[n - 1], n) ELSE f[n]]
    <2>2. ASSUME NEW n \in 0..d + 1 PROVE g[n] = Val(g, n)
      <3>1. CASE n = d + 1
        BY <3>1
      <3>2. CASE n = 0
        BY <2>1, <3>2
      <3>3. CASE n \in 1..d
        <4>1. g[n] = f[n] /\ g[n - 1] = f[n - 1]
          BY <3>3
        <4>2. f[n] = Val(f, n)
          BY <2>1, <3>3
        <4> QED BY <3>3, <4>1, <4>2
      <3> QED BY <3>1, <3>2, <3>3
    <2>3. g = [n \in 0..d + 1 |-> Val(g, n)]
      BY <2>2
    <2> HIDE DEF g, Val
    <2>4. Good(d + 1)
      BY <2>3
    <2> QED BY <2>4
  <1>3. T = Nat
    BY <1>1, <1>2, NatInductive
  <1>4. Good(Steps)
    <2>1. \A d \in T : Good(d)
      OBVIOUS
    <2> HIDE DEF Good, T
    <2> QED BY <1>3, <2>1
  <1> DEFINE
        Is(f) == f = [n \in 0..Steps |->
                         IF n = 0 THEN <<>>
                         ELSE IF Unasked(Rung(n)) THEN Append(f[n - 1], Rung(n)) ELSE f[n - 1]]
        upTo == CHOOSE f : Is(f)
  <1>5. Is(upTo)
    <2>1. \E f : Is(f)
      BY <1>4 DEF NextRung
    <2> QED BY <2>1
  <1>6. Upper = upTo[Steps]
    BY DEF Upper
  <1> HIDE DEF upTo
  <1>7. upTo[0] = <<>>
    BY <1>5
  <1>8. ASSUME NEW n \in 1..Steps PROVE upTo[n] = NextRung(upTo[n - 1], n)
    <2>1. n \in 0..Steps /\ n # 0
      OBVIOUS
    <2>2. upTo[n] = IF n = 0 THEN <<>>
                    ELSE IF Unasked(Rung(n)) THEN Append(upTo[n - 1], Rung(n)) ELSE upTo[n - 1]
      BY <1>5, <2>1
    <2> QED BY <2>1, <2>2 DEF NextRung
  <1>9. RungByRung(upTo)
    BY <1>6, <1>7, <1>8 DEF RungByRung
  <1> QED BY <1>9

Ascends(s) == \A i, j \in 1..Len(s) : i < j => s[i] < s[j]
Climbed(s, n) ==
    /\ s \in Seq(Int) /\ Ascends(s)
    /\ \A i \in 1..Len(s) : Unasked(s[i]) /\ s[i] <= Rung(n)

LEMMA NextClimbs ==
    ASSUME Narrows, Steps >= 1, NEW n \in Nat, NEW s, Climbed(s, n)
    PROVE  Climbed(NextRung(s, n + 1), n + 1)
  <1> DEFINE r == Rung(n + 1)
  <1>1. Rung(n) \in Int /\ r \in Int /\ Rung(n) < r
    BY RungsRise
  <1> HIDE DEF r
  <1>2. \A i \in 1..Len(s) : s[i] \in Int /\ Unasked(s[i]) /\ s[i] < r
    BY <1>1 DEF Climbed
  <1>3. CASE Unasked(r)
    <2> DEFINE t == Append(s, r)
    <2>1. NextRung(s, n + 1) = t
      BY <1>3 DEF NextRung, r
    <2>2. /\ t \in Seq(Int) /\ Len(t) = Len(s) + 1 /\ t[Len(s) + 1] = r
          /\ \A i \in 1..Len(s) : t[i] = s[i]
          /\ Len(s) \in Nat
      BY <1>1 DEF Climbed
    <2> HIDE DEF t
    <2>3. ASSUME NEW i \in 1..Len(t), NEW j \in 1..Len(t), i < j
          PROVE  t[i] < t[j]
      <3>1. i \in 1..Len(s) /\ t[i] = s[i]
        BY <2>2, <2>3
      <3>2. CASE j = Len(s) + 1
        BY <1>2, <2>2, <3>1, <3>2
      <3>3. CASE j # Len(s) + 1
        <4>1. j \in 1..Len(s) /\ t[j] = s[j]
          BY <2>2, <3>3
        <4> QED BY <2>3, <3>1, <4>1 DEF Climbed, Ascends
      <3> QED BY <3>2, <3>3
    <2>4. ASSUME NEW i \in 1..Len(t) PROVE Unasked(t[i]) /\ t[i] <= r
      <3>1. CASE i = Len(s) + 1
        BY <1>1, <1>3, <2>2, <3>1
      <3>2. CASE i # Len(s) + 1
        <4>1. i \in 1..Len(s) /\ t[i] = s[i]
          BY <2>2, <3>2
        <4> QED BY <1>1, <1>2, <4>1
      <3> QED BY <3>1, <3>2
    <2>5. Ascends(t)
      BY <2>3 DEF Ascends
    <2> QED BY <2>1, <2>2, <2>4, <2>5 DEF Climbed, r
  <1>4. CASE ~Unasked(r)
    <2>1. NextRung(s, n + 1) = s
      BY <1>4 DEF NextRung, r
    <2>2. \A i \in 1..Len(s) : Unasked(s[i]) /\ s[i] <= r
      BY <1>1, <1>2
    <2> QED BY <2>1, <2>2 DEF Climbed, r
  <1> QED BY <1>3, <1>4

\* The rates of a pass rise, lie in the bracket and were not asked about.
LEMMA UpperAscends ==
    ASSUME Narrows, Steps >= 1
    PROVE  /\ Upper \in Seq(Int) /\ Ascends(Upper)
           /\ \A i \in 1..Len(Upper) : Unasked(Upper[i])
  <1>1. Steps \in Nat
    BY StepsFit
  <1>2. PICK upTo : RungByRung(upTo)
    BY <1>1, UpperByRung
  <1> DEFINE Q(n) == n <= Steps => Climbed(upTo[n], n)
             T == {n \in Nat : Q(n)}
  <1>3. 0 \in T
    <2>1. Climbed(<<>>, 0)
      BY DEF Climbed, Ascends
    <2> QED BY <1>2, <2>1 DEF RungByRung
  <1>4. ASSUME NEW n \in T PROVE n + 1 \in T
    <2> SUFFICES ASSUME n + 1 <= Steps PROVE Climbed(upTo[n + 1], n + 1)
      OBVIOUS
    <2>1. n \in Nat /\ Climbed(upTo[n], n)
      BY <1>1
    <2>2. n + 1 \in 1..Steps /\ n + 1 - 1 = n
      BY <1>1, <2>1
    <2>3. upTo[n + 1] = NextRung(upTo[n], n + 1)
      BY <1>2, <2>2 DEF RungByRung
    <2> QED BY <2>1, <2>3, NextClimbs
  <1>5. T = Nat
    BY <1>3, <1>4, NatInductive
  <1>6. Climbed(upTo[Steps], Steps)
    <2>1. \A n \in T : Q(n)
      OBVIOUS
    <2> HIDE DEF T
    <2> QED BY <1>1, <1>5, <2>1
  <1> QED BY <1>2, <1>6 DEF RungByRung, Climbed

-----------------------------------------------------------------------------
(* No rate is asked about twice.                                           *)

\* What the search holds are rates of the grid.
OnGrid ==
    /\ SearchTypeOK
    /\ rate \in Grid /\ measured \subseteq Grid /\ passRates \in Seq(Grid)

\* The descent asks under everything it measured and the climb over it; a pass holds
\* rates nobody asked about, in rising order.
Unmet(r) == r \notin measured
AskInv ==
    /\ stage = "starting" => measured = {}
    /\ stage = "halving" => \A r \in measured : rate < r
    /\ stage = "climbing" => \A r \in measured : r < rate
    /\ stage = "refining" =>
          /\ Unmet(rate)
          /\ \A i \in 1..Len(passRates) : rate < passRates[i] /\ Unmet(passRates[i])
          /\ Ascends(passRates)

SearchInv == BracketInv /\ OnGrid /\ AskInv

LEMMA GridFacts ==
    /\ StartRate \in Grid /\ MinRate \in Grid /\ Grid \subseteq Rates
    /\ \A r \in Grid : r \in Nat /\ r <= MaxRate /\ r > 0
  BY SearchAssumption DEF Grid, Rates

LEMMA AnewSearches == SearchAnew => SearchInv'
  <1> SUFFICES ASSUME SearchAnew PROVE SearchInv'
    OBVIOUS
  <1>1. OnGrid'
    BY GridFacts DEF SearchAnew, OnGrid, SearchTypeOK, Asking, NoRate
  <1>2. AskInv'
    BY DEF SearchAnew, AskInv
  <1> QED BY <1>1, <1>2, AnewBracketed DEF SearchInv

LEMMA StartSearches == SearchInit => SearchInv
  <1> SUFFICES ASSUME SearchInit PROVE SearchInv
    OBVIOUS
  <1>1. OnGrid
    BY GridFacts DEF SearchInit, OnGrid, SearchTypeOK, Asking, NoRate
  <1>2. AskInv
    BY DEF SearchInit, AskInv
  <1> QED BY <1>1, <1>2, StartBracketed DEF SearchInv

\* Every answer leaves the rate measured, with a verdict or without.
Met ==
    /\ measured' = measured \cup {rate}
    /\ noResult' \subseteq noResult \cup {rate}
    /\ healthy' \subseteq healthy \cup {rate}
    /\ over' \subseteq over \cup {rate}

LEMMA AnswerMeets ==
    ASSUME NEW a, Answer(a)
    PROVE  Met
  <1>1. Visited(a) /\ (Unjudged \/ Judged(a, FALSE) \/ Judged(a, TRUE))
    BY DEF Answer, LowAbandons, Halve, LowServes, ClimbSaturates, ClimbGoesOn,
       RefineStops, RefineLearnsNothing, RefineJudges
  <1>2. Unjudged \/ Judged(a, FALSE) \/ Judged(a, TRUE)
           => healthy' \subseteq healthy \cup {rate} /\ over' \subseteq over \cup {rate}
    BY DEF Unjudged, Judged
  <1> QED BY <1>1, <1>2 DEF Met, Visited

\* Where an answer leaves the search.
Moved ==
    /\ stage' \in Asking \cup {"narrowing", "rebracketing"} \cup Ended
    /\ rate' \in Grid
    /\ lastGood' \in Nat /\ firstBad' \in Nat
    /\ passRates' \in Seq(Grid)
    /\ passes' \in Nat

LEMMA MetOnGrid ==
    ASSUME OnGrid, Met, Moved
    PROVE  OnGrid'
  <1>1. measured' \subseteq Grid /\ measured' \subseteq Rates
    BY GridFacts DEF OnGrid, Met
  <1>2. rate' \in Rates /\ passRates' \in Seq(Rates)
    BY GridFacts DEF Moved
  <1>3. noResult' \subseteq measured' /\ healthy' \subseteq measured' /\ over' \subseteq measured'
    BY DEF OnGrid, SearchTypeOK, Met
  <1>4. SearchTypeOK'
    BY <1>1, <1>2, <1>3 DEF SearchTypeOK, Moved
  <1> QED BY <1>1, <1>4 DEF OnGrid, Moved

LEMMA ClimbOnGrid ==
    ASSUME NEW r \in Grid, ClimbFrom(r), rate = r
    PROVE  /\ stage' \in {"climbing", "abandoned"} /\ rate' \in Grid
           /\ stage' = "climbing" => r < rate'
  BY GridFacts, SearchAssumption DEF ClimbFrom, Lesser, Grid

LEMMA HalveOnGrid ==
    ASSUME rate \in Grid, rate > MinRate
    PROVE  Greater(MinRate, rate \div 2) \in Grid /\ Greater(MinRate, rate \div 2) < rate
  <1> DEFINE half == Greater(MinRate, rate \div 2)
  <1>1. half \in Rates /\ half < rate
    BY GridFacts, HalvesDown
  <1> HIDE DEF half
  <1>2. half \in Grid
    BY <1>1, GridFacts, SearchAssumption DEF Grid, Rates
  <1> QED BY <1>1, <1>2 DEF half

LEMMA NextOfPassOnGrid ==
    ASSUME passRates \in Seq(Grid), rate \in Grid, stage = "refining", NextOfPass
    PROVE  /\ stage' \in {"refining", "rebracketing"} /\ rate' \in Grid
           /\ passRates' \in Seq(Grid)
  <1>1. CASE passRates = <<>>
    BY <1>1 DEF NextOfPass
  <1>2. CASE passRates # <<>>
    <2>1. Head(passRates) \in Grid /\ Tail(passRates) \in Seq(Grid)
      BY <1>2, HeadTailProperties
    <2> QED BY <1>2, <2>1 DEF NextOfPass
  <1> QED BY <1>1, <1>2

LEMMA AnswerOnGrid ==
    ASSUME OnGrid, NEW a, Answer(a)
    PROVE  OnGrid'
  <1>1. /\ rate \in Grid /\ rate \in Nat /\ lastGood \in Nat /\ firstBad \in Nat
        /\ passRates \in Seq(Grid) /\ passes \in Nat
    BY GridFacts DEF OnGrid, SearchTypeOK
  <1>2. CASE LowAbandons(a) \/ RefineStops(a)
    <2>1. Moved
      BY <1>1, <1>2 DEF LowAbandons, RefineStops, Abandon, bracket, Moved, Ended
    <2> QED BY <2>1, AnswerMeets, MetOnGrid
  <1>3. CASE Halve(a)
    <2>1. Moved
      BY <1>1, <1>3, HalveOnGrid DEF Halve, Moved, Asking
    <2> QED BY <2>1, AnswerMeets, MetOnGrid
  <1>4. CASE LowServes(a)
    <2>1. Moved
      BY <1>1, <1>4, ClimbOnGrid DEF LowServes, Moved, Asking, Ended
    <2> QED BY <2>1, AnswerMeets, MetOnGrid
  <1>5. CASE ClimbSaturates(a)
    <2>1. Moved
      BY <1>1, <1>5 DEF ClimbSaturates, Moved
    <2> QED BY <2>1, AnswerMeets, MetOnGrid
  <1>6. CASE ClimbGoesOn(a)
    <2>1. Moved
      BY <1>1, <1>6, ClimbOnGrid DEF ClimbGoesOn, Moved, Asking, Ended
    <2> QED BY <2>1, AnswerMeets, MetOnGrid
  <1>7. CASE RefineLearnsNothing(a) \/ RefineJudges(a)
    <2>1. Moved
      BY <1>1, <1>7, NextOfPassOnGrid
         DEF RefineLearnsNothing, RefineJudges, bracket, Moved, Asking
    <2> QED BY <2>1, AnswerMeets, MetOnGrid
  <1> QED BY <1>2, <1>3, <1>4, <1>5, <1>6, <1>7 DEF Answer

\* Each answer, for what the search asks next.
LEMMA AnswerAsks ==
    ASSUME SearchInv, NEW a, Answer(a)
    PROVE  AskInv'
  <1>1. /\ rate \in Grid /\ rate \in Nat /\ passRates \in Seq(Grid)
        /\ measured \subseteq Grid /\ \A r \in measured : r \in Nat
        /\ measured' = measured \cup {rate}
    BY GridFacts, AnswerMeets DEF SearchInv, OnGrid, Met
  <1>2. CASE LowAbandons(a) \/ RefineStops(a)
    BY <1>2 DEF LowAbandons, RefineStops, Abandon, AskInv
  <1>3. CASE Halve(a)
    <2>1. rate' < rate /\ stage' = "halving" /\ rate' \in Nat
      BY <1>1, <1>3, HalveOnGrid, GridFacts DEF Halve
    <2>2. \A r \in measured : rate <= r
      BY <1>1, <1>3 DEF Halve, Low, SearchInv, AskInv
    <2>3. \A r \in measured' : rate' < r
      BY <1>1, <2>1, <2>2
    <2> QED BY <2>1, <2>3 DEF AskInv
  <1>4. CASE LowServes(a)
    <2>1. CASE stage = "starting"
      <3>1. measured' = {rate} /\ ClimbFrom(rate)
        BY <1>1, <1>4, <2>1 DEF LowServes, SearchInv, AskInv, BracketInv
      <3>2. /\ stage' \in {"climbing", "abandoned"}
            /\ stage' = "climbing" => rate < rate'
        BY <1>1, <3>1, ClimbOnGrid
      <3> QED BY <3>1, <3>2 DEF AskInv
    <2>2. CASE stage = "halving"
      <3>1. firstBad # NoRate
        BY <2>2 DEF SearchInv, BracketInv, Descending, Rates, NoRate
      <3> QED BY <1>4, <3>1 DEF LowServes, AskInv
    <2> QED BY <1>4, <2>1, <2>2 DEF LowServes, Low
  <1>5. CASE ClimbSaturates(a)
    BY <1>5 DEF ClimbSaturates, AskInv
  <1>6. CASE ClimbGoesOn(a)
    <2>1. /\ stage' \in {"climbing", "abandoned"} /\ rate' \in Nat
          /\ stage' = "climbing" => rate < rate'
      BY <1>1, <1>6, ClimbOnGrid, GridFacts DEF ClimbGoesOn
    <2>2. \A r \in measured : r < rate
      BY <1>6 DEF ClimbGoesOn, SearchInv, AskInv
    <2>3. stage' = "climbing" => \A r \in measured' : r < rate'
      BY <1>1, <2>1, <2>2
    <2> QED BY <2>1, <2>3 DEF AskInv
  <1>7. CASE RefineLearnsNothing(a) \/ RefineJudges(a)
    <2>1. stage = "refining" /\ NextOfPass
      BY <1>7 DEF RefineLearnsNothing, RefineJudges
    <2>2. CASE passRates = <<>>
      BY <2>1, <2>2 DEF NextOfPass, AskInv
    <2>3. CASE passRates # <<>>
      <3> DEFINE t == Tail(passRates)
      <3>1. /\ stage' = "refining" /\ rate' = passRates[1] /\ passRates' = t
            /\ Len(t) = Len(passRates) - 1 /\ Len(t) \in Nat
            /\ \A i \in 1..Len(t) : t[i] = passRates[i + 1]
        BY <1>1, <2>1, <2>3, HeadTailProperties DEF NextOfPass
      <3>2. /\ \A i \in 1..Len(passRates) :
                  /\ passRates[i] \in Nat /\ rate < passRates[i]
                  /\ passRates[i] \notin measured
            /\ \A i, j \in 1..Len(passRates) : i < j => passRates[i] < passRates[j]
        <4>1. ASSUME NEW i \in 1..Len(passRates) PROVE passRates[i] \in Nat
          <5>1. passRates[i] \in Grid
            BY <1>1
          <5> QED BY <5>1, GridFacts
        <4> QED BY <2>1, <4>1 DEF SearchInv, AskInv, Ascends, Unmet
      <3> HIDE DEF t
      <3>3. \A i \in 1..Len(passRates) : passRates[i] \notin measured'
        BY <1>1, <3>2
      <3>4. 1 \in 1..Len(passRates)
        BY <1>1, <2>3
      <3>5. \A i \in 1..Len(t) : i + 1 \in 1..Len(passRates)
        BY <3>1
      <3>6. rate' \notin measured'
        BY <3>1, <3>3, <3>4
      <3>7. ASSUME NEW i \in 1..Len(t)
            PROVE  rate' < t[i] /\ t[i] \notin measured'
        <4>1. t[i] = passRates[i + 1] /\ i + 1 \in 1..Len(passRates) /\ 1 < i + 1
          BY <3>1, <3>5
        <4>2. passRates[1] < passRates[i + 1]
          BY <3>2, <3>4, <4>1
        <4> QED BY <3>1, <3>3, <4>1, <4>2
      <3>8. ASSUME NEW i \in 1..Len(t), NEW j \in 1..Len(t), i < j
            PROVE  t[i] < t[j]
        <4>1. /\ t[i] = passRates[i + 1] /\ i + 1 \in 1..Len(passRates)
              /\ t[j] = passRates[j + 1] /\ j + 1 \in 1..Len(passRates)
              /\ i + 1 < j + 1
          BY <3>1, <3>5, <3>8
        <4> QED BY <3>2, <4>1
      <3> QED BY <3>1, <3>6, <3>7, <3>8 DEF AskInv, Ascends, Unmet
    <2> QED BY <2>2, <2>3
  <1> QED BY <1>2, <1>3, <1>4, <1>5, <1>6, <1>7 DEF Answer

\* The rates a pass begins with.
LEMMA PassAsks ==
    ASSUME Narrows, Steps >= 1, Upper # <<>>, measured \subseteq Grid, firstBad \in Grid
    PROVE  /\ PassRates \in Seq(Grid) /\ PassRates # <<>> /\ Ascends(PassRates)
           /\ \A i \in 1..Len(PassRates) : Unmet(PassRates[i])
  <1>1. /\ Upper \in Seq(Int)
        /\ \A i, j \in 1..Len(Upper) : i < j => Upper[i] < Upper[j]
        /\ \A i \in 1..Len(Upper) :
              Upper[i] \in Int /\ lastGood < Upper[i] /\ Upper[i] < firstBad /\ Unmet(Upper[i])
    BY UpperAscends DEF Ascends, Unasked, Unmet
  <1>2. firstBad \in Nat /\ firstBad <= MaxRate /\ MaxRate \in Nat /\ lastGood \in Nat
    BY GridFacts, SearchAssumption DEF Narrows
  <1>3. \A i \in 1..Len(Upper) : Upper[i] \in Grid
    BY <1>1, <1>2 DEF Grid
  <1>4. Upper \in Seq(Grid) /\ Len(Upper) \in Nat
    BY <1>1, <1>3
  <1>5. CASE PassRates = Upper
    BY <1>1, <1>4, <1>5 DEF Ascends
  <1>6. CASE Below > MinRate /\ Below \notin measured
    <2> DEFINE s == <<Below>> \o Upper
    <2>1. PassRates = s
      BY <1>6 DEF PassRates
    <2>2. Below \in Int /\ Below < lastGood /\ MinRate \in Nat \ {0}
      BY BelowIsLower, SearchAssumption
    <2>3. Below \in Grid
      BY <1>2, <1>6, <2>2 DEF Narrows, Grid
    <2>4. s \in Seq(Grid) /\ Len(s) = Len(Upper) + 1
      BY <1>4, <2>3
    <2>5. s[1] = Below /\ \A i \in 2..Len(s) : s[i] = Upper[i - 1]
      BY <1>4, <2>3
    <2> HIDE DEF s
    <2>6. \A i \in 2..Len(s) : i - 1 \in 1..Len(Upper)
      BY <1>4, <2>4
    <2>7. ASSUME NEW i \in 1..Len(s) PROVE Unmet(s[i])
      <3>1. CASE i = 1
        BY <1>6, <2>5, <3>1 DEF Unmet
      <3>2. CASE i # 1
        <4>1. i \in 2..Len(s)
          BY <1>4, <2>4, <3>2
        <4>2. s[i] = Upper[i - 1] /\ i - 1 \in 1..Len(Upper)
          BY <2>5, <2>6, <4>1
        <4> QED BY <1>1, <4>2
      <3> QED BY <3>1, <3>2
    <2>8. ASSUME NEW i \in 1..Len(s), NEW j \in 1..Len(s), i < j PROVE s[i] < s[j]
      <3>1. j \in 2..Len(s) /\ lastGood < s[j] /\ s[j] \in Int
        BY <1>1, <1>4, <2>4, <2>5, <2>6, <2>8
      <3>2. CASE i = 1
        BY <1>2, <2>2, <2>5, <3>1, <3>2
      <3>3. CASE i # 1
        <4>1. i \in 2..Len(s) /\ i - 1 < j - 1
          BY <1>4, <2>4, <2>8, <3>3
        <4>2. /\ s[i] = Upper[i - 1] /\ i - 1 \in 1..Len(Upper)
              /\ s[j] = Upper[j - 1] /\ j - 1 \in 1..Len(Upper)
          BY <2>5, <2>6, <3>1, <4>1
        <4> QED BY <1>1, <4>1, <4>2
      <3> QED BY <3>2, <3>3
    <2>9. s # <<>>
      BY <1>4, <2>4
    <2> QED BY <2>1, <2>4, <2>7, <2>8, <2>9 DEF Ascends
  <1> QED BY <1>5, <1>6 DEF PassRates

LEMMA DecideSearches ==
    ASSUME SearchInv, Decide
    PROVE  OnGrid' /\ AskInv'
  <1>1. /\ rate \in Grid /\ passRates \in Seq(Grid) /\ measured \subseteq Grid
        /\ lastGood \in Nat /\ firstBad \in Nat /\ passes \in Nat
        /\ noResult \subseteq measured /\ healthy \subseteq measured /\ over \subseteq measured
        /\ Grid \subseteq Rates
    BY GridFacts DEF SearchInv, OnGrid, SearchTypeOK
  <1>2. UNCHANGED <<measured, noResult, healthy, over>>
    BY DEF Decide, Settle, BeginPass, Rebracket
  <1>3. CASE Settle
    <2>1. /\ stage' = "settled"
          /\ UNCHANGED <<rate, lastGood, firstBad, passRates, passes>>
      BY <1>3 DEF Settle, bracket
    <2> QED BY <1>1, <1>2, <2>1 DEF OnGrid, SearchTypeOK, AskInv, Ended, SearchInv
  <1>4. CASE BeginPass
    <2>1. /\ stage' = "refining" /\ passes' = passes + 1
          /\ rate' = Head(PassRates) /\ passRates' = Tail(PassRates)
          /\ UNCHANGED <<lastGood, firstBad>>
          /\ Steps >= 1 /\ Upper # <<>>
      BY <1>4 DEF BeginPass, bracket
    <2>2. Narrows /\ firstBad \in Grid
      BY <1>1, <1>4 DEF BeginPass, SearchInv, BracketInv, BracketWellFormed, Bracketed, Narrows
    <2> DEFINE s == PassRates
               t == Tail(PassRates)
    <2>3. /\ s \in Seq(Grid) /\ s # <<>>
          /\ \A i, j \in 1..Len(s) : i < j => s[i] < s[j]
          /\ \A i \in 1..Len(s) : s[i] \notin measured
      BY <1>1, <2>1, <2>2, PassAsks DEF Ascends, Unmet
    <2>4. /\ Head(s) = s[1] /\ s[1] \in Grid /\ t \in Seq(Grid)
          /\ Len(t) = Len(s) - 1 /\ Len(t) \in Nat
          /\ \A i \in 1..Len(t) : t[i] = s[i + 1]
      BY <2>3, HeadTailProperties
    <2>5. rate' = s[1] /\ passRates' = t
      BY <2>1, <2>4
    <2> HIDE DEF s, t
    <2>6. 1 \in 1..Len(s) /\ \A i \in 1..Len(t) : i + 1 \in 1..Len(s) /\ 1 < i + 1
      BY <2>4
    <2>7. rate' \notin measured'
      BY <1>2, <2>3, <2>5, <2>6
    <2>8. ASSUME NEW i \in 1..Len(t)
          PROVE  rate' < t[i] /\ t[i] \notin measured'
      <3>1. t[i] = s[i + 1] /\ i + 1 \in 1..Len(s) /\ 1 < i + 1
        BY <2>4, <2>6
      <3> QED BY <1>2, <2>3, <2>5, <2>6, <3>1
    <2>9. ASSUME NEW i \in 1..Len(t), NEW j \in 1..Len(t), i < j
          PROVE  t[i] < t[j]
      <3>1. /\ t[i] = s[i + 1] /\ i + 1 \in 1..Len(s)
            /\ t[j] = s[j + 1] /\ j + 1 \in 1..Len(s)
            /\ i + 1 < j + 1
        BY <2>4, <2>6, <2>9
      <3> QED BY <2>3, <3>1
    <2>10. AskInv'
      BY <2>1, <2>5, <2>7, <2>8, <2>9 DEF AskInv, Ascends, Unmet
    <2>11. /\ rate' \in Grid /\ rate' \in Rates
           /\ passRates' \in Seq(Grid) /\ passRates' \in Seq(Rates)
      BY <1>1, <2>4, <2>5
    <2>12. OnGrid'
      BY <1>1, <1>2, <2>1, <2>11 DEF OnGrid, SearchTypeOK, Asking
    <2> QED BY <2>10, <2>12
  <1>5. CASE Rebracket
    <2>1. /\ stage' \in {"abandoned", "narrowing"}
          /\ UNCHANGED <<rate, passRates, passes>>
          /\ lastGood' = lastGood \/ lastGood' \in healthy
          /\ firstBad' \in over
      BY <1>5 DEF Rebracket, GoodBelow
    <2>2. lastGood' \in Nat /\ firstBad' \in Nat
      BY <1>1, <2>1, GridFacts
    <2>3. passRates \in Seq(Rates) /\ rate \in Rates
      BY <1>1
    <2> QED BY <1>1, <1>2, <2>1, <2>2, <2>3 DEF OnGrid, SearchTypeOK, AskInv, Ended
  <1> QED BY <1>3, <1>4, <1>5 DEF Decide

LEMMA SearchStepKeeps ==
    ASSUME SearchInv, SearchStep
    PROVE  SearchInv'
  <1>1. CASE UNCHANGED searchVars
    BY <1>1 DEF searchVars, bracket, SearchInv, BracketInv, BracketWellFormed, Bracketed,
       Descending, Climbing, OnGrid, SearchTypeOK, AskInv, Ascends, Unmet
  <1>2. CASE SearchAnew
    BY <1>2, AnewSearches
  <1>3. CASE Decide
    BY <1>3, DecideSearches, DecideBracketed DEF SearchInv
  <1>4. CASE \E a : Answer(a)
    BY <1>4, AnswerOnGrid, AnswerAsks, AnswerBracketed DEF SearchInv
  <1> QED BY <1>1, <1>2, <1>3, <1>4 DEF SearchStep

LEMMA SearchKept == SearchInv /\ [SweepNext]_sweepVars => SearchInv'
  <1> SUFFICES ASSUME SearchInv, [SweepNext]_sweepVars PROVE SearchInv'
    OBVIOUS
  <1>1. UNCHANGED sweepVars => SearchStep
    BY DEF sweepVars, SearchStep
  <1>2. SearchStep
    BY <1>1, EveryStepSearches
  <1> QED BY <1>2, SearchStepKeeps

\* However the points measure and the jobs are resumed, a search of rates.py asks about no
\* rate twice.
THEOREM AsksOnce == SweepSpec => []NothingAskedTwice
  <1>1. SweepInit => SearchInv
    BY StartSearches DEF SweepInit
  <1>2. SearchInv => NothingAskedTwice
    <2> SUFFICES ASSUME SearchInv, stage \in Asking PROVE rate \notin measured
      BY DEF NothingAskedTwice
    <2>1. rate \in Nat /\ \A r \in measured : r \in Nat
      BY GridFacts DEF SearchInv, OnGrid
    <2> QED BY <2>1 DEF SearchInv, AskInv, Asking, Unmet
  <1> QED BY <1>1, <1>2, SearchKept, PTL DEF SweepSpec

-----------------------------------------------------------------------------
(* What the engine keeps on disk and in memory is what it should be.       *)

Typed(f, D, V) == DOMAIN f \subseteq D /\ \A d \in DOMAIN f : f[d] \in V

Specs == [offset : Nat, trials : Nat \ {0}, target : Points \cup {Nowhere}]

FilesTyped ==
    /\ Typed(summary, Dirs, Summaries)
    /\ asked \in Seq(Grid) /\ complete \in BOOLEAN
    /\ Typed(results, Points, Outcomes)
\* No job goes past the last trial.
JobsTyped ==
    /\ reported \subseteq Points
    /\ specs \subseteq Specs /\ job \in specs
    /\ \A j \in specs : j.offset + j.trials <= LastTrial + 1
Phases == {"idle", "deploying", "combo", "searching", "replaying", "running", "swapping",
           "writing"}
DriverTyped ==
    /\ phase \in Phases /\ trial \in Nat /\ attempt \in 0..MaxAttempts
    /\ todo \in Seq(Grid) /\ at \in Grid \cup {NoRate}
    /\ staged \in Summaries \cup {Absent}
    /\ Typed(entries, Points, Outcomes)
\* Who waits for a point: a search while searched_rates.json is not complete, a replay
\* with rates left once it is, or a retry.
Measuring == phase \in {"searching", "replaying", "running", "swapping"}
Caller ==
    /\ phase # "idle" => job.offset <= trial
    /\ Measuring => trial <= LastOfJob
    /\ phase = "searching" => ~complete /\ ~Retrying
    /\ phase = "replaying" => complete /\ ~Retrying
    /\ phase \in {"running", "swapping"} => at \in Grid
    /\ phase = "running" /\ complete /\ ~Retrying => todo # <<>>
    /\ phase = "swapping" => Retrying /\ staged \in Summaries

EngineInv == FilesTyped /\ JobsTyped /\ DriverTyped /\ Caller

LEMMA PutTyped ==
    ASSUME NEW D, NEW V, NEW f, Typed(f, D, V), NEW d \in D, NEW o \in V
    PROVE  Typed(Put(f, d, o), D, V)
  BY DEF Typed, Put

LEMMA MergedTyped ==
    ASSUME FilesTyped, DriverTyped
    PROVE  Typed(Merged, Points, Outcomes)
  <1> DEFINE mine == {p \in DOMAIN entries : ~(Retrying /\ HasError(entries[p]))}
  <1>1. mine \subseteq DOMAIN entries
    OBVIOUS
  <1>2. Merged = [p \in mine \cup DOMAIN results |->
                     IF p \in mine THEN entries[p] ELSE results[p]]
    BY DEF Merged
  <1> HIDE DEF mine
  <1>3. Typed(entries, Points, Outcomes) /\ Typed(results, Points, Outcomes)
    BY DEF FilesTyped, DriverTyped
  <1> QED BY <1>1, <1>2, <1>3 DEF Typed

\* The point a driver is at is one of the sweep.
LEMMA PointSuits ==
    ASSUME EngineInv, Measuring, NEW r \in Grid
    PROVE  trial \in Trials /\ Here(r) \in Points /\ DirOf(job, r, trial) \in Dirs
  <1>1. /\ job.offset \in Nat /\ job.trials \in Nat /\ trial \in Nat
        /\ job.offset + job.trials <= LastTrial + 1
        /\ job.offset <= trial /\ trial <= job.offset + job.trials - 1
    BY DEF EngineInv, JobsTyped, DriverTyped, Caller, Measuring, Specs, LastOfJob
  <1>2. trial \in Trials
    BY <1>1, SweepAssumption DEF Trials
  <1> QED BY <1>2 DEF Here, Points, DirOf, Dirs

LEMMA StartEngine == SweepInit => EngineInv
  <1> SUFFICES ASSUME SweepInit PROVE EngineInv
    OBVIOUS
  <1>1. Typed(Nothing, Dirs, Summaries) /\ Typed(Nothing, Points, Outcomes)
    BY DEF Typed, Nothing
  <1>2. BaseJob \in Specs /\ BaseJob.offset + BaseJob.trials <= LastTrial + 1
    BY SweepAssumption DEF BaseJob, Specs
  <1>3. FilesTyped
    <2>1. summary = Nothing /\ results = Nothing /\ asked = <<>> /\ complete = FALSE
      BY DEF SweepInit
    <2>2. Typed(summary, Dirs, Summaries) /\ Typed(results, Points, Outcomes)
      BY <1>1, <2>1
    <2>3. asked \in Seq(Grid)
      BY <2>1, EmptySeq
    <2>4. complete \in BOOLEAN
      BY <2>1
    <2> QED BY <2>2, <2>3, <2>4 DEF FilesTyped
  <1>5. JobsTyped
    <2>1. reported = {} /\ specs = {BaseJob} /\ job = BaseJob
      BY DEF SweepInit
    <2> QED BY <1>2, <2>1 DEF JobsTyped
  <1>4. DriverTyped /\ Caller
    BY <1>1, SweepAssumption DEF SweepInit, DriverTyped, Phases, Caller, Measuring
  <1> QED BY <1>3, <1>4, <1>5 DEF EngineInv

LEMMA LaunchEngine ==
    ASSUME EngineInv, Run \/ AddTrials \/ \E p \in Points : RetryPoint(p)
    PROVE  EngineInv'
  <1>1. PICK j : Launch(j) /\ j \in Specs /\ j.offset + j.trials <= LastTrial + 1
    <2>1. CASE Run
      BY <2>1 DEF Run, EngineInv, JobsTyped
    <2>2. CASE AddTrials
      <3>1. PICK t \in Trials : Launch([job EXCEPT !.offset = t, !.trials = 1])
        BY <2>2 DEF AddTrials
      <3>2. t \in Nat /\ t <= LastTrial
        BY <3>1, SweepAssumption DEF Trials
      <3> DEFINE i == [job EXCEPT !.offset = t]
                 j == [i EXCEPT !.trials = 1]
      <3>3. i \in Specs /\ i.offset = t
        BY <3>2 DEF EngineInv, JobsTyped, Specs
      <3> HIDE DEF i
      <3>4. j \in Specs /\ j.offset + j.trials <= LastTrial + 1
        BY <3>2, <3>3, SweepAssumption DEF Specs
      <3>5. Launch(j)
        BY <3>1 DEF i
      <3> QED BY <3>4, <3>5
    <2>3. CASE \E p \in Points : RetryPoint(p)
      <3>1. PICK p \in Points : RetryPoint(p)
        BY <2>3
      <3>2. p[2] \in Nat /\ p[2] <= LastTrial
        BY SweepAssumption DEF Points, Trials
      <3> DEFINE j == [offset |-> p[2], trials |-> 1, target |-> p]
      <3>3. j \in Specs /\ j.offset + j.trials <= LastTrial + 1
        BY <3>2, SweepAssumption DEF Specs
      <3> QED BY <3>1, <3>3 DEF RetryPoint
    <2> QED BY <2>1, <2>2, <2>3
  <1>2. /\ job' = j /\ specs' = specs \cup {j}
        /\ phase' = "deploying" /\ trial' = j.offset /\ j.offset \in Nat
        /\ UNCHANGED <<summary, asked, complete, results, reported, attempt, todo, at, staged,
                       entries>>
    BY <1>1 DEF Launch, files, Specs
  <1>3. FilesTyped'
    BY <1>2 DEF EngineInv, FilesTyped, Typed
  <1>4. JobsTyped'
    BY <1>1, <1>2 DEF EngineInv, JobsTyped
  <1>5. DriverTyped'
    BY <1>2 DEF EngineInv, DriverTyped, Typed, Phases
  <1>6. Caller'
    BY <1>2 DEF Caller, Measuring
  <1> QED BY <1>3, <1>4, <1>5, <1>6 DEF EngineInv

\* The driver's steps that begin no point: where they leave it.
Handed ==
    /\ phase' \in {"combo", "searching", "replaying", "writing"}
    /\ trial' \in {trial, trial + 1}
    /\ phase' \in {"searching", "replaying"} => trial' = trial /\ trial <= LastOfJob
    /\ phase' = "searching" => ~complete /\ ~Retrying
    /\ phase' = "replaying" => complete /\ ~Retrying
    /\ todo' \in Seq(Grid)
    /\ complete' = IF phase = "searching" /\ phase' = "combo" THEN TRUE ELSE complete
    /\ UNCHANGED <<specs, job>>

LEMMA HandedEngine ==
    ASSUME EngineInv, phase # "idle", Handed, FilesTyped',
           reported' \subseteq Points, Typed(entries', Points, Outcomes),
           attempt' \in 0..MaxAttempts, at' \in Grid \cup {NoRate},
           staged' \in Summaries \cup {Absent}
    PROVE  EngineInv'
  <1>1. /\ job.offset \in Nat /\ trial \in Nat /\ job.offset <= trial
        /\ trial' \in Nat /\ job.offset <= trial'
    BY DEF EngineInv, JobsTyped, DriverTyped, Caller, Specs, Handed
  <1>2. JobsTyped'
    BY DEF EngineInv, JobsTyped, Handed
  <1>3. DriverTyped'
    BY <1>1 DEF DriverTyped, Phases, Handed, Typed
  <1>4. Retrying' = Retrying /\ LastOfJob' = LastOfJob
    BY DEF Handed, Retrying, LastOfJob
  <1>5. Caller'
    BY <1>1, <1>4 DEF Handed, Caller, Measuring
  <1> QED BY <1>2, <1>3, <1>5 DEF EngineInv

\* The caller of _run_point goes on.
LEMMA ReturnsHands ==
    ASSUME EngineInv, Measuring, NEW o, Returns(o), UNCHANGED <<complete, specs, job>>,
           complete /\ ~Retrying => todo # <<>>,
           phase = "searching" => ~complete /\ ~Retrying
    PROVE  Handed
  <1>1. /\ todo \in Seq(Grid) /\ trial <= LastOfJob /\ complete \in BOOLEAN
    BY DEF EngineInv, FilesTyped, DriverTyped, Caller
  <1>2. CASE Retrying
    BY <1>1, <1>2 DEF Returns, ToNextTrial, Handed
  <1>3. CASE ~Retrying /\ complete
    <2>1. Tail(todo) \in Seq(Grid)
      BY <1>1, <1>3, HeadTailProperties
    <2> QED BY <1>1, <1>3, <2>1 DEF Returns, Handed
  <1>4. CASE ~Retrying /\ ~complete
    BY <1>1, <1>4 DEF Returns, Handed
  <1> QED BY <1>2, <1>3, <1>4

LEMMA MeasuresEngine ==
    ASSUME EngineInv, phase \in {"searching", "replaying"}, NEW r \in Grid,
           Reuse(r) \/ StartPoint(r), asked' \in Seq(Grid),
           phase = "replaying" => todo # <<>>
    PROVE  EngineInv'
  <1>1. /\ trial \in Trials /\ Here(r) \in Points /\ DirOf(job, r, trial) \in Dirs
    BY PointSuits DEF Measuring
  <1>2. CASE Reuse(r)
    <2> DEFINE d == DirOf(job, r, trial)
    <2>1. /\ entries' = Put(entries, Here(r), summary[d])
          /\ reported' = reported \cup {Here(r)}
          /\ Returns(summary[d]) /\ d \in DOMAIN summary
          /\ UNCHANGED <<summary, complete, results, specs, job, at, attempt, staged>>
      BY <1>2 DEF Reuse, Reusable, Usable
    <2> HIDE DEF d
    <2>2. summary[d] \in Outcomes
      BY <2>1 DEF EngineInv, FilesTyped, Typed, Summaries
    <2>3. Typed(entries', Points, Outcomes)
      BY <1>1, <2>1, <2>2, PutTyped DEF EngineInv, DriverTyped
    <2>4. FilesTyped'
      BY <2>1 DEF EngineInv, FilesTyped, Typed
    <2>5. Handed
      BY <2>1, ReturnsHands DEF EngineInv, Caller, Measuring
    <2> QED BY <1>1, <2>1, <2>3, <2>4, <2>5, HandedEngine DEF EngineInv, JobsTyped, DriverTyped
  <1>3. CASE StartPoint(r)
    <2>1. /\ phase' = "running" /\ at' = r /\ attempt' = 1
          /\ UNCHANGED <<summary, complete, results, reported, specs, job, trial, todo,
                         staged, entries>>
      BY <1>3 DEF StartPoint
    <2>2. FilesTyped' /\ JobsTyped'
      BY <2>1 DEF EngineInv, FilesTyped, JobsTyped, Typed
    <2>3. DriverTyped'
      BY <2>1, SweepAssumption DEF EngineInv, DriverTyped, Typed, Phases
    <2>4. Retrying' = Retrying /\ LastOfJob' = LastOfJob
      BY <2>1 DEF Retrying, LastOfJob
    <2>5. Caller'
      BY <2>1, <2>4 DEF EngineInv, Caller, Measuring
    <2> QED BY <2>2, <2>3, <2>5 DEF EngineInv
  <1> QED BY <1>2, <1>3

\* A point ends with its summary written.
LEMMA ConcludesEngine ==
    ASSUME EngineInv, phase \in {"running", "swapping"}, NEW o \in Outcomes, Concludes(o),
           Typed(summary', Dirs, Summaries), UNCHANGED specs,
           staged' \in Summaries \cup {Absent}
    PROVE  EngineInv'
  <1>1. at \in Grid
    BY DEF EngineInv, Caller
  <1>2. Here(at) \in Points
    BY <1>1, PointSuits DEF Measuring
  <1>3. /\ entries' = Put(entries, Here(at), o)
        /\ reported' \subseteq reported \cup {Here(at)}
        /\ at' = NoRate /\ attempt' = 0
        /\ UNCHANGED <<asked, complete, results, job>>
        /\ \/ phase' = "writing" /\ UNCHANGED <<trial, todo, searchVars>>
           \/ Returns(o)
    BY DEF Concludes
  <1>4. Typed(entries', Points, Outcomes) /\ FilesTyped'
    BY <1>2, <1>3, PutTyped DEF EngineInv, FilesTyped, DriverTyped, Typed
  <1>5. Handed
    <2>1. CASE Returns(o)
      <3>1. Measuring /\ (complete /\ ~Retrying => todo # <<>>)
        BY DEF EngineInv, Caller, Measuring
      <3> QED BY <1>3, <2>1, <3>1, ReturnsHands
    <2>2. CASE phase' = "writing" /\ UNCHANGED <<trial, todo, searchVars>>
      BY <1>3, <2>2 DEF Handed, EngineInv, DriverTyped
    <2> QED BY <1>3, <2>1, <2>2
  <1>6. reported' \subseteq Points /\ attempt' \in 0..MaxAttempts /\ at' \in Grid \cup {NoRate}
    BY <1>2, <1>3, SweepAssumption DEF EngineInv, JobsTyped
  <1> QED BY <1>4, <1>5, <1>6, HandedEngine

LEMMA PointEngine ==
    ASSUME EngineInv, FailsAttempt \/ EndsPoint \/ SwapOut \/ SwapIn
    PROVE  EngineInv'
  <1> DEFINE d == DirOf(job, at, trial)
  <1>1. /\ phase \in {"running", "swapping"} /\ at \in Grid /\ d \in Dirs
        /\ Typed(summary, Dirs, Summaries)
    <2>1. phase \in {"running", "swapping"}
      BY DEF FailsAttempt, EndsPoint, SwapOut, SwapIn
    <2>2. at \in Grid
      BY <2>1 DEF EngineInv, Caller
    <2> QED BY <2>1, <2>2, PointSuits DEF Measuring, EngineInv, FilesTyped
  <1>2. \A o \in Outcomes : Typed(Written(o), Dirs, Summaries)
    <2> SUFFICES ASSUME NEW o \in Outcomes PROVE Typed(Written(o), Dirs, Summaries)
      OBVIOUS
    <2>1. CASE Retrying \/ o = "error"
      BY <1>1, <2>1 DEF Written
    <2>2. CASE ~(Retrying \/ o = "error")
      <3>1. o \in Summaries /\ Written(o) = Put(summary, d, o)
        BY <2>2 DEF Summaries, Written
      <3> HIDE DEF d
      <3> QED BY <1>1, <3>1, PutTyped
    <2> QED BY <2>1, <2>2
  <1>3. MayMeasure \subseteq Outcomes
    BY SweepAssumption DEF MayMeasure
  <1> HIDE DEF d
  <1>4. CASE FailsAttempt
    <2>1. PICK o \in MayMeasure : TriesAgain(o) /\ summary' = Written(o)
      BY <1>4 DEF FailsAttempt
    <2>2. /\ attempt' = attempt + 1 /\ phase = "running"
          /\ UNCHANGED <<asked, complete, results, reported, specs, job, phase, trial,
                         todo, at, staged, entries>>
      BY <1>4 DEF FailsAttempt
    <2>3. FilesTyped' /\ JobsTyped'
      BY <1>2, <1>3, <2>1, <2>2 DEF EngineInv, FilesTyped, JobsTyped, Typed
    <2>4. attempt' \in 0..MaxAttempts
      BY <2>1, <2>2, SweepAssumption DEF TriesAgain, EngineInv, DriverTyped
    <2>5. DriverTyped'
      BY <2>2, <2>4 DEF EngineInv, DriverTyped, Typed
    <2>6. Caller'
      BY <2>2 DEF EngineInv, Caller, Measuring, Retrying, LastOfJob
    <2> QED BY <2>3, <2>5, <2>6 DEF EngineInv
  <1>5. CASE EndsPoint
    <2>1. PICK o \in MayMeasure : summary' = Written(o) /\ Concludes(o)
      BY <1>5 DEF EndsPoint
    <2>2. UNCHANGED <<specs, staged>>
      BY <1>5, <2>1 DEF EndsPoint, Concludes
    <2>3. staged' \in Summaries \cup {Absent}
      BY <2>2 DEF EngineInv, DriverTyped
    <2> QED BY <1>1, <1>2, <1>3, <2>1, <2>2, <2>3, ConcludesEngine
  <1>6. CASE SwapOut
    <2>1. PICK o \in MayMeasure \ {"error"} : staged' = o
      BY <1>6 DEF SwapOut
    <2>2. /\ phase' = "swapping" /\ Retrying
          /\ summary' = Restrict(summary, DOMAIN summary \ Inside(d))
          /\ UNCHANGED <<asked, complete, results, reported, specs, job, trial, todo, at,
                         attempt, entries>>
      BY <1>6 DEF SwapOut, d
    <2>3. staged' \in Summaries
      BY <1>3, <2>1 DEF Summaries
    <2>4. Typed(summary', Dirs, Summaries)
      BY <1>1, <2>2 DEF Typed, Restrict
    <2>5. FilesTyped' /\ JobsTyped'
      BY <2>2, <2>4 DEF EngineInv, FilesTyped, JobsTyped, Typed
    <2>6. DriverTyped'
      BY <2>2, <2>3 DEF EngineInv, DriverTyped, Typed, Phases
    <2>7. Caller'
      BY <1>6, <2>2, <2>3 DEF SwapOut, EngineInv, Caller, Measuring, Retrying, LastOfJob
    <2> QED BY <2>5, <2>6, <2>7 DEF EngineInv
  <1>7. CASE SwapIn
    <2>1. /\ phase = "swapping" /\ summary' = Put(summary, d, staged)
          /\ Concludes(staged) /\ staged' = Absent
      BY <1>7 DEF SwapIn, d
    <2>2. staged \in Summaries /\ staged \in Outcomes
      BY <2>1 DEF EngineInv, Caller, Summaries
    <2>3. Typed(summary', Dirs, Summaries)
      BY <1>1, <2>1, <2>2, PutTyped
    <2>4. UNCHANGED specs
      BY <2>1 DEF Concludes
    <2> QED BY <2>1, <2>2, <2>3, <2>4, ConcludesEngine
  <1> QED BY <1>4, <1>5, <1>6, <1>7

\* The driver is gone; its results are written or not.
LEMMA GoneEngine ==
    ASSUME EngineInv, Gone, results' = Merged \/ results' = results,
           UNCHANGED <<summary, asked, complete, reported, specs, job>>
    PROVE  EngineInv'
  <1>1. Typed(results', Points, Outcomes)
    BY MergedTyped DEF EngineInv, FilesTyped
  <1>2. FilesTyped' /\ JobsTyped'
    BY <1>1 DEF EngineInv, FilesTyped, JobsTyped, Typed
  <1>3. Typed(Nothing, Points, Outcomes)
    BY DEF Typed, Nothing
  <1>4. DriverTyped'
    BY <1>3, SweepAssumption DEF Gone, DriverTyped, Phases
  <1>5. Caller'
    BY DEF Gone, Caller, Measuring
  <1> QED BY <1>2, <1>4, <1>5 DEF EngineInv

LEMMA DriverEngine ==
    ASSUME SearchInv, EngineInv, DriverStep
    PROVE  EngineInv'
  <1>1. /\ asked \in Seq(Grid) /\ complete \in BOOLEAN /\ trial \in Nat
        /\ todo \in Seq(Grid) /\ reported \subseteq Points
        /\ Typed(entries, Points, Outcomes)
        /\ attempt \in 0..MaxAttempts /\ at \in Grid \cup {NoRate}
        /\ staged \in Summaries \cup {Absent}
    BY DEF EngineInv, FilesTyped, JobsTyped, DriverTyped
  <1>2. CASE Deploys \/ AllTrialsDone \/ SkipTrial \/ EndReplay \/ Decides
    <2>1. /\ phase # "idle" /\ trial' \in {trial, trial + 1}
          /\ \/ phase' \in {"combo", "writing"}
             \/ phase = "searching" /\ phase' = phase /\ trial' = trial
          /\ phase' = "combo" => phase # "searching"
          /\ UNCHANGED <<files, reported, specs, job, todo, at, attempt, staged, entries>>
      BY <1>2 DEF Deploys, AllTrialsDone, SkipTrial, EndReplay, Decides, ToNextTrial, driver
    <2>2. UNCHANGED <<summary, asked, complete, results>>
      BY <2>1 DEF files
    <2>3. FilesTyped'
      BY <2>2 DEF EngineInv, FilesTyped, Typed
    <2>4. Handed
      BY <1>1, <2>1, <2>2 DEF Handed, EngineInv, Caller, Measuring
    <2> QED BY <1>1, <2>1, <2>3, <2>4, HandedEngine
  <1>3. CASE StartReplay \/ StartSearch
    <2>1. /\ phase = "combo" /\ trial' = trial /\ trial <= LastOfJob /\ ~Retrying
          /\ \/ phase' = "searching" /\ ~complete /\ todo' = todo
             \/ phase' = "replaying" /\ complete /\ todo' = asked
          /\ UNCHANGED <<files, reported, specs, job, at, attempt, staged, entries>>
      BY <1>3 DEF StartReplay, StartSearch
    <2>2. UNCHANGED <<summary, asked, complete, results>>
      BY <2>1 DEF files
    <2>3. FilesTyped'
      BY <2>2 DEF EngineInv, FilesTyped, Typed
    <2>4. Handed
      BY <1>1, <2>1, <2>2 DEF Handed
    <2> QED BY <1>1, <2>1, <2>3, <2>4, HandedEngine
  <1>4. CASE EndSearch
    <2>1. /\ phase = "searching" /\ phase' = "combo" /\ trial' = trial + 1 /\ complete' = TRUE
          /\ UNCHANGED <<summary, asked, results, reported, specs, job, todo, at, attempt,
                         staged, entries>>
      BY <1>4 DEF EndSearch, ToNextTrial
    <2>2. FilesTyped'
      BY <2>1 DEF EngineInv, FilesTyped, Typed
    <2>3. Handed
      BY <1>1, <2>1 DEF Handed
    <2> QED BY <1>1, <2>1, <2>2, <2>3, HandedEngine
  <1>5. CASE StartRetry
    <2>1. /\ phase = "combo" /\ trial <= LastOfJob /\ Retrying
          /\ phase' = "running" /\ at' = job.target[1] /\ attempt' = 1
          /\ UNCHANGED <<summary, asked, complete, results, reported, specs, job, trial, todo,
                         staged, entries>>
      BY <1>5 DEF StartRetry, files
    <2>2. job.target \in Points
      BY <2>1 DEF Retrying, EngineInv, JobsTyped, Specs
    <2>3. at' \in Grid
      BY <2>1, <2>2 DEF Points
    <2>4. FilesTyped' /\ JobsTyped'
      BY <2>1 DEF EngineInv, FilesTyped, JobsTyped, Typed
    <2>5. DriverTyped'
      BY <2>1, <2>3, SweepAssumption DEF EngineInv, DriverTyped, Typed, Phases
    <2>6. Retrying' = Retrying /\ LastOfJob' = LastOfJob
      BY <2>1 DEF Retrying, LastOfJob
    <2>7. Caller'
      BY <2>1, <2>3, <2>6 DEF EngineInv, Caller, Measuring
    <2> QED BY <2>4, <2>5, <2>7 DEF EngineInv
  <1>6. CASE Measure
    <2>1. phase = "searching" /\ (Reuse(rate) \/ StartPoint(rate)) /\ asked' = Recorded(rate)
      BY <1>6 DEF Measure
    <2>2. rate \in Grid
      BY DEF SearchInv, OnGrid
    <2>3. asked' \in Seq(Grid)
      BY <1>1, <2>1, <2>2 DEF Recorded
    <2> QED BY <2>1, <2>2, <2>3, MeasuresEngine
  <1>7. CASE Replay
    <2>1. phase = "replaying" /\ todo # <<>> /\ (Reuse(Head(todo)) \/ StartPoint(Head(todo)))
          /\ asked' = asked
      BY <1>7 DEF Replay
    <2>2. Head(todo) \in Grid
      BY <1>1, <2>1, HeadTailProperties
    <2> QED BY <1>1, <2>1, <2>2, MeasuresEngine
  <1>8. CASE FailsAttempt \/ EndsPoint \/ SwapOut \/ SwapIn
    BY <1>8, PointEngine
  <1>9. CASE WriteResults
    BY <1>9, GoneEngine DEF WriteResults, files
  <1> QED BY <1>2, <1>3, <1>4, <1>5, <1>6, <1>7, <1>8, <1>9 DEF DriverStep

LEMMA StepEngine == SearchInv /\ EngineInv /\ [SweepNext]_sweepVars => EngineInv'
  <1> SUFFICES ASSUME SearchInv, EngineInv, [SweepNext]_sweepVars PROVE EngineInv'
    OBVIOUS
  <1>1. CASE UNCHANGED sweepVars
    BY <1>1 DEF sweepVars, files, driver, EngineInv, FilesTyped, JobsTyped, DriverTyped, Typed,
       Caller, Measuring, Retrying, LastOfJob
  <1>2. CASE Run \/ AddTrials \/ \E p \in Points : RetryPoint(p)
    BY <1>2, LaunchEngine
  <1>3. CASE DriverStep
    BY <1>3, DriverEngine
  <1>4. CASE Interrupt \/ Kill
    BY <1>4, GoneEngine DEF Interrupt, Kill, files
  <1> QED BY <1>1, <1>2, <1>3, <1>4 DEF SweepNext

\* The files of a sweep directory and the memory of its driver hold points, rates and
\* outcomes of the sweep: no invocation leaves the trials or the rates of the spec, and a
\* replay never runs past the recorded rates.
THEOREM SweepTyped == SweepSpec => []SweepTypeOK
  <1>1. SweepInit => SearchInv /\ EngineInv
    BY StartSearches, StartEngine DEF SweepInit
  <1>2. SearchInv /\ EngineInv /\ [SweepNext]_sweepVars => SearchInv' /\ EngineInv'
    BY SearchKept, StepEngine
  <1>3. SearchInv /\ EngineInv => SweepTypeOK
    BY DEF SearchInv, OnGrid, EngineInv, FilesTyped, JobsTyped, DriverTyped, Typed, Phases,
       Specs, SweepTypeOK, Range
  <1> QED BY <1>1, <1>2, <1>3, PTL DEF SweepSpec

-----------------------------------------------------------------------------
(* A point that is done never runs again: a point begins to run only where *)
(* nothing usable is, and a retry runs its target.                         *)

AtWork ==
    /\ phase \in {"running", "swapping"} /\ Retrying => Here(at) = job.target
    /\ phase = "running" => attempt >= 1
    /\ phase = "running" /\ ~Retrying /\ attempt = 1 => ~Reusable(DirOf(job, at, trial))

LEMMA AtRest == phase' \notin {"running", "swapping"} => AtWork'
  BY DEF AtWork

LEMMA ReturnsToRest ==
    ASSUME NEW o, Returns(o)
    PROVE  phase' \notin {"running", "swapping"}
  BY DEF Returns, ToNextTrial

LEMMA StepAtWork ==
    ASSUME EngineInv, AtWork, [SweepNext]_sweepVars
    PROVE  AtWork'
  <1>1. CASE UNCHANGED sweepVars
    BY <1>1 DEF sweepVars, files, driver, AtWork, Retrying, Here, Reusable, Usable, DirOf, Multi
  <1>2. CASE Run \/ AddTrials \/ \E p \in Points : RetryPoint(p)
    BY <1>2, AtRest DEF Run, AddTrials, RetryPoint, Launch
  <1>3. CASE Interrupt \/ Kill \/ WriteResults
    BY <1>3, AtRest DEF Interrupt, Kill, WriteResults, Gone
  <1>4. CASE Deploys \/ AllTrialsDone \/ SkipTrial \/ StartReplay \/ StartSearch
             \/ EndSearch \/ EndReplay
    BY <1>4, AtRest DEF Deploys, AllTrialsDone, SkipTrial, StartReplay, StartSearch,
       EndSearch, EndReplay, ToNextTrial
  <1>5. CASE Decides
    BY <1>5, AtRest DEF Decides, driver
  <1>6. CASE StartRetry
    <2>1. /\ UNCHANGED <<job, trial>> /\ phase' = "running" /\ Retrying /\ attempt' = 1
          /\ at' = job.target[1] /\ trial = job.target[2]
      BY <1>6 DEF StartRetry
    <2>2. job.target = <<job.target[1], job.target[2]>>
      BY DEF EngineInv, JobsTyped, Specs, Points, Nowhere
    <2> QED BY <2>1, <2>2 DEF AtWork, Here, Retrying
  <1>7. ASSUME NEW r, phase \in {"searching", "replaying"}, Reuse(r) \/ StartPoint(r)
        PROVE  AtWork'
    <2>1. CASE Reuse(r)
      BY <2>1, AtRest, ReturnsToRest DEF Reuse
    <2>2. CASE StartPoint(r)
      <3>1. /\ UNCHANGED <<summary, job, trial>> /\ phase' = "running"
            /\ at' = r /\ attempt' = 1 /\ ~Reusable(DirOf(job, r, trial))
        BY <2>2 DEF StartPoint
      <3>2. ~Retrying
        BY <1>7 DEF EngineInv, Caller
      <3> QED BY <3>1, <3>2 DEF AtWork, Retrying, Reusable, Usable, DirOf, Multi
    <2> QED BY <1>7, <2>1, <2>2
  <1>8. CASE Measure
    BY <1>7, <1>8 DEF Measure
  <1>9. CASE Replay
    BY <1>7, <1>9 DEF Replay
  <1>10. CASE FailsAttempt
    <2>1. UNCHANGED <<job, trial, at, phase>> /\ phase = "running" /\ attempt' = attempt + 1
      BY <1>10 DEF FailsAttempt
    <2>2. attempt \in Nat
      BY SweepAssumption DEF EngineInv, DriverTyped
    <2> QED BY <2>1, <2>2 DEF AtWork, Retrying, Here
  <1>11. CASE EndsPoint \/ SwapIn
    <2>1. PICK o : Concludes(o)
      BY <1>11 DEF EndsPoint, SwapIn
    <2> QED BY <2>1, AtRest, ReturnsToRest DEF Concludes
  <1>12. CASE SwapOut
    BY <1>12 DEF SwapOut, AtWork, Retrying, Here
  <1> QED
    BY <1>1, <1>2, <1>3, <1>4, <1>5, <1>6, <1>8, <1>9, <1>10, <1>11, <1>12
    DEF SweepNext, DriverStep

\* The steps that write or move a summary.
LEMMA SummaryMoves ==
    ASSUME SweepNext
    PROVE  FailsAttempt \/ EndsPoint \/ SwapOut \/ SwapIn \/ UNCHANGED summary
  BY DEF SweepNext, DriverStep, Run, AddTrials, RetryPoint, Launch, Deploys, AllTrialsDone,
     SkipTrial, StartRetry, StartReplay, StartSearch, Measure, Replay, Reuse, StartPoint,
     Decides, EndSearch, EndReplay, WriteResults, Interrupt, Kill, files

\* The directory a retry swaps is that of its target.
LEMMA SwapsTarget ==
    ASSUME AtWork, Retrying, phase \in {"running", "swapping"}
    PROVE  DirOf(job, at, trial) = DirOf(job, job.target[1], job.target[2])
  <1>1. at = job.target[1] /\ trial = job.target[2]
    BY DEF AtWork, Here
  <1> QED BY <1>1

LEMMA SummaryStays ==
    ASSUME EngineInv, AtWork, SweepNext, NEW d \in Dirs, Usable(summary, d),
           ~(d \in DOMAIN summary' /\ summary'[d] = summary[d])
    PROVE  RunningIt(d) \/ RetriedWith(d)
  <1> DEFINE own == DirOf(job, at, trial)
  <1>1. CASE FailsAttempt \/ EndsPoint
    <2>1. phase = "running" /\ \E o : summary' = Written(o)
      BY <1>1 DEF FailsAttempt, EndsPoint
    <2>2. ~Retrying /\ \E o : summary' = Put(summary, own, o)
      BY <2>1 DEF Written, Usable
    <2>3. d = own
      BY <2>2 DEF Put, Usable
    <2>4. attempt \in Nat /\ attempt # 1 /\ attempt >= 1
      BY <2>1, <2>2, <2>3, SweepAssumption DEF AtWork, Reusable, EngineInv, DriverTyped
    <2> QED BY <2>1, <2>2, <2>3, <2>4 DEF RunningIt
  <1>2. CASE SwapOut
    <2>1. /\ phase = "running" /\ Retrying
          /\ summary' = Restrict(summary, DOMAIN summary \ Inside(own))
      BY <1>2 DEF SwapOut
    <2>2. d \in Inside(own)
      BY <2>1 DEF Restrict, Usable
    <2> QED BY <2>1, <2>2, SwapsTarget DEF RetriedWith
  <1>3. CASE SwapIn
    <2>1. phase = "swapping" /\ Retrying /\ summary' = Put(summary, own, staged)
      BY <1>3 DEF SwapIn, EngineInv, Caller
    <2>2. d = own
      BY <2>1 DEF Put, Usable
    <2>3. d \in Inside(own)
      BY <2>2 DEF Inside
    <2> QED BY <2>1, <2>3, SwapsTarget DEF RetriedWith
  <1>4. CASE UNCHANGED summary
    BY <1>4 DEF Usable
  <1> QED BY <1>1, <1>2, <1>3, <1>4, SummaryMoves

\* A usable summary changes only by another attempt of the _run_point of engine.py that
\* wrote it, or by a retry whose directory holds it (that of the point, and rate_R
\* for a point of trial 0): for every grid, any number of trials, invocations in
\* any order, kills and interrupts.
THEOREM PointsStayDone == SweepSpec => DonePointsStay
  <1>1. SweepInit => SearchInv /\ EngineInv /\ AtWork
    BY StartSearches, StartEngine DEF SweepInit, AtWork
  <1>2. SearchInv /\ EngineInv /\ AtWork /\ [SweepNext]_sweepVars
        => SearchInv' /\ EngineInv' /\ AtWork'
    BY SearchKept, StepEngine, StepAtWork
  <1>3. EngineInv /\ AtWork /\ [SweepNext]_sweepVars
        => [\A d \in Dirs :
              Usable(summary, d) /\ ~(d \in DOMAIN summary' /\ summary'[d] = summary[d])
              => RunningIt(d) \/ RetriedWith(d)]_sweepVars
    BY SummaryStays
  <1> QED BY <1>1, <1>2, <1>3, PTL DEF SweepSpec, DonePointsStay

-----------------------------------------------------------------------------
(* A search is a function of the answers: its variables as one value, and  *)
(* the value after an answer, or after a decision between two answers.     *)

State(st, r, good, bad, m, none, h, o, todoRates, n) ==
    [stage |-> st, rate |-> r, good |-> good, bad |-> bad, measured |-> m, none |-> none,
     healthy |-> h, over |-> o, todo |-> todoRates, passes |-> n]
Now == State(stage, rate, lastGood, firstBad, measured, noResult, healthy, over, passRates, passes)

NoResult(s, a) == IF a = "none" THEN s.none \cup {s.rate} ELSE s.none
\* How a rate is judged: alone, compared with the one before, or not at all.
Healthy(s, a, judged) ==
    IF judged = "never" \/ Saturated(a, judged = "compared") THEN s.healthy
    ELSE s.healthy \cup {s.rate}
Over(s, a, judged) ==
    IF judged # "never" /\ Saturated(a, judged = "compared") THEN s.over \cup {s.rate}
    ELSE s.over
\* After answer a: at this place, with this rate, bracket and rest of the pass.
After(s, a, st, r, good, bad, todoRates, judged) ==
    State(st, r, good, bad, s.measured \cup {s.rate}, NoResult(s, a),
          Healthy(s, a, judged), Over(s, a, judged), todoRates, s.passes)

Climbs(s, a, good, judged) ==
    LET next == s.rate + Lesser(s.rate, MaxStep) IN
    IF next <= MaxRate THEN After(s, a, "climbing", next, good, s.bad, s.todo, judged)
                       ELSE After(s, a, "abandoned", s.rate, good, s.bad, s.todo, judged)
Passes(s, a, judged) ==
    IF s.todo = <<>>
    THEN After(s, a, "rebracketing", s.rate, s.good, s.bad, s.todo, judged)
    ELSE After(s, a, "refining", Head(s.todo), s.good, s.bad, Tail(s.todo), judged)
Stops(s, a, judged) == After(s, a, "abandoned", s.rate, s.good, s.bad, s.todo, judged)

ToldLow(s, a) ==
    IF a = "dead" /\ s.stage = "halving" THEN Stops(s, a, "never")
    ELSE IF \/ a \in {"dead", "none"}
            \/ s.stage = "halving" /\ a = "worse"
            \/ Saturated(a, FALSE) /\ s.rate <= MinRate
    THEN Stops(s, a, "alone")
    ELSE IF Saturated(a, FALSE)
    THEN After(s, a, "halving", Greater(MinRate, s.rate \div 2), s.good, s.rate, s.todo, "alone")
    ELSE IF s.bad = NoRate THEN Climbs(s, a, s.rate, "alone")
    ELSE After(s, a, "narrowing", s.rate, s.rate, s.bad, s.todo, "alone")

ToldClimb(s, a) ==
    IF Saturated(a, TRUE)
    THEN After(s, a, "narrowing", s.rate, s.good, s.rate, s.todo, "compared")
    ELSE Climbs(s, a, IF a = "none" THEN s.good ELSE s.rate, "compared")

ToldPass(s, a) ==
    IF a = "dead" /\ s.rate >= s.good THEN Stops(s, a, "never")
    ELSE Passes(s, a, IF a \in {"none", "dead"} THEN "never" ELSE "alone")

Told(s, a) ==
    IF s.stage \in {"starting", "halving"} THEN ToldLow(s, a)
    ELSE IF s.stage = "climbing" THEN ToldClimb(s, a)
    ELSE ToldPass(s, a)

LEMMA NowFields ==
    /\ Now.stage = stage /\ Now.rate = rate /\ Now.good = lastGood /\ Now.bad = firstBad
    /\ Now.measured = measured /\ Now.none = noResult /\ Now.healthy = healthy
    /\ Now.over = over /\ Now.todo = passRates /\ Now.passes = passes
  BY DEF Now, State

\* What After leaves, by the verdict.
LEMMA AfterAnswer ==
    ASSUME NEW a, NEW st, NEW r, NEW good, NEW bad, NEW q, Visited(a),
           stage' = st, rate' = r, lastGood' = good, firstBad' = bad, passRates' = q,
           passes' = passes
    PROVE  /\ Unjudged => Now' = After(Now, a, st, r, good, bad, q, "never")
           /\ Judged(a, FALSE) => Now' = After(Now, a, st, r, good, bad, q, "alone")
           /\ Judged(a, TRUE) => Now' = After(Now, a, st, r, good, bad, q, "compared")
  <1>1. Now' = State(st, r, good, bad, measured', noResult', healthy', over', q, passes)
    BY DEF Now
  <1>2. measured' = Now.measured \cup {Now.rate} /\ noResult' = NoResult(Now, a)
    BY NowFields DEF Visited, NoResult
  <1>3. ASSUME NEW j, healthy' = Healthy(Now, a, j), over' = Over(Now, a, j)
        PROVE  Now' = After(Now, a, st, r, good, bad, q, j)
    BY <1>1, <1>2, <1>3, NowFields DEF After
  <1>4. ASSUME Unjudged PROVE Now' = After(Now, a, st, r, good, bad, q, "never")
    <2>1. healthy' = Healthy(Now, a, "never") /\ over' = Over(Now, a, "never")
      BY <1>4, NowFields DEF Unjudged, Healthy, Over
    <2> QED BY <1>3, <2>1
  <1>5. ASSUME Judged(a, FALSE) PROVE Now' = After(Now, a, st, r, good, bad, q, "alone")
    <2>1. healthy' = Healthy(Now, a, "alone") /\ over' = Over(Now, a, "alone")
      BY <1>5, NowFields DEF Judged, Healthy, Over, Saturated
    <2> QED BY <1>3, <2>1
  <1>6. ASSUME Judged(a, TRUE) PROVE Now' = After(Now, a, st, r, good, bad, q, "compared")
    <2>1. healthy' = Healthy(Now, a, "compared") /\ over' = Over(Now, a, "compared")
      BY <1>6, NowFields DEF Judged, Healthy, Over, Saturated
    <2> QED BY <1>3, <2>1
  <1> QED BY <1>4, <1>5, <1>6

LEMMA AnswerTells ==
    ASSUME OnGrid, NEW a, Answer(a)
    PROVE  Now' = Told(Now, a)
  <1>0. rate \in Int /\ lastGood \in Int /\ MinRate \in Int
    BY SearchAssumption, GridFacts DEF OnGrid, SearchTypeOK
  <1>1. CASE LowAbandons(a)
    <2>1. /\ Visited(a) /\ stage \in {"starting", "halving"}
          /\ stage' = "abandoned" /\ UNCHANGED <<rate, lastGood, firstBad, passRates, passes>>
          /\ \/ a = "dead" /\ stage = "halving" /\ Unjudged
             \/ /\ ~(a = "dead" /\ stage = "halving") /\ Judged(a, FALSE)
                /\ \/ a \in {"dead", "none"}
                   \/ stage = "halving" /\ a = "worse"
                   \/ Saturated(a, FALSE) /\ rate <= MinRate
      BY <1>1 DEF LowAbandons, Low, NotLoad, Abandon, bracket
    <2>2. \/ Unjudged /\ Told(Now, a) = Stops(Now, a, "never")
          \/ Judged(a, FALSE) /\ Told(Now, a) = Stops(Now, a, "alone")
      BY <2>1, NowFields DEF Told, ToldLow
    <2>3. ASSUME NEW j
          PROVE  Stops(Now, a, j)
                   = After(Now, a, "abandoned", rate, lastGood, firstBad, passRates, j)
      BY NowFields DEF Stops
    <2>4. /\ Unjudged => Now' = Stops(Now, a, "never")
          /\ Judged(a, FALSE) => Now' = Stops(Now, a, "alone")
      <3>1. /\ rate' = rate /\ lastGood' = lastGood /\ firstBad' = firstBad
            /\ passRates' = passRates /\ passes' = passes
        BY <2>1
      <3> QED BY <2>1, <2>3, <3>1, AfterAnswer
    <2> QED BY <2>2, <2>4
  <1>2. CASE Halve(a)
    <2>1. /\ Visited(a) /\ Judged(a, FALSE) /\ stage \in {"starting", "halving"}
          /\ Saturated(a, FALSE) /\ rate > MinRate
          /\ a # "dead" /\ ~(stage = "halving" /\ a = "worse")
          /\ stage' = "halving" /\ firstBad' = rate /\ rate' = Greater(MinRate, rate \div 2)
          /\ UNCHANGED <<lastGood, passRates, passes>>
      BY <1>2 DEF Halve, Low, NotLoad
    <2>2. a # "none" /\ ~(rate <= MinRate)
      BY <1>0, <2>1 DEF Saturated
    <2>3. Told(Now, a) = After(Now, a, "halving", Greater(MinRate, rate \div 2), lastGood, rate,
                               passRates, "alone")
      BY <2>1, <2>2, NowFields DEF Told, ToldLow
    <2> QED BY <2>1, <2>3, AfterAnswer
  <1>3. CASE LowServes(a)
    <2>1. /\ Visited(a) /\ Judged(a, FALSE) /\ stage \in {"starting", "halving"}
          /\ ~Saturated(a, FALSE) /\ a # "none"
          /\ lastGood' = rate /\ UNCHANGED <<firstBad, passRates, passes>>
          /\ \/ firstBad = NoRate /\ ClimbFrom(rate)
             \/ firstBad # NoRate /\ stage' = "narrowing" /\ rate' = rate
      BY <1>3 DEF LowServes, Low
    <2>2. a # "dead" /\ a # "worse"
      BY <2>1 DEF Saturated
    <2>3. CASE firstBad = NoRate
      <3>1. Told(Now, a) = Climbs(Now, a, rate, "alone")
        BY <2>1, <2>2, <2>3, NowFields DEF Told, ToldLow
      <3> QED BY <2>1, <2>3, <3>1, AfterAnswer, NowFields DEF Climbs, ClimbFrom
    <2>4. CASE firstBad # NoRate
      <3>1. Told(Now, a) = After(Now, a, "narrowing", rate, rate, firstBad, passRates, "alone")
        BY <2>1, <2>2, <2>4, NowFields DEF Told, ToldLow
      <3> QED BY <2>1, <2>4, <3>1, AfterAnswer
    <2> QED BY <2>3, <2>4
  <1>4. CASE ClimbSaturates(a)
    <2>1. Told(Now, a) = After(Now, a, "narrowing", rate, lastGood, rate, passRates, "compared")
      BY <1>4, NowFields DEF ClimbSaturates, Told, ToldClimb
    <2> QED BY <1>4, <2>1, AfterAnswer DEF ClimbSaturates
  <1>5. CASE ClimbGoesOn(a)
    <2>1. Told(Now, a) = Climbs(Now, a, IF a = "none" THEN lastGood ELSE rate, "compared")
      BY <1>5, NowFields DEF ClimbGoesOn, Told, ToldClimb
    <2> QED BY <1>5, <2>1, AfterAnswer, NowFields DEF ClimbGoesOn, Climbs, ClimbFrom
  <1>6. CASE RefineStops(a)
    <2>1. Told(Now, a) = Stops(Now, a, "never")
      BY <1>6, NowFields DEF RefineStops, Told, ToldPass
    <2> QED BY <1>6, <2>1, AfterAnswer, NowFields DEF RefineStops, Stops, Abandon, bracket
  <1>7. CASE RefineLearnsNothing(a)
    <2>1. Told(Now, a) = Passes(Now, a, "never")
      BY <1>0, <1>7, NowFields DEF RefineLearnsNothing, Told, ToldPass
    <2> QED BY <1>7, <2>1, AfterAnswer, NowFields
            DEF RefineLearnsNothing, Passes, NextOfPass, bracket
  <1>8. CASE RefineJudges(a)
    <2>1. Told(Now, a) = Passes(Now, a, "alone")
      BY <1>8, NowFields DEF RefineJudges, Told, ToldPass
    <2> QED BY <1>8, <2>1, AfterAnswer, NowFields DEF RefineJudges, Passes, NextOfPass, bracket
  <1> QED BY <1>1, <1>2, <1>3, <1>4, <1>5, <1>6, <1>7, <1>8 DEF Answer

\* What search() computes of a bracket and of the rates asked, as functions of them.
SpacingAt(good) == Greater(Tolerance * good, 100 * Resolution)
StepsIn(good, bad) == Lesser(RefineSteps, (100 * (bad - good)) \div SpacingAt(good) - 1)
RungIn(good, bad, i) ==
    Rounded(good * (StepsIn(good, bad) + 1) + (bad - good) * i, StepsIn(good, bad) + 1)
UnaskedIn(good, bad, m, r) == good < r /\ r < bad /\ r \notin m
UpperIn(good, bad, m) ==
    LET upTo[n \in 0..StepsIn(good, bad)] ==
            IF n = 0 THEN <<>>
            ELSE IF UnaskedIn(good, bad, m, RungIn(good, bad, n))
                 THEN Append(upTo[n - 1], RungIn(good, bad, n)) ELSE upTo[n - 1]
    IN upTo[StepsIn(good, bad)]
PassIn(good, bad, m) ==
    LET below == RungIn(good, bad, -1)
        upper == UpperIn(good, bad, m)
    IN  IF below > MinRate /\ below \notin m THEN <<below>> \o upper ELSE upper
Refines(s) ==
    /\ 100 * (s.bad - s.good) > SpacingAt(s.good)
    /\ MaxPasses = Unlimited \/ s.passes < MaxPasses
    /\ StepsIn(s.good, s.bad) >= 1
    /\ UpperIn(s.good, s.bad, s.measured) # <<>>

LEMMA BracketFunctions ==
    /\ Wide <=> 100 * (firstBad - lastGood) > SpacingAt(lastGood)
    /\ Steps = StepsIn(lastGood, firstBad)
    /\ Upper = UpperIn(lastGood, firstBad, measured)
    /\ PassRates = PassIn(lastGood, firstBad, measured)
  <1>1. /\ Wide <=> 100 * (firstBad - lastGood) > SpacingAt(lastGood)
        /\ Steps = StepsIn(lastGood, firstBad)
    BY DEF Wide, Span, Spacing, SpacingAt, Steps, StepsIn
  <1>2. ASSUME NEW i PROVE Rung(i) = RungIn(lastGood, firstBad, i)
    BY <1>1 DEF Rung, RungIn, Span
  <1>3. ASSUME NEW r PROVE Unasked(r) <=> UnaskedIn(lastGood, firstBad, measured, r)
    BY DEF Unasked, UnaskedIn
  <1>4. Upper = UpperIn(lastGood, firstBad, measured)
    BY DEF Upper, UpperIn, Steps, StepsIn, Rung, RungIn, Unasked, UnaskedIn, Span, Spacing,
       SpacingAt
  <1>5. PassRates = PassIn(lastGood, firstBad, measured)
    BY <1>2, <1>4 DEF PassRates, PassIn, Below
  <1> QED BY <1>1, <1>4, <1>5

Lowest(S) == CHOOSE x \in S : \A y \in S : x <= y
Highest(S) == CHOOSE x \in S : \A y \in S : y <= x
BelowFirst(s) == {r \in s.healthy : r < Lowest(s.over)}

Moves(s, st, r, good, bad, todoRates, n) ==
    State(st, r, good, bad, s.measured, s.none, s.healthy, s.over, todoRates, n)
Turned(s) ==
    IF s.stage = "rebracketing"
    THEN IF BelowFirst(s) = {}
         THEN Moves(s, "abandoned", s.rate, s.good, Lowest(s.over), s.todo, s.passes)
         ELSE Moves(s, "narrowing", s.rate, Highest(BelowFirst(s)), Lowest(s.over), s.todo,
                    s.passes)
    ELSE IF Refines(s)
    THEN LET pass == PassIn(s.good, s.bad, s.measured) IN
         Moves(s, "refining", Head(pass), s.good, s.bad, Tail(pass), s.passes + 1)
    ELSE Moves(s, "settled", s.rate, s.good, s.bad, s.todo, s.passes)

LEMMA MovesNow ==
    ASSUME NEW st, NEW r, NEW good, NEW bad, NEW q, NEW n,
           UNCHANGED <<measured, noResult, healthy, over>>,
           stage' = st, rate' = r, lastGood' = good, firstBad' = bad, passRates' = q, passes' = n
    PROVE  Now' = Moves(Now, st, r, good, bad, q, n)
  <1>1. Now' = State(st, r, good, bad, measured', noResult', healthy', over', q, n)
    BY DEF Now
  <1>2. /\ measured' = Now.measured /\ noResult' = Now.none
        /\ healthy' = Now.healthy /\ over' = Now.over
    BY NowFields
  <1> QED BY <1>1, <1>2 DEF Moves

LEMMA ChosenLowest ==
    ASSUME NEW S \in SUBSET Int, NEW x \in S
    PROVE  /\ (\A y \in S : x <= y) => x = Lowest(S)
           /\ (\A y \in S : y <= x) => x = Highest(S)
  <1>1. ASSUME \A y \in S : x <= y PROVE x = Lowest(S)
    <2>1. Lowest(S) \in S /\ \A y \in S : Lowest(S) <= y
      BY <1>1 DEF Lowest
    <2>2. Lowest(S) \in Int /\ x \in Int /\ x <= Lowest(S) /\ Lowest(S) <= x
      BY <1>1, <2>1
    <2> QED BY <2>2
  <1>2. ASSUME \A y \in S : y <= x PROVE x = Highest(S)
    <2>1. Highest(S) \in S /\ \A y \in S : y <= Highest(S)
      BY <1>2 DEF Highest
    <2>2. Highest(S) \in Int /\ x \in Int /\ x <= Highest(S) /\ Highest(S) <= x
      BY <1>2, <2>1
    <2> QED BY <2>2
  <1> QED BY <1>1, <1>2

LEMMA StepsWhole == OnGrid => Steps \in Int
  <1> SUFFICES ASSUME OnGrid PROVE Steps \in Int
    OBVIOUS
  <1>1. RefineSteps \in Nat /\ Tolerance \in Nat /\ Resolution \in Nat \ {0}
        /\ lastGood \in Nat /\ 100 * Span \in Int
    BY SearchAssumption DEF OnGrid, SearchTypeOK, Span
  <1>2. Tolerance * lastGood \in Nat
    BY <1>1
  <1>3. Spacing \in Nat \ {0}
    BY <1>1, <1>2 DEF Spacing, Greater
  <1>4. (100 * Span) \div Spacing \in Int
    BY <1>1, <1>3, Division
  <1> QED BY <1>1, <1>4 DEF Steps, Lesser

LEMMA DecideTurns ==
    ASSUME OnGrid, Decide
    PROVE  Now' = Turned(Now) /\ stage \notin Asking \cup Ended
  <1>1. CASE Settle
    <2>1. ~Refines(Now)
      <3>1. Steps \in Int
        BY StepsWhole
      <3>2. Steps >= 1 /\ Wide /\ PassesLeft => Upper = <<>>
        BY <1>1, <3>1 DEF Settle
      <3> QED BY <3>2, NowFields, BracketFunctions DEF Refines, PassesLeft
    <2>2. /\ stage = "narrowing" /\ stage' = "settled"
          /\ UNCHANGED <<measured, noResult, healthy, over>>
          /\ rate' = rate /\ lastGood' = lastGood /\ firstBad' = firstBad
          /\ passRates' = passRates /\ passes' = passes
      BY <1>1 DEF Settle, bracket
    <2>3. Now' = Moves(Now, "settled", rate, lastGood, firstBad, passRates, passes)
      BY <2>2, MovesNow
    <2> QED BY <2>1, <2>2, <2>3, NowFields DEF Turned, Asking, Ended
  <1>2. CASE BeginPass
    <2>1. Refines(Now)
      BY <1>2, NowFields, BracketFunctions DEF BeginPass, Refines, PassesLeft
    <2>2. /\ stage = "narrowing" /\ stage' = "refining"
          /\ UNCHANGED <<measured, noResult, healthy, over>>
          /\ rate' = Head(PassRates) /\ lastGood' = lastGood /\ firstBad' = firstBad
          /\ passRates' = Tail(PassRates) /\ passes' = passes + 1
      BY <1>2 DEF BeginPass, bracket
    <2>3. Now' = Moves(Now, "refining", Head(PassRates), lastGood, firstBad, Tail(PassRates),
                       passes + 1)
      BY <2>2, MovesNow
    <2> QED BY <2>1, <2>2, <2>3, NowFields, BracketFunctions DEF Turned, Asking, Ended
  <1>3. CASE Rebracket
    <2>1. over \in SUBSET Int /\ healthy \in SUBSET Int
      BY GridFacts DEF OnGrid, SearchTypeOK
    <2>2. PICK bad \in over :
              /\ \A r \in over : bad <= r
              /\ firstBad' = bad
              /\ IF GoodBelow(bad) = {}
                 THEN stage' = "abandoned" /\ UNCHANGED lastGood
                 ELSE /\ \E good \in GoodBelow(bad) :
                            /\ \A r \in GoodBelow(bad) : r <= good
                            /\ lastGood' = good
                      /\ stage' = "narrowing"
      BY <1>3 DEF Rebracket, IsFirstBad
    <2>3. bad = Lowest(over)
      BY <2>1, <2>2, ChosenLowest
    <2>4. GoodBelow(bad) = BelowFirst(Now) /\ GoodBelow(bad) \in SUBSET Int
      BY <2>1, <2>3, NowFields DEF GoodBelow, BelowFirst
    <2>5. /\ stage = "rebracketing"
          /\ UNCHANGED <<rate, measured, noResult, healthy, over, passRates, passes>>
      BY <1>3 DEF Rebracket
    <2>6. CASE GoodBelow(bad) = {}
      <3>1. stage' = "abandoned" /\ lastGood' = lastGood /\ firstBad' = Lowest(over)
        BY <2>2, <2>3, <2>6
      <3>2. Now' = Moves(Now, "abandoned", rate, lastGood, Lowest(over), passRates, passes)
        BY <2>5, <3>1, MovesNow
      <3> QED BY <2>4, <2>5, <2>6, <3>2, NowFields DEF Turned, Asking, Ended
    <2>7. CASE GoodBelow(bad) # {}
      <3>1. lastGood' = Highest(BelowFirst(Now)) /\ stage' = "narrowing"
        BY <2>2, <2>4, <2>7, ChosenLowest
      <3>2. Now' = Moves(Now, "narrowing", rate, Highest(BelowFirst(Now)), Lowest(over),
                         passRates, passes)
        BY <2>2, <2>3, <2>5, <3>1, MovesNow
      <3> QED BY <2>4, <2>5, <2>7, <3>2, NowFields DEF Turned, Asking, Ended
    <2> QED BY <2>6, <2>7
  <1> QED BY <1>1, <1>2, <1>3 DEF Decide

-----------------------------------------------------------------------------
(* A search that is resumed takes the way of its predecessor.              *)

Fresh == State("starting", StartRate, NoRate, NoRate, {}, {}, {}, {}, <<>>, 0)

LEMMA StartsFresh == (SearchInit => Now = Fresh) /\ (SearchAnew => Now' = Fresh)
  <1>1. SearchInit => Now = Fresh
    BY DEF SearchInit, Now, Fresh
  <1>2. SearchAnew => Now' = Fresh
    BY DEF SearchAnew, Now, Fresh
  <1> QED BY <1>1, <1>2

\* Where a job that is no retry has its points, what is on disk of a trial, and what a
\* search in that trial would hear about a rate.
Place(r, t) == <<r, IF BaseTrials = 1 /\ t = 0 THEN Flat ELSE t>>
Known(f, t) == {r \in Grid : Place(r, t) \in DOMAIN f}
Heard(f, r, t) == AsAnswer(f[Place(r, t)])

\* The way of a search in trial t, as far as the summaries on disk take it: it asked about
\* every rate that has one.
Follows(f, s, next, t) ==
    /\ s.stage \notin Ended
    /\ IF s.stage \in Asking THEN s.rate \in Known(f, t) /\ next = Told(s, Heard(f, s.rate, t))
                             ELSE next = Turned(s)
Way(f, p, n, t) ==
    /\ n \in Nat /\ p[0] = Fresh
    /\ \A i \in 0..n - 1 : Follows(f, p[i], p[i + 1], t)
    /\ \A i \in 0..n - 1 : p[i].stage \in Asking => p[i].rate \in p[n].measured
    /\ \A r \in Known(f, t) :
          r \in p[n].measured \/ (p[n].stage \in Asking /\ r = p[n].rate)

\* A search, and no retry, runs or waits for a point.
Searching == phase \in {"searching", "running"} /\ ~Retrying /\ ~complete
Submitted == \A j \in specs : j.target = Nowhere /\ j.offset = 0 => j.trials = BaseTrials
\* What a search asked about is recorded.
AskedInv ==
    Searching =>
        /\ measured \subseteq Range(asked)
        /\ phase = "running" => at = rate /\ stage \in Asking /\ rate \in Range(asked)
OnWay(p, n, i) == Way(summary, p, n, trial) /\ i \in 0..n /\ Now = p[i]
WayInv ==
    /\ \A d \in DOMAIN summary :
          summary[d] # "bare" /\ \E r \in Grid, t \in Trials : d = Place(r, t)
    /\ \A t \in Nat : \E n, p : Way(summary, p, n, t)
    /\ Searching => \E n, p, i : OnWay(p, n, i) /\ (phase = "running" => i = n)
ReplayInv ==
    /\ Submitted
    /\ phase = "swapping" => spoilt \/ complete
    /\ AskedInv
    /\ ~complete /\ ~spoilt => WayInv

LEMMA PlacesApart ==
    ASSUME NEW r, NEW t \in Nat, NEW r2, NEW t2 \in Nat, Place(r, t) = Place(r2, t2)
    PROVE  r = r2 /\ t = t2
  BY DEF Place, Flat

LEMMA OwnPlace ==
    ASSUME EngineInv, Submitted, ~Retrying, Measuring, NEW r
    PROVE  DirOf(job, r, trial) = Place(r, trial)
  <1> USE SweepAssumption
  <1>1. /\ trial \in Nat /\ job.offset \in Nat /\ job.trials \in Nat \ {0}
        /\ job.offset <= trial /\ trial <= job.offset + job.trials - 1
        /\ job.offset = 0 => job.trials = BaseTrials
    BY DEF EngineInv, JobsTyped, DriverTyped, Caller, Measuring, Specs, LastOfJob, Submitted,
       Retrying
  <1> QED BY <1>1 DEF DirOf, Multi, Place

\* A way goes on.
LEMMA WayExtends ==
    ASSUME NEW f, NEW t \in Nat, NEW n, NEW p, Way(f, p, n, t), NEW s, Follows(f, p[n], s, t),
           p[n].measured \subseteq s.measured,
           p[n].stage \in Asking => p[n].rate \in s.measured
    PROVE  \E q : Way(f, q, n + 1, t) /\ q[n + 1] = s
  <1> DEFINE q == [i \in 0..n + 1 |-> IF i = n + 1 THEN s ELSE p[i]]
  <1>1. n \in Nat
    BY DEF Way
  <1>2. q[n + 1] = s /\ \A i \in 0..n : q[i] = p[i]
    BY <1>1
  <1> HIDE DEF q
  <1>3. q[0] = Fresh
    BY <1>1, <1>2 DEF Way
  <1>4. ASSUME NEW i \in 0..n PROVE Follows(f, q[i], q[i + 1], t)
    <2>1. CASE i = n
      BY <1>2, <2>1
    <2>2. CASE i # n
      <3>1. i \in 0..n - 1 /\ i + 1 \in 0..n
        BY <1>1, <2>2
      <3> QED BY <1>2, <3>1 DEF Way
    <2> QED BY <2>1, <2>2
  <1>5. ASSUME NEW i \in 0..n, q[i].stage \in Asking PROVE q[i].rate \in s.measured
    <2>1. CASE i = n
      BY <1>2, <1>5, <2>1
    <2>2. CASE i # n
      <3>1. i \in 0..n - 1
        BY <1>1, <2>2
      <3> QED BY <1>2, <1>5, <3>1 DEF Way
    <2> QED BY <2>1, <2>2
  <1>6. \A r \in Known(f, t) : r \in s.measured
    BY DEF Way
  <1>7. Way(f, q, n + 1, t)
    <2>1. (n + 1) - 1 = n /\ n + 1 \in Nat
      BY <1>1
    <2> QED BY <1>2, <1>3, <1>4, <1>5, <1>6, <2>1 DEF Way
  <1> QED BY <1>2, <1>7

\* A search that is on its way stays on it.
LEMMA StaysOnWay ==
    ASSUME NEW n, NEW p, NEW i, OnWay(p, n, i), trial \in Nat,
           Follows(summary, Now, Now', trial), measured \subseteq measured',
           stage \in Asking => rate \in measured'
    PROVE  \E m, q, j : Way(summary, q, m, trial) /\ j \in 0..m /\ Now' = q[j]
  <1>1. n \in Nat
    BY DEF OnWay, Way
  <1>2. CASE i = n
    <2>1. /\ Now.measured = measured /\ Now'.measured = measured'
          /\ Now.stage = stage /\ Now.rate = rate
      BY DEF Now, State
    <2>2. Now = p[n] /\ Way(summary, p, n, trial)
      BY <1>2 DEF OnWay
    <2>3. PICK q : Way(summary, q, n + 1, trial) /\ q[n + 1] = Now'
      BY <2>1, <2>2, WayExtends
    <2>4. n + 1 \in 0..n + 1
      BY <1>1
    <2> QED BY <2>3, <2>4
  <1>3. CASE i # n
    <2>1. i \in 0..n - 1 /\ i + 1 \in 0..n
      BY <1>1, <1>3 DEF OnWay
    <2>2. Follows(summary, p[i], p[i + 1], trial) /\ p[i] = Now /\ Way(summary, p, n, trial)
      BY <2>1 DEF OnWay, Way
    <2>3. Now' = p[i + 1]
      BY <2>2 DEF Follows
    <2> QED BY <2>1, <2>2, <2>3
  <1> QED BY <1>2, <1>3

\* A way depends on the summaries of its trial alone; while it waits for a rate nothing in
\* it depends on that one.
LEMMA WayKept ==
    ASSUME NEW f, NEW g, NEW t \in Nat, NEW n, NEW p, Way(f, p, n, t), NEW S,
           \A r \in Grid \ S :
              /\ Place(r, t) \in DOMAIN g <=> Place(r, t) \in DOMAIN f
              /\ Place(r, t) \in DOMAIN f => g[Place(r, t)] = f[Place(r, t)],
           \/ S = {}
           \/ S = {p[n].rate} /\ p[n].stage \in Asking /\ p[n].rate \notin p[n].measured
    PROVE  Way(g, p, n, t)
  <1>1. ASSUME NEW r \in Grid, r \notin S
        PROVE  /\ r \in Known(g, t) <=> r \in Known(f, t)
               /\ r \in Known(f, t) => Heard(g, r, t) = Heard(f, r, t)
    BY <1>1 DEF Known, Heard
  <1>2. ASSUME NEW i \in 0..n - 1 PROVE Follows(g, p[i], p[i + 1], t)
    <2>1. /\ Follows(f, p[i], p[i + 1], t)
          /\ p[i].stage \in Asking => p[i].rate \in p[n].measured
      BY DEF Way
    <2>2. CASE p[i].stage \in Asking
      <3>1. p[i].rate \in Known(f, t) /\ p[i].rate \in Grid /\ p[i].rate \notin S
        BY <2>1, <2>2 DEF Follows, Known
      <3> QED BY <1>1, <2>1, <2>2, <3>1 DEF Follows
    <2>3. CASE p[i].stage \notin Asking
      BY <2>1, <2>3 DEF Follows
    <2> QED BY <2>2, <2>3
  <1>3. ASSUME NEW r \in Known(g, t)
        PROVE  r \in p[n].measured \/ (p[n].stage \in Asking /\ r = p[n].rate)
    <2>1. r \in Grid
      BY DEF Known
    <2> QED BY <1>1, <2>1 DEF Way
  <1> QED BY <1>2, <1>3 DEF Way

\* A step that leaves the summaries alone, or after which nothing is promised of them,
\* with no search going on afterwards.
LEMMA QuietReplays ==
    ASSUME ReplayInv, Submitted', ~Searching', phase' # "swapping" \/ spoilt' \/ complete',
           complete => complete', spoilt => spoilt',
           spoilt' \/ complete' \/ summary' = summary
    PROVE  ReplayInv'
  <1>1. AskedInv'
    BY DEF AskedInv
  <1>2. ASSUME ~complete', ~spoilt' PROVE WayInv'
    <2>1. WayInv /\ summary' = summary
      BY <1>2 DEF ReplayInv
    <2>2. ASSUME NEW t \in Nat PROVE \E n, p : Way(summary', p, n, t)
      <3>1. PICK n, p : Way(summary, p, n, t)
        BY <2>1 DEF WayInv
      <3> QED BY <2>1, <3>1, WayKept
    <2> QED BY <2>1, <2>2 DEF WayInv
  <1> QED BY <1>1, <1>2 DEF ReplayInv

LEMMA StartSearchReplays ==
    ASSUME EngineInv, ReplayInv, StartSearch
    PROVE  ReplayInv'
  <1>1. /\ phase' = "searching" /\ UNCHANGED <<summary, asked, complete, spoilt, specs, job, trial>>
        /\ SearchAnew /\ trial \in Nat
    BY DEF StartSearch, files, EngineInv, DriverTyped
  <1>2. Submitted' /\ AskedInv'
    BY <1>1 DEF ReplayInv, Submitted, AskedInv, SearchAnew
  <1>3. ASSUME ~complete', ~spoilt' PROVE WayInv'
    <2>1. WayInv
      BY <1>1, <1>3 DEF ReplayInv
    <2>2. ASSUME NEW t \in Nat PROVE \E n, p : Way(summary', p, n, t)
      <3>1. PICK n, p : Way(summary, p, n, t)
        BY <2>1 DEF WayInv
      <3> QED BY <1>1, <3>1, WayKept
    <2>3. PICK n, p : Way(summary', p, n, trial')
      BY <1>1, <2>2
    <2>4. Now' = Fresh
      BY <1>1, StartsFresh
    <2>5. OnWay(p, n, 0)'
      BY <2>3, <2>4 DEF OnWay, Way
    <2> QED BY <1>1, <2>1, <2>2, <2>5 DEF WayInv
  <1> QED BY <1>1, <1>2, <1>3 DEF ReplayInv

\* A search that goes on: what it asks is on its way, and the rest of the disk stays.
LEMMA GoesOnReplays ==
    ASSUME EngineInv, ReplayInv, ~complete, UNCHANGED <<specs, job, trial>>,
           phase' = "searching", AskedInv', Submitted',
           spoilt => spoilt',
           ~spoilt' => 
               /\ \A d \in DOMAIN summary' :
                     summary'[d] # "bare" /\ \E r \in Grid, t \in Trials : d = Place(r, t)
               /\ \A t \in Nat : \E n, p : Way(summary', p, n, t)
               /\ \E n, p, i : OnWay(p, n, i)'
    PROVE  ReplayInv'
  BY DEF ReplayInv, WayInv

LEMMA NotAsked == SearchInv /\ stage \in Asking => rate \in Grid /\ rate \notin measured
  <1> SUFFICES ASSUME SearchInv, stage \in Asking PROVE rate \in Grid /\ rate \notin measured
    OBVIOUS
  <1>1. rate \in Nat /\ \A r \in measured : r \in Nat
    BY GridFacts DEF SearchInv, OnGrid
  <1> QED BY <1>1 DEF SearchInv, AskInv, OnGrid, Asking, Unmet

LEMMA Recording ==
    ASSUME asked \in Seq(Grid), rate \in Grid, asked' = Recorded(rate)
    PROVE  Range(asked') = Range(asked) \cup {rate}
  <1>1. CASE rate \in Range(asked)
    BY <1>1 DEF Recorded, Contains, Range
  <1>2. CASE rate \notin Range(asked)
    <2>1. asked' = Append(asked, rate)
      BY <1>2 DEF Recorded, Contains, Range
    <2>2. /\ Len(asked) \in Nat /\ DOMAIN asked = 1..Len(asked)
          /\ DOMAIN asked' = 1..Len(asked) + 1
          /\ asked'[Len(asked) + 1] = rate
          /\ \A i \in 1..Len(asked) : asked'[i] = asked[i]
      BY <2>1
    <2>3. DOMAIN asked' = DOMAIN asked \cup {Len(asked) + 1}
      BY <2>2
    <2> QED BY <2>2, <2>3 DEF Range
  <1> QED BY <1>1, <1>2

\* The answer of a rate that has its summary takes the search on.
LEMMA AnswerFollows ==
    ASSUME SearchInv, stage \in Asking, NEW f, NEW t, rate \in Known(f, t),
           Answer(Heard(f, rate, t))
    PROVE  /\ Follows(f, Now, Now', t)
           /\ measured' = measured \cup {rate}
  <1>1. Now' = Told(Now, Heard(f, rate, t))
    BY AnswerTells DEF SearchInv
  <1>2. measured' = measured \cup {rate}
    BY AnswerMeets DEF Met
  <1>3. stage \notin Ended
    BY DEF Asking, Ended
  <1> QED BY <1>1, <1>2, <1>3, NowFields DEF Follows

LEMMA DecisionFollows ==
    ASSUME SearchInv, Decide, NEW f, NEW t
    PROVE  /\ Follows(f, Now, Now', t)
           /\ UNCHANGED measured /\ stage \notin Asking
  <1>1. Now' = Turned(Now) /\ stage \notin Asking \cup Ended
    BY DecideTurns DEF SearchInv
  <1>2. UNCHANGED measured
    BY DEF Decide, Settle, BeginPass, Rebracket
  <1> QED BY <1>1, <1>2, NowFields DEF Follows

\* A search goes on with the disk as it is.
LEMMA UndisturbedReplays ==
    ASSUME EngineInv, ReplayInv, Searching, phase = "searching", phase' = "searching",
           UNCHANGED <<summary, complete, spoilt, specs, job, trial>>,
           Follows(summary, Now, Now', trial), measured \subseteq measured',
           stage \in Asking => rate \in measured', measured' \subseteq Range(asked')
    PROVE  ReplayInv'
  <1>1. AskedInv' /\ Submitted' /\ trial \in Nat /\ ~complete
    BY DEF AskedInv, ReplayInv, Submitted, EngineInv, DriverTyped, Searching
  <1>2. ASSUME ~spoilt'
        PROVE  /\ \A d \in DOMAIN summary' :
                     summary'[d] # "bare" /\ \E r \in Grid, t \in Trials : d = Place(r, t)
               /\ \A t \in Nat : \E n, p : Way(summary', p, n, t)
               /\ \E n, p, i : OnWay(p, n, i)'
    <2>1. WayInv
      BY <1>1, <1>2 DEF ReplayInv
    <2>2. PICK n, p, i : OnWay(p, n, i)
      BY <2>1 DEF WayInv
    <2>3. PICK m, q, j : Way(summary, q, m, trial) /\ j \in 0..m /\ Now' = q[j]
      BY <1>1, <2>2, StaysOnWay
    <2>4. OnWay(q, m, j)'
      BY <2>3 DEF OnWay
    <2> QED BY <2>1, <2>4 DEF WayInv
  <1> QED BY <1>1, <1>2, GoesOnReplays

LEMMA DecidesReplays ==
    ASSUME SearchInv, EngineInv, ReplayInv, Decides
    PROVE  ReplayInv'
  <1>1. /\ phase = "searching" /\ Searching /\ Decide
        /\ UNCHANGED <<summary, asked, complete, spoilt, specs, job, trial, phase>>
    BY DEF Decides, files, driver, EngineInv, Caller, Searching
  <1>2. /\ Follows(summary, Now, Now', trial) /\ UNCHANGED measured /\ stage \notin Asking
    BY <1>1, DecisionFollows
  <1>3. measured' \subseteq Range(asked')
    BY <1>1, <1>2 DEF ReplayInv, AskedInv, Range
  <1> QED BY <1>1, <1>2, <1>3, UndisturbedReplays

LEMMA MeasureReplays ==
    ASSUME SearchInv, EngineInv, ReplayInv, Measure
    PROVE  ReplayInv'
  <1>1. /\ phase = "searching" /\ Searching /\ ~complete /\ ~Retrying /\ stage \in Asking
        /\ asked' = Recorded(rate) /\ (Reuse(rate) \/ StartPoint(rate))
        /\ trial \in Nat /\ asked \in Seq(Grid)
    BY DEF Measure, EngineInv, FilesTyped, DriverTyped, Caller, Searching
  <1>2. rate \in Grid /\ rate \notin measured
    BY <1>1, NotAsked
  <1>3. Range(asked') = Range(asked) \cup {rate}
    BY <1>1, <1>2, Recording
  <1>4. measured \subseteq Range(asked)
    BY <1>1 DEF ReplayInv, AskedInv
  <1>5. DirOf(job, rate, trial) = Place(rate, trial)
    BY <1>1, OwnPlace DEF ReplayInv, Measuring
  <1>6. CASE Reuse(rate)
    <2>1. /\ Place(rate, trial) \in DOMAIN summary
          /\ Returns(summary[Place(rate, trial)])
          /\ UNCHANGED <<summary, complete, spoilt, specs, job>>
      BY <1>5, <1>6 DEF Reuse, Reusable, Usable
    <2>2. /\ phase' = "searching" /\ Answer(Heard(summary, rate, trial)) /\ trial' = trial
      BY <1>1, <2>1 DEF Returns, Heard
    <2>3. /\ Follows(summary, Now, Now', trial) /\ measured' = measured \cup {rate}
      BY <1>1, <1>2, <2>1, <2>2, AnswerFollows DEF Known
    <2> QED BY <1>1, <1>3, <1>4, <2>1, <2>2, <2>3, UndisturbedReplays
  <1>7. CASE StartPoint(rate)
    <2>1. /\ phase' = "running" /\ at' = rate
          /\ UNCHANGED <<summary, complete, spoilt, specs, job, trial, searchVars>>
          /\ ~Usable(summary, Place(rate, trial))
      BY <1>5, <1>7 DEF StartPoint, Reusable
    <2>2. UNCHANGED <<stage, rate, measured>> /\ Now' = Now
      BY <2>1 DEF searchVars, bracket, Now
    <2>3. Submitted' /\ AskedInv'
      BY <1>1, <1>3, <1>4, <2>1, <2>2 DEF ReplayInv, Submitted, AskedInv
    <2>4. ASSUME ~complete', ~spoilt' PROVE WayInv'
      <3>1. WayInv
        BY <2>1, <2>4 DEF ReplayInv
      <3>2. PICK n, p, i : OnWay(p, n, i)
        BY <1>1, <3>1 DEF WayInv
      <3>3. i = n
        <4> SUFFICES ASSUME i # n PROVE FALSE
          OBVIOUS
        <4>1. i \in 0..n - 1
          BY <3>2 DEF OnWay, Way
        <4>2. Follows(summary, p[i], p[i + 1], trial) /\ p[i] = Now
          BY <3>2, <4>1 DEF OnWay, Way
        <4>3. rate \in Known(summary, trial)
          BY <1>1, <4>2, NowFields DEF Follows
        <4> QED BY <2>1, <3>1, <4>3 DEF Known, Usable, WayInv
      <3>4. OnWay(p, n, i)'
        BY <2>1, <2>2, <3>2 DEF OnWay
      <3> QED BY <2>1, <3>1, <3>3, <3>4 DEF WayInv
    <2> QED BY <2>1, <2>3, <2>4 DEF ReplayInv
  <1> QED BY <1>1, <1>6, <1>7

\* Outside a retry a point writes the summary at its place; it stands on none of the other
\* ways, and at the end of its own.
LEMMA WritesOnWay ==
    ASSUME SearchInv, EngineInv, ReplayInv, WayInv, Searching, phase = "running",
           NEW o, o # "bare", summary' = summary \/ summary' = Put(summary, Place(rate, trial), o)
    PROVE  /\ \A d \in DOMAIN summary' :
                 summary'[d] # "bare" /\ \E r \in Grid, t \in Trials : d = Place(r, t)
           /\ \A t \in Nat : \E n, p : Way(summary', p, n, t)
           /\ \E n, p : Way(summary', p, n, trial) /\ Now = p[n]
  <1>1. /\ trial \in Nat /\ trial \in Trials /\ stage \in Asking
        /\ rate \in Grid /\ rate \notin measured
    BY NotAsked, PointSuits DEF ReplayInv, AskedInv, EngineInv, DriverTyped, Measuring
  <1>2. /\ DOMAIN summary' \subseteq DOMAIN summary \cup {Place(rate, trial)}
        /\ DOMAIN summary \subseteq DOMAIN summary'
        /\ \A d \in DOMAIN summary' :
              summary'[d] = IF d = Place(rate, trial) /\ summary' # summary THEN o ELSE summary[d]
    BY DEF Put
  <1>3. \A d \in DOMAIN summary' :
           summary'[d] # "bare" /\ \E r \in Grid, t \in Trials : d = Place(r, t)
    BY <1>1, <1>2 DEF WayInv
  <1>4. PICK n, p : Way(summary, p, n, trial) /\ Now = p[n]
    BY DEF WayInv, OnWay
  <1>5. Way(summary', p, n, trial)
    <2> DEFINE S == {p[n].rate}
    <2>1. S = {rate} /\ p[n].stage \in Asking /\ p[n].rate \notin p[n].measured
      BY <1>1, <1>4, NowFields
    <2>2. ASSUME NEW r \in Grid \ S
          PROVE  /\ Place(r, trial) \in DOMAIN summary' <=> Place(r, trial) \in DOMAIN summary
                 /\ Place(r, trial) \in DOMAIN summary
                      => summary'[Place(r, trial)] = summary[Place(r, trial)]
      <3>1. Place(r, trial) # Place(rate, trial)
        BY <1>1, <2>1, PlacesApart
      <3> QED BY <1>2, <3>1
    <2> QED BY <1>1, <1>4, <2>1, <2>2, WayKept
  <1>6. ASSUME NEW t \in Nat PROVE \E m, q : Way(summary', q, m, t)
    <2>1. CASE t = trial
      BY <1>5, <2>1
    <2>2. CASE t # trial
      <3>1. PICK m, q : Way(summary, q, m, t)
        BY DEF WayInv
      <3>2. ASSUME NEW r \in Grid
            PROVE  /\ Place(r, t) \in DOMAIN summary' <=> Place(r, t) \in DOMAIN summary
                   /\ Place(r, t) \in DOMAIN summary => summary'[Place(r, t)] = summary[Place(r, t)]
        <4>1. Place(r, t) # Place(rate, trial)
          BY <1>1, <2>2, PlacesApart
        <4> QED BY <1>2, <4>1
      <3>3. Way(summary', q, m, t)
        BY <3>1, <3>2, WayKept
      <3> QED BY <3>3
    <2> QED BY <2>1, <2>2
  <1> QED BY <1>3, <1>4, <1>5, <1>6

LEMMA FailsAttemptReplays ==
    ASSUME SearchInv, EngineInv, ReplayInv, FailsAttempt
    PROVE  ReplayInv'
  <1>1. /\ phase = "running" /\ phase' = "running"
        /\ UNCHANGED <<asked, complete, spoilt, specs, job, trial, at, searchVars>>
    BY DEF FailsAttempt
  <1>2. UNCHANGED <<stage, rate, measured>> /\ Now' = Now
    BY <1>1 DEF searchVars, bracket, Now
  <1>3. Submitted' /\ AskedInv' /\ Searching' = Searching
    BY <1>1, <1>2 DEF ReplayInv, Submitted, AskedInv, Searching, Retrying
  <1>4. CASE ~Searching
    <2>1. complete' \/ summary' = summary
      BY <1>1, <1>4 DEF FailsAttempt, Written, Searching
    <2> QED BY <1>1, <1>3, <1>4, <2>1, QuietReplays
  <1>5. CASE Searching
    <2>1. PICK o : /\ o # "bare"
                   /\ summary' = summary \/ summary' = Put(summary, DirOf(job, at, trial), o)
      BY <1>5 DEF FailsAttempt, TriesAgain, Written, Searching
    <2>2. DirOf(job, at, trial) = Place(rate, trial)
      BY <1>1, <1>5, OwnPlace DEF ReplayInv, AskedInv, Searching, Measuring
    <2>3. ASSUME ~complete', ~spoilt' PROVE WayInv'
      <3>1. WayInv
        BY <1>1, <2>3 DEF ReplayInv
      <3>2. PICK n, p : Way(summary', p, n, trial) /\ Now = p[n]
        BY <1>1, <1>5, <2>1, <2>2, <3>1, WritesOnWay
      <3>3. OnWay(p, n, n)'
        BY <1>1, <1>2, <3>2 DEF OnWay, Way
      <3>4. /\ \A d \in DOMAIN summary' :
                 summary'[d] # "bare" /\ \E r \in Grid, t \in Trials : d = Place(r, t)
            /\ \A t \in Nat : \E m, q : Way(summary', q, m, t)
        BY <1>1, <1>5, <2>1, <2>2, <3>1, WritesOnWay
      <3> QED BY <3>3, <3>4 DEF WayInv
    <2> QED BY <1>1, <1>3, <2>3 DEF ReplayInv
  <1> QED BY <1>4, <1>5

LEMMA EndsPointReplays ==
    ASSUME SearchInv, EngineInv, ReplayInv, EndsPoint
    PROVE  ReplayInv'
  <1>1. PICK o : /\ ~Retrying \/ o = "error"
                 /\ summary' = Written(o)
                 /\ spoilt' = (spoilt \/ (~Retrying /\ o \in {"error", "bare"}))
                 /\ Concludes(o)
    BY DEF EndsPoint
  <1>2. /\ phase = "running" /\ UNCHANGED <<asked, complete, specs, job>>
        /\ (phase' = "writing" /\ UNCHANGED <<trial, searchVars>>) \/ Returns(o)
    BY <1>1 DEF EndsPoint, Concludes
  <1>3. Submitted' /\ Retrying' = Retrying /\ (spoilt => spoilt')
    BY <1>1, <1>2 DEF ReplayInv, Submitted, Retrying
  <1>4. CASE ~Searching
    <2>1. complete' \/ summary' = summary
      BY <1>1, <1>2, <1>4 DEF Written, Searching
    <2>2. ~Searching' /\ phase' # "swapping"
      BY <1>2, <1>3, <1>4 DEF Searching, Returns, ToNextTrial
    <2> QED BY <1>2, <1>3, <2>1, <2>2, QuietReplays
  <1>5. CASE Searching
    <2>1. /\ ~complete /\ ~Retrying /\ trial \in Nat /\ stage \in Asking /\ rate \in Grid
          /\ at = rate /\ rate \in Range(asked) /\ measured \subseteq Range(asked)
          /\ DirOf(job, at, trial) = Place(rate, trial)
      BY <1>2, <1>5, NotAsked, OwnPlace
         DEF ReplayInv, AskedInv, Searching, Measuring, EngineInv, DriverTyped
    <2>2. ASSUME ~spoilt'
          PROVE  ~spoilt /\ WayInv /\ o # "bare" /\ summary' = Put(summary, Place(rate, trial), o)
      BY <1>1, <2>1, <2>2 DEF ReplayInv, Written
    <2>3. CASE phase' = "writing" /\ UNCHANGED <<trial, searchVars>>
      <3>1. ASSUME ~complete', ~spoilt' PROVE WayInv'
        BY <1>2, <1>5, <2>2, <2>3, <3>1, WritesOnWay DEF WayInv, Searching
      <3> QED BY <1>3, <2>3, <3>1 DEF ReplayInv, AskedInv, Searching
    <2>4. CASE Returns(o)
      <3>1. phase' = "searching" /\ Answer(AsAnswer(o)) /\ trial' = trial
        BY <2>1, <2>4 DEF Returns
      <3>2. measured' = measured \cup {rate}
        BY <3>1, AnswerMeets DEF Met
      <3>3. AskedInv'
        BY <1>2, <2>1, <3>1, <3>2 DEF AskedInv
      <3>4. ASSUME ~spoilt'
            PROVE  /\ \A d \in DOMAIN summary' :
                         summary'[d] # "bare" /\ \E r \in Grid, t \in Trials : d = Place(r, t)
                   /\ \A t \in Nat : \E n, p : Way(summary', p, n, t)
                   /\ \E n, p, i : OnWay(p, n, i)'
        <4>1. PICK n, p : Way(summary', p, n, trial) /\ Now = p[n]
          BY <1>2, <1>5, <2>2, <3>4, WritesOnWay
        <4>2. Place(rate, trial) \in DOMAIN summary' /\ Heard(summary', rate, trial) = AsAnswer(o)
          BY <2>2, <3>4 DEF Put, Heard
        <4>3. Follows(summary', p[n], Now', trial)
          BY <2>1, <3>1, <4>1, <4>2, AnswerFollows DEF Known
        <4>4. p[n].measured = measured /\ p[n].rate = rate /\ Now'.measured = measured'
          BY <4>1, NowFields DEF Now, State
        <4>5. PICK q : Way(summary', q, n + 1, trial) /\ q[n + 1] = Now'
          BY <2>1, <3>2, <4>1, <4>3, <4>4, WayExtends
        <4>6. n + 1 \in 0..n + 1
          BY <4>1 DEF Way
        <4>7. OnWay(q, n + 1, n + 1)'
          BY <3>1, <4>5, <4>6 DEF OnWay
        <4>8. /\ \A d \in DOMAIN summary' :
                   summary'[d] # "bare" /\ \E r \in Grid, t \in Trials : d = Place(r, t)
              /\ \A t \in Nat : \E m, s : Way(summary', s, m, t)
          BY <1>2, <1>5, <2>2, <3>4, WritesOnWay
        <4> QED BY <4>7, <4>8
      <3> QED BY <1>2, <1>3, <2>1, <3>1, <3>3, <3>4, GoesOnReplays
    <2> QED BY <1>2, <2>3, <2>4
  <1> QED BY <1>4, <1>5

\* A later trial, or a point again: no job but the submitted one runs its trials from 0.
LEMMA LaunchReplays ==
    ASSUME EngineInv, ReplayInv, Run \/ AddTrials \/ \E p \in Points : RetryPoint(p)
    PROVE  ReplayInv'
  <1>1. PICK j : Launch(j) /\ (j.target = Nowhere /\ j.offset = 0 => j.trials = BaseTrials)
    <2>1. CASE Run
      BY <2>1 DEF Run, ReplayInv, Submitted
    <2>2. CASE AddTrials
      <3>1. PICK t \in Trials : NextTrial(t) /\ Launch([job EXCEPT !.offset = t, !.trials = 1])
        BY <2>2 DEF AddTrials
      <3>2. PICK p \in reported : p[2] = t - 1
        BY <3>1 DEF NextTrial
      <3>3. p[2] \in Nat /\ t \in Int
        BY <3>2, SweepAssumption DEF EngineInv, JobsTyped, Points, Trials
      <3>4. t # 0
        BY <3>2, <3>3
      <3>5. job \in [offset : Nat, trials : Nat \ {0}, target : Points \cup {Nowhere}]
        BY DEF EngineInv, JobsTyped, Specs
      <3>6. [job EXCEPT !.offset = t, !.trials = 1].offset # 0
        BY <3>4, <3>5
      <3> QED BY <3>1, <3>6
    <2>3. CASE \E p \in Points : RetryPoint(p)
      <3>1. PICK p \in Points : Launch([offset |-> p[2], trials |-> 1, target |-> p])
        BY <2>3 DEF RetryPoint
      <3>2. p # Nowhere
        BY GridFacts DEF Points, Nowhere, NoRate
      <3> QED BY <3>1, <3>2
    <2> QED BY <2>1, <2>2, <2>3
  <1>2. /\ phase' = "deploying" /\ specs' = specs \cup {j}
        /\ UNCHANGED <<summary, complete, spoilt>>
    BY <1>1 DEF Launch, files
  <1>3. Submitted' /\ ~Searching'
    BY <1>1, <1>2 DEF ReplayInv, Submitted, Searching
  <1> QED BY <1>2, <1>3, QuietReplays

LEMMA StepReplays ==
    ASSUME SearchInv, EngineInv, ReplayInv, [SweepNext]_sweepVars
    PROVE  ReplayInv'
  <1>1. CASE UNCHANGED sweepVars
    <2>1. /\ UNCHANGED <<summary, asked, complete, spoilt, specs, job, trial, phase, at>>
          /\ UNCHANGED <<stage, rate, measured>> /\ Now' = Now
      BY <1>1 DEF sweepVars, files, driver, searchVars, bracket, Now
    <2> QED BY <2>1 DEF ReplayInv, Submitted, AskedInv, WayInv, OnWay, Searching, Retrying
  <1>2. CASE Run \/ AddTrials \/ \E p \in Points : RetryPoint(p)
    BY <1>2, LaunchReplays
  <1>3. CASE Deploys \/ AllTrialsDone \/ SkipTrial \/ StartRetry \/ StartReplay \/ EndReplay
             \/ EndSearch \/ WriteResults \/ Interrupt \/ Kill
    <2>1. /\ UNCHANGED <<summary, specs, job, spoilt>> /\ (complete => complete')
          /\ \/ phase' \in {"combo", "writing", "replaying", "idle"}
             \/ phase' = "running" /\ Retrying
      BY <1>3 DEF Deploys, AllTrialsDone, SkipTrial, StartRetry, StartReplay, EndReplay,
         EndSearch, WriteResults, Interrupt, Kill, Gone, ToNextTrial, files
    <2>2. Submitted' /\ ~Searching'
      BY <2>1 DEF ReplayInv, Submitted, Searching, Retrying
    <2> QED BY <2>1, <2>2, QuietReplays
  <1>4. CASE SwapOut
    <2>1. /\ UNCHANGED <<specs, complete>> /\ spoilt' = (spoilt \/ ~complete)
          /\ phase' = "swapping"
      BY <1>4 DEF SwapOut
    <2>2. Submitted' /\ ~Searching' /\ complete \in BOOLEAN
      BY <2>1 DEF ReplayInv, Submitted, Searching, EngineInv, FilesTyped
    <2> QED BY <2>1, <2>2, QuietReplays
  <1>5. CASE SwapIn
    <2>1. /\ UNCHANGED <<specs, complete, spoilt, job>> /\ phase = "swapping" /\ Retrying
          /\ phase' \in {"writing", "combo"}
      BY <1>5 DEF SwapIn, Concludes, Returns, ToNextTrial, EngineInv, Caller
    <2>2. Submitted' /\ ~Searching' /\ (spoilt \/ complete)
      BY <2>1 DEF ReplayInv, Submitted, Searching
    <2> QED BY <2>1, <2>2, QuietReplays
  <1>6. CASE Replay
    <2>1. /\ phase = "replaying" /\ complete
          /\ UNCHANGED <<summary, complete, specs, job, spoilt>>
          /\ phase' # "swapping"
      BY <1>6 DEF Replay, Reuse, StartPoint, Returns, ToNextTrial, EngineInv, Caller
    <2>2. Submitted' /\ ~Searching'
      BY <2>1 DEF ReplayInv, Submitted, Searching
    <2> QED BY <2>1, <2>2, QuietReplays
  <1> QED BY <1>1, <1>2, <1>3, <1>4, <1>5, <1>6, StartSearchReplays, MeasureReplays,
          FailsAttemptReplays, EndsPointReplays, DecidesReplays DEF SweepNext, DriverStep

LEMMA StartReplays == SweepInit => ReplayInv
  <1> SUFFICES ASSUME SweepInit PROVE ReplayInv
    OBVIOUS
  <1>1. /\ summary = Nothing /\ DOMAIN summary = {} /\ specs = {BaseJob} /\ phase = "idle"
    BY DEF SweepInit, Nothing
  <1>2. Submitted /\ AskedInv /\ ~Searching
    BY <1>1 DEF Submitted, BaseJob, AskedInv, Searching
  <1>3. ASSUME NEW t \in Nat PROVE \E n, p : Way(summary, p, n, t)
    <2> DEFINE p == [i \in {0} |-> Fresh]
    <2>1. p[0] = Fresh
      OBVIOUS
    <2> HIDE DEF p
    <2>2. Known(summary, t) = {}
      BY <1>1 DEF Known
    <2>3. Way(summary, p, 0, t)
      BY <2>1, <2>2 DEF Way
    <2> QED BY <2>3
  <1> QED BY <1>1, <1>2, <1>3 DEF ReplayInv, WayInv

\* At its end a search has asked about every rate of its trial that has a summary.
LEMMA EndKnowsAll ==
    ASSUME SearchInv, EngineInv, ReplayInv, EndSearch, ~spoilt, ~complete, NEW r \in Grid,
           SummaryOf(Here(r)) # Absent
    PROVE  r \in measured
  <1>1. /\ phase = "searching" /\ stage \in Ended /\ Searching /\ trial \in Nat /\ WayInv
    BY DEF EndSearch, EngineInv, Caller, DriverTyped, Searching, ReplayInv
  <1>2. PICK n, p, i : OnWay(p, n, i)
    BY <1>1 DEF WayInv
  <1>3. i = n
    <2> SUFFICES ASSUME i # n PROVE FALSE
      OBVIOUS
    <2>1. i \in 0..n - 1
      BY <1>2 DEF OnWay, Way
    <2>2. Follows(summary, p[i], p[i + 1], trial) /\ p[i] = Now
      BY <1>2, <2>1 DEF OnWay, Way
    <2> QED BY <1>1, <2>2, NowFields DEF Follows
  <1>4. r \in Known(summary, trial)
    <2>1. PICK d : /\ d \in DOMAIN summary
                   /\ d = <<r, trial>> \/ (d = <<r, Flat>> /\ trial = 0)
      <3> DEFINE e == IF trial = 0 /\ <<r, trial>> \notin DOMAIN summary
                      THEN <<r, Flat>> ELSE <<r, trial>>
      <3>1. SummaryOf(Here(r)) = IF e \in DOMAIN summary THEN summary[e] ELSE Absent
        BY DEF SummaryOf, Here
      <3>2. e \in DOMAIN summary
        BY <3>1
      <3> QED BY <3>2
    <2>2. PICK r2 \in Grid, t2 \in Trials : d = Place(r2, t2)
      BY <1>1, <2>1 DEF WayInv
    <2>3. r2 = r
      BY <2>1, <2>2 DEF Place
    <2>4. t2 = trial
      BY <1>1, <2>1, <2>2 DEF Place, Flat, Trials
    <2> QED BY <2>1, <2>2, <2>3, <2>4 DEF Known
  <1> QED BY <1>1, <1>2, <1>3, <1>4, NowFields DEF OnWay, Way, Asking, Ended

\* However often a search is killed and resumed, it ends with the rates of one search: what
\* predecessors recorded it asks about again, in the same way.
THEOREM SearchesOnce == SweepSpec => OneSearch
  <1> DEFINE Inv == SearchInv /\ EngineInv /\ ReplayInv
             Once == phase = "searching" /\ complete' /\ ~complete /\ ~spoilt
                     /\ (\A r \in Range(asked) : SummaryOf(Here(r)) # Absent)
                     => Range(asked) = measured
  <1>1. SweepInit => Inv
    BY StartSearches, StartEngine, StartReplays DEF SweepInit
  <1>2. Inv /\ [SweepNext]_sweepVars => Inv'
    BY SearchKept, StepEngine, StepReplays
  <1>3. Inv /\ [SweepNext]_sweepVars => [Once]_sweepVars
    <2> SUFFICES ASSUME Inv, SweepNext, phase = "searching", complete', ~complete, ~spoilt,
                        \A r \in Range(asked) : SummaryOf(Here(r)) # Absent
                 PROVE  Range(asked) = measured
      OBVIOUS
    <2>1. EndSearch
      BY DEF SweepNext, DriverStep, Run, AddTrials, RetryPoint, Launch, Deploys, AllTrialsDone,
         SkipTrial, StartRetry, StartReplay, StartSearch, Measure, Replay, Reuse, StartPoint,
         FailsAttempt, EndsPoint, Concludes, SwapOut, SwapIn, Decides, EndReplay, WriteResults,
         Interrupt, Kill, files
    <2>2. measured \subseteq Range(asked) /\ Range(asked) \subseteq Grid
      BY DEF ReplayInv, AskedInv, Searching, EngineInv, Caller, FilesTyped, Range
    <2> QED BY <2>1, <2>2, EndKnowsAll
  <1> QED BY <1>1, <1>2, <1>3, PTL DEF SweepSpec, OneSearch

-----------------------------------------------------------------------------
(* The results of an invocation catch up with the summaries on disk.       *)

\* Whatever is measured, reported, replayed or retried has a recorded rate; a sweep of one
\* trial keeps trial 0 in the directory of the rate.
RecordInv ==
    /\ kills \in Nat
    /\ \A d \in DOMAIN summary : d[1] \in Range(asked) /\ (d[2] = 0 => BaseTrials > 1)
    /\ \A p \in reported : p[1] \in Range(asked)
    /\ \A j \in specs :
          /\ j.target # Nowhere => j.target[1] \in Range(asked)
          /\ j.offset = 0 => j.trials \in {1, BaseTrials}
    /\ Range(todo) \subseteq Range(asked)
    /\ phase \in {"running", "swapping"} => at \in Range(asked)
    /\ phase = "running" /\ complete /\ ~Retrying => at = Head(todo)
    /\ phase = "deploying" => trial = job.offset

\* The point is in this invocation's results as its summary has it; so is every point of
\* the trial.
Entered(r, t) ==
    /\ Place(r, t) \in DOMAIN summary
    /\ <<r, t>> \in DOMAIN entries /\ entries[<<r, t>>] = summary[Place(r, t)]
TrialEntered(t) ==
    \A r \in Grid :
        SummaryOf(<<r, t>>) # Absent
        => <<r, t>> \in DOMAIN entries /\ entries[<<r, t>>] = SummaryOf(<<r, t>>)
\* The trials this invocation is through with, and the rates of the present one.
CatchInv ==
    ~Retrying /\ ~spoilt /\ phase \notin {"idle", "deploying"} =>
        /\ \A t \in job.offset..trial - 1 : TrialEntered(t)
        /\ phase \in {"searching", "running"} /\ ~complete => \A r \in measured : Entered(r, trial)
        /\ phase \in {"replaying", "running"} /\ complete =>
              \A r \in Range(asked) \ Range(todo) : Entered(r, trial)

LEMMA TailRange ==
    ASSUME NEW s \in Seq(Grid), s # <<>>
    PROVE  /\ Head(s) \in Range(s)
           /\ Range(Tail(s)) \subseteq Range(s)
           /\ Range(s) \subseteq Range(Tail(s)) \cup {Head(s)}
  <1>1. /\ Len(s) \in Nat \ {0} /\ DOMAIN s = 1..Len(s) /\ Head(s) = s[1]
        /\ DOMAIN Tail(s) = 1..Len(s) - 1
        /\ \A i \in 1..Len(s) - 1 : Tail(s)[i] = s[i + 1]
    OBVIOUS
  <1>2. Head(s) \in Range(s)
    BY <1>1 DEF Range
  <1>3. ASSUME NEW i \in DOMAIN Tail(s) PROVE Tail(s)[i] \in Range(s)
    <2>1. i + 1 \in DOMAIN s /\ Tail(s)[i] = s[i + 1]
      BY <1>1
    <2> QED BY <2>1 DEF Range
  <1>4. ASSUME NEW i \in DOMAIN s, i # 1 PROVE s[i] \in Range(Tail(s))
    <2>1. i - 1 \in DOMAIN Tail(s) /\ Tail(s)[i - 1] = s[(i - 1) + 1] /\ (i - 1) + 1 = i
      BY <1>1, <1>4
    <2> QED BY <2>1 DEF Range
  <1>5. Range(Tail(s)) \subseteq Range(s)
    BY <1>3 DEF Range
  <1>6. Range(s) \subseteq Range(Tail(s)) \cup {Head(s)}
    BY <1>1, <1>4 DEF Range
  <1> QED BY <1>2, <1>5, <1>6

\* Where any job puts the point it runs.
LEMMA RunsRecorded ==
    ASSUME EngineInv, RecordInv, phase \in {"running", "swapping"}
    PROVE  /\ DirOf(job, at, trial)[1] \in Range(asked)
           /\ DirOf(job, at, trial)[2] = 0 => BaseTrials > 1
           /\ Here(at)[1] \in Range(asked)
  <1> USE SweepAssumption
  <1>1. /\ trial \in Nat /\ job.offset \in Nat /\ job.trials \in Nat \ {0}
        /\ job.offset <= trial /\ trial <= job.offset + job.trials - 1
        /\ job.offset = 0 => job.trials \in {1, BaseTrials}
        /\ at \in Range(asked)
    BY DEF EngineInv, JobsTyped, DriverTyped, Caller, Measuring, Specs, LastOfJob, RecordInv
  <1> QED BY <1>1 DEF DirOf, Multi, Here, Flat

LEMMA LaunchRecords ==
    ASSUME EngineInv, RecordInv, Run \/ AddTrials \/ \E p \in Points : RetryPoint(p)
    PROVE  RecordInv'
  <1>1. PICK j : /\ Launch(j)
                 /\ j.target # Nowhere => j.target[1] \in Range(asked)
                 /\ j.offset = 0 => j.trials \in {1, BaseTrials}
    <2>1. CASE Run
      BY <2>1 DEF Run, RecordInv
    <2>2. CASE AddTrials
      <3>1. PICK t \in Trials : Launch([job EXCEPT !.offset = t, !.trials = 1])
        BY <2>2 DEF AddTrials
      <3>2. job \in [offset : Nat, trials : Nat \ {0}, target : Points \cup {Nowhere}]
            /\ job \in specs
        BY DEF EngineInv, JobsTyped, Specs
      <3>3. /\ [job EXCEPT !.offset = t, !.trials = 1].trials = 1
            /\ [job EXCEPT !.offset = t, !.trials = 1].target = job.target
        BY <3>2
      <3> QED BY <3>1, <3>2, <3>3 DEF RecordInv
    <2>3. CASE \E p \in Points : RetryPoint(p)
      BY <2>3 DEF RetryPoint, RecordInv
    <2> QED BY <2>1, <2>2, <2>3
  <1>2. /\ phase' = "deploying" /\ specs' = specs \cup {j} /\ job' = j /\ trial' = j.offset
        /\ UNCHANGED <<summary, asked, kills, reported, todo>>
    BY <1>1 DEF Launch, files
  <1> QED BY <1>1, <1>2 DEF RecordInv

\* A step that measures nothing.
LEMMA QuietRecords ==
    ASSUME RecordInv, UNCHANGED <<summary, asked, specs>>, kills' \in Nat,
           \A p \in reported' : p[1] \in Range(asked),
           Range(todo') \subseteq Range(asked), phase' \notin {"running", "swapping", "deploying"}
    PROVE  RecordInv'
  BY DEF RecordInv

LEMMA MeasuresRecord ==
    ASSUME EngineInv, RecordInv, phase \in {"searching", "replaying"}, ~Retrying,
           NEW r, Reuse(r) \/ StartPoint(r),
           r \in Range(asked'), Range(asked) \subseteq Range(asked'),
           complete => todo # <<>> /\ r = Head(todo)
    PROVE  RecordInv'
  <1>1. /\ UNCHANGED <<summary, complete, specs, job, kills>> /\ trial' = trial
        /\ reported' \subseteq reported \cup {Here(r)}
        /\ \/ phase' = "running" /\ at' = r /\ todo' = todo
           \/ phase' \in {"searching", "replaying"} /\ todo' \in {todo, Tail(todo)}
              /\ (todo' = Tail(todo) => complete \/ todo' = todo)
    BY DEF Reuse, StartPoint, Returns
  <1>2. Range(todo') \subseteq Range(todo)
    BY <1>1, TailRange DEF EngineInv, DriverTyped
  <1>3. Here(r)[1] = r
    BY DEF Here
  <1> QED BY <1>1, <1>2, <1>3 DEF RecordInv, Retrying

LEMMA RunsRecord ==
    ASSUME EngineInv, RecordInv, FailsAttempt \/ EndsPoint \/ SwapOut \/ SwapIn
    PROVE  RecordInv'
  <1>1. /\ phase \in {"running", "swapping"}
        /\ UNCHANGED <<asked, complete, specs, job, kills>>
        /\ DOMAIN summary' \subseteq DOMAIN summary \cup {DirOf(job, at, trial)}
    BY DEF FailsAttempt, EndsPoint, SwapOut, SwapIn, Concludes, Written, Put, Restrict
  <1>2. CASE FailsAttempt \/ SwapOut
    <2>1. /\ UNCHANGED <<at, todo, reported>>
          /\ \/ phase = "running" /\ phase' = "running"
             \/ phase' = "swapping"
      BY <1>2 DEF FailsAttempt, SwapOut
    <2> QED BY <1>1, <2>1, RunsRecorded DEF RecordInv, Retrying
  <1>3. CASE EndsPoint \/ SwapIn
    <2>1. PICK o : Concludes(o)
      BY <1>3 DEF EndsPoint, SwapIn
    <2>2. /\ reported' \subseteq reported \cup {Here(at)}
          /\ phase' \in {"writing", "combo", "searching", "replaying"}
          /\ \/ todo' = todo
             \/ todo' = Tail(todo) /\ complete /\ ~Retrying
      BY <2>1 DEF Concludes, Returns, ToNextTrial
    <2>3. Range(todo') \subseteq Range(todo)
      <3>1. CASE todo' = todo
        BY <3>1
      <3>2. CASE todo' = Tail(todo) /\ complete /\ ~Retrying
        <4>1. phase = "running"
          BY <1>1, <3>2 DEF EngineInv, Caller
        <4> QED BY <3>2, <4>1, TailRange DEF EngineInv, DriverTyped, Caller
      <3> QED BY <2>2, <3>1, <3>2
    <2> QED BY <1>1, <2>2, <2>3, RunsRecorded DEF RecordInv
  <1> QED BY <1>2, <1>3

LEMMA StepRecords ==
    ASSUME SearchInv, EngineInv, RecordInv, [SweepNext]_sweepVars
    PROVE  RecordInv'
  <1>1. CASE UNCHANGED sweepVars
    BY <1>1 DEF sweepVars, files, driver, RecordInv, Retrying
  <1>2. CASE Run \/ AddTrials \/ \E p \in Points : RetryPoint(p)
    BY <1>2, LaunchRecords
  <1>3. CASE Deploys \/ AllTrialsDone \/ SkipTrial \/ StartReplay \/ StartSearch \/ EndReplay
             \/ EndSearch \/ Decides
    <2>1. /\ UNCHANGED <<summary, asked, specs, kills, reported>>
          /\ todo' \in {todo, asked}
          /\ phase' \in {"combo", "writing", "searching", "replaying"}
      BY <1>3 DEF Deploys, AllTrialsDone, SkipTrial, StartReplay, StartSearch, EndReplay,
         EndSearch, Decides, ToNextTrial, files, driver
    <2> QED BY <2>1, QuietRecords DEF RecordInv
  <1>4. CASE WriteResults \/ Interrupt \/ Kill
    <2>1. /\ UNCHANGED <<summary, asked, specs, reported>> /\ kills' \in {kills, kills + 1}
          /\ todo' = <<>> /\ phase' = "idle"
      BY <1>4 DEF WriteResults, Interrupt, Kill, Gone, files
    <2>2. Range(todo') = {}
      BY <2>1 DEF Range
    <2> QED BY <2>1, <2>2, QuietRecords DEF RecordInv
  <1>5. CASE StartRetry
    <2>1. /\ UNCHANGED <<summary, asked, complete, specs, job, kills, reported, todo>>
          /\ phase' = "running" /\ at' = job.target[1] /\ Retrying
      BY <1>5 DEF StartRetry, files
    <2>2. job.target[1] \in Range(asked)
      BY <2>1 DEF Retrying, RecordInv, EngineInv, JobsTyped
    <2> QED BY <2>1, <2>2 DEF RecordInv, Retrying
  <1>6. CASE Measure
    <2>1. /\ phase = "searching" /\ ~complete /\ ~Retrying /\ asked \in Seq(Grid) /\ rate \in Grid
          /\ asked' = Recorded(rate) /\ (Reuse(rate) \/ StartPoint(rate))
      BY <1>6 DEF Measure, EngineInv, Caller, FilesTyped, SearchInv, OnGrid
    <2> QED BY <2>1, Recording, MeasuresRecord
  <1>7. CASE Replay
    <2>1. /\ phase = "replaying" /\ complete /\ ~Retrying /\ todo # <<>> /\ asked' = asked
          /\ Reuse(Head(todo)) \/ StartPoint(Head(todo))
          /\ todo \in Seq(Grid)
      BY <1>7 DEF Replay, EngineInv, Caller, DriverTyped
    <2>2. Head(todo) \in Range(asked)
      BY <2>1, TailRange DEF RecordInv
    <2> QED BY <2>1, <2>2, MeasuresRecord
  <1> QED BY <1>1, <1>2, <1>3, <1>4, <1>5, <1>6, <1>7, RunsRecord DEF SweepNext, DriverStep

\* A summary at its place is what the point has.
LEMMA PlaceHasSummary ==
    ASSUME RecordInv, NEW r, NEW t \in Nat, Place(r, t) \in DOMAIN summary
    PROVE  SummaryOf(<<r, t>>) = summary[Place(r, t)]
  <1>1. CASE BaseTrials = 1 /\ t = 0
    <2>1. <<r, t>> \notin DOMAIN summary
      BY <1>1 DEF RecordInv
    <2> QED BY <1>1, <2>1 DEF SummaryOf, Place
  <1>2. CASE ~(BaseTrials = 1 /\ t = 0)
    BY <1>2 DEF SummaryOf, Place
  <1> QED BY <1>1, <1>2

\* What a point outside a retry writes touches no earlier trial and no other rate.
LEMMA WritesApart ==
    ASSUME trial \in Nat, job.offset \in Nat, trial' = trial, NEW x,
           summary' = summary \/ \E o : summary' = Put(summary, Place(x, trial), o),
           entries' = entries \/ \E o : entries' = Put(entries, <<x, trial>>, o)
    PROVE  /\ \A t \in job.offset..trial - 1 : TrialEntered(t) => TrialEntered(t)'
           /\ \A r : r # x /\ Entered(r, trial) => Entered(r, trial)'
  <1>1. ASSUME NEW d, d # Place(x, trial)
        PROVE  /\ d \in DOMAIN summary' <=> d \in DOMAIN summary
               /\ d \in DOMAIN summary => summary'[d] = summary[d]
    BY <1>1 DEF Put
  <1>2. ASSUME NEW p, p # <<x, trial>>
        PROVE  /\ p \in DOMAIN entries' <=> p \in DOMAIN entries
               /\ p \in DOMAIN entries => entries'[p] = entries[p]
    BY <1>2 DEF Put
  <1>3. ASSUME NEW t \in job.offset..trial - 1, TrialEntered(t) PROVE TrialEntered(t)'
    <2>1. t \in Nat /\ t # trial /\ trial # 0
      OBVIOUS
    <2>2. ASSUME NEW r
          PROVE  /\ <<r, t>> # Place(x, trial) /\ <<r, Flat>> # Place(x, trial)
                 /\ <<r, t>> # <<x, trial>>
      BY <2>1 DEF Place, Flat
    <2>3. ASSUME NEW r PROVE SummaryOf(<<r, t>>)' = SummaryOf(<<r, t>>)
      <3>1. /\ <<r, t>> \in DOMAIN summary' <=> <<r, t>> \in DOMAIN summary
            /\ <<r, Flat>> \in DOMAIN summary' <=> <<r, Flat>> \in DOMAIN summary
            /\ <<r, t>> \in DOMAIN summary => summary'[<<r, t>>] = summary[<<r, t>>]
            /\ <<r, Flat>> \in DOMAIN summary => summary'[<<r, Flat>>] = summary[<<r, Flat>>]
        BY <1>1, <2>2
      <3> QED BY <3>1 DEF SummaryOf
    <2>4. ASSUME NEW r PROVE /\ <<r, t>> \in DOMAIN entries' <=> <<r, t>> \in DOMAIN entries
                             /\ <<r, t>> \in DOMAIN entries
                                   => entries'[<<r, t>>] = entries[<<r, t>>]
      BY <1>2, <2>2
    <2> QED BY <1>3, <2>3, <2>4 DEF TrialEntered
  <1>4. ASSUME NEW r, r # x, Entered(r, trial) PROVE Entered(r, trial)'
    <2>1. Place(r, trial) # Place(x, trial) /\ <<r, trial>> # <<x, trial>>
      BY <1>4, PlacesApart
    <2>2. /\ Place(r, trial) \in DOMAIN summary'
          /\ summary'[Place(r, trial)] = summary[Place(r, trial)]
          /\ <<r, trial>> \in DOMAIN entries' /\ entries'[<<r, trial>>] = entries[<<r, trial>>]
      BY <1>1, <1>2, <1>4, <2>1 DEF Entered
    <2> QED BY <1>4, <2>2 DEF Entered
  <1> QED BY <1>3, <1>4

\* Steps after which no trial is looked at, or none but those it is through with.
LEMMA QuietCatches ==
    ASSUME CatchInv,
           \/ phase' \in {"idle", "deploying"}
           \/ Retrying'
           \/ spoilt'
           \/ /\ UNCHANGED <<job, spoilt, summary, entries, trial>>
              /\ phase \notin {"idle", "deploying"}
              /\ \/ phase' \in {"combo", "writing"}
                 \/ phase' = "searching" /\ measured' = {}
                 \/ phase' = "replaying" /\ todo' = asked'
    PROVE  CatchInv'
  <1>1. CASE phase' \in {"idle", "deploying"} \/ Retrying' \/ spoilt'
    BY <1>1 DEF CatchInv
  <1>2. CASE /\ UNCHANGED <<job, spoilt, summary, entries, trial>>
             /\ phase \notin {"idle", "deploying"}
             /\ \/ phase' \in {"combo", "writing"}
                \/ phase' = "searching" /\ measured' = {}
                \/ phase' = "replaying" /\ todo' = asked'
    BY <1>2 DEF CatchInv, TrialEntered, SummaryOf, Retrying
  <1> QED BY <1>1, <1>2

LEMMA EndSearchCatches ==
    ASSUME SearchInv, EngineInv, ReplayInv, RecordInv, CatchInv, EndSearch
    PROVE  CatchInv'
  <1>1. /\ phase = "searching" /\ phase' = "combo" /\ trial' = trial + 1
        /\ UNCHANGED <<summary, entries, job, spoilt>>
        /\ ~complete /\ trial \in Nat /\ job.offset \in Nat /\ ~Retrying
    BY DEF EndSearch, ToNextTrial, EngineInv, Caller, DriverTyped, JobsTyped, Specs
  <1>2. ASSUME ~spoilt PROVE TrialEntered(trial)
    <2> SUFFICES ASSUME NEW r \in Grid, SummaryOf(<<r, trial>>) # Absent
                 PROVE  /\ <<r, trial>> \in DOMAIN entries
                        /\ entries[<<r, trial>>] = SummaryOf(<<r, trial>>)
      BY DEF TrialEntered
    <2>1. r \in measured
      BY <1>1, <1>2, EndKnowsAll DEF Here
    <2>2. Entered(r, trial)
      BY <1>1, <1>2, <2>1 DEF CatchInv
    <2> QED BY <1>1, <2>2, PlaceHasSummary DEF Entered
  <1>3. ASSUME ~spoilt, NEW t \in job.offset..trial PROVE TrialEntered(t)
    <2>1. t = trial \/ t \in job.offset..trial - 1
      BY <1>1
    <2> QED BY <1>1, <1>2, <1>3, <2>1 DEF CatchInv
  <1>4. ASSUME ~spoilt', NEW t \in job'.offset..trial' - 1 PROVE TrialEntered(t)'
    <2>1. t \in job.offset..trial /\ ~spoilt
      BY <1>1, <1>4
    <2> QED BY <1>1, <1>3, <2>1 DEF TrialEntered, SummaryOf
  <1> QED BY <1>1, <1>4 DEF CatchInv

LEMMA EndReplayCatches ==
    ASSUME EngineInv, RecordInv, CatchInv, EndReplay
    PROVE  CatchInv'
  <1>1. /\ phase = "replaying" /\ phase' = "combo" /\ trial' = trial + 1 /\ todo = <<>>
        /\ UNCHANGED <<summary, entries, job, spoilt>>
        /\ complete /\ trial \in Nat /\ job.offset \in Nat /\ ~Retrying
    BY DEF EndReplay, ToNextTrial, files, EngineInv, Caller, DriverTyped, JobsTyped, Specs
  <1>2. ASSUME ~spoilt PROVE TrialEntered(trial)
    <2> SUFFICES ASSUME NEW r \in Grid, SummaryOf(<<r, trial>>) # Absent
                 PROVE  /\ <<r, trial>> \in DOMAIN entries
                        /\ entries[<<r, trial>>] = SummaryOf(<<r, trial>>)
      BY DEF TrialEntered
    <2>1. \E d \in DOMAIN summary : d[1] = r
      <3> DEFINE e == IF trial = 0 /\ <<r, trial>> \notin DOMAIN summary
                      THEN <<r, Flat>> ELSE <<r, trial>>
      <3>1. SummaryOf(<<r, trial>>) = IF e \in DOMAIN summary THEN summary[e] ELSE Absent
        BY DEF SummaryOf
      <3>2. e \in DOMAIN summary /\ e[1] = r
        BY <3>1
      <3> QED BY <3>2
    <2>2. r \in Range(asked) /\ r \notin Range(todo)
      BY <1>1, <2>1 DEF RecordInv, Range
    <2>3. Entered(r, trial)
      BY <1>1, <1>2, <2>2 DEF CatchInv
    <2> QED BY <1>1, <2>3, PlaceHasSummary DEF Entered
  <1>3. ASSUME ~spoilt, NEW t \in job.offset..trial PROVE TrialEntered(t)
    <2>1. t = trial \/ t \in job.offset..trial - 1
      BY <1>1
    <2> QED BY <1>1, <1>2, <1>3, <2>1 DEF CatchInv
  <1>4. ASSUME ~spoilt', NEW t \in job'.offset..trial' - 1 PROVE TrialEntered(t)'
    <2>1. t \in job.offset..trial /\ ~spoilt
      BY <1>1, <1>4
    <2> QED BY <1>1, <1>3, <2>1 DEF TrialEntered, SummaryOf
  <1> QED BY <1>1, <1>4 DEF CatchInv

\* A point is entered and its caller goes on.
LEMMA EnteredCatches ==
    ASSUME EngineInv, CatchInv, ~Retrying, phase \in {"searching", "replaying", "running"},
           NEW x, NEW o, Returns(o), UNCHANGED <<complete, job>>, spoilt => spoilt',
           summary' = summary \/ \E s : summary' = Put(summary, Place(x, trial), s),
           entries' = entries \/ \E s : entries' = Put(entries, <<x, trial>>, s),
           ~spoilt' => Entered(x, trial)',
           complete => x = Head(todo) /\ todo # <<>> /\ asked' = asked /\ phase # "searching",
           ~complete => x = rate /\ phase # "replaying"
    PROVE  CatchInv'
  <1>1. /\ trial \in Nat /\ job.offset \in Nat /\ todo \in Seq(Grid) /\ complete \in BOOLEAN
        /\ trial' = trial
    BY DEF EngineInv, DriverTyped, JobsTyped, Specs, FilesTyped, Returns
  <1>2. SUFFICES ASSUME ~spoilt'
                 PROVE  /\ \A t \in job.offset..trial - 1 : TrialEntered(t)'
                        /\ phase' \in {"searching", "running"} /\ ~complete
                              => \A r \in measured' : Entered(r, trial)'
                        /\ phase' \in {"replaying", "running"} /\ complete
                              => \A r \in Range(asked') \ Range(todo') : Entered(r, trial)'
    BY <1>1 DEF CatchInv
  <1>3. /\ \A t \in job.offset..trial - 1 : TrialEntered(t)
        /\ ~complete => \A r \in measured : Entered(r, trial)
        /\ complete => \A r \in Range(asked) \ Range(todo) : Entered(r, trial)
    BY <1>2 DEF CatchInv
  <1>4. /\ \A t \in job.offset..trial - 1 : TrialEntered(t) => TrialEntered(t)'
        /\ \A r : r # x /\ Entered(r, trial) => Entered(r, trial)'
    BY <1>1, WritesApart
  <1>5. ASSUME ~complete, NEW r \in measured' PROVE Entered(r, trial)'
    <2>1. Answer(AsAnswer(o))
      BY <1>5 DEF Returns
    <2>2. measured' = measured \cup {rate}
      BY <2>1, AnswerMeets DEF Met
    <2> QED BY <1>2, <1>3, <1>4, <1>5, <2>2
  <1>6. ASSUME complete, NEW r \in Range(asked') \ Range(todo') PROVE Entered(r, trial)'
    <2>1. todo' = Tail(todo) /\ todo # <<>> /\ asked' = asked
      BY <1>6 DEF Returns
    <2>2. r = x \/ r \in Range(asked) \ Range(todo)
      BY <1>1, <1>6, <2>1, TailRange
    <2> QED BY <1>2, <1>3, <1>4, <1>6, <2>2
  <1> QED BY <1>3, <1>4, <1>5, <1>6

LEMMA MeasuresCatch ==
    ASSUME EngineInv, ReplayInv, CatchInv, ~Retrying, phase \in {"searching", "replaying"},
           NEW r, Reuse(r) \/ StartPoint(r),
           phase = "searching" => ~complete /\ r = rate,
           phase = "replaying" => complete /\ r = Head(todo) /\ todo # <<>> /\ asked' = asked
    PROVE  CatchInv'
  <1>1. DirOf(job, r, trial) = Place(r, trial)
    BY OwnPlace DEF ReplayInv, Measuring
  <1>2. CASE Reuse(r)
    <2>1. /\ Place(r, trial) \in DOMAIN summary
          /\ entries' = Put(entries, <<r, trial>>, summary[Place(r, trial)])
          /\ Returns(summary[Place(r, trial)])
          /\ UNCHANGED <<summary, complete, job, spoilt>>
      BY <1>1, <1>2 DEF Reuse, Reusable, Usable, Here
    <2>2. trial' = trial
      BY <2>1 DEF Returns
    <2>3. Entered(r, trial)'
      BY <2>1, <2>2 DEF Entered, Put
    <2> QED BY <2>1, <2>3, EnteredCatches
  <1>3. CASE StartPoint(r)
    <2>1. /\ phase' = "running"
          /\ UNCHANGED <<summary, entries, complete, job, spoilt, trial, todo, searchVars>>
      BY <1>3 DEF StartPoint
    <2>2. UNCHANGED measured
      BY <2>1 DEF searchVars
    <2>3. complete => UNCHANGED asked /\ phase = "replaying"
      OBVIOUS
    <2> QED BY <2>1, <2>2, <2>3 DEF CatchInv, TrialEntered, SummaryOf, Entered, Retrying
  <1> QED BY <1>2, <1>3

LEMMA FailsAttemptCatches ==
    ASSUME SearchInv, EngineInv, ReplayInv, RecordInv, CatchInv, ~Retrying, FailsAttempt
    PROVE  CatchInv'
  <1>1. /\ phase = "running" /\ phase' = "running"
        /\ UNCHANGED <<entries, complete, job, spoilt, trial, todo, asked, searchVars>>
        /\ summary' = summary \/ \E s : summary' = Put(summary, DirOf(job, at, trial), s)
        /\ trial \in Nat /\ job.offset \in Nat /\ complete \in BOOLEAN
        /\ todo \in Seq(Grid)
    BY DEF FailsAttempt, Written, EngineInv, DriverTyped, JobsTyped, Specs, FilesTyped
  <1>2. DirOf(job, at, trial) = Place(at, trial)
    BY <1>1, OwnPlace DEF ReplayInv, Measuring
  <1>3. /\ \A t \in job.offset..trial - 1 : TrialEntered(t) => TrialEntered(t)'
        /\ \A r : r # at /\ Entered(r, trial) => Entered(r, trial)'
    BY <1>1, <1>2, WritesApart
  <1>4. UNCHANGED measured
    BY <1>1 DEF searchVars
  <1>5. ASSUME ~complete PROVE at \notin measured
    BY <1>1, <1>5, NotAsked DEF ReplayInv, AskedInv, Searching
  <1>6. ASSUME complete PROVE at \in Range(todo)
    <2>1. at = Head(todo) /\ todo # <<>>
      BY <1>1, <1>6 DEF RecordInv, EngineInv, Caller
    <2> QED BY <1>1, <2>1, TailRange
  <1>7. ASSUME ~spoilt
        PROVE  /\ \A t \in job.offset..trial - 1 : TrialEntered(t)'
               /\ ~complete => \A r \in measured : Entered(r, trial)'
               /\ complete => \A r \in Range(asked) \ Range(todo) : Entered(r, trial)'
    BY <1>1, <1>3, <1>5, <1>6, <1>7 DEF CatchInv
  <1> QED BY <1>1, <1>4, <1>7 DEF CatchInv

LEMMA EndsPointCatches ==
    ASSUME SearchInv, EngineInv, ReplayInv, RecordInv, CatchInv, ~Retrying, EndsPoint
    PROVE  CatchInv'
  <1>1. PICK o : /\ summary' = Written(o)
                 /\ spoilt' = (spoilt \/ (~Retrying /\ o \in {"error", "bare"}))
                 /\ Concludes(o)
    BY DEF EndsPoint
  <1>2. /\ phase = "running" /\ entries' = Put(entries, <<at, trial>>, o)
        /\ UNCHANGED <<complete, job, asked>>
        /\ \/ phase' = "writing" /\ trial' = trial
           \/ Returns(o) /\ trial' = trial
        /\ trial \in Nat /\ job.offset \in Nat /\ complete \in BOOLEAN
    BY <1>1 DEF EndsPoint, Concludes, Here, Returns, EngineInv, DriverTyped, JobsTyped, Specs,
       FilesTyped
  <1>3. PICK x : x = at
    OBVIOUS
  <1>4. /\ summary' = summary \/ summary' = Put(summary, Place(x, trial), o)
        /\ ~spoilt' => summary' = Put(summary, Place(x, trial), o)
        /\ entries' = Put(entries, <<x, trial>>, o)
    BY <1>1, <1>2, <1>3, OwnPlace DEF Written, ReplayInv, Measuring
  <1>5. ~spoilt' => Entered(x, trial)'
    BY <1>2, <1>4 DEF Entered, Put
  <1>6. CASE phase' = "writing"
    <2>1. \A t \in job.offset..trial - 1 : TrialEntered(t) => TrialEntered(t)'
      BY <1>2, <1>4, WritesApart
    <2> QED BY <1>1, <1>2, <1>6, <2>1 DEF CatchInv
  <1>7. CASE Returns(o)
    <2>1. /\ complete => x = Head(todo) /\ todo # <<>>
          /\ ~complete => x = rate
      BY <1>2, <1>3 DEF RecordInv, EngineInv, Caller, ReplayInv, AskedInv, Searching
    <2> QED BY <1>1, <1>2, <1>4, <1>5, <1>7, <2>1, EnteredCatches
  <1> QED BY <1>2, <1>6, <1>7

LEMMA StepCatches ==
    ASSUME SearchInv, EngineInv, ReplayInv, RecordInv, CatchInv, [SweepNext]_sweepVars
    PROVE  CatchInv'
  <1>1. CASE UNCHANGED sweepVars
    BY <1>1 DEF sweepVars, files, driver, searchVars, CatchInv, TrialEntered, SummaryOf, Entered,
       Retrying
  <1>2. CASE Run \/ AddTrials \/ (\E p \in Points : RetryPoint(p))
             \/ WriteResults \/ Interrupt \/ Kill
    <2>1. phase' \in {"idle", "deploying"}
      BY <1>2 DEF Run, AddTrials, RetryPoint, Launch, WriteResults, Interrupt, Kill, Gone
    <2> QED BY <2>1, QuietCatches
  <1>3. CASE Deploys
    <2>1. /\ UNCHANGED <<job, spoilt, summary, entries, trial>> /\ phase' \in {"combo", "writing"}
          /\ trial = job.offset /\ trial \in Nat
      BY <1>3 DEF Deploys, files, RecordInv, EngineInv, DriverTyped
    <2>2. job.offset..trial - 1 = {}
      BY <2>1
    <2> QED BY <2>1, <2>2 DEF CatchInv
  <1>4. CASE AllTrialsDone \/ StartReplay \/ StartSearch
    <2>1. /\ UNCHANGED <<job, spoilt, summary, entries, trial>> /\ phase = "combo"
          /\ \/ phase' = "writing"
             \/ phase' = "searching" /\ measured' = {}
             \/ phase' = "replaying" /\ todo' = asked'
      BY <1>4 DEF AllTrialsDone, StartReplay, StartSearch, SearchAnew, files
    <2> QED BY <2>1, QuietCatches
  <1>5. CASE Retrying /\ UNCHANGED job
    BY <1>5, QuietCatches DEF Retrying
  <1>6. CASE SkipTrial \/ StartRetry \/ SwapOut \/ SwapIn
    <2>1. Retrying /\ UNCHANGED job
      BY <1>6 DEF SkipTrial, StartRetry, SwapOut, SwapIn, Concludes, EngineInv, Caller
    <2> QED BY <1>5, <2>1
  <1>7. CASE Decides
    <2>1. /\ phase = "searching"
          /\ UNCHANGED <<job, spoilt, summary, entries, trial, phase, complete, todo, asked>>
          /\ Decide
      BY <1>7 DEF Decides, files, driver
    <2>2. UNCHANGED measured
      BY <2>1, DecisionFollows
    <2> QED BY <2>1, <2>2 DEF CatchInv, TrialEntered, SummaryOf, Entered, Retrying
  <1>8. CASE Measure
    <2>1. phase = "searching" /\ ~complete /\ ~Retrying /\ (Reuse(rate) \/ StartPoint(rate))
      BY <1>8 DEF Measure, EngineInv, Caller
    <2> QED BY <2>1, MeasuresCatch
  <1>9. CASE Replay
    <2>1. /\ phase = "replaying" /\ complete /\ ~Retrying /\ todo # <<>> /\ asked' = asked
          /\ Reuse(Head(todo)) \/ StartPoint(Head(todo))
      BY <1>9 DEF Replay, EngineInv, Caller
    <2> QED BY <2>1, MeasuresCatch
  <1>10. CASE FailsAttempt \/ EndsPoint
    <2>1. UNCHANGED job
      BY <1>10 DEF FailsAttempt, EndsPoint, Concludes
    <2> QED BY <1>5, <1>10, <2>1, FailsAttemptCatches, EndsPointCatches
  <1> QED BY <1>1, <1>2, <1>3, <1>4, <1>6, <1>7, <1>8, <1>9, <1>10, EndSearchCatches,
          EndReplayCatches DEF SweepNext, DriverStep

LEMMA StartCatches == SweepInit => RecordInv /\ CatchInv
  <1> SUFFICES ASSUME SweepInit PROVE RecordInv /\ CatchInv
    OBVIOUS
  <1>1. /\ DOMAIN summary = {} /\ specs = {BaseJob} /\ phase = "idle" /\ todo = <<>>
        /\ reported = {} /\ kills = 0
    BY DEF SweepInit, Nothing
  <1>2. Range(todo) = {}
    BY <1>1 DEF Range
  <1> QED BY <1>1, <1>2 DEF RecordInv, CatchInv, BaseJob

\* An invocation that is no retry and ends by itself leaves sweep_results.json in agreement
\* with every summary of its trials, whoever measured it: _write_results loses no point
\* that was taken off disk.
THEOREM ResultsComplete == SweepSpec => ResultsCatchUp
  <1> DEFINE Inv == SearchInv /\ EngineInv /\ ReplayInv /\ RecordInv /\ CatchInv
             Agree == phase = "writing" /\ kills' = kills /\ trial > LastOfJob /\ ~Retrying
                      /\ ~spoilt
                      => \A p \in Points :
                            p[2] \in job.offset..LastOfJob /\ SummaryOf(p) # Absent
                            => p \in DOMAIN results' /\ results'[p] = SummaryOf(p)
  <1>1. SweepInit => Inv
    BY StartSearches, StartEngine, StartReplays, StartCatches DEF SweepInit
  <1>2. Inv /\ [SweepNext]_sweepVars => Inv'
    BY SearchKept, StepEngine, StepReplays, StepRecords, StepCatches
  <1>3. Inv /\ [SweepNext]_sweepVars => [Agree]_sweepVars
    <2> SUFFICES ASSUME Inv, SweepNext, phase = "writing", kills' = kills, trial > LastOfJob,
                        ~Retrying, ~spoilt, NEW p \in Points, p[2] \in job.offset..LastOfJob,
                        SummaryOf(p) # Absent
                 PROVE  p \in DOMAIN results' /\ results'[p] = SummaryOf(p)
      OBVIOUS
    <2>1. kills + 1 # kills
      BY DEF RecordInv
    <2>2. WriteResults
      BY <2>1 DEF SweepNext, DriverStep, Run, AddTrials, RetryPoint, Launch, Deploys,
         AllTrialsDone, SkipTrial, StartRetry, StartReplay, StartSearch, Measure, Replay,
         FailsAttempt, EndsPoint, SwapOut, SwapIn, Decides, EndSearch, EndReplay, Interrupt, Kill
    <2>3. /\ trial \in Nat /\ job.offset \in Nat /\ LastOfJob \in Int
          /\ p[1] \in Grid /\ p[2] \in Int /\ p = <<p[1], p[2]>>
      BY DEF EngineInv, DriverTyped, JobsTyped, Specs, LastOfJob, Points, Trials
    <2>4. TrialEntered(p[2])
      BY <2>3 DEF CatchInv
    <2>5. p \in DOMAIN entries /\ entries[p] = SummaryOf(p)
      BY <2>3, <2>4 DEF TrialEntered
    <2> QED BY <2>2, <2>5 DEF WriteResults, Merged
  <1> QED BY <1>1, <1>2, <1>3, PTL DEF SweepSpec, ResultsCatchUp
=============================================================================
