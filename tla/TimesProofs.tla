----------------------------- MODULE TimesProofs -----------------------------
(***************************************************************************)
(* Proofs about the computations on time.  calculateTimeSlots: for every   *)
(* window, number of jobs, clock unit and draw of jitters the slots are    *)
(* spread out and within the announced time.  scheduleRetry: on words of   *)
(* any width the exponential delay is the doubled base, or what that wraps *)
(* to, up to the maximum, whatever the attempt.  LoadFromFile,             *)
(* NextExecution and IsDue: in every zone whose clocks are changed         *)
(* regularly, tasks of every interval come on the day KeepsCalendar names  *)
(* and are not due again, at every instant and for every value, where no   *)
(* midnight on the way is skipped.  Each is then an invariant of Times.    *)
(*                                                                         *)
(* The shift, the doubled base and the calendar's months are defined by    *)
(* recursion; what they are is shown by induction (Induction).             *)
(***************************************************************************)
EXTENDS Times, Induction, TLAPS

\* calculateTimeSlots.

\* The step between slots is never shorter than a second.
LEMMA IntervalType ==
  ASSUME NEW w \in Nat, NEW n \in Nat \ {0}
  PROVE Interval(w, n) \in Nat /\ Interval(w, n) >= Second
BY SecondAssumption DEF Interval

\* A jitter is less than a quarter of the step.
LEMMA JitterBound ==
  ASSUME NEW v \in Nat, NEW d \in Jitters(v), v > 0
  PROVE d \in Nat /\ 4 * d < v
BY DEF Jitters

\* The n parts of the window fit into it.
LEMMA Parts ==
  ASSUME NEW w \in Nat, NEW n \in Nat \ {0}
  PROVE  n * (w \div n) <= w
OBVIOUS

\* Consecutive jobs of a distribution start more than three quarters of a step
\* apart, in the order calculateTimeSlots returns them, for any jitters drawn.
THEOREM SlotsAreSpread ==
  ASSUME NEW w \in Nat, NEW n \in Nat \ {0, 1}, NEW draws \in JitterDraws(w, n)
  PROVE  SlotsSpread(w, n, Slots(w, n, draws))
<1> DEFINE v == Interval(w, n)
           s == Slots(w, n, draws)
<1>1. v \in Nat /\ v > 0 BY IntervalType, SecondAssumption
<1> SUFFICES ASSUME NEW i \in 0..(n - 2) PROVE 4 * (s[i + 1] - s[i]) > 3 * v
  BY DEF SlotsSpread
<1>2. i \in 0..(n - 1) /\ i + 1 \in 0..(n - 1) OBVIOUS
<1>3. /\ draws[i] \in Nat /\ 4 * draws[i] < v
      /\ draws[i + 1] \in Nat
  <2>1. draws[i] \in Jitters(v) /\ draws[i + 1] \in Jitters(v) BY <1>2 DEF JitterDraws
  <2> HIDE DEF v
  <2> QED BY <2>1, <1>1, JitterBound
<1>4. s[i + 1] = (i + 1) * v + draws[i + 1] /\ s[i] = i * v + draws[i]
  BY <1>2 DEF Slots
<1> HIDE DEF v, s
<1>5. (i + 1) * v = i * v + v BY <1>1
<1>6. i * v \in Int BY <1>1
<1> QED BY <1>1, <1>3, <1>4, <1>5, <1>6

\* No job of a distribution starts later than EstimateDistributionTime says,
\* although the last slots get a jitter too.
THEOREM SlotsAreWithinEstimate ==
  ASSUME NEW w \in Nat, NEW n \in Nat \ {0}, NEW draws \in JitterDraws(w, n)
  PROVE  SlotsWithinEstimate(w, n, Slots(w, n, draws))
<1> DEFINE v == Interval(w, n)
           s == Slots(w, n, draws)
<1>0. v \in Nat /\ v > 0 BY IntervalType, SecondAssumption
<1> SUFFICES ASSUME NEW i \in 0..(n - 1) PROVE 0 <= s[i] /\ s[i] <= Estimate(w, n)
  BY DEF SlotsWithinEstimate
<1>1. CASE n = 1 BY <1>1 DEF Slots, Estimate
<1>2. CASE n > 1
  <2>1. draws[i] \in Nat /\ 4 * draws[i] < v
    <3>1. draws[i] \in Jitters(v) BY DEF JitterDraws
    <3> HIDE DEF v
    <3> QED BY <3>1, <1>0, JitterBound
  <2>2. s[i] = i * v + draws[i] BY <1>2 DEF Slots
  <2>3. n * v <= Estimate(w, n)
    BY <1>2, Parts, SecondAssumption DEF Interval, Estimate
  <2>4. Estimate(w, n) \in Nat BY SecondAssumption DEF Estimate
  <2> HIDE DEF v, s
  <2>5. i * v \in Nat BY <1>0
  <2>6. i * v + v <= n * v
    <3>1. i + 1 <= n OBVIOUS
    <3>2. (i + 1) * v <= n * v BY <3>1, <1>0
    <3>3. (i + 1) * v = i * v + v BY <1>0
    <3> QED BY <3>2, <3>3
  <2>7. n * v \in Nat BY <1>0
  <2> QED BY <2>1, <2>2, <2>3, <2>4, <2>5, <2>6, <2>7, <1>0
<1> QED BY <1>1, <1>2

-----------------------------------------------------------------------------
\* calculateExponentialBackoff.

\* A word stays as it is.
LEMMA WrapWord == ASSUME NEW x \in Words PROVE Wrap(x) = x
<1>1. x + HalfRange \in 0..(2 * HalfRange - 1) BY HalfRangeAssumption DEF Words
<1>2. (x + HalfRange) % (2 * HalfRange) = x + HalfRange BY <1>1, HalfRangeAssumption
<1> QED BY <1>2, HalfRangeAssumption DEF Wrap, Words

\* Whatever is wrapped becomes a word.
LEMMA WrapIsWord == ASSUME NEW x \in Int PROVE Wrap(x) \in Words
BY HalfRangeAssumption DEF Wrap, Words

\* Wrapping takes a multiple of the width away.
LEMMA WrapShifts ==
  ASSUME NEW x \in Int
  PROVE  \E k \in Int : Wrap(x) = x + k * (2 * HalfRange)
<1> DEFINE w == 2 * HalfRange
           y == x + HalfRange
<1>1. w \in Nat \ {0} /\ y \in Int BY HalfRangeAssumption
<1> HIDE DEF w, y
<1>2. y % w = y - w * (y \div w) /\ y \div w \in Int BY <1>1
<1>3. Wrap(x) = x + (-(y \div w)) * w
  <2>1. Wrap(x) = (y % w) - HalfRange BY DEF Wrap, y, w
  <2>2. w * (y \div w) = (y \div w) * w BY <1>1, <1>2
  <2>3. (-(y \div w)) * w = -((y \div w) * w) BY <1>1, <1>2
  <2>4. (y \div w) * w \in Int BY <1>1, <1>2
  <2> QED BY <1>2, <2>1, <2>2, <2>3, <2>4, HalfRangeAssumption DEF y
<1> QED BY <1>2, <1>3 DEF w

\* Words that differ by a multiple of the width are the same.
LEMMA WordsDiffer ==
  ASSUME NEW x \in Words, NEW y \in Words, NEW k \in Int, x = y + k * (2 * HalfRange)
  PROVE  x = y
<1> DEFINE w == 2 * HalfRange
<1>1. w \in Nat \ {0} /\ x \in Int /\ y \in Int /\ x < y + w /\ y < x + w
  BY HalfRangeAssumption DEF Words
<1>2. x = y + k * w OBVIOUS
<1> HIDE DEF w
<1>3. k * w \in Int BY <1>1
<1>4. CASE k = 0 BY <1>1, <1>2, <1>4
<1>5. CASE k >= 1
  <2>1. k * w >= w BY <1>1, <1>5
  <2> QED BY <1>1, <1>2, <1>3, <2>1
<1>6. CASE k <= -1
  <2>1. k * w <= -w BY <1>1, <1>6
  <2> QED BY <1>1, <1>2, <1>3, <2>1
<1> QED BY <1>4, <1>5, <1>6

\* So numbers that differ by a multiple of the width wrap to the same word.
LEMMA WrapSame ==
  ASSUME NEW x \in Int, NEW y \in Int, NEW k \in Int, x = y + k * (2 * HalfRange)
  PROVE  Wrap(x) = Wrap(y)
<1>1. PICK i \in Int : Wrap(x) = x + i * (2 * HalfRange) BY WrapShifts
<1>2. PICK j \in Int : Wrap(y) = y + j * (2 * HalfRange) BY WrapShifts
<1>3. Wrap(x) = Wrap(y) + (k + i - j) * (2 * HalfRange)
  <2> DEFINE w == 2 * HalfRange
  <2>1. w \in Int BY HalfRangeAssumption
  <2>2. Wrap(x) = x + i * w /\ Wrap(y) = y + j * w /\ x = y + k * w BY <1>1, <1>2
  <2> HIDE DEF w
  <2>3. (k + i - j) * w = k * w + i * w - j * w BY <2>1
  <2>4. k * w \in Int /\ i * w \in Int /\ j * w \in Int BY <2>1
  <2> QED BY <2>2, <2>3, <2>4 DEF w
<1> QED BY <1>3, WrapIsWord, WordsDiffer

\* The shift, position by position.
LEMMA ShiftedRecursion ==
  /\ Shifted[0] = 1
  /\ \A n \in Nat : Shifted[n] \in Int /\ Shifted[n + 1] = Wrap(2 * Shifted[n])
<1> DEFINE next == [p \in Nat \X Int |-> Wrap(2 * p[2])]
<1>1. \A x \in Int : Wrap(x) \in Int BY HalfRangeAssumption DEF Wrap
<1>2. next \in [Nat \X Int -> Int] BY <1>1
<1>3. \A n \in Nat, v \in Int : next[<<n, v>>] = Wrap(2 * v) OBVIOUS
<1> HIDE DEF next
<1>4. PICK f \in [Nat -> Int] : Defines(f, 1, next) BY <1>2, IntegerRecursion
<1>5. f = [n \in Nat |-> IF n = 0 THEN 1 ELSE Wrap(2 * f[n - 1])]
  <2>1. ASSUME NEW n \in Nat, n # 0 PROVE next[<<n - 1, f[n - 1]>>] = Wrap(2 * f[n - 1])
    BY <2>1, <1>3
  <2> QED BY <1>4, <2>1 DEF Defines
<1>6. Shifted = [n \in Nat |-> IF n = 0 THEN 1 ELSE Wrap(2 * Shifted[n - 1])]
  BY <1>5 DEF Shifted
<1>7. Shifted[0] = 1 /\ \A n \in Nat : Shifted[n + 1] = Wrap(2 * Shifted[n]) BY <1>6
<1>8. \A n \in Nat : Shifted[n] \in Int
  <2>1. Shifted[0] \in Int /\ \A n \in Nat : Shifted[n] \in Int => Shifted[n + 1] \in Int
    BY <1>1, <1>7
  <2> QED BY <2>1, IntegerValues
<1> QED BY <1>7, <1>8

\* The same without a width.
LEMMA DoubledRecursion ==
  /\ Doubled[0] = 1
  /\ \A n \in Nat : Doubled[n] \in Int /\ Doubled[n + 1] = 2 * Doubled[n]
<1> DEFINE next == [p \in Nat \X Int |-> 2 * p[2]]
<1>1. next \in [Nat \X Int -> Int] OBVIOUS
<1>2. \A n \in Nat, v \in Int : next[<<n, v>>] = 2 * v OBVIOUS
<1> HIDE DEF next
<1>3. PICK f \in [Nat -> Int] : Defines(f, 1, next) BY <1>1, IntegerRecursion
<1>4. f = [n \in Nat |-> IF n = 0 THEN 1 ELSE 2 * f[n - 1]]
  <2>1. ASSUME NEW n \in Nat, n # 0 PROVE next[<<n - 1, f[n - 1]>>] = 2 * f[n - 1]
    BY <2>1, <1>2
  <2> QED BY <1>3, <2>1 DEF Defines
<1>5. Doubled = [n \in Nat |-> IF n = 0 THEN 1 ELSE 2 * Doubled[n - 1]] BY <1>4 DEF Doubled
<1>6. Doubled[0] = 1 /\ \A n \in Nat : Doubled[n + 1] = 2 * Doubled[n] BY <1>5
<1>7. \A n \in Nat : Doubled[n] \in Int
  <2>1. Doubled[0] \in Int /\ \A n \in Nat : Doubled[n] \in Int => Doubled[n + 1] \in Int
    BY <1>6
  <2> QED BY <2>1, IntegerValues
<1> QED BY <1>6, <1>7

\* The shift gives the power of two, but for a multiple of the width.
LEMMA ShiftIsPower ==
  ASSUME NEW n \in Nat
  PROVE  /\ Doubled[n] >= 1
         /\ \E k \in Int : Shifted[n] = Doubled[n] + k * (2 * HalfRange)
<1> DEFINE Congruent(i) == \E k \in Int : Shifted[i] = Doubled[i] + k * (2 * HalfRange)
           S == {i \in Nat : Doubled[i] >= 1 /\ Congruent(i)}
<1>1. 0 \in S
  <2>1. Shifted[0] = Doubled[0] + 0 * (2 * HalfRange)
    BY ShiftedRecursion, DoubledRecursion, HalfRangeAssumption
  <2> QED BY <2>1, DoubledRecursion
<1>2. ASSUME NEW i \in S PROVE i + 1 \in S
  <2>1. /\ Doubled[i] \in Int /\ Doubled[i + 1] = 2 * Doubled[i] /\ Doubled[i] >= 1
        /\ Shifted[i] \in Int /\ Shifted[i + 1] = Wrap(2 * Shifted[i])
    BY ShiftedRecursion, DoubledRecursion
  <2>2. PICK k \in Int : Shifted[i] = Doubled[i] + k * (2 * HalfRange) OBVIOUS
  <2>3. PICK j \in Int : Wrap(2 * Shifted[i]) = 2 * Shifted[i] + j * (2 * HalfRange)
    BY <2>1, WrapShifts
  <2>4. Shifted[i + 1] = Doubled[i + 1] + (2 * k + j) * (2 * HalfRange)
    <3> DEFINE w == 2 * HalfRange
    <3>1. w \in Int BY HalfRangeAssumption
    <3>2. Shifted[i] = Doubled[i] + k * w /\ Shifted[i + 1] = 2 * Shifted[i] + j * w
      BY <2>1, <2>2, <2>3
    <3> HIDE DEF w
    <3>3. (2 * k + j) * w = 2 * (k * w) + j * w /\ k * w \in Int /\ j * w \in Int BY <3>1
    <3> QED BY <2>1, <3>2, <3>3 DEF w
  <2> QED BY <2>1, <2>4
<1> HIDE DEF S
<1>3. S = Nat
  <2>1. S \in SUBSET Nat BY DEF S
  <2> QED BY <2>1, <1>1, <1>2, SetInduction
<1> QED BY <1>3 DEF S

\* scheduleRetry's exponential delay for any attempt: the base doubled for each
\* attempt after the first, or the word that wraps to, cut off at the maximum.
THEOREM DelaysAreConfigured ==
  ASSUME NEW n \in Nat \ {0}, NEW b \in Nat \cap Words, NEW max \in Words
  PROVE  DelayAsConfigured(n, b, max)
<1> DEFINE delay == ExponentialBackoff(n, b, max)
           power == Doubled[n - 1]
           intended == b * power
<1> SUFFICES ASSUME b <= max
             PROVE  /\ intended < HalfRange => delay = Smaller(intended, max)
                    /\ delay = Smaller(Wrap(intended), max)
  BY DEF DelayAsConfigured, RetryDelay
<1>1. b \in Nat /\ b \in Words /\ max \in Int /\ n - 1 \in Nat BY HalfRangeAssumption DEF Words
<1>2. power \in Int /\ power >= 1 BY <1>1, DoubledRecursion, ShiftIsPower
<1> HIDE DEF power
<1>3. intended \in Nat BY <1>1, <1>2
<1>4. intended < HalfRange => Wrap(intended) = intended
  <2> HIDE DEF intended
  <2>1. intended < HalfRange => intended \in Words BY <1>3, HalfRangeAssumption DEF Words
  <2> QED BY <2>1, WrapWord
<1>5. CASE n = 1
  <2>1. delay = b BY <1>5 DEF ExponentialBackoff
  <2>2. intended = b BY <1>1, <1>5, DoubledRecursion DEF power
  <2>3. Wrap(b) = b BY <1>1, WrapWord
  <2> QED BY <2>1, <2>2, <2>3, <1>1 DEF Smaller
<1>6. CASE n # 1
  <2>1. delay = Capped(Shifted[n - 1], b, max) BY <1>6 DEF ExponentialBackoff
  <2>2. PICK k \in Int : Shifted[n - 1] = power + k * (2 * HalfRange)
    BY <1>1, ShiftIsPower DEF power
  <2>3. Shifted[n - 1] * b = intended + (k * b) * (2 * HalfRange)
    <3> DEFINE w == 2 * HalfRange
    <3>1. w \in Int BY HalfRangeAssumption
    <3>2. Shifted[n - 1] = power + k * w BY <2>2
    <3> HIDE DEF w
    <3>3. (power + k * w) * b = b * power + (k * b) * w BY <1>1, <1>2, <3>1
    <3> QED BY <3>2, <3>3 DEF w
  <2>4. Wrap(Shifted[n - 1] * b) = Wrap(intended)
    <3>1. Shifted[n - 1] * b \in Int /\ k * b \in Int BY <1>1, ShiftedRecursion
    <3> HIDE DEF intended
    <3> QED BY <1>3, <2>3, <3>1, WrapSame
  <2>5. Wrap(intended) \in Int BY <1>3, WrapIsWord, HalfRangeAssumption DEF Words
  <2> HIDE DEF delay, intended
  <2>6. delay = Smaller(Wrap(intended), max)
    BY <1>1, <2>1, <2>4, <2>5 DEF Capped, Smaller
  <2> QED BY <1>4, <2>6
<1> QED BY <1>5, <1>6

-----------------------------------------------------------------------------
\* The calendar.

\* How long a month is, and that a short one is followed by one of 31 days.
LEMMA MonthLengths ==
  ASSUME NEW m \in Nat
  PROVE  /\ MonthLength(m) \in 28..31
         /\ MonthLength(m) < 31 => MonthLength(m + 1) = 31
<1>1. MonthLength(m) \in 28..31 BY DEF MonthLength
<1>2. ASSUME MonthLength(m) < 31 PROVE MonthLength(m + 1) = 31
  <2>1. m % 12 \in {1, 3, 5, 8, 10} BY <1>2 DEF MonthLength
  <2>2. (m + 1) % 12 \in {2, 4, 6, 9, 11} BY <2>1
  <2> QED BY <2>2 DEF MonthLength
<1> QED BY <1>1, <1>2

\* A month begins where the one before ends.
LEMMA FirstOfRecursion ==
  /\ FirstOf[0] = 0
  /\ \A m \in Nat : FirstOf[m] \in Int /\ FirstOf[m + 1] = FirstOf[m] + MonthLength(m)
<1> DEFINE next == [p \in Nat \X Int |-> p[2] + MonthLength(p[1])]
<1>1. \A m \in Nat : MonthLength(m) \in Int BY MonthLengths
<1>2. next \in [Nat \X Int -> Int] BY <1>1
<1>3. \A m \in Nat, v \in Int : next[<<m, v>>] = v + MonthLength(m) OBVIOUS
<1> HIDE DEF next
<1>4. PICK f \in [Nat -> Int] : Defines(f, 0, next) BY <1>2, IntegerRecursion
<1>5. f = [m \in Nat |-> IF m = 0 THEN 0 ELSE f[m - 1] + MonthLength(m - 1)]
  <2>1. ASSUME NEW m \in Nat, m # 0
        PROVE  next[<<m - 1, f[m - 1]>>] = f[m - 1] + MonthLength(m - 1)
    BY <2>1, <1>3
  <2> QED BY <1>4, <2>1 DEF Defines
<1>6. FirstOf = [m \in Nat |-> IF m = 0 THEN 0 ELSE FirstOf[m - 1] + MonthLength(m - 1)]
  BY <1>5 DEF FirstOf
<1>7. FirstOf[0] = 0 /\ \A m \in Nat : FirstOf[m + 1] = FirstOf[m] + MonthLength(m) BY <1>6
<1>8. \A m \in Nat : FirstOf[m] \in Int
  <2> DEFINE b == FirstOf
  <2>1. b[0] \in Int /\ \A m \in Nat : b[m] \in Int => b[m + 1] \in Int BY <1>1, <1>7
  <2> HIDE DEF b
  <2>2. \A m \in Nat : b[m] \in Int BY <2>1, IntegerValues
  <2> QED BY <2>2 DEF b
<1> QED BY <1>7, <1>8

\* After m months 28m to 31m days have passed.
LEMMA FirstOfBounds ==
  ASSUME NEW m \in Nat
  PROVE  28 * m <= FirstOf[m] /\ FirstOf[m] <= 31 * m
<1> DEFINE S == {i \in Nat : 28 * i <= FirstOf[i] /\ FirstOf[i] <= 31 * i}
<1>1. 0 \in S BY FirstOfRecursion
<1>2. ASSUME NEW i \in S PROVE i + 1 \in S
  <2>1. MonthLength(i) \in 28..31 BY MonthLengths
  <2> QED BY <2>1, FirstOfRecursion
<1> HIDE DEF S
<1>3. S = Nat
  <2>1. S \in SUBSET Nat BY DEF S
  <2> QED BY <2>1, <1>1, <1>2, SetInduction
<1> QED BY <1>3 DEF S

\* Later months begin later.
LEMMA LaterMonth ==
  ASSUME NEW m \in Nat, NEW n \in Nat, m < n
  PROVE  FirstOf[m] + MonthLength(m) <= FirstOf[n]
<1> DEFINE S == {i \in Nat : FirstOf[m + 1] <= FirstOf[m + 1 + i]}
<1>1. 0 \in S BY FirstOfRecursion
<1>2. ASSUME NEW i \in S PROVE i + 1 \in S
  <2>1. m + 1 + i \in Nat /\ m + 1 \in Nat OBVIOUS
  <2>2. MonthLength(m + 1 + i) \in 28..31 BY <2>1, MonthLengths
  <2>3. FirstOf[(m + 1 + i) + 1] = FirstOf[m + 1 + i] + MonthLength(m + 1 + i)
        /\ FirstOf[m + 1 + i] \in Int /\ FirstOf[m + 1] \in Int
    BY <2>1, FirstOfRecursion
  <2> QED BY <2>2, <2>3
<1> HIDE DEF S
<1>3. S = Nat
  <2>1. S \in SUBSET Nat BY DEF S
  <2> QED BY <2>1, <1>1, <1>2, SetInduction
<1>4. n - (m + 1) \in S BY <1>3
<1>5. FirstOf[m + 1] <= FirstOf[n] BY <1>4 DEF S
<1> QED BY <1>5, FirstOfRecursion

\* The days of a month.
In(m, day) == FirstOf[m] <= day /\ day < FirstOf[m] + MonthLength(m)

\* Every day is in a month.
LEMMA EveryDayHasAMonth == ASSUME NEW day \in Nat PROVE \E m \in Nat : In(m, day)
<1> DEFINE S == {d \in Nat : \E m \in Nat : In(m, d)}
<1>1. 0 \in S
  <2>1. MonthLength(0) \in 28..31 BY MonthLengths
  <2> QED BY <2>1, FirstOfRecursion DEF In
<1>2. ASSUME NEW d \in S PROVE d + 1 \in S
  <2>1. PICK m \in Nat : In(m, d) OBVIOUS
  <2>2. MonthLength(m) \in 28..31 /\ MonthLength(m + 1) \in 28..31 BY MonthLengths
  <2>3. FirstOf[m] \in Int /\ FirstOf[m + 1] = FirstOf[m] + MonthLength(m)
    BY FirstOfRecursion
  <2>4. In(m, d + 1) \/ In(m + 1, d + 1) BY <2>1, <2>2, <2>3 DEF In
  <2> QED BY <2>4
<1> HIDE DEF S
<1>3. S = Nat
  <2>1. S \in SUBSET Nat BY DEF S
  <2> QED BY <2>1, <1>1, <1>2, SetInduction
<1> QED BY <1>3 DEF S

\* MonthOf finds it.
LEMMA MonthOfIs == ASSUME NEW day \in Nat, NEW m \in Nat, In(m, day) PROVE MonthOf(day) = m
<1>1. m \in (day \div 31)..(day \div 28)
  <2>1. 28 * m <= FirstOf[m] /\ FirstOf[m] <= 31 * m /\ FirstOf[m] \in Int
    BY FirstOfBounds, FirstOfRecursion
  <2>2. MonthLength(m) \in 28..31 BY MonthLengths
  <2> QED BY <2>1, <2>2 DEF In
<1>2. ASSUME NEW n \in (day \div 31)..(day \div 28), In(n, day) PROVE n = m
  <2>1. n \in Nat OBVIOUS
  <2>2. FirstOf[n] \in Int /\ FirstOf[m] \in Int BY <2>1, FirstOfRecursion
  <2>3. MonthLength(n) \in Int /\ MonthLength(m) \in Int BY <2>1, MonthLengths
  <2>4. ~(n < m) /\ ~(m < n) BY <2>1, <2>2, <2>3, <1>2, LaterMonth DEF In
  <2> QED BY <2>1, <2>4
<1> QED BY <1>1, <1>2 DEF MonthOf, In

\* A day is in its month, at its date.
LEMMA MonthOfType ==
  ASSUME NEW day \in Nat
  PROVE  /\ MonthOf(day) \in Nat
         /\ In(MonthOf(day), day)
         /\ DateOf(day) \in 1..31
         /\ day = FirstOf[MonthOf(day)] + DateOf(day) - 1
<1>1. PICK m \in Nat : In(m, day) BY EveryDayHasAMonth
<1>2. MonthOf(day) = m BY <1>1, MonthOfIs
<1>3. MonthLength(m) \in 28..31 /\ FirstOf[m] \in Int BY MonthLengths, FirstOfRecursion
<1> QED BY <1>1, <1>2, <1>3 DEF DateOf, In

\* AddDate takes a day to the month it adds or, where that has no such day, to the
\* month after, which then has 31 days: so NextMonthly finds the same date there, in
\* the first month that has it.
LEMMA SameDate ==
  ASSUME NEW day \in Nat, NEW n \in Nat \ {0}
  PROVE  LET landing == MonthsLater(day, n)
             same == DayIn(MonthOf(landing), DateOf(day))
         IN  /\ landing \in Nat \ {0}
             /\ same \in Nat
             /\ day < same
             /\ DateOf(same) = DateOf(day)
             /\ MonthOf(same) = MonthWithDate(day, n)
<1> DEFINE m == MonthOf(day)
           date == DateOf(day)
           landing == MonthsLater(day, n)
           same == DayIn(MonthOf(landing), date)
<1>1. m \in Nat /\ date \in 1..31 /\ day = FirstOf[m] + date - 1 BY MonthOfType
<1>2. landing = FirstOf[m + n] + date - 1 BY DEF MonthsLater, DayIn
<1> HIDE DEF m, date, landing
<1>3. m + n \in Nat /\ m + n + 1 \in Nat /\ m < m + n /\ m < m + n + 1 BY <1>1
<1>4. /\ MonthLength(m) \in 28..31 /\ MonthLength(m + n) \in 28..31
      /\ MonthLength(m + n) < 31 => MonthLength(m + n + 1) = 31
  BY <1>1, <1>3, MonthLengths
<1>5. /\ FirstOf[m] \in Int /\ FirstOf[m + n] \in Int /\ FirstOf[m + n + 1] \in Int
      /\ FirstOf[m + n + 1] = FirstOf[m + n] + MonthLength(m + n)
  BY <1>1, <1>3, FirstOfRecursion
<1>6. FirstOf[m] + MonthLength(m) <= FirstOf[m + n] BY <1>1, <1>3, LaterMonth
<1>7. 0 <= FirstOf[m]
  <2>1. 28 * m <= FirstOf[m] BY <1>1, FirstOfBounds
  <2> QED BY <1>1, <1>5, <2>1
<1>8. landing \in Nat \ {0} BY <1>1, <1>2, <1>4, <1>5, <1>6, <1>7
<1>9. CASE date <= MonthLength(m + n)
  <2>1. In(m + n, landing) BY <1>1, <1>2, <1>4, <1>5, <1>9 DEF In
  <2>2. MonthOf(landing) = m + n BY <1>3, <1>8, <2>1, MonthOfIs
  <2>3. same = landing BY <1>2, <2>2 DEF DayIn
  <2> HIDE DEF same
  <2>4. DateOf(same) = date BY <1>1, <1>2, <1>5, <2>2, <2>3 DEF DateOf
  <2>5. day < same BY <1>1, <1>2, <1>4, <1>5, <1>6, <2>3
  <2>6. MonthOf(same) = MonthWithDate(day, n)
    BY <1>9, <2>2, <2>3 DEF MonthWithDate, m, date
  <2> QED BY <1>8, <2>3, <2>4, <2>5, <2>6 DEF m, date, landing, same
<1>10. CASE date > MonthLength(m + n)
  <2>1. MonthLength(m + n + 1) = 31 BY <1>1, <1>4, <1>10
  <2>2. In(m + n + 1, landing) BY <1>1, <1>2, <1>4, <1>5, <1>10, <2>1 DEF In
  <2>3. MonthOf(landing) = m + n + 1 BY <1>3, <1>8, <2>2, MonthOfIs
  <2>4. same = FirstOf[m + n + 1] + date - 1 BY <2>3 DEF DayIn
  <2> HIDE DEF same
  <2>5. same \in Nat /\ day < same BY <1>1, <1>4, <1>5, <1>6, <1>7, <2>4
  <2>6. In(m + n + 1, same) BY <1>1, <1>5, <2>1, <2>4 DEF In
  <2>7. MonthOf(same) = m + n + 1 BY <1>3, <2>5, <2>6, MonthOfIs
  <2>8. DateOf(same) = date BY <1>1, <1>5, <2>4, <2>7 DEF DateOf
  <2>9. MonthOf(same) = MonthWithDate(day, n)
    <3>1. ~(date <= MonthLength(m + n)) BY <1>1, <1>4, <1>10
    <3> QED BY <3>1, <2>7 DEF MonthWithDate, m, date
  <2> QED BY <1>8, <2>5, <2>8, <2>9 DEF m, date, landing, same
<1> QED BY <1>1, <1>4, <1>9, <1>10

-----------------------------------------------------------------------------
\* Local time in a zone whose changes of the clocks are regular.

\* What an instant is in local time.
LEMMA LocalTime ==
  ASSUME NEW zone, Regular(zone), NEW t \in Int
  PROVE  DayOf(zone, t) \in Int /\ ClockOf(zone, t) \in 0..(Day - 1)
<1>1. OffsetAt(zone, t) \in Int BY DEF Regular, RegularOn
<1>2. DayOf(zone, t) = (t + OffsetAt(zone, t)) \div 1440 BY DEF DayOf, Day, Hour
<1>3. ClockOf(zone, t) = (t + OffsetAt(zone, t)) % 1440 BY DEF ClockOf, Day, Hour
<1>4. \A x \in Int : x \div 1440 \in Int /\ x % 1440 \in 0..1439 OBVIOUS
<1>5. t + OffsetAt(zone, t) \in Int BY <1>1
<1>6. Day - 1 = 1439 BY DEF Day, Hour
<1> QED BY <1>2, <1>3, <1>4, <1>5, <1>6

\* No later instant is on an earlier day.
LEMMA DaysInOrder ==
  ASSUME NEW zone, Regular(zone), NEW s \in Int, NEW t \in Int, s <= t
  PROVE  DayOf(zone, s) <= DayOf(zone, t)
<1> DEFINE S == {i \in Nat : DayOf(zone, s) <= DayOf(zone, s + i)}
<1>1. 0 \in S BY LocalTime
<1>2. ASSUME NEW i \in S PROVE i + 1 \in S
  <2>1. s + i \in Int /\ (s + i) + 1 = s + (i + 1) OBVIOUS
  <2>2. DayOf(zone, s + i) <= DayOf(zone, (s + i) + 1) BY <2>1 DEF Regular, RegularOn
  <2>3. DayOf(zone, s) \in Int /\ DayOf(zone, s + i) \in Int /\ DayOf(zone, s + (i + 1)) \in Int
    BY <2>1, LocalTime
  <2>4. DayOf(zone, s) <= DayOf(zone, s + (i + 1)) BY <2>1, <2>2, <2>3
  <2> QED BY <2>4
<1> HIDE DEF S
<1>3. S = Nat
  <2>1. S \in SUBSET Nat BY DEF S
  <2> QED BY <2>1, <1>1, <1>2, SetInduction
<1>4. t - s \in S /\ s + (t - s) = t BY <1>3
<1> QED BY <1>4 DEF S

\* So a later day is a later instant.
LEMMA LaterDay ==
  ASSUME NEW zone, Regular(zone), NEW s \in Int, NEW t \in Int, DayOf(zone, s) < DayOf(zone, t)
  PROVE  s < t
<1> SUFFICES ASSUME t <= s PROVE FALSE OBVIOUS
<1>1. DayOf(zone, t) <= DayOf(zone, s) BY DaysInOrder
<1> QED BY <1>1, LocalTime

\* The day of UTC's midnight is the same local day or the one before.
LEMMA UTCMidnight ==
  ASSUME NEW zone, Regular(zone), NEW t \in Int
  PROVE  Truncate(t, Day) \in Int /\ WeekBegins(zone, t) \in {DayOf(zone, t) - 1, DayOf(zone, t)}
<1> DEFINE d == t \div 1440
           m == d * 1440
           e == d * 1440 + 1440 - 1
<1>1. Truncate(t, Day) = m BY DEF Truncate, Day, Hour
<1>2. d \in Int /\ m \in Int /\ e \in Int /\ m <= t /\ t <= e OBVIOUS
<1>3. DayOf(zone, e) <= DayOf(zone, m) + 1
  <2>1. \A day \in Int : DayOf(zone, day * 1440 + 1440 - 1) <= DayOf(zone, day * 1440) + 1
    BY DEF Regular, RegularOn, Day, Hour
  <2> HIDE DEF d
  <2> QED BY <1>2, <2>1
<1> HIDE DEF m, e
<1>4. DayOf(zone, m) <= DayOf(zone, t) /\ DayOf(zone, t) <= DayOf(zone, e)
  BY <1>2, DaysInOrder
<1>5. DayOf(zone, m) \in Int /\ DayOf(zone, t) \in Int /\ DayOf(zone, e) \in Int
  BY <1>2, LocalTime
<1> QED BY <1>1, <1>2, <1>3, <1>4, <1>5 DEF WeekBegins

\* Date finds the day, or the day before one without a midnight.
LEMMA DateFinds ==
  ASSUME NEW zone, Regular(zone), NEW day \in Int, NEW clock \in 0..(Day - 1)
  PROVE  /\ Date(zone, day, clock) \in Int
         /\ DayOf(zone, Date(zone, day, clock)) \in {day - 1, day}
         /\ Exists(zone, day, 0) => DayOf(zone, Date(zone, day, clock)) = day
<1>1. \A x \in Int : OffsetAt(zone, x) \in Int BY DEF Regular, RegularOn
<1>2. clock \in Int /\ day * Day + clock \in Int BY DEF Day, Hour
<1>3. Date(zone, day, clock) \in Int BY <1>1, <1>2 DEF Date
<1>4. DayOf(zone, Date(zone, day, clock)) \in
        IF Exists(zone, day, 0) THEN {day} ELSE {day - 1, day}
  BY DEF Regular, RegularOn
<1> QED BY <1>3, <1>4

\* The same when days are added,
LEMMA AddDaysFinds ==
  ASSUME NEW zone, Regular(zone), NEW t \in Int, NEW n \in Int
  PROVE  /\ AddDays(zone, t, n) \in Int
         /\ DayOf(zone, AddDays(zone, t, n)) \in {DayOf(zone, t) + n - 1, DayOf(zone, t) + n}
         /\ Exists(zone, DayOf(zone, t) + n, 0) =>
              DayOf(zone, AddDays(zone, t, n)) = DayOf(zone, t) + n
<1> DEFINE day == DayOf(zone, t) + n
           clock == ClockOf(zone, t)
<1>1. day \in Int /\ clock \in 0..(Day - 1) BY LocalTime
<1>2. AddDays(zone, t, n) = Date(zone, day, clock) BY DEF AddDays
<1> HIDE DEF day, clock
<1>3. /\ AddDays(zone, t, n) \in Int
      /\ DayOf(zone, AddDays(zone, t, n)) \in {day - 1, day}
      /\ Exists(zone, day, 0) => DayOf(zone, AddDays(zone, t, n)) = day
  BY <1>1, <1>2, DateFinds
<1>4. day = DayOf(zone, t) + n BY DEF day
<1>5. DayOf(zone, t) \in Int BY LocalTime
<1> QED BY <1>3, <1>4, <1>5

\* What an at_time may be.
ClockTimes == [hour : 0..23, minute : 0..59]

LEMMA ClockType == ASSUME NEW at \in ClockTimes PROVE Clock(at) \in 0..(Day - 1)
BY DEF Clock, ClockTimes, Day, Hour

\* and when an interval's time is set.
LEMMA AtTimeFinds ==
  ASSUME NEW zone, Regular(zone), NEW at \in ClockTimes \cup {NoTime}, NEW t \in Int
  PROVE  LET s == AtTime(zone, at, t)
             day == DayOf(zone, t)
         IN  /\ s \in Int
             /\ DayOf(zone, s) \in {day - 1, day}
             /\ Exists(zone, day, 0) =>
                  /\ DayOf(zone, s) = day
                  /\ (at # NoTime /\ Exists(zone, day, Clock(at))) => ClockOf(zone, s) = Clock(at)
<1>1. DayOf(zone, t) \in Int BY LocalTime
<1>2. CASE at = NoTime BY <1>1, <1>2 DEF AtTime
<1>3. CASE at # NoTime
  <2>1. Clock(at) \in 0..(Day - 1) BY <1>3, ClockType
  <2>2. AtTime(zone, at, t) = Date(zone, DayOf(zone, t), Clock(at)) BY <1>3 DEF AtTime
  <2> QED BY <1>1, <2>1, <2>2, DateFinds DEF Exists
<1> QED BY <1>2, <1>3

-----------------------------------------------------------------------------
\* NextExecution.

\* Hourly tasks.
LEMMA Hourly ==
  ASSUME NEW value \in Nat \ {0}, NEW t \in Int
  PROVE  NextHourly(value, t) \in Int /\ t < NextHourly(value, t)
BY DEF NextHourly, Truncate, Hour

\* Daily tasks: the days whose midnights must exist are today and its value of
\* days later.
LEMMA Daily ==
  ASSUME NEW zone, Regular(zone),
         NEW at \in ClockTimes \cup {NoTime}, NEW value \in Nat \ {0}, NEW t \in Int
  PROVE  LET next == NextDaily(zone, value, at, t)
             today == DayOf(zone, t)
         IN  /\ next \in Int
             /\ Exists(zone, today, 0) /\ Exists(zone, today + value, 0) =>
                  /\ t < next
                  /\ \/ DayOf(zone, next) = today + value
                     \/ value = 1 /\ DayOf(zone, next) = today
                  /\ (at # NoTime /\ Exists(zone, DayOf(zone, next), Clock(at)))
                     => ClockOf(zone, next) = Clock(at)
<1> DEFINE today == DayOf(zone, t)
           midnight == Date(zone, today, 0)
           moved == AddDays(zone, midnight, value)
           later == AtTime(zone, at, moved)
           soon == Date(zone, today, Clock(at))
<1>1. today \in Int BY LocalTime
<1>2. 0 \in 0..(Day - 1) BY DEF Day, Hour
<1>3. midnight \in Int BY <1>1, <1>2, DateFinds
<1>4. moved \in Int BY <1>3, AddDaysFinds
<1>5. later \in Int BY <1>4, AtTimeFinds
<1>6. at # NoTime => soon \in Int
  <2>1. at # NoTime => Clock(at) \in 0..(Day - 1) BY ClockType
  <2> QED BY <1>1, <2>1, DateFinds
<1>7. NextDaily(zone, value, at, t) =
        IF value = 1 /\ at # NoTime /\ soon > t THEN soon ELSE later
  BY DEF NextDaily
<1>8. ASSUME Exists(zone, today, 0), Exists(zone, today + value, 0)
      PROVE  /\ DayOf(zone, later) = today + value
             /\ t < later
             /\ (at # NoTime /\ Exists(zone, today + value, Clock(at)))
                => ClockOf(zone, later) = Clock(at)
             /\ at # NoTime => DayOf(zone, soon) = today
             /\ (at # NoTime /\ Exists(zone, today, Clock(at))) => ClockOf(zone, soon) = Clock(at)
  <2>1. DayOf(zone, midnight) = today BY <1>8 DEF Exists
  <2>2. DayOf(zone, moved) = today + value BY <1>3, <1>8, <2>1, AddDaysFinds
  <2> HIDE DEF moved
  <2>3. /\ DayOf(zone, later) = today + value
        /\ (at # NoTime /\ Exists(zone, today + value, Clock(at)))
           => ClockOf(zone, later) = Clock(at)
    BY <1>4, <1>8, <2>2, AtTimeFinds
  <2> HIDE DEF later
  <2>4. t < later
    <3>1. DayOf(zone, t) < DayOf(zone, later) BY <1>1, <2>3
    <3> QED BY <1>5, <3>1, LaterDay
  <2>5. at # NoTime => DayOf(zone, soon) = today
    <3>1. at # NoTime => Clock(at) \in 0..(Day - 1) BY ClockType
    <3> QED BY <1>1, <1>8, <3>1, DateFinds
  <2>6. (at # NoTime /\ Exists(zone, today, Clock(at))) => ClockOf(zone, soon) = Clock(at)
    BY DEF Exists
  <2> QED BY <2>3, <2>4, <2>5, <2>6
<1> HIDE DEF today, later, soon
<1>9. CASE value = 1 /\ at # NoTime /\ soon > t BY <1>1, <1>6, <1>7, <1>8, <1>9 DEF today
<1>10. CASE ~(value = 1 /\ at # NoTime /\ soon > t)
  BY <1>1, <1>5, <1>7, <1>8, <1>10 DEF today
<1> QED BY <1>9, <1>10

\* Weekly tasks, which come later whether or not midnights are skipped.
LEMMA Weekly ==
  ASSUME NEW zone, Regular(zone),
         NEW at \in ClockTimes \cup {NoTime}, NEW value \in Nat \ {0}, NEW t \in Int
  PROVE  LET next == NextWeekly(zone, value, at, t)
             day == WeekBegins(zone, t) + 7 * value
         IN  /\ next \in Int
             /\ t < next
             /\ Exists(zone, day, 0) =>
                  /\ DayOf(zone, next) = day
                  /\ (at # NoTime /\ Exists(zone, day, Clock(at))) => ClockOf(zone, next) = Clock(at)
<1> DEFINE moved == AddDays(zone, Truncate(t, Day), 7 * value)
           day == WeekBegins(zone, t) + 7 * value
           next == NextWeekly(zone, value, at, t)
<1>1. Truncate(t, Day) \in Int /\ WeekBegins(zone, t) \in {DayOf(zone, t) - 1, DayOf(zone, t)}
  BY UTCMidnight
<1>2. DayOf(zone, t) \in Int BY LocalTime
<1>3. /\ moved \in Int
      /\ DayOf(zone, moved) \in {day - 1, day}
      /\ Exists(zone, day, 0) => DayOf(zone, moved) = day
  <2> DEFINE midnight == Truncate(t, Day)
             n == 7 * value
  <2>1. midnight \in Int /\ n \in Int BY <1>1
  <2>2. moved = AddDays(zone, midnight, n) /\ day = DayOf(zone, midnight) + n
    BY DEF WeekBegins
  <2> HIDE DEF midnight, n, moved, day
  <2>3. /\ moved \in Int
        /\ DayOf(zone, moved) \in {DayOf(zone, midnight) + n - 1, DayOf(zone, midnight) + n}
        /\ Exists(zone, DayOf(zone, midnight) + n, 0)
           => DayOf(zone, moved) = DayOf(zone, midnight) + n
    BY <2>1, <2>2, AddDaysFinds
  <2>4. DayOf(zone, midnight) \in Int BY <2>1, LocalTime
  <2> QED BY <2>1, <2>2, <2>3, <2>4
<1>4. next = AtTime(zone, at, moved) BY DEF NextWeekly
<1> HIDE DEF moved, next, day
<1>5. /\ next \in Int
      /\ DayOf(zone, next) \in {DayOf(zone, moved) - 1, DayOf(zone, moved)}
      /\ Exists(zone, day, 0) =>
           /\ DayOf(zone, next) = day
           /\ (at # NoTime /\ Exists(zone, day, Clock(at))) => ClockOf(zone, next) = Clock(at)
  BY <1>3, <1>4, AtTimeFinds
<1>6. DayOf(zone, t) < DayOf(zone, next) BY <1>1, <1>2, <1>3, <1>5 DEF day
<1>7. t < next BY <1>5, <1>6, LaterDay
<1> QED BY <1>5, <1>7 DEF day, next

\* Monthly tasks: the days whose midnights must exist are the one on which AddDate
\* lands and the same date in the month of that one.
LEMMA Monthly ==
  ASSUME NEW zone, Regular(zone),
         NEW at \in ClockTimes \cup {NoTime}, NEW value \in Nat \ {0}, NEW t \in Int,
         DayOf(zone, t) \in Nat
  PROVE  LET next == NextMonthly(zone, value, at, t)
             today == DayOf(zone, t)
             landing == MonthsLater(today, value)
             same == DayIn(MonthOf(landing), DateOf(today))
         IN  /\ next \in Int
             /\ Exists(zone, landing, 0) /\ Exists(zone, same, 0) =>
                  /\ t < next
                  /\ DateOf(DayOf(zone, next)) = DateOf(today)
                  /\ MonthOf(DayOf(zone, next)) = MonthWithDate(today, value)
                  /\ (at # NoTime /\ Exists(zone, DayOf(zone, next), Clock(at)))
                     => ClockOf(zone, next) = Clock(at)
<1> DEFINE today == DayOf(zone, t)
           landing == MonthsLater(today, value)
           same == DayIn(MonthOf(landing), DateOf(today))
           landed == AddMonths(zone, t, value)
           found == DayIn(MonthOf(DayOf(zone, landed)), DateOf(today))
           midnight == Date(zone, found, 0)
           next == NextMonthly(zone, value, at, t)
<1>1. /\ landing \in Nat \ {0} /\ same \in Nat /\ today < same
      /\ DateOf(same) = DateOf(today) /\ MonthOf(same) = MonthWithDate(today, value)
  BY SameDate
<1>2. DateOf(today) \in 1..31 BY MonthOfType
<1>3. /\ landed \in Int
      /\ DayOf(zone, landed) \in {landing - 1, landing}
      /\ Exists(zone, landing, 0) => DayOf(zone, landed) = landing
  <2>1. ClockOf(zone, t) \in 0..(Day - 1) BY LocalTime
  <2> HIDE DEF landing
  <2> QED BY <1>1, <2>1, DateFinds DEF AddMonths, landing
<1>4. found \in Int
  <2>1. DayOf(zone, landed) \in Nat BY <1>1, <1>3
  <2>2. MonthOf(DayOf(zone, landed)) \in Nat BY <2>1, MonthOfType
  <2>3. FirstOf[MonthOf(DayOf(zone, landed))] \in Int BY <2>2, FirstOfRecursion
  <2> QED BY <1>2, <2>3 DEF DayIn
<1>5. 0 \in 0..(Day - 1) BY DEF Day, Hour
<1>6. midnight \in Int BY <1>4, <1>5, DateFinds
<1>7. next = AtTime(zone, at, midnight) BY DEF NextMonthly
<1>8. next \in Int BY <1>6, <1>7, AtTimeFinds
<1>9. ASSUME Exists(zone, landing, 0), Exists(zone, same, 0)
      PROVE  /\ t < next
             /\ DateOf(DayOf(zone, next)) = DateOf(today)
             /\ MonthOf(DayOf(zone, next)) = MonthWithDate(today, value)
             /\ (at # NoTime /\ Exists(zone, DayOf(zone, next), Clock(at)))
                => ClockOf(zone, next) = Clock(at)
  <2>1. found = same BY <1>3, <1>9
  <2>2. DayOf(zone, midnight) = same BY <1>9, <2>1 DEF Exists
  <2> HIDE DEF midnight, next, same, today
  <2>3. /\ DayOf(zone, next) = same
        /\ (at # NoTime /\ Exists(zone, same, Clock(at))) => ClockOf(zone, next) = Clock(at)
    BY <1>6, <1>7, <1>9, <2>2, AtTimeFinds
  <2>4. t < next
    <3>1. DayOf(zone, t) < DayOf(zone, next) BY <1>1, <2>3 DEF today
    <3> QED BY <1>8, <3>1, LaterDay
  <2> QED BY <1>1, <2>3, <2>4
<1> HIDE DEF landed, next
<1> QED BY <1>8, <1>9 DEF next

\* What a registered interval is.
ValidIntervals ==
  [type : IntervalTypes, value : Nat \ {0}, timezone : STRING \cup {"UTC"},
   at : ClockTimes \cup {NoTime}]

\* NextExecution gives an instant.
LEMMA NextExecutionType ==
  ASSUME NEW i \in ValidIntervals, Regular(Location(i.timezone)),
         NEW t \in Int, DayOf(Location(i.timezone), t) \in Nat
  PROVE  NextExecution(i, t) \in Int
<1> DEFINE zone == Location(i.timezone)
<1>1. i.value \in Nat \ {0} /\ i.at \in ClockTimes \cup {NoTime} /\ i.type \in IntervalTypes
  BY DEF ValidIntervals
<1>2. Regular(zone) /\ DayOf(zone, t) \in Nat OBVIOUS
<1> HIDE DEF zone
<1>3. /\ NextHourly(i.value, t) \in Int
      /\ NextDaily(zone, i.value, i.at, t) \in Int
      /\ NextWeekly(zone, i.value, i.at, t) \in Int
      /\ NextMonthly(zone, i.value, i.at, t) \in Int
  BY <1>1, <1>2, Hourly, Daily, Weekly, Monthly
<1> QED BY <1>1, <1>3 DEF NextExecution, IntervalTypes, zone

\* NextExecution of any interval a registry holds, in any zone whose clocks are
\* changed regularly or never, at any instant: where no midnight that is computed
\* with is skipped (for hourly and weekly intervals, also where one is), the task is
\* not due again at once; and where none is, it comes on the day that KeepsCalendar
\* names for its interval, at its time.
THEOREM RegularZoneTasks ==
  ASSUME NEW i \in ValidIntervals, Regular(Location(i.timezone)),
         NEW t \in Int, DayOf(Location(i.timezone), t) \in Nat
  PROVE  NotDueAgain(i, t) /\ KeepsCalendar(i, t)
<1> DEFINE zone == Location(i.timezone)
           today == DayOf(zone, t)
           next == NextExecution(i, t)
<1>1. i.value \in Nat \ {0} /\ i.at \in ClockTimes \cup {NoTime} /\ i.type \in IntervalTypes
  BY DEF ValidIntervals
<1>2. Regular(zone) /\ today \in Nat OBVIOUS
<1>3. next \in Int BY NextExecutionType
<1>4. IsDue(i, t, t) <=> t >= next BY DEF IsDue
<1>5. CASE i.type = "hourly"
  <2>1. next = NextHourly(i.value, t) BY <1>5 DEF NextExecution
  <2>2. t < next BY <1>1, <2>1, Hourly
  <2> HIDE DEF next, zone
  <2>3. NotDueAgain(i, t) BY <1>3, <1>4, <2>2 DEF NotDueAgain
  <2>4. KeepsCalendar(i, t) BY <1>5 DEF KeepsCalendar
  <2> QED BY <2>3, <2>4
<1>6. CASE i.type = "daily"
  <2> DEFINE n == NextDaily(zone, i.value, i.at, t)
  <2>1. next = n BY <1>6 DEF NextExecution
  <2>2. DaysCrossed(i, t) = {today, today + i.value} BY <1>6 DEF DaysCrossed
  <2>3. MidnightsExist(i, t) => Exists(zone, today, 0) /\ Exists(zone, today + i.value, 0)
    BY <2>2 DEF MidnightsExist
  <2> HIDE DEF zone
  <2> DEFINE value == i.value
             at == i.at
  <2>4. value \in Nat \ {0} /\ at \in ClockTimes \cup {NoTime} BY <1>1
  <2> HIDE DEF value, at
  <2>5. Exists(zone, today, 0) /\ Exists(zone, today + value, 0) =>
          /\ t < NextDaily(zone, value, at, t)
          /\ \/ DayOf(zone, NextDaily(zone, value, at, t)) = today + value
             \/ value = 1 /\ DayOf(zone, NextDaily(zone, value, at, t)) = today
          /\ (at # NoTime
              /\ Exists(zone, DayOf(zone, NextDaily(zone, value, at, t)), Clock(at)))
             => ClockOf(zone, NextDaily(zone, value, at, t)) = Clock(at)
    BY <1>2, <2>4, Daily
  <2> HIDE DEF n, next, today
  <2> DEFINE day == DayOf(zone, next)
  <2>6. MidnightsExist(i, t) =>
          /\ t < next
          /\ day = today + i.value \/ (i.value = 1 /\ day = today)
          /\ (i.at # NoTime /\ Exists(zone, day, Clock(i.at))) => ClockOf(zone, next) = Clock(i.at)
    BY <2>1, <2>3, <2>5 DEF n, value, at, today
  <2> HIDE DEF day
  <2>7. NotDueAgain(i, t) BY <1>3, <1>4, <1>6, <2>6 DEF NotDueAgain
  <2>8. i.type # "weekly" /\ i.type # "monthly" BY <1>6
  <2>9. KeepsCalendar(i, t)
    BY <2>6, <2>8, Zenon DEF KeepsCalendar, zone, next, today, day
  <2> QED BY <2>7, <2>9
<1>7. CASE i.type = "weekly"
  <2> DEFINE n == NextWeekly(zone, i.value, i.at, t)
             day == WeekBegins(zone, t) + 7 * i.value
  <2>1. next = n BY <1>7 DEF NextExecution
  <2>2. DaysCrossed(i, t) = {day} BY <1>7 DEF DaysCrossed
  <2>3. MidnightsExist(i, t) => Exists(zone, day, 0) BY <2>2 DEF MidnightsExist
  <2> HIDE DEF zone
  <2>4. t < n BY <1>1, <1>2, Weekly
  <2>5. MidnightsExist(i, t) =>
          /\ DayOf(zone, n) = day
          /\ (i.at # NoTime /\ Exists(zone, DayOf(zone, n), Clock(i.at)))
             => ClockOf(zone, n) = Clock(i.at)
    BY <1>1, <1>2, <2>3, Weekly
  <2>6. WeekBegins(zone, t) \in {today - 1, today} BY <1>2, UTCMidnight
  <2> HIDE DEF n, next, today, day
  <2>7. NotDueAgain(i, t) BY <1>3, <1>4, <2>1, <2>4 DEF NotDueAgain
  <2>8. day = today + 7 * i.value - (IF WeekBegins(zone, t) = today THEN 0 ELSE 1)
    <3>1. i.value \in Int /\ today \in Int BY <1>1, <1>2 DEF ValidIntervals
    <3> QED BY <2>6, <3>1 DEF day
  <2>9. i.type # "daily" /\ i.type # "monthly" BY <1>7
  <2>10. KeepsCalendar(i, t)
    BY <1>7, <2>1, <2>5, <2>8, <2>9, Zenon DEF KeepsCalendar, zone, next, today
  <2> QED BY <2>7, <2>10
<1>8. CASE i.type = "monthly"
  <2> DEFINE n == NextMonthly(zone, i.value, i.at, t)
             landing == MonthsLater(today, i.value)
             same == DayIn(MonthOf(landing), DateOf(today))
  <2>1. next = n BY <1>8 DEF NextExecution
  <2>2. DaysCrossed(i, t) = {landing, same} BY <1>8 DEF DaysCrossed
  <2>3. MidnightsExist(i, t) => Exists(zone, landing, 0) /\ Exists(zone, same, 0)
    BY <2>2 DEF MidnightsExist
  <2> HIDE DEF zone
  <2>4. MidnightsExist(i, t) =>
          /\ t < n
          /\ DateOf(DayOf(zone, n)) = DateOf(today)
          /\ MonthOf(DayOf(zone, n)) = MonthWithDate(today, i.value)
          /\ (i.at # NoTime /\ Exists(zone, DayOf(zone, n), Clock(i.at)))
             => ClockOf(zone, n) = Clock(i.at)
    BY <1>1, <1>2, <2>3, Monthly
  <2> HIDE DEF n, next, today, landing, same
  <2>5. NotDueAgain(i, t) BY <1>3, <1>4, <1>8, <2>1, <2>4 DEF NotDueAgain
  <2>6. KeepsCalendar(i, t) BY <1>8, <2>1, <2>4 DEF KeepsCalendar, zone, next, today
  <2> QED BY <2>5, <2>6
<1> QED BY <1>1, <1>5, <1>6, <1>7, <1>8 DEF IntervalTypes

-----------------------------------------------------------------------------
\* LoadFromFile.

\* Of the definitions with an id there is a last one.
LEMMA LastDefinition ==
  ASSUME NEW file \in Seq(Definitions), NEW i \in DOMAIN file
  PROVE  \E j \in DOMAIN file :
           /\ file[j].id = file[i].id
           /\ \A k \in DOMAIN file : file[k].id = file[i].id => k <= j
<1> DEFINE Same(k) == k \in DOMAIN file /\ file[k].id = file[i].id
           S == {m \in Nat : i <= m =>
                   \E j \in 1..m : Same(j) /\ \A k \in 1..m : Same(k) => k <= j}
<1>1. DOMAIN file = 1..Len(file) /\ Len(file) \in Nat /\ i \in 1..Len(file) OBVIOUS
<1>2. Same(i) OBVIOUS
<1> HIDE DEF Same
<1>3. 0 \in S BY <1>1
<1>4. ASSUME NEW m \in S PROVE m + 1 \in S
  <2> SUFFICES ASSUME i <= m + 1
               PROVE  \E j \in 1..(m + 1) : Same(j) /\ \A k \in 1..(m + 1) : Same(k) => k <= j
    OBVIOUS
  <2>1. m \in Nat OBVIOUS
  <2>2. CASE Same(m + 1) BY <2>1, <2>2
  <2>3. CASE ~Same(m + 1)
    <3>1. i <= m
      <4>1. i # m + 1 BY <1>2, <2>3
      <4> QED BY <1>1, <2>1, <4>1
    <3>2. PICK j \in 1..m : Same(j) /\ \A k \in 1..m : Same(k) => k <= j BY <3>1
    <3> QED BY <2>1, <2>3, <3>2
  <2> QED BY <2>2, <2>3
<1> HIDE DEF S
<1>5. S = Nat
  <2>1. S \in SUBSET Nat BY DEF S
  <2> QED BY <2>1, <1>3, <1>4, SetInduction
<1>6. \E j \in 1..Len(file) : Same(j) /\ \A k \in 1..Len(file) : Same(k) => k <= j
  BY <1>1, <1>5 DEF S
<1> QED BY <1>1, <1>6 DEF Same

\* A definition that passes validateTask is completed to one with a valid interval.
LEMMA CompleteIntervalType ==
  ASSUME NEW interval \in [type : STRING, value : Int, timezone : STRING,
                           at : [hour : Int, minute : Int] \cup {NoTime}],
         ValidInterval(interval)
  PROVE  CompleteInterval(interval) \in ValidIntervals
<1> DEFINE given == interval.timezone
           zone == IF given = "" THEN "UTC" ELSE given
<1>1. interval.type \in IntervalTypes /\ interval.value \in Nat \ {0}
  BY DEF ValidInterval
<1>2. interval.at \in ClockTimes \cup {NoTime} BY DEF ValidInterval, ClockTimes
<1>3. zone \in STRING \cup {"UTC"}
  <2>1. given \in STRING OBVIOUS
  <2> HIDE DEF given
  <2> QED BY <2>1, Zenon
<1>4. CompleteInterval(interval) = [interval EXCEPT !.timezone = zone]
  BY DEF CompleteInterval
<1> HIDE DEF zone
<1> QED BY <1>1, <1>2, <1>3, <1>4 DEF ValidIntervals

LEMMA CompleteTaskType ==
  ASSUME NEW task \in Definitions, ValidTask(task)
  PROVE  CompleteTask(task).interval \in ValidIntervals
<1>1. task.interval \in [type : STRING, value : Int, timezone : STRING,
                         at : [hour : Int, minute : Int] \cup {NoTime}]
  BY DEF Definitions
<1>2. ValidInterval(task.interval) BY Zenon DEF ValidTask
<1>3. CompleteTask(task).interval = CompleteInterval(task.interval)
  BY DEF CompleteTask, Definitions
<1> QED BY <1>1, <1>2, <1>3, CompleteIntervalType

\* What a file leaves in the registry has valid intervals.
LEMMA TasksOfType ==
  ASSUME NEW file \in Seq(Definitions), \A i \in DOMAIN file : ValidTask(file[i])
  PROVE  \A id \in DOMAIN TasksOf(file) : TasksOf(file)[id].interval \in ValidIntervals
<1> SUFFICES ASSUME NEW id \in {file[i].id : i \in DOMAIN file}
             PROVE  TasksOf(file)[id].interval \in ValidIntervals
  BY DEF TasksOf
<1> DEFINE IsLast(j) == /\ file[j].id = id
                        /\ \A k \in DOMAIN file : file[k].id = id => k <= j
           last == CHOOSE j \in DOMAIN file : IsLast(j)
<1>1. PICK i \in DOMAIN file : id = file[i].id OBVIOUS
<1>2. \E j \in DOMAIN file : IsLast(j) BY <1>1, LastDefinition
<1>3. TasksOf(file)[id] = CompleteTask(file[last]) BY DEF TasksOf
<1> HIDE DEF IsLast
<1>4. last \in DOMAIN file BY <1>2
<1>5. file[last] \in Definitions /\ ValidTask(file[last])
  <2> HIDE DEF last
  <2> QED BY <1>4
<1> QED BY <1>3, <1>5, CompleteTaskType

-----------------------------------------------------------------------------
\* The behaviours of Times.

\* The slots, of which some have their jitter already, are a draw like any other.
SlotsInv ==
  /\ window \in Nat
  /\ count \in Nat \ {0}
  /\ drawn \in Nat
  /\ jitter \in JitterDraws(window, count)

LEMMA SlotsInductive == TimesSpec => []SlotsInv
<1>1. TimesInit => SlotsInv
  <2> SUFFICES ASSUME TimesInit PROVE SlotsInv OBVIOUS
  <2>1. \A w \in Nat, n \in Nat \ {0} : 0 \in Jitters(Interval(w, n))
    <3> SUFFICES ASSUME NEW w \in Nat, NEW n \in Nat \ {0} PROVE 0 \in Jitters(Interval(w, n))
      OBVIOUS
    <3>1. Interval(w, n) \in Nat BY IntervalType
    <3> QED BY <3>1 DEF Jitters
  <2>2. window \in Nat /\ count \in Nat \ {0} /\ drawn \in Nat
    BY InputsAssumption DEF TimesInit, NoSlots
  <2>3. jitter = [i \in 0..(count - 1) |-> 0]
    <3>1. 0..(1 - 1) = {0} OBVIOUS
    <3> QED BY <3>1 DEF TimesInit, NoSlots
  <2> QED BY <2>1, <2>2, <2>3 DEF SlotsInv, JitterDraws
<1>2. ASSUME SlotsInv, [DrawJitter \/ FailAgain \/ Load \/ Execute \/ Returned]_vars
      PROVE  SlotsInv'
  <2>1. CASE DrawJitter
    <3>1. drawn \in 0..(count - 1) BY <1>2, <2>1 DEF SlotsInv, DrawJitter
    <3>2. jitter' \in JitterDraws(window, count)
      BY <1>2, <2>1, <3>1 DEF SlotsInv, DrawJitter, JitterDraws
    <3> QED BY <1>2, <2>1, <3>2 DEF SlotsInv, DrawJitter
  <2>2. CASE UNCHANGED slotVars BY <1>2, <2>2 DEF SlotsInv, slotVars
  <2> QED BY <1>2, <2>1, <2>2 DEF FailAgain, Load, Execute, Returned, vars
<1> QED BY <1>1, <1>2, PTL DEF TimesSpec

\* calculateTimeSlots: at every moment of its loop the slots are spread out.
THEOREM SlotsStaySpread == TimesSpec => []Spread
<1>1. SlotsInv => Spread
  <2> SUFFICES ASSUME SlotsInv PROVE Spread OBVIOUS
  <2>1. CASE count = 1 BY <2>1 DEF Spread, SlotsSpread
  <2>2. CASE count # 1 BY <2>2, SlotsAreSpread DEF SlotsInv, Spread
  <2> QED BY <2>1, <2>2
<1> QED BY <1>1, SlotsInductive, PTL

\* calculateTimeSlots: at every moment of its loop the slots are within the time
\* EstimateDistributionTime announces.
THEOREM SlotsStayWithinEstimate == TimesSpec => []WithinEstimate
<1>1. SlotsInv => WithinEstimate BY SlotsAreWithinEstimate DEF SlotsInv, WithinEstimate
<1> QED BY <1>1, SlotsInductive, PTL

\* The job that fails has had a number of attempts, and its worker's configuration.
DelaysInv ==
  /\ attempt \in Nat \ {0}
  /\ base \in Nat \cap Words
  /\ cap \in Words

\* scheduleRetry with an exponential strategy: whichever attempt has failed, the
\* next one is delayed by the doubled base, or by the word that wraps to.
THEOREM DelaysStayAsConfigured == TimesSpec => []DelaysAsConfigured
<1>1. TimesInit => DelaysInv
  <2>1. 0 \in Nat \cap Words BY HalfRangeAssumption DEF Words
  <2>2. Bases \cup {0} \subseteq Nat \cap Words /\ Caps \cup {0} \subseteq Words
    BY <2>1, InputsAssumption, Zenon
  <2>3. TimesInit => attempt = 1 /\ base \in Bases \cup {0} /\ cap \in Caps \cup {0}
    BY DEF TimesInit, NoDelays
  <2> QED BY <2>2, <2>3 DEF DelaysInv
<1>2. ASSUME DelaysInv, [DrawJitter \/ FailAgain \/ Load \/ Execute \/ Returned]_vars
      PROVE  DelaysInv'
  <2>1. CASE FailAgain BY <1>2, <2>1 DEF DelaysInv, FailAgain
  <2>2. CASE UNCHANGED delayVars BY <1>2, <2>2 DEF DelaysInv, delayVars
  <2> QED BY <1>2, <2>1, <2>2 DEF DrawJitter, Load, Execute, Returned, vars
<1>3. DelaysInv => DelaysAsConfigured BY DelaysAreConfigured DEF DelaysInv, DelaysAsConfigured
<1> QED BY <1>1, <1>2, <1>3, PTL DEF TimesSpec

\* Tasks are executed at instants since the epoch, in every zone, and a registry
\* holds valid intervals.
AllZones == Zones \cup {"UTC"}

TasksInv ==
  /\ now \in Int
  /\ computation = "tasks" => \A zone \in AllZones : DayOf(zone, now) \in Nat
  /\ computation # "tasks" => tasks = <<>>
  /\ \A id \in DOMAIN tasks : tasks[id].interval \in ValidIntervals

LEMMA TasksInductive ==
  ASSUME \A zone \in AllZones : Regular(zone)
  PROVE  TimesSpec => []TasksInv
<1>1. TimesInit => TasksInv
  <2> SUFFICES ASSUME TimesInit PROVE TasksInv OBVIOUS
  <2>1. tasks = <<>> BY DEF TimesInit, Init
  <2>2. now \in Int
    <3>1. now \in Starts \cup {0} BY DEF TimesInit, NoTasks
    <3> QED BY <3>1, InputsAssumption
  <2>3. computation = "tasks" => now \in Starts BY DEF TimesInit
  <2> QED BY <2>1, <2>2, <2>3, InputsAssumption DEF TasksInv, AllZones
<1>2. ASSUME TasksInv, [DrawJitter \/ FailAgain \/ Load \/ Execute \/ Returned]_vars
      PROVE  TasksInv'
  <2>1. CASE Load
    <3>1. PICK file \in Files : LoadFromFile(file) BY <2>1 DEF Load
    <3>2. file \in Seq(Definitions) BY InputsAssumption
    <3>3. \A id \in DOMAIN tasks' : tasks'[id].interval \in ValidIntervals
      BY <1>2, <3>1, <3>2, TasksOfType DEF LoadFromFile, TasksInv
    <3> QED BY <1>2, <2>1, <3>3 DEF TasksInv, Load
  <2>2. CASE Execute
    <3>1. PICK id \in DOMAIN tasks, late \in Delays :
            now' = Later(now, NextExecution(tasks[id].interval, now)) + late
      BY <2>2 DEF Execute
    <3> DEFINE i == tasks[id].interval
               next == NextExecution(i, now)
    <3>2. i \in ValidIntervals BY <1>2 DEF TasksInv
    <3>3. Location(i.timezone) \in AllZones BY DEF Location, AllZones
    <3>4. next \in Int
      <4>1. now \in Int /\ DayOf(Location(i.timezone), now) \in Nat
        BY <1>2, <2>2, <3>3 DEF TasksInv, Execute
      <4> HIDE DEF i
      <4> QED BY <3>2, <3>3, <4>1, NextExecutionType
    <3>5. late \in Nat BY InputsAssumption
    <3> HIDE DEF next
    <3>6. now' \in Int /\ now <= now'
      BY <1>2, <3>1, <3>4, <3>5 DEF TasksInv, Later, next
    <3>7. ASSUME NEW zone \in AllZones PROVE DayOf(zone, now') \in Nat
      <4>1. DayOf(zone, now) \in Nat /\ now \in Int BY <1>2, <2>2 DEF TasksInv, Execute
      <4>2. DayOf(zone, now) <= DayOf(zone, now') BY <3>6, <4>1, DaysInOrder
      <4>3. DayOf(zone, now') \in Int BY <3>6, LocalTime
      <4> QED BY <4>1, <4>2, <4>3
    <3> QED BY <1>2, <2>2, <3>6, <3>7 DEF TasksInv, Execute, DayOf
  <2>3. CASE UNCHANGED <<computation, taskVars>> BY <1>2, <2>3 DEF TasksInv, taskVars
  <2> QED BY <1>2, <2>1, <2>2, <2>3 DEF DrawJitter, FailAgain, Returned, vars
<1> QED BY <1>1, <1>2, PTL DEF TimesSpec

\* A registered task at the instant of an execution: what RegularZoneTasks is about.
LEMMA RegisteredTask ==
  ASSUME \A zone \in AllZones : Regular(zone), TasksInv, NEW id \in DOMAIN tasks
  PROVE  NotDueAgain(tasks[id].interval, now) /\ KeepsCalendar(tasks[id].interval, now)
<1> DEFINE i == tasks[id].interval
<1>1. i \in ValidIntervals BY DEF TasksInv
<1>2. Location(i.timezone) \in AllZones BY DEF Location, AllZones
<1>3. computation = "tasks" BY DEF TasksInv
<1>4. now \in Int /\ DayOf(Location(i.timezone), now) \in Nat BY <1>2, <1>3 DEF TasksInv
<1> HIDE DEF i
<1>5. NotDueAgain(i, now) /\ KeepsCalendar(i, now)
  BY <1>1, <1>2, <1>4, RegularZoneTasks
<1> QED BY <1>5 DEF i

\* LoadFromFile, NextExecution and IsDue together: no task the registry lets through
\* is due again when it is executed, in zones whose clocks are changed regularly,
\* unless it is a daily or monthly one and a midnight on its way is skipped.
THEOREM TasksAreNotDueAgain ==
  ASSUME \A zone \in AllZones : Regular(zone)
  PROVE  TimesSpec => []TasksNotDueAgain
<1>1. TasksInv => TasksNotDueAgain BY RegisteredTask DEF TasksNotDueAgain
<1>2. TimesSpec => []TasksInv BY TasksInductive
<1> QED BY <1>1, <1>2, PTL

\* And every execution, late or not, leads to the next as KeepsCalendar says: a weekly
\* task's may be a day early, a monthly one's in a later month than the next, and
\* nothing is said where a midnight on the way is skipped.
THEOREM TasksStayOnCalendar ==
  ASSUME \A zone \in AllZones : Regular(zone)
  PROVE  TimesSpec => []TasksKeepCalendar
<1>1. TasksInv => TasksKeepCalendar BY RegisteredTask DEF TasksKeepCalendar
<1>2. TimesSpec => []TasksInv BY TasksInductive
<1> QED BY <1>1, <1>2, PTL
=============================================================================
