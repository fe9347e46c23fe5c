--------------------------- MODULE Algorithms_proof ---------------------------
(***************************************************************************)
(* What the pure algorithms compute: EVeREST's clocks for every platform   *)
(* and configuration, and EnergyUCB's means and choices for every number   *)
(* of arms, every order of them, and every sequence of rewards.            *)
(***************************************************************************)
EXTENDS EverestClocks, EnergyUcb, ClockGrid_proof, WellFoundedInduction

-----------------------------------------------------------------------------
(* EVeREST's clocks.                                                       *)

LEMMA InputType ==
  ASSUME NEW i \in ClockInputs
  PROVE  /\ IsPlatform(i.platform) /\ i.high \in Int /\ i.low \in Int /\ i.floor \in Int
         /\ IsSensitivity(i.fs) /\ IsLoss(i.loss)
  BY ClockInputsAssumption DEF IsClockInput

(* On every platform and for every configuration, both probe clocks pass   *)
(* the runner's validation, and they are apart where the floor allows it.  *)
THEOREM ProbeClocksCorrect == ClocksSpec => []ProbeClocksValid
  <1>1. InitClocks => ProbeClocksValid
    BY DEF InitClocks, ProbeClocksValid
  <1>2. ProbeClocksValid /\ [ComputeClocks]_clocks => ProbeClocksValid'
    <2>1. SUFFICES ASSUME ProbeClocksValid, [ComputeClocks]_clocks PROVE ProbeClocksValid'
      OBVIOUS
    <2>2. CASE ComputeClocks
      <3>1. PICK i \in ClockInputs :
              \A r \in clocks' :
                 /\ r.input = i /\ r.high = HighClock(i.platform, i.high)
                 /\ r.low = LowClock(i.platform, HighClock(i.platform, i.high), i.low, i.floor)
        BY <2>2 DEF ComputeClocks
      <3> DEFINE p    == i.platform
                 high == HighClock(p, i.high)
                 low  == LowClock(p, high, i.low, i.floor)
      <3>2. ValidClock(high, p)
        BY InputType, HighClockValid
      <3>3. ValidClock(low, p) /\ low <= high
        BY <3>2, InputType, LowClockValid
      <3>4. /\ low < high => low >= i.floor
            /\ low = high => \A c \in Grid(p, high - p.step) : c < i.floor
        BY <3>2, InputType, ProbeClocksApart DEF Grid
      <3> HIDE DEF high, low
      <3>5. \A r \in clocks' : r.input.platform = p /\ r.high = high /\ r.low = low /\ r.input = i
        BY <3>1 DEF high, low
      <3> QED BY <3>2, <3>3, <3>4, <3>5 DEF ProbeClocksValid, ValidClock, OnGrid, Grid
    <2>3. CASE UNCHANGED clocks
      BY <2>1, <2>3 DEF ProbeClocksValid, ValidClock, OnGrid, Grid
    <2> QED BY <2>1, <2>2, <2>3
  <1> QED BY <1>1, <1>2, PTL DEF ClocksSpec

(* The clock the definition asks for.                                      *)
Goal(p, high, fs, loss, floor) ==
    LET minA == MinAllowed(p, high, floor)
        raw  == RawClock(high, fs, loss, minA)
    IN  ClampFraction(raw[1], raw[2], minA, high)

Fit(p, high, fs, loss, floor) ==
    LET goal == Goal(p, high, fs, loss, floor)
    IN  {c \in Grid(p, high) : c * goal[2] >= goal[1]}

Best(p, high, fs, loss, floor) ==
    IF Fit(p, high, fs, loss, floor) # {} THEN Min(Fit(p, high, fs, loss, floor))
    ELSE Max(Grid(p, high))

LEMMA LeastIsMin ==
  ASSUME NEW S \in SUBSET Int, NEW c \in S, \A x \in S : c <= x
  PROVE  Min(S) = c
  <1>1. \A x \in S : (\A y \in S : x <= y) => x = c
    OBVIOUS
  <1> QED BY <1>1 DEF Min

LEMMA GreatestIsMax ==
  ASSUME NEW S \in SUBSET Int, NEW c \in S, \A x \in S : x <= c
  PROVE  Max(S) = c
  <1>1. \A x \in S : (\A y \in S : x >= y) => x = c
    OBVIOUS
  <1> QED BY <1>1 DEF Max

LEMMA ScaledIsBest ==
  ASSUME NEW p, IsPlatform(p), NEW high, ValidClock(high, p),
         NEW fs, IsSensitivity(fs), NEW pd, IsLoss(pd), NEW floor \in Int
  PROVE  ScaledClock(p, high, fs, pd, floor) = Best(p, high, fs, pd, floor)
  <1> DEFINE minA == MinAllowed(p, high, floor)
             raw  == RawClock(high, fs, pd, minA)
             goal == ClampFraction(raw[1], raw[2], minA, high)
             up   == QuantizeUpWithin(goal, p.min, high, p.step)
             one  == <<minA, 1>>
             low  == QuantizeUpWithin(one, p.min, high, p.step)
             grid == StepsUpTo(p.min, high, p.step)
             fit  == AtLeast(goal, grid)
  <1>1. /\ p.min \in Nat /\ p.max \in Nat /\ p.step \in Nat
        /\ p.min <= p.max /\ p.step > 0
    BY DEF IsPlatform
  <1>2. high \in Nat /\ p.min <= high /\ high <= p.max
    BY <1>1 DEF ValidClock
  <1>3. minA \in Nat /\ p.min <= minA /\ minA <= high
    BY <1>1, <1>2 DEF MinAllowed
  <1>4. ScaledClock(p, high, fs, pd, floor) = IF up < minA THEN low ELSE up
    BY DEF ScaledClock
  <1>5. /\ Fit(p, high, fs, pd, floor) = fit /\ Grid(p, high) = grid
    BY DEF Fit, Goal, Grid, OnGrid, StepsUpTo, AtLeast
  <1> HIDE DEF minA
  <1>6. raw \in Int \X Nat /\ raw[2] > 0
    BY <1>2, <1>3, RawClockIsFraction
  <1> HIDE DEF raw
  <1>7. goal \in Int \X Nat /\ goal[2] > 0 /\ goal[1] >= minA * goal[2]
    <2>1. raw[1] \in Int /\ raw[2] \in Nat
      BY <1>6
    <2> QED BY <1>2, <1>3, <1>6, <2>1, ClampFractionInRange
  <1> HIDE DEF goal
  <1> DEFINE n == goal[1]
             d == goal[2]
  <1>8. n \in Int /\ d \in Nat /\ d > 0 /\ n >= minA * d
    BY <1>7
  <1>9. /\ fit # {} => up \in fit /\ \A x \in fit : up <= x
        /\ fit = {} => up \in grid /\ \A x \in grid : x <= up
    <2>1. n >= p.min * d
      <3> HIDE DEF n, d
      <3>1. minA * d >= p.min * d /\ minA * d \in Int /\ p.min * d \in Int
        BY <1>1, <1>3, <1>8, StepsCompare
      <3> QED BY <1>8, <3>1
    <2> QED BY <1>1, <1>2, <1>7, <2>1, QuantizeUpWithinIsBest
  <1>10. \A x \in fit : x \in grid /\ x * d >= n
    BY DEF AtLeast
  <1>11. grid \in SUBSET Int /\ fit \in SUBSET Int
    BY <1>1, <1>2 DEF StepsUpTo, AtLeast
  <1>12. /\ \A x \in AtLeast(one, grid) : x \in grid /\ x >= minA
         /\ AtLeast(one, grid) = {} => low \in grid /\ \A x \in grid : x <= low
    <2>1. one \in Int \X Nat /\ one[2] > 0 /\ one[1] >= p.min * one[2]
      BY <1>1, <1>3
    <2>2. one[1] = minA /\ one[2] = 1
      OBVIOUS
    <2> HIDE DEF one
    <2>3. AtLeast(one, grid) = {} => low \in grid /\ \A x \in grid : x <= low
      BY <1>1, <1>2, <2>1, QuantizeUpWithinIsBest
    <2>4. \A x \in AtLeast(one, grid) : x \in grid /\ x * 1 >= minA
      BY <2>2 DEF AtLeast
    <2> QED BY <1>11, <2>3, <2>4
  <1> HIDE DEF n, d, fit, grid, up, low
  <1>13. CASE fit # {}
    <2>1. up \in fit /\ up \in Int /\ up * d >= n
      BY <1>9, <1>10, <1>11, <1>13
    <2>2. ~(up < minA)
      <3>1. SUFFICES ASSUME up < minA PROVE FALSE
        OBVIOUS
      <3>2. up * d + d <= minA * d /\ up * d \in Int /\ minA * d \in Int
        BY <1>3, <1>8, <2>1, <3>1, StepsCompare
      <3> QED BY <1>8, <2>1, <3>2
    <2>3. Min(fit) = up
      BY <1>9, <1>11, <1>13, LeastIsMin
    <2> QED BY <1>4, <1>5, <1>13, <2>2, <2>3 DEF Best
  <1>14. CASE fit = {}
    <2>1. Max(grid) = up
      BY <1>9, <1>11, <1>14, GreatestIsMax
    <2>2. CASE up < minA
      <3>1. AtLeast(one, grid) = {}
        <4>1. \A x \in grid : x < minA
          <5>1. up \in Int /\ \A x \in grid : x \in Int /\ x <= up
            BY <1>9, <1>11, <1>14
          <5> QED BY <1>3, <2>2, <5>1
        <4>2. \A x \in AtLeast(one, grid) : x \in Int
          BY <1>11, <1>12
        <4> QED BY <1>3, <1>12, <4>1, <4>2
      <3>2. Max(grid) = low
        BY <1>11, <1>12, <3>1, GreatestIsMax
      <3> QED BY <1>4, <1>5, <1>14, <2>2, <3>2 DEF Best
    <2> QED BY <1>4, <1>5, <1>14, <2>1, <2>2 DEF Best
  <1> QED BY <1>13, <1>14

ClocksAreBest ==
    \A r \in clocks : r.scaled = Best(r.input.platform, r.high, r.input.fs, r.input.loss,
                                      r.input.floor)

(* For every platform, sensitivity, loss and floor, the roundings and      *)
(* bounds of the frequency scaler amount to the lowest clock of the grid   *)
(* that is at least the clamped ideal one, or the highest there is.        *)
THEOREM ScaledClockCorrect == ClocksSpec => []ScaledClockIsBest
  <1>1. InitClocks => ClocksAreBest
    BY DEF InitClocks, ClocksAreBest
  <1>2. ClocksAreBest /\ [ComputeClocks]_clocks => ClocksAreBest'
    <2>1. SUFFICES ASSUME ClocksAreBest, [ComputeClocks]_clocks PROVE ClocksAreBest'
      OBVIOUS
    <2>2. CASE ComputeClocks
      <3>1. PICK i \in ClockInputs :
              \A r \in clocks' :
                 /\ r.input = i /\ r.high = HighClock(i.platform, i.high)
                 /\ r.scaled = ScaledClock(i.platform, r.high, i.fs, i.loss, i.floor)
        BY <2>2 DEF ComputeClocks
      <3>2. ValidClock(HighClock(i.platform, i.high), i.platform)
        BY InputType, HighClockValid
      <3>3. \A r \in clocks' : r.scaled = Best(i.platform, r.high, i.fs, i.loss, i.floor)
        BY <3>1, <3>2, InputType, ScaledIsBest
      <3> QED BY <3>1, <3>3 DEF ClocksAreBest
    <2>3. CASE UNCHANGED clocks
      BY <2>1, <2>3 DEF ClocksAreBest
    <2> QED BY <2>1, <2>2, <2>3
  <1>3. ClocksAreBest => ScaledClockIsBest
    BY DEF ClocksAreBest, ScaledClockIsBest, Best, Fit, Goal
  <1> QED BY <1>1, <1>2, <1>3, PTL DEF ClocksSpec

(* A high clock that is on the grid, where the platform maximum need not be*)
(* one, is above every floor: rounding up from there never overshoots.     *)
LEMMA ScaledAboveFloor ==
  ASSUME NEW p, IsPlatform(p), NEW high, ValidClock(high, p), (high - p.min) % p.step = 0,
         NEW fs, IsSensitivity(fs), NEW pd, IsLoss(pd), NEW floor \in Int
  PROVE  ScaledClock(p, high, fs, pd, floor) >= MinAllowed(p, high, floor)
  <1> DEFINE minA == MinAllowed(p, high, floor)
             raw  == RawClock(high, fs, pd, minA)
             goal == ClampFraction(raw[1], raw[2], minA, high)
             up   == QuantizeUpWithin(goal, p.min, high, p.step)
             one  == <<minA, 1>>
             low  == QuantizeUpWithin(one, p.min, high, p.step)
             grid == StepsUpTo(p.min, high, p.step)
  <1>1. p.min \in Nat /\ p.max \in Nat /\ p.step \in Nat /\ p.min <= p.max /\ p.step > 0
    BY DEF IsPlatform
  <1>2. high \in Nat /\ p.min <= high /\ high <= p.max
    BY <1>1 DEF ValidClock
  <1>3. minA \in Nat /\ p.min <= minA /\ minA <= high
    BY <1>1, <1>2 DEF MinAllowed
  <1>4. ScaledClock(p, high, fs, pd, floor) = IF up < minA THEN low ELSE up
    BY DEF ScaledClock
  <1>5. raw \in Int \X Nat /\ raw[2] > 0
    BY <1>2, <1>3, RawClockIsFraction
  <1>6. up \in Int
    <2>1. goal \in Int \X Nat /\ goal[2] > 0 /\ goal[1] >= minA * goal[2]
      <3>1. raw[1] \in Int /\ raw[2] \in Nat
        BY <1>5
      <3> HIDE DEF raw, minA
      <3> QED BY <1>2, <1>3, <1>5, <3>1, ClampFractionInRange
    <2> HIDE DEF goal, minA
    <2>2. goal[1] >= p.min * goal[2]
      <3>1. goal[1] \in Int /\ goal[2] \in Nat
        BY <2>1
      <3>2. minA * goal[2] >= p.min * goal[2] /\ minA * goal[2] \in Int /\ p.min * goal[2] \in Int
        BY <1>1, <1>3, <2>1, <3>1, StepsCompare
      <3> QED BY <2>1, <3>1, <3>2
    <2>3. up \in p.min .. high
      BY <1>1, <1>2, <2>1, <2>2, QuantizeUpWithinOnGrid
    <2> HIDE DEF up
    <2> QED BY <1>1, <1>2, <2>3
  <1>7. low \in Int /\ low >= minA
    <2> HIDE DEF minA
    <2>1. one \in Int \X Nat /\ one[2] > 0 /\ one[1] >= p.min * one[2]
      BY <1>1, <1>3
    <2>2. one[1] = minA /\ one[2] = 1
      OBVIOUS
    <2> HIDE DEF one
    <2>3. high \in AtLeast(one, grid)
      BY <1>1, <1>2, <1>3, <2>2 DEF AtLeast, StepsUpTo
    <2>4. low \in AtLeast(one, grid)
      BY <1>1, <1>2, <2>1, <2>3, QuantizeUpWithinIsBest
    <2> QED BY <1>1, <1>2, <1>3, <2>2, <2>4 DEF AtLeast, StepsUpTo
  <1> HIDE DEF up, low, minA
  <1> QED BY <1>3, <1>4, <1>6, <1>7 DEF minA

(* On a platform whose range is a whole number of steps every high clock   *)
(* is on the grid.                                                         *)
EvenRange(p) == (p.max - p.min) % p.step = 0

LEMMA HighOnGrid ==
  ASSUME NEW p, IsPlatform(p), EvenRange(p), NEW c, ValidClock(c, p)
  PROVE  (c - p.min) % p.step = 0
  <1>1. p.min \in Nat /\ p.step \in Nat /\ p.step > 0
    BY DEF IsPlatform
  <1>2. (p.min - p.min) % p.step = 0
    BY <1>1
  <1> QED BY <1>2 DEF ValidClock, OnGrid, EvenRange

ClocksAboveFloor ==
    \A r \in clocks : r.scaled >= MinAllowed(r.input.platform, r.high, r.input.floor)

(* What the reproduction plan asks of the scaler's rounding does hold when *)
(* the range of every platform is a whole number of steps: the one thing   *)
(* that breaks it is a maximum clock off the grid.                         *)
THEOREM ScaledRoundsUpOnEvenRanges ==
  ASSUME \A i \in ClockInputs : EvenRange(i.platform)
  PROVE  ClocksSpec => []ScaledRoundsUp
  <1>1. InitClocks => ClocksAboveFloor
    BY DEF InitClocks, ClocksAboveFloor
  <1>2. ClocksAboveFloor /\ [ComputeClocks]_clocks => ClocksAboveFloor'
    <2>1. SUFFICES ASSUME ClocksAboveFloor, [ComputeClocks]_clocks PROVE ClocksAboveFloor'
      OBVIOUS
    <2>2. CASE ComputeClocks
      <3>1. PICK i \in ClockInputs :
              \A r \in clocks' :
                 /\ r.input = i /\ r.high = HighClock(i.platform, i.high)
                 /\ r.scaled = ScaledClock(i.platform, r.high, i.fs, i.loss, i.floor)
        BY <2>2 DEF ComputeClocks
      <3> DEFINE h == HighClock(i.platform, i.high)
      <3>2. ValidClock(h, i.platform)
        BY InputType, HighClockValid
      <3> HIDE DEF h
      <3>3. (h - i.platform.min) % i.platform.step = 0
        BY <3>2, InputType, HighOnGrid
      <3>4. ScaledClock(i.platform, h, i.fs, i.loss, i.floor) >= MinAllowed(i.platform, h, i.floor)
        BY <3>2, <3>3, InputType, ScaledAboveFloor
      <3> QED BY <3>1, <3>4 DEF ClocksAboveFloor, h
    <2>3. CASE UNCHANGED clocks
      BY <2>1, <2>3 DEF ClocksAboveFloor
    <2> QED BY <2>1, <2>2, <2>3
  <1>3. ClocksAboveFloor => ScaledRoundsUp
    BY DEF ClocksAboveFloor, ScaledRoundsUp
  <1> QED BY <1>1, <1>2, <1>3, PTL DEF ClocksSpec

-----------------------------------------------------------------------------
(* EnergyUCB's means.                                                      *)

LEMMA Products ==
  ASSUME NEW a \in Int, NEW b \in Int, NEW c \in Int
  PROVE  /\ a * b \in Int /\ a * b = b * a /\ (a * b) * c = a * (b * c)
         /\ (a + b) * c = a * c + b * c /\ (a - b) * c = a * c - b * c
  OBVIOUS

(* The update of a mean m, of n rewards whose sum is s, by the reward r.   *)
LEMMA MeanStep ==
  ASSUME NEW m1 \in Int, NEW m2 \in Nat, NEW n \in Nat, NEW r1 \in Int, NEW r2 \in Nat,
         NEW s1 \in Int, NEW s2 \in Nat,
         IF n = 0 THEN s1 = 0 ELSE m1 * n * s2 = s1 * m2
  PROVE  (m1 * r2 * (n + 1) + (r1 * m2 - m1 * r2)) * (n + 1) * (s2 * r2)
            = (s1 * r2 + r1 * s2) * (m2 * r2 * (n + 1))
  <1> DEFINE A == m1 * r2 * (n + 1) + (r1 * m2 - m1 * r2)
             B == s1 * r2 + r1 * s2
             x == n + 1
  <1>1. A = m1 * r2 * n + r1 * m2 /\ A \in Int /\ B \in Int /\ x \in Nat
    <2>1. m1 * r2 \in Int
      OBVIOUS
    <2>2. m1 * r2 * (n + 1) = m1 * r2 * n + m1 * r2
      BY <2>1
    <2>3. m1 * r2 * n \in Int /\ r1 * m2 \in Int /\ s1 * r2 \in Int /\ r1 * s2 \in Int
      BY <2>1
    <2> QED BY <2>1, <2>2, <2>3
  <1>2. m1 * n * s2 = s1 * m2
    OBVIOUS
  <1>3. A * s2 = B * m2
    <2>1. A * s2 = (m1 * r2 * n) * s2 + (r1 * m2) * s2
      <3>1. m1 * r2 * n \in Int /\ r1 * m2 \in Int
        OBVIOUS
      <3> QED BY <1>1, <3>1, Products
    <2>2. B * m2 = (s1 * r2) * m2 + (r1 * s2) * m2
      <3>1. s1 * r2 \in Int /\ r1 * s2 \in Int
        OBVIOUS
      <3> QED BY <3>1, Products
    <2>3. (r1 * m2) * s2 = (r1 * s2) * m2
      OBVIOUS
    <2>4. (m1 * r2 * n) * s2 = r2 * (m1 * n * s2)
      OBVIOUS
    <2>5. (s1 * r2) * m2 = r2 * (s1 * m2)
      OBVIOUS
    <2> QED BY <1>2, <2>1, <2>2, <2>3, <2>4, <2>5
  <1> HIDE DEF A, B, x
  <1>4. A * x * (s2 * r2) = (A * s2) * (r2 * x)
    BY <1>1
  <1>5. B * (m2 * r2 * x) = (B * m2) * (r2 * x)
    BY <1>1
  <1>6. A * x * (s2 * r2) = B * (m2 * r2 * x)
    BY <1>3, <1>4, <1>5
  <1> QED BY <1>6 DEF A, B, x

ArmStates == [mean : {f \in Int \X Nat : f[2] > 0}, pulls : 0 .. MaxPulls]

SessionInv ==
    /\ order \in Orders /\ initial \in Means
    /\ arms \in [Arms -> ArmStates]
    /\ total \in [Arms -> {f \in Int \X Nat : f[2] > 0}]
    /\ MeansAreEmpirical

LEMMA InitSessionInv == InitSession => SessionInv
  <1> SUFFICES ASSUME InitSession PROVE SessionInv
    OBVIOUS
  <1>1. order \in Orders /\ initial \in Means /\ arms = [a \in Arms |-> [mean |-> initial, pulls |-> 0]]
        /\ total = [a \in Arms |-> <<0, 1>>]
    BY DEF InitSession, OptimisticArms
  <1>2. initial \in {f \in Int \X Nat : f[2] > 0} /\ MaxPulls \in Nat
    BY <1>1, EnergyUcbAssumption DEF IsFraction
  <1>3. arms \in [Arms -> ArmStates]
    BY <1>1, <1>2 DEF ArmStates
  <1>4. total \in [Arms -> {f \in Int \X Nat : f[2] > 0}]
    BY <1>1
  <1>5. MeansAreEmpirical
    BY <1>1 DEF MeansAreEmpirical
  <1> QED BY <1>1, <1>3, <1>4, <1>5 DEF SessionInv

LEMMA LearnMeans ==
  ASSUME SessionInv, NEW a \in Arms, NEW o \in Observations, Learn(a, o)
  PROVE  SessionInv'
  <1> DEFINE m1 == arms[a].mean[1]
             m2 == arms[a].mean[2]
             n  == arms[a].pulls
             r1 == -(o.energy * o.core)
             r2 == o.uncore
             s1 == total[a][1]
             s2 == total[a][2]
             arm == [mean |-> <<m1 * r2 * (n + 1) + (r1 * m2 - m1 * r2), m2 * r2 * (n + 1)>>,
                     pulls |-> n + 1]
             sum == <<s1 * r2 + r1 * s2, s2 * r2>>
  <1>1. /\ arms' = [arms EXCEPT ![a] = arm] /\ total' = [total EXCEPT ![a] = sum]
        /\ UNCHANGED <<order, initial>> /\ n < MaxPulls /\ r2 > 0
    BY DEF Learn, UpdateMean, Plus, Reward, Measured
  <1>2. /\ arms \in [Arms -> ArmStates]
        /\ total \in [Arms -> {f \in Int \X Nat : f[2] > 0}]
        /\ MeansAreEmpirical /\ order \in Orders /\ initial \in Means
    BY DEF SessionInv
  <1>3. /\ m1 \in Int /\ m2 \in Nat /\ m2 > 0 /\ n \in 0 .. MaxPulls
        /\ s1 \in Int /\ s2 \in Nat /\ s2 > 0 /\ MaxPulls \in Nat
    BY <1>2, EnergyUcbAssumption DEF ArmStates
  <1>4. r1 \in Int /\ r2 \in Nat /\ r2 > 0
    BY <1>1, EnergyUcbAssumption
  <1>5. IF n = 0 THEN s1 = 0 ELSE m1 * n * s2 = s1 * m2
    BY <1>2 DEF MeansAreEmpirical
  <1> HIDE DEF m1, m2, n, r1, r2, s1, s2
  <1>6. arm.mean[1] * arm.pulls * sum[2] = sum[1] * arm.mean[2]
    BY <1>3, <1>4, <1>5, MeanStep
  <1>7. arm \in ArmStates
    <2>1. m1 * r2 * (n + 1) + (r1 * m2 - m1 * r2) \in Int
      BY <1>3, <1>4
    <2>2. m2 * r2 * (n + 1) \in Nat /\ m2 * r2 * (n + 1) > 0
      <3>1. m2 * r2 \in Nat /\ m2 * r2 > 0
        BY <1>3, <1>4, NatProduct
      <3>2. n + 1 \in Nat /\ n + 1 > 0
        BY <1>3
      <3> QED BY <3>1, <3>2, NatProduct
    <2>3. n + 1 \in 0 .. MaxPulls
      BY <1>1, <1>3
    <2> QED BY <2>1, <2>2, <2>3 DEF ArmStates
  <1>8. sum \in {f \in Int \X Nat : f[2] > 0}
    <2>1. s1 * r2 + r1 * s2 \in Int
      BY <1>3, <1>4
    <2>2. s2 * r2 \in Nat /\ s2 * r2 > 0
      BY <1>3, <1>4, NatProduct
    <2> QED BY <2>1, <2>2
  <1>9. arm.pulls # 0
    BY <1>3
  <1> HIDE DEF arm, sum
  <1>10. arms'[a] = arm /\ total'[a] = sum
         /\ \A b \in Arms : b # a => arms'[b] = arms[b] /\ total'[b] = total[b]
    BY <1>1, <1>2
  <1>11. MeansAreEmpirical'
    BY <1>1, <1>2, <1>6, <1>9, <1>10 DEF MeansAreEmpirical
  <1>12. arms' \in [Arms -> ArmStates] /\ total' \in [Arms -> {f \in Int \X Nat : f[2] > 0}]
    BY <1>1, <1>2, <1>7, <1>8
  <1> QED BY <1>1, <1>2, <1>11, <1>12 DEF SessionInv

LEMMA SessionStep ==
  ASSUME SessionInv, [NextCall]_session
  PROVE  SessionInv'
  <1>1. ASSUME UNCHANGED <<order, initial, arms, total>> PROVE SessionInv'
    BY <1>1 DEF SessionInv, MeansAreEmpirical
  <1>2. ASSUME NEW a \in Arms, NEW o \in Observations, Learn(a, o) PROVE SessionInv'
    BY <1>2, LearnMeans
  <1>3. ASSUME NEW t, NEW a, NEW c, NEW p, NEW b, Choose(t, a, c, p, b) PROVE SessionInv'
    BY <1>1, <1>3 DEF Choose
  <1> QED BY <1>1, <1>2, <1>3 DEF NextCall, session

LEMMA SessionInductive == SessionSpec => []SessionInv
  BY InitSessionInv, SessionStep, PTL DEF SessionSpec

(* The incremental update never drifts from the definition: for any number *)
(* of arms and rewards, the mean is the sum of the rewards by their number,*)
(* and the optimistic mean is gone with the first of them.                 *)
THEOREM MeansCorrect == SessionSpec => []MeansAreEmpirical
  <1>1. SessionInv => MeansAreEmpirical
    BY DEF SessionInv
  <1> QED BY <1>1, SessionInductive, PTL

-----------------------------------------------------------------------------
(* EnergyUCB's choice.  The recursive function behind a loop exists: a     *)
(* least number of turns for which it did not would be one more than a     *)
(* number for which it does.                                               *)

NatOrder == {p \in Nat \X Nat : p[1] < p[2]}

LEMMA LeastNatural ==
  ASSUME NEW T \in SUBSET Nat, T # {}
  PROVE  \E x \in T : \A y \in T : x <= y
  <1>1. T \subseteq Nat
    OBVIOUS
  <1>2. OpToRel(<, Nat) = NatOrder
    BY DEF OpToRel, NatOrder
  <1>3. \E x \in T : \A y \in T : ~(<<y, x>> \in NatOrder)
    BY <1>1, <1>2, NatLessThanWellFounded, WFMin
  <1>4. \A x, y \in Nat : y < x => <<y, x>> \in NatOrder
    BY DEF NatOrder
  <1>5. \A x, y \in T : ~(y < x) => x <= y
    BY <1>1
  <1> QED BY <1>1, <1>3, <1>4, <1>5

(* The values of a loop variable that starts at 0, after each of n turns.  *)
Turns(step, n) ==
    {g \in [0 .. n -> Nat] : g[0] = 0 /\ \A i \in 1 .. n : g[i] = step[<<g[i - 1], i>>]}

LEMMA TurnsExist ==
  ASSUME NEW m \in Nat, NEW step \in [Nat \X Nat -> Nat]
  PROVE  Turns(step, m) # {}
  <1> DEFINE T == {n \in 0 .. m : Turns(step, n) = {}}
  <1>1. SUFFICES ASSUME T # {} PROVE FALSE
    OBVIOUS
  <1>2. T \in SUBSET Nat
    OBVIOUS
  <1>3. PICK k \in T : \A y \in T : k <= y
    BY <1>1, <1>2, LeastNatural
  <1>4. k \in 0 .. m /\ Turns(step, k) = {}
    BY <1>3
  <1>5. CASE k = 0
    <2> DEFINE g == [i \in 0 .. 0 |-> 0]
    <2>1. g \in [0 .. 0 -> Nat] /\ g[0] = 0
      OBVIOUS
    <2>2. g \in Turns(step, 0)
      BY <2>1 DEF Turns
    <2> QED BY <1>4, <1>5, <2>2
  <1>6. CASE k # 0
    <2>1. k \in Nat /\ k >= 1 /\ k - 1 \in 0 .. m /\ k - 1 \in Nat
      BY <1>4, <1>6
    <2>2. k - 1 \notin T
      BY <1>3, <2>1
    <2>3. PICK f : f \in Turns(step, k - 1)
      BY <2>1, <2>2
    <2>4. /\ f \in [0 .. k - 1 -> Nat] /\ f[0] = 0
          /\ \A i \in 1 .. k - 1 : f[i] = step[<<f[i - 1], i>>]
      BY <2>3 DEF Turns
    <2> DEFINE g == [i \in 0 .. k |-> IF i = k THEN step[<<f[k - 1], k>>] ELSE f[i]]
    <2>5. f[k - 1] \in Nat /\ step[<<f[k - 1], k>>] \in Nat
      BY <2>1, <2>4
    <2>6. \A i \in 0 .. k : g[i] \in Nat
      BY <2>1, <2>4, <2>5
    <2>7. g[0] = 0
      BY <2>1, <2>4
    <2>8. \A i \in 1 .. k : g[i] = step[<<g[i - 1], i>>]
      <3>1. SUFFICES ASSUME NEW i \in 1 .. k PROVE g[i] = step[<<g[i - 1], i>>]
        OBVIOUS
      <3>2. i - 1 \in 0 .. k /\ i - 1 # k /\ i \in 0 .. k
        BY <2>1
      <3>3. g[i - 1] = f[i - 1]
        BY <3>2
      <3>4. CASE i = k
        BY <3>2, <3>3, <3>4
      <3>5. CASE i # k
        <4>1. i \in 1 .. k - 1
          BY <2>1, <3>5
        <4> QED BY <2>4, <3>2, <3>3, <3>5, <4>1
      <3> QED BY <3>4, <3>5
    <2>9. g \in [0 .. k -> Nat]
      BY <2>6
    <2> HIDE DEF g
    <2>10. g \in Turns(step, k)
      BY <2>7, <2>8, <2>9 DEF Turns
    <2> QED BY <1>4, <2>10
  <1> QED BY <1>5, <1>6

Fractions == {f \in Int \X Nat : f[2] > 0}

LEMMA GreaterOrder ==
  ASSUME NEW f \in Fractions, NEW g \in Fractions, NEW h \in Fractions
  PROVE  /\ ~Greater(f, f)
         /\ Greater(f, g) /\ ~Greater(h, g) => Greater(f, h) /\ ~Greater(h, f)
  <1> DEFINE f1 == f[1]
             f2 == f[2]
             g1 == g[1]
             g2 == g[2]
             h1 == h[1]
             h2 == h[2]
  <1>1. /\ f1 \in Int /\ f2 \in Nat /\ f2 > 0 /\ g1 \in Int /\ g2 \in Nat /\ g2 > 0
        /\ h1 \in Int /\ h2 \in Nat /\ h2 > 0
    BY DEF Fractions
  <1>2. /\ Greater(f, f) <=> f1 * f2 > f1 * f2
        /\ Greater(f, g) <=> f1 * g2 > g1 * f2
        /\ Greater(h, g) <=> h1 * g2 > g1 * h2
        /\ Greater(f, h) <=> f1 * h2 > h1 * f2
        /\ Greater(h, f) <=> h1 * f2 > f1 * h2
    BY DEF Greater
  <1> HIDE DEF f1, f2, g1, g2, h1, h2
  <1>3. ~(f1 * f2 > f1 * f2)
    BY <1>1
  <1>4. ASSUME f1 * g2 > g1 * f2, ~(h1 * g2 > g1 * h2)
        PROVE  f1 * h2 > h1 * f2 /\ ~(h1 * f2 > f1 * h2)
    <2> DEFINE x == f1 * h2
               y == h1 * f2
    <2>1. /\ f1 * g2 \in Int /\ g1 * f2 \in Int /\ h1 * g2 \in Int /\ g1 * h2 \in Int
          /\ x \in Int /\ y \in Int
      BY <1>1
    <2>2. (f1 * g2) * h2 > (g1 * f2) * h2
      BY <1>1, <1>4, <2>1
    <2>3. (h1 * g2) * f2 <= (g1 * h2) * f2
      BY <1>1, <1>4, <2>1
    <2>4. /\ (f1 * g2) * h2 = x * g2 /\ (h1 * g2) * f2 = y * g2
          /\ (g1 * f2) * h2 = (g1 * h2) * f2
      BY <1>1
    <2> HIDE DEF x, y
    <2>5. x * g2 \in Int /\ y * g2 \in Int /\ (g1 * f2) * h2 \in Int
      BY <1>1, <2>1
    <2>6. x * g2 > y * g2
      BY <2>2, <2>3, <2>4, <2>5
    <2>7. ~(x <= y)
      BY <1>1, <2>1, <2>6, StepsCompare
    <2> QED BY <2>1, <2>7 DEF x, y
  <1> QED BY <1>2, <1>3, <1>4

(* k is the place of the first best arm of "among" up to place n, 0 if     *)
(* there is none.                                                          *)
FirstBest(k, n, seq, among, scores) ==
    IF k = 0 THEN \A j \in 1 .. n : seq[j] \notin among
    ELSE /\ k \in 1 .. n /\ seq[k] \in among
         /\ \A j \in 1 .. n : seq[j] \in among =>
               /\ ~Greater(scores[seq[j]], scores[seq[k]])
               /\ j < k => Greater(scores[seq[k]], scores[seq[j]])

(* One turn of the loop.                                                   *)
LEMMA ArgmaxTurn ==
  ASSUME NEW seq, NEW among, NEW scores, NEW n \in Nat, n > 0, NEW b \in Nat,
         \A j \in 1 .. n : seq[j] \in among => scores[seq[j]] \in Fractions,
         FirstBest(b, n - 1, seq, among, scores)
  PROVE  FirstBest(IF /\ seq[n] \in among
                      /\ b = 0 \/ Greater(scores[seq[n]], scores[seq[b]])
                   THEN n ELSE b, n, seq, among, scores)
  <1>1. \A j \in 1 .. n : j \in 1 .. n - 1 \/ j = n
    OBVIOUS
  <1>2. n \in 1 .. n /\ \A j \in 1 .. n - 1 : j \in 1 .. n /\ j < n
    OBVIOUS
  <1>3. CASE seq[n] \notin among
    BY <1>1, <1>2, <1>3 DEF FirstBest
  <1>4. CASE seq[n] \in among /\ b = 0
    <2>1. scores[seq[n]] \in Fractions
      BY <1>2, <1>4
    <2>2. ~Greater(scores[seq[n]], scores[seq[n]])
      BY <2>1, GreaterOrder
    <2>3. \A j \in 1 .. n - 1 : seq[j] \notin among
      BY <1>4 DEF FirstBest
    <2> QED BY <1>1, <1>2, <1>4, <2>2, <2>3 DEF FirstBest
  <1>5. CASE seq[n] \in among /\ b # 0
    <2>1. /\ b \in 1 .. n - 1 /\ seq[b] \in among
          /\ \A j \in 1 .. n - 1 : seq[j] \in among =>
                /\ ~Greater(scores[seq[j]], scores[seq[b]])
                /\ j < b => Greater(scores[seq[b]], scores[seq[j]])
      BY <1>5 DEF FirstBest
    <2>2. scores[seq[n]] \in Fractions /\ scores[seq[b]] \in Fractions
      BY <1>2, <1>5, <2>1
    <2>3. CASE Greater(scores[seq[n]], scores[seq[b]])
      <3>1. ~Greater(scores[seq[n]], scores[seq[n]])
        BY <2>2, GreaterOrder
      <3>2. ASSUME NEW j \in 1 .. n - 1, seq[j] \in among
            PROVE  Greater(scores[seq[n]], scores[seq[j]]) /\ ~Greater(scores[seq[j]], scores[seq[n]])
        <4>1. scores[seq[j]] \in Fractions
          BY <1>2, <3>2
        <4>2. ~Greater(scores[seq[j]], scores[seq[b]])
          BY <2>1, <3>2
        <4> QED BY <2>2, <2>3, <4>1, <4>2, GreaterOrder
      <3>3. FirstBest(n, n, seq, among, scores)
        BY <1>1, <1>2, <1>5, <3>1, <3>2 DEF FirstBest
      <3> QED BY <1>5, <2>3, <3>3
    <2>4. CASE ~Greater(scores[seq[n]], scores[seq[b]])
      <3>1. b \in 1 .. n /\ b < n
        BY <1>2, <2>1
      <3>2. \A j \in 1 .. n : seq[j] \in among =>
               /\ ~Greater(scores[seq[j]], scores[seq[b]])
               /\ j < b => Greater(scores[seq[b]], scores[seq[j]])
        BY <1>1, <2>1, <2>4, <3>1
      <3>3. FirstBest(b, n, seq, among, scores)
        BY <1>5, <2>1, <3>1, <3>2 DEF FirstBest
      <3> QED BY <1>5, <2>4, <3>3
    <2> QED BY <2>3, <2>4
  <1> QED BY <1>3, <1>4, <1>5

(* deterministic_argmax() returns the first of the best arms, for any      *)
(* number of arms and any scores.                                          *)
THEOREM ArgmaxIsFirstBest ==
  ASSUME NEW seq, Len(seq) \in Nat, NEW among, NEW scores,
         \A j \in 1 .. Len(seq) : seq[j] \in among => scores[seq[j]] \in Fractions,
         \E j \in 1 .. Len(seq) : seq[j] \in among
  PROVE  \E k \in 1 .. Len(seq) :
            /\ DeterministicArgmax(seq, among, scores) = seq[k]
            /\ FirstBest(k, Len(seq), seq, among, scores)
  <1> DEFINE m == Len(seq)
             Better(b, n) == seq[n] \in among /\ (b = 0 \/ Greater(scores[seq[n]], scores[seq[b]]))
             step == [x \in Nat \X Nat |-> IF Better(x[1], x[2]) THEN x[2] ELSE x[1]]
             F(g) == [n \in 0 .. m |-> IF n = 0 THEN 0
                                       ELSE IF Better(g[n - 1], n) THEN n ELSE g[n - 1]]
             best == CHOOSE f : f = F(f)
  <1>1. DeterministicArgmax(seq, among, scores) = seq[best[m]]
    BY DEF DeterministicArgmax
  <1>2. step \in [Nat \X Nat -> Nat]
    OBVIOUS
  <1>3. PICK g : g \in Turns(step, m)
    BY <1>2, TurnsExist
  <1>4. g \in [0 .. m -> Nat] /\ g[0] = 0 /\ \A n \in 1 .. m : g[n] = step[<<g[n - 1], n>>]
    BY <1>3 DEF Turns
  <1>5. \A n \in 1 .. m : g[n] = IF Better(g[n - 1], n) THEN n ELSE g[n - 1]
    <2>1. \A b, n \in Nat : step[<<b, n>>] = IF Better(b, n) THEN n ELSE b
      OBVIOUS
    <2>2. \A n \in 1 .. m : n \in Nat /\ g[n - 1] \in Nat
      BY <1>4
    <2> HIDE DEF step, Better
    <2> QED BY <1>4, <2>1, <2>2
  <1> HIDE DEF Better, step
  <1>6. g = F(g)
    BY <1>4, <1>5
  <1>7. best = F(best)
    BY <1>6
  <1> HIDE DEF best
  <1>8. best[0] = 0 /\ \A n \in 1 .. m : best[n] = IF Better(best[n - 1], n) THEN n ELSE best[n - 1]
    BY <1>7
  <1> DEFINE Good(n) == best[n] \in Nat /\ FirstBest(best[n], n, seq, among, scores)
             T == {n \in 0 .. m : ~Good(n)}
  <1>9. T = {}
    <2>1. SUFFICES ASSUME T # {} PROVE FALSE
      OBVIOUS
    <2>2. T \in SUBSET Nat
      OBVIOUS
    <2>3. PICK k \in T : \A y \in T : k <= y
      BY <2>1, <2>2, LeastNatural
    <2>4. Good(0)
      BY <1>8 DEF FirstBest
    <2>5. k \in 1 .. m /\ k - 1 \in 0 .. m /\ k \in Nat /\ k > 0
      BY <2>3, <2>4
    <2>6. Good(k - 1)
      BY <2>3, <2>5
    <2>7. \A j \in 1 .. k : seq[j] \in among => scores[seq[j]] \in Fractions
      BY <2>5
    <2>8. FirstBest(IF Better(best[k - 1], k) THEN k ELSE best[k - 1], k, seq, among, scores)
      BY <2>5, <2>6, <2>7, ArgmaxTurn DEF Better
    <2>9. best[k] = IF Better(best[k - 1], k) THEN k ELSE best[k - 1]
      BY <1>8, <2>5
    <2>10. Good(k)
      BY <2>5, <2>6, <2>8, <2>9
    <2> QED BY <2>3, <2>10
  <1>10. Good(m)
    BY <1>9
  <1>11. best[m] # 0
    BY <1>10 DEF FirstBest
  <1>12. best[m] \in 1 .. m
    BY <1>10, <1>11 DEF FirstBest
  <1> QED BY <1>1, <1>10, <1>12

LEMMA IndexType ==
  ASSUME SessionInv, NEW a \in Arms, NEW t \in Times
  PROVE  StandardIndex(arms[a], t) \in Fractions
  <1> DEFINE n == IF arms[a].pulls = 0 THEN 1 ELSE arms[a].pulls
  <1>1. arms[a].mean \in Int \X Nat /\ arms[a].mean[2] > 0 /\ arms[a].pulls \in 0 .. MaxPulls
    BY DEF SessionInv, ArmStates
  <1>2. n \in 1 .. MaxPulls
    BY <1>1, EnergyUcbAssumption
  <1>3. Bonus(t, n) \in Nat
    BY <1>2, EnergyUcbAssumption
  <1>4. StandardIndex(arms[a], t) = <<arms[a].mean[1] + Bonus(t, n) * arms[a].mean[2], arms[a].mean[2]>>
    BY DEF StandardIndex
  <1> HIDE DEF n
  <1>5. arms[a].mean[1] + Bonus(t, n) * arms[a].mean[2] \in Int
    BY <1>1, <1>3
  <1> QED BY <1>1, <1>4, <1>5 DEF Fractions

(* An arm whose index, less the penalty, is not below the old one's.       *)
LEMMA PenaltyPaid ==
  ASSUME NEW new \in Fractions, NEW old \in Fractions, NEW penalty \in Nat
  PROVE  LET less == <<new[1] - penalty * new[2], new[2]>>
             gain == Plus(new, <<-old[1], old[2]>>)
         IN  /\ less \in Fractions
             /\ ~Greater(old, less) => gain[1] >= penalty * gain[2]
             /\ Greater(less, old) => gain[1] > penalty * gain[2]
  <1> DEFINE c1 == new[1]
             c2 == new[2]
             p1 == old[1]
             p2 == old[2]
             less == <<c1 - penalty * c2, c2>>
             gain == Plus(new, <<-p1, p2>>)
  <1>1. c1 \in Int /\ c2 \in Nat /\ c2 > 0 /\ p1 \in Int /\ p2 \in Nat /\ p2 > 0
    BY DEF Fractions
  <1>2. /\ gain[1] = c1 * p2 + (-p1) * c2 /\ gain[2] = c2 * p2
        /\ Greater(old, less) <=> p1 * c2 > (c1 - penalty * c2) * p2
        /\ Greater(less, old) <=> (c1 - penalty * c2) * p2 > p1 * c2
    BY DEF Plus, Greater
  <1>3. less \in Fractions
    <2>1. c1 - penalty * c2 \in Int
      BY <1>1
    <2> QED BY <1>1, <2>1 DEF Fractions
  <1> HIDE DEF c1, c2, p1, p2
  <1>4. /\ (c1 - penalty * c2) * p2 = c1 * p2 - penalty * (c2 * p2)
        /\ (-p1) * c2 = -(p1 * c2)
        /\ c1 * p2 \in Int /\ penalty * (c2 * p2) \in Int /\ p1 * c2 \in Int
    <2>1. penalty * c2 \in Int /\ (penalty * c2) * p2 = penalty * (c2 * p2)
      BY <1>1, Products
    <2>2. (c1 - penalty * c2) * p2 = c1 * p2 - (penalty * c2) * p2
      BY <1>1, <2>1, Products
    <2>3. (-p1) * c2 = -(p1 * c2)
      BY <1>1
    <2> QED BY <1>1, <2>1, <2>2, <2>3
  <1>5. /\ ~Greater(old, less) => gain[1] >= penalty * gain[2]
        /\ Greater(less, old) => gain[1] > penalty * gain[2]
    BY <1>2, <1>4
  <1> QED BY <1>3, <1>5 DEF c1, c2, p1, p2

(* What SwitchPays says of one choice, in the arms x and the order seq.    *)
Pays(c, x, seq) ==
    LET gain(a) == Plus(StandardIndex(x[c.chosen], c.time),
                        <<-StandardIndex(x[a], c.time)[1], StandardIndex(x[a], c.time)[2]>>)
        place(a) == CHOOSE i \in DOMAIN seq : seq[i] = a
    IN  /\ {MaxArm, c.chosen} \subseteq c.feasible
        /\ c.progress[c.chosen] * c.budget[2]
              >= (c.budget[2] - c.budget[1]) * c.progress[MaxArm]
        /\ c.previous \in c.feasible \ {c.chosen} =>
             /\ gain(c.previous)[1] >= c.penalty * gain(c.previous)[2]
             /\ place(c.chosen) > place(c.previous) =>
                   gain(c.previous)[1] > c.penalty * gain(c.previous)[2]

ChoiceInv == \A c \in choice : c.feasible \subseteq Arms /\ c.previous \in Arms /\ Pays(c, arms, order)

LEMMA ChoicePays ==
  ASSUME SessionInv, NEW t \in Times, NEW old \in Arms, NEW penalty \in Penalties,
         NEW p \in Progresses, NEW b \in Budgets, Choose(t, old, penalty, p, b)
  PROVE  \A c \in choice' :
            c.feasible \subseteq Arms /\ c.previous \in Arms /\ Pays(c, arms, order)
  <1> DEFINE feasible == FeasibleArms(p, b)
             score(a) == SwitchingIndex(arms[a], t, penalty, a, old)
             scores == [a \in Arms |-> score(a)]
             new == DeterministicArgmax(order, feasible, scores)
             index(a) == StandardIndex(arms[a], t)
  <1>1. \A c \in choice' : /\ c.time = t /\ c.previous = old /\ c.penalty = penalty
                           /\ c.progress = p /\ c.budget = b /\ c.feasible = feasible
                           /\ c.chosen = new
    BY DEF Choose
  <1>2. /\ order \in Seq(Arms) /\ ToSet(order) = Arms
        /\ \A i, j \in DOMAIN order : order[i] = order[j] => i = j
        /\ MaxArm \in Arms /\ penalty \in Nat
    BY EnergyUcbAssumption DEF SessionInv
  <1>3. /\ p \in [Arms -> Nat] /\ b[1] \in Int /\ b[2] \in Nat /\ 0 <= b[1] /\ b[1] < b[2]
    BY EnergyUcbAssumption DEF IsFraction
  <1>4. Len(order) \in Nat /\ DOMAIN order = 1 .. Len(order) /\ \A i \in DOMAIN order : order[i] \in Arms
    BY <1>2
  <1>5. \A a \in Arms : \E i \in DOMAIN order : order[i] = a
    BY <1>2 DEF ToSet
  <1>6. feasible \subseteq Arms /\ MaxArm \in feasible
    <2>1. (p[MaxArm] - p[MaxArm]) * b[2] = 0
      BY <1>2, <1>3
    <2>2. b[1] * p[MaxArm] >= 0
      BY <1>2, <1>3, NatProduct
    <2> QED BY <1>2, <2>1, <2>2 DEF FeasibleArms
  <1>7. \A a \in feasible : p[a] * b[2] >= (b[2] - b[1]) * p[MaxArm]
    <2>1. SUFFICES ASSUME NEW a \in feasible PROVE p[a] * b[2] >= (b[2] - b[1]) * p[MaxArm]
      OBVIOUS
    <2> DEFINE x == p[a]
               y == p[MaxArm]
               u == b[1]
               v == b[2]
    <2>2. x \in Int /\ y \in Int /\ u \in Int /\ v \in Int /\ (y - x) * v <= u * y
      BY <1>2, <1>3, <1>6 DEF FeasibleArms
    <2> HIDE DEF x, y, u, v
    <2>3. (y - x) * v = y * v - x * v /\ (v - u) * y = v * y - u * y /\ v * y = y * v
      BY <2>2, Products
    <2>4. y * v \in Int /\ x * v \in Int /\ u * y \in Int
      BY <2>2
    <2>5. x * v >= (v - u) * y
      BY <2>2, <2>3, <2>4
    <2> QED BY <2>5 DEF x, y, u, v
  <1>8. \A a \in Arms : index(a) \in Fractions
    BY IndexType
  <1>9. /\ score(old) = index(old)
        /\ \A a \in Arms : a # old => score(a) = <<index(a)[1] - penalty * index(a)[2], index(a)[2]>>
    BY DEF SwitchingIndex
  <1> HIDE DEF feasible, index, score
  <1>10. \A a \in Arms : score(a) \in Fractions /\ scores[a] = score(a)
    <2>1. SUFFICES ASSUME NEW a \in Arms PROVE score(a) \in Fractions
      OBVIOUS
    <2>2. CASE a = old
      BY <1>8, <1>9, <2>2
    <2>3. CASE a # old
      BY <1>2, <1>8, <1>9, <2>3, PenaltyPaid
    <2> QED BY <2>2, <2>3
  <1> HIDE DEF scores
  <1>11. PICK k \in 1 .. Len(order) :
            new = order[k] /\ FirstBest(k, Len(order), order, feasible, scores)
    <2>1. \A j \in 1 .. Len(order) : order[j] \in feasible => scores[order[j]] \in Fractions
      BY <1>4, <1>10
    <2>2. \E j \in 1 .. Len(order) : order[j] \in feasible
      BY <1>2, <1>4, <1>5, <1>6
    <2> QED BY <1>4, <2>1, <2>2, ArgmaxIsFirstBest
  <1> HIDE DEF new
  <1>12. /\ k # 0 /\ new \in feasible /\ new \in Arms
         /\ \A j \in 1 .. Len(order) : order[j] \in feasible =>
               /\ ~Greater(score(order[j]), score(new))
               /\ j < k => Greater(score(new), score(order[j]))
    BY <1>4, <1>6, <1>10, <1>11 DEF FirstBest
  <1> DEFINE place(a) == CHOOSE i \in DOMAIN order : order[i] = a
             gain == Plus(index(new), <<-index(old)[1], index(old)[2]>>)
  <1>13. ASSUME old \in feasible, old # new
         PROVE  /\ gain[1] >= penalty * gain[2]
                /\ place(new) > place(old) => gain[1] > penalty * gain[2]
    <2>1. PICK j \in 1 .. Len(order) : order[j] = old
      BY <1>4, <1>5
    <2>2. place(new) = k /\ place(old) = j
      BY <1>2, <1>4, <1>11, <2>1
    <2>3. ~Greater(score(old), score(new)) /\ (j < k => Greater(score(new), score(old)))
      BY <1>12, <1>13, <2>1
    <2>4. score(old) = index(old) /\ score(new) = <<index(new)[1] - penalty * index(new)[2], index(new)[2]>>
      BY <1>9, <1>12, <1>13
    <2>5. index(new) \in Fractions /\ index(old) \in Fractions
      BY <1>8, <1>12
    <2> HIDE DEF gain, place
    <2>6. /\ ~Greater(score(old), score(new)) => gain[1] >= penalty * gain[2]
          /\ Greater(score(new), score(old)) => gain[1] > penalty * gain[2]
      BY <1>2, <2>4, <2>5, PenaltyPaid DEF gain
    <2>7. k \in Nat /\ j \in Nat
      BY <1>4
    <2> QED BY <2>2, <2>3, <2>6, <2>7
  <1>14. SUFFICES ASSUME NEW c \in choice' PROVE Pays(c, arms, order)
    BY <1>1, <1>6
  <1>15. /\ c.time = t /\ c.previous = old /\ c.penalty = penalty /\ c.progress = p
         /\ c.budget = b /\ c.feasible = feasible /\ c.chosen = new
    BY <1>1
  <1>16. gain = Plus(StandardIndex(arms[c.chosen], c.time),
                     <<-StandardIndex(arms[c.previous], c.time)[1],
                       StandardIndex(arms[c.previous], c.time)[2]>>)
    BY <1>15 DEF index
  <1>17. /\ {MaxArm, c.chosen} \subseteq c.feasible
         /\ c.progress[c.chosen] * c.budget[2] >= (c.budget[2] - c.budget[1]) * c.progress[MaxArm]
    BY <1>6, <1>7, <1>12, <1>15
  <1> HIDE DEF gain, place
  <1>18. c.previous \in c.feasible \ {c.chosen} =>
            /\ gain[1] >= c.penalty * gain[2]
            /\ place(c.chosen) > place(c.previous) => gain[1] > c.penalty * gain[2]
    BY <1>13, <1>15
  <1>19. /\ place(c.chosen) = (CHOOSE i \in DOMAIN order : order[i] = c.chosen)
         /\ place(c.previous) = (CHOOSE i \in DOMAIN order : order[i] = c.previous)
    BY DEF place
  <1> QED BY <1>16, <1>17, <1>18, <1>19 DEF Pays

LEMMA ChoiceStep ==
  ASSUME SessionInv, ChoiceInv, [NextCall]_session
  PROVE  ChoiceInv'
  <1>1. ASSUME NEW a, NEW o, Learn(a, o) PROVE ChoiceInv'
    BY <1>1 DEF Learn, ChoiceInv
  <1>2. ASSUME NEW t \in Times, NEW a \in Arms, NEW n \in Penalties, NEW p \in Progresses,
               NEW b \in Budgets, Choose(t, a, n, p, b)
        PROVE  ChoiceInv'
    <2>1. UNCHANGED <<order, arms>>
      BY <1>2 DEF Choose
    <2> QED BY <1>2, <2>1, ChoicePays DEF ChoiceInv
  <1>3. CASE UNCHANGED session
    BY <1>3 DEF session, ChoiceInv
  <1> QED BY <1>1, <1>2, <1>3 DEF NextCall

(* For any arms, orders, rewards, budgets and penalties, the arm chosen is *)
(* one the budget allows, and leaving the arm of the last step for it is   *)
(* worth the penalty.                                                      *)
THEOREM SwitchCorrect == SessionSpec => []SwitchPays
  <1>1. InitSession => ChoiceInv
    BY DEF InitSession, ChoiceInv
  <1>2. SessionInv /\ ChoiceInv /\ [NextCall]_session => ChoiceInv'
    BY ChoiceStep
  <1>3. ChoiceInv => SwitchPays
    <2> SUFFICES ASSUME ChoiceInv, NEW c \in choice
                 PROVE  LET index == [a \in Arms |-> StandardIndex(arms[a], c.time)]
                            old   == index[c.previous]
                            gain  == Plus(index[c.chosen], <<-old[1], old[2]>>)
                        IN  /\ {MaxArm, c.chosen} \subseteq c.feasible
                            /\ c.progress[c.chosen] * c.budget[2]
                                  >= (c.budget[2] - c.budget[1]) * c.progress[MaxArm]
                            /\ c.previous \in c.feasible \ {c.chosen} =>
                                 /\ gain[1] >= c.penalty * gain[2]
                                 /\ Place(c.chosen) > Place(c.previous) =>
                                      gain[1] > c.penalty * gain[2]
      BY DEF SwitchPays
    <2>1. Pays(c, arms, order) /\ c.feasible \subseteq Arms /\ c.previous \in Arms
      BY DEF ChoiceInv
    <2>2. c.chosen \in Arms
      BY <2>1 DEF Pays
    <2> QED BY <2>1, <2>2 DEF Pays, Place
  <1> QED BY <1>1, <1>2, <1>3, SessionInductive, PTL DEF SessionSpec
=============================================================================
