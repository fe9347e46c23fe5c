---------------------------- MODULE ClockGrid_proof ----------------------------
(***************************************************************************)
(* What ClockGrid's roundings return, for every platform and every request.*)
(***************************************************************************)
EXTENDS ClockGrid, TLAPS

(* A whole number of steps above the minimum is on the grid.               *)
LEMMA MultipleOnGrid ==
  ASSUME NEW lo \in Int, NEW k \in Int, NEW s \in Nat, s > 0
  PROVE  ((lo + k * s) - lo) % s = 0
  <1>1. (lo + k * s) - lo = k * s
    BY k * s \in Int
  <1>2. (k * s) % s = 0
    OBVIOUS
  <1> QED BY <1>1, <1>2

(* The floor of a quotient, multiplied back, is at most one step short.    *)
LEMMA FloorBracket ==
  ASSUME NEW a \in Int, NEW b \in Nat, b > 0
  PROVE  /\ a \div b \in Int
         /\ (a \div b) * b \in Int
         /\ (a \div b) * b <= a
         /\ a < (a \div b) * b + b
  OBVIOUS

(* The ceiling of a quotient, multiplied back, is at most one step over.   *)
LEMMA CeilBracket ==
  ASSUME NEW a \in Int, NEW b \in Nat, b > 0
  PROVE  /\ CeilDiv(a, b) \in Int
         /\ CeilDiv(a, b) * b \in Int
         /\ CeilDiv(a, b) * b >= a
         /\ CeilDiv(a, b) * b < a + b
  <1> DEFINE q == (-a) \div b
  <1>1. q \in Int /\ q * b <= -a /\ -a < q * b + b
    BY FloorBracket
  <1>2. (-q) * b = -(q * b)
    BY <1>1
  <1> QED BY <1>1, <1>2 DEF CeilDiv

LEMMA ClampInRange ==
  ASSUME NEW v \in Int, NEW lo \in Int, NEW hi \in Int, lo <= hi
  PROVE  /\ Clamp(v, lo, hi) \in lo .. hi
         /\ v \in lo .. hi => Clamp(v, lo, hi) = v
  BY DEF Clamp

(* EVeREST's rounding down returns a clock of the grid.                    *)
LEMMA QuantizeDownOnGrid ==
  ASSUME NEW v \in Int, NEW lo \in Nat, NEW hi \in Nat, lo <= hi,
         NEW s \in Nat, s > 0
  PROVE  /\ QuantizeDown(v, lo, hi, s) \in lo .. hi
         /\ (QuantizeDown(v, lo, hi, s) - lo) % s = 0
  <1> DEFINE c == Clamp(v, lo, hi)
             k == (c - lo) \div s
  <1>1. c \in lo .. hi
    BY ClampInRange
  <1>2. /\ k \in Int /\ k * s \in Int
        /\ k * s <= c - lo /\ c - lo < k * s + s
    BY <1>1, FloorBracket
  <1>3. k >= 0
    BY <1>1
  <1> HIDE DEF c, k
  <1>4. k * s >= 0
    BY <1>2, <1>3
  <1>5. lo + k * s \in lo .. hi
    BY <1>1, <1>2, <1>4
  <1>6. QuantizeDown(v, lo, hi, s) = lo + k * s
    BY <1>2, <1>5, ClampInRange DEF QuantizeDown, c, k
  <1>7. ((lo + k * s) - lo) % s = 0
    BY <1>2, MultipleOnGrid
  <1> QED BY <1>5, <1>6, <1>7

(* EVeREST's rounding up returns a clock of the grid or the upper bound,   *)
(* and never less than the clamped request.                                *)
LEMMA QuantizeUpOnGrid ==
  ASSUME NEW v \in Int, NEW lo \in Nat, NEW hi \in Nat, lo <= hi,
         NEW s \in Nat, s > 0
  PROVE  /\ QuantizeUp(v, lo, hi, s) \in lo .. hi
         /\ \/ QuantizeUp(v, lo, hi, s) = hi
            \/ (QuantizeUp(v, lo, hi, s) - lo) % s = 0
         /\ QuantizeUp(v, lo, hi, s) >= Clamp(v, lo, hi)
  <1> DEFINE c == Clamp(v, lo, hi)
             k == CeilDiv(c - lo, s)
  <1>1. c \in lo .. hi
    BY ClampInRange
  <1>2. /\ k \in Int /\ k * s \in Int /\ k * s >= c - lo
    BY <1>1, CeilBracket
  <1> HIDE DEF c, k
  <1>3. ((lo + k * s) - lo) % s = 0
    BY <1>2, MultipleOnGrid
  <1>4. QuantizeUp(v, lo, hi, s) = Clamp(lo + k * s, lo, hi)
    BY DEF QuantizeUp, c, k
  <1>5. CASE lo + k * s <= hi
    <2>1. lo + k * s \in lo .. hi
      BY <1>1, <1>2, <1>5
    <2>2. Clamp(lo + k * s, lo, hi) = lo + k * s
      BY <2>1, <1>2 DEF Clamp
    <2>3. QuantizeUp(v, lo, hi, s) = lo + k * s
      BY <2>2, <1>4
    <2>4. lo + k * s >= c
      BY <1>1, <1>2
    <2> QED BY <2>1, <2>3, <2>4, <1>3 DEF c
  <1>6. CASE lo + k * s > hi
    <2>1. Clamp(lo + k * s, lo, hi) = hi
      BY <1>1, <1>2, <1>6 DEF Clamp
    <2>2. QuantizeUp(v, lo, hi, s) = hi
      BY <2>1, <1>4
    <2>3. hi >= c /\ hi \in lo .. hi
      BY <1>1
    <2> QED BY <2>2, <2>3 DEF c
  <1>7. k * s \in Int
    BY <1>2
  <1> QED BY <1>5, <1>6, <1>7 DEF c

(* The high probe clock is one the runner accepts.                         *)
THEOREM HighClockValid ==
  ASSUME NEW p, IsPlatform(p), NEW configured \in Int
  PROVE  ValidClock(HighClock(p, configured), p)
  <1> DEFINE f == Clamp(configured, p.min, p.max)
  <1>1. /\ p.min \in Nat /\ p.max \in Nat /\ p.step \in Nat
        /\ p.min \in Int /\ p.max \in Int /\ p.min <= p.max /\ p.step > 0
    BY DEF IsPlatform
  <1>2. f \in p.min .. p.max
    BY <1>1, ClampInRange
  <1>3. CASE f \in {p.min, p.max}
    BY <1>1, <1>3 DEF HighClock, ValidClock
  <1>4. CASE f \notin {p.min, p.max}
    <2>1. HighClock(p, configured) = QuantizeDown(f, p.min, p.max, p.step)
      BY <1>4 DEF HighClock
    <2>2. f \in Int
      BY <1>1, <1>2
    <2> HIDE DEF f
    <2>3. /\ QuantizeDown(f, p.min, p.max, p.step) \in p.min .. p.max
          /\ (QuantizeDown(f, p.min, p.max, p.step) - p.min) % p.step = 0
      BY <1>1, <2>2, QuantizeDownOnGrid
    <2> QED BY <2>1, <2>3 DEF ValidClock, OnGrid
  <1> QED BY <1>3, <1>4

(* So is the low probe clock, for a high clock the runner accepts; it is   *)
(* no higher than the high one.                                            *)
THEOREM LowClockValid ==
  ASSUME NEW p, IsPlatform(p), NEW high, ValidClock(high, p),
         NEW configured \in Int, NEW floor \in Int
  PROVE  /\ ValidClock(LowClock(p, high, configured, floor), p)
         /\ LowClock(p, high, configured, floor) <= high
  <1> DEFINE goal  == IF configured > floor THEN configured ELSE floor
             f     == QuantizeUp(goal, p.min, high, p.step)
             lower == QuantizeDown(high - p.step, p.min, high, p.step)
  <1>1. /\ p.min \in Nat /\ p.max \in Nat /\ p.step \in Nat
        /\ p.min \in Int /\ p.max \in Int /\ p.min <= p.max /\ p.step > 0
    BY DEF IsPlatform
  <1>2. high \in Nat /\ p.min <= high /\ high <= p.max
    BY <1>1 DEF ValidClock
  <1>3. goal \in Int
    OBVIOUS
  <1>4. /\ f \in p.min .. high
        /\ f = high \/ (f - p.min) % p.step = 0
    BY <1>1, <1>2, <1>3, QuantizeUpOnGrid
  <1>5. /\ lower \in p.min .. high
        /\ (lower - p.min) % p.step = 0
    <2>1. high - p.step \in Int
      BY <1>1, <1>2
    <2> QED BY <1>1, <1>2, <2>1, QuantizeDownOnGrid
  <1>6. ValidClock(f, p) /\ f <= high
    <2>1. f \in p.min .. p.max /\ f <= high
      BY <1>1, <1>2, <1>4
    <2>2. CASE f = high
      BY <2>1, <2>2
    <2>3. CASE (f - p.min) % p.step = 0
      BY <2>1, <2>3 DEF ValidClock, OnGrid
    <2> QED BY <1>4, <2>2, <2>3
  <1>7. ValidClock(lower, p) /\ lower <= high
    BY <1>1, <1>2, <1>5 DEF ValidClock, OnGrid
  <1>8. LowClock(p, high, configured, floor) \in {f, lower}
    BY DEF LowClock
  <1> QED BY <1>6, <1>7, <1>8

LEMMA NatProduct ==
  ASSUME NEW a \in Nat, NEW b \in Nat
  PROVE  a * b \in Nat /\ (a > 0 /\ b > 0 => a * b > 0)
  OBVIOUS

(* The scaler's rounding of a fraction not below the lower bound returns a *)
(* clock of the grid within the bounds.                                    *)
LEMMA QuantizeUpWithinOnGrid ==
  ASSUME NEW f \in Int \X Nat, f[2] > 0, NEW lo \in Nat, NEW hi \in Nat,
         lo <= hi, NEW s \in Nat, s > 0, f[1] >= lo * f[2]
  PROVE  /\ QuantizeUpWithin(f, lo, hi, s) \in lo .. hi
         /\ (QuantizeUpWithin(f, lo, hi, s) - lo) % s = 0
  <1> DEFINE n  == f[1]
             d  == f[2]
             a  == n - lo * d
             b  == s * d
             k  == CeilDiv(a, b)
             q  == (hi - lo) \div s
  <1>1. n \in Int /\ d \in Nat /\ d > 0 /\ n >= lo * d
    OBVIOUS
  <1>2. QuantizeUpWithin(f, lo, hi, s) =
          IF lo + k * s <= hi THEN lo + k * s ELSE lo + q * s
    BY DEF QuantizeUpWithin
  <1> HIDE DEF n, d
  <1>3. a \in Int /\ a >= 0 /\ b \in Nat /\ b > 0
    BY <1>1, NatProduct
  <1>4. k \in Int /\ k * b >= a
    BY <1>3, CeilBracket
  <1>5. q \in Int /\ q * s \in Int /\ q * s <= hi - lo /\ q >= 0
    BY FloorBracket
  <1> HIDE DEF a, b, k, q
  <1>6. k >= 0
    BY <1>3, <1>4
  <1>7. k * s \in Int /\ k * s >= 0 /\ q * s >= 0
    BY <1>4, <1>5, <1>6
  <1>8. ((lo + k * s) - lo) % s = 0 /\ ((lo + q * s) - lo) % s = 0
    BY <1>4, <1>5, MultipleOnGrid
  <1>9. CASE lo + k * s <= hi
    BY <1>2, <1>7, <1>8, <1>9
  <1>10. CASE ~(lo + k * s <= hi)
    BY <1>2, <1>5, <1>7, <1>8, <1>10
  <1> QED BY <1>9, <1>10

(* A fraction clamped to whole bounds is a fraction at least the lower one.*)
LEMMA ClampFractionInRange ==
  ASSUME NEW n \in Int, NEW d \in Nat, d > 0, NEW lo \in Nat, NEW hi \in Nat, lo <= hi
  PROVE  /\ ClampFraction(n, d, lo, hi) \in Int \X Nat
         /\ ClampFraction(n, d, lo, hi)[2] > 0
         /\ ClampFraction(n, d, lo, hi)[1] >= lo * ClampFraction(n, d, lo, hi)[2]
  <1>1. lo * d \in Int /\ hi * d \in Int
    OBVIOUS
  <1>2. CASE n > hi * d
    BY <1>2 DEF ClampFraction
  <1>3. CASE ~(n > hi * d) /\ n < lo * d
    BY <1>3 DEF ClampFraction
  <1>4. CASE ~(n > hi * d) /\ ~(n < lo * d)
    <2>1. ClampFraction(n, d, lo, hi) = <<n, d>>
      BY <1>4 DEF ClampFraction
    <2>2. n >= lo * d
      BY <1>1, <1>4
    <2> QED BY <2>1, <2>2
  <1> QED BY <1>2, <1>3, <1>4

(* The ideal clock is a fraction with a positive denominator.              *)
LEMMA RawClockIsFraction ==
  ASSUME NEW high \in Nat, NEW fs, IsSensitivity(fs), NEW pd, IsLoss(pd), NEW minA \in Nat
  PROVE  RawClock(high, fs, pd, minA) \in Int \X Nat /\ RawClock(high, fs, pd, minA)[2] > 0
  <1> DEFINE a == fs[1]
             b == fs[2]
             c == pd[1]
             e == pd[2]
             gain == a * (e - c)
  <1>1. a \in Nat /\ b \in Nat /\ b > 0 /\ c \in Nat /\ e \in Nat /\ c < e
    BY DEF IsSensitivity, IsLoss
  <1>2. RawClock(high, fs, pd, minA) = IF a = 0 THEN <<minA, 1>>
                                       ELSE IF c = 0 THEN <<high, 1>>
                                       ELSE <<high * gain, gain + c * b>>
    BY DEF RawClock
  <1> HIDE DEF a, b, c, e
  <1>3. CASE a = 0
    BY <1>2, <1>3
  <1>4. CASE a # 0 /\ c = 0
    BY <1>2, <1>4
  <1>5. CASE a # 0 /\ c # 0
    <2>1. e - c \in Nat /\ e - c > 0
      BY <1>1
    <2>2. gain \in Nat /\ gain > 0
      BY <1>1, <1>5, <2>1, NatProduct
    <2> HIDE DEF gain
    <2>3. c * b \in Nat
      BY <1>1, NatProduct
    <2>4. high * gain \in Nat
      BY <2>2, NatProduct
    <2> QED BY <1>2, <1>5, <2>2, <2>3, <2>4
  <1> QED BY <1>3, <1>4, <1>5

(* Every clock the frequency scaler computes is one the runner accepts and *)
(* no higher than the high clock, for every sensitivity and every target.  *)
THEOREM ScaledClockValid ==
  ASSUME NEW p, IsPlatform(p), NEW high, ValidClock(high, p),
         NEW fs, IsSensitivity(fs), NEW pd, IsLoss(pd), NEW floor \in Int
  PROVE  /\ ValidClock(ScaledClock(p, high, fs, pd, floor), p)
         /\ ScaledClock(p, high, fs, pd, floor) <= high
  <1> DEFINE minA == MinAllowed(p, high, floor)
             raw  == RawClock(high, fs, pd, minA)
             goal == ClampFraction(raw[1], raw[2], minA, high)
             up   == QuantizeUpWithin(goal, p.min, high, p.step)
             one  == <<minA, 1>>
             low  == QuantizeUpWithin(one, p.min, high, p.step)
  <1>1. /\ p.min \in Nat /\ p.max \in Nat /\ p.step \in Nat
        /\ p.min <= p.max /\ p.step > 0
    BY DEF IsPlatform
  <1>2. high \in Nat /\ p.min <= high /\ high <= p.max
    BY <1>1 DEF ValidClock
  <1>3. minA \in Nat /\ p.min <= minA /\ minA <= high
    BY <1>1, <1>2 DEF MinAllowed
  <1>4. ScaledClock(p, high, fs, pd, floor) = IF up < minA THEN low ELSE up
    BY DEF ScaledClock
  <1> HIDE DEF minA
  <1>5. raw \in Int \X Nat /\ raw[2] > 0
    BY <1>2, <1>3, RawClockIsFraction
  <1> HIDE DEF raw
  <1>6. goal \in Int \X Nat /\ goal[2] > 0 /\ goal[1] >= minA * goal[2]
    <2>1. raw[1] \in Int /\ raw[2] \in Nat
      BY <1>5
    <2> QED BY <1>2, <1>3, <1>5, <2>1, ClampFractionInRange
  <1> HIDE DEF goal
  <1>7. goal[1] >= p.min * goal[2]
    <2> DEFINE x == goal[1]
               y == goal[2]
    <2>1. x \in Int /\ y \in Nat /\ x >= minA * y
      BY <1>6
    <2> HIDE DEF x, y
    <2>2. minA * y >= p.min * y
      BY <1>1, <1>3, <2>1
    <2>3. minA * y \in Int /\ p.min * y \in Int
      BY <1>1, <1>3, <2>1
    <2>4. x >= p.min * y
      BY <2>1, <2>2, <2>3
    <2> QED BY <2>4 DEF x, y
  <1>8. up \in p.min .. high /\ (up - p.min) % p.step = 0
    BY <1>1, <1>2, <1>6, <1>7, QuantizeUpWithinOnGrid
  <1>9. one \in Int \X Nat /\ one[2] > 0 /\ one[1] >= p.min * one[2]
    BY <1>1, <1>3
  <1> HIDE DEF one
  <1>10. low \in p.min .. high /\ (low - p.min) % p.step = 0
    BY <1>1, <1>2, <1>9, QuantizeUpWithinOnGrid
  <1> HIDE DEF up, low
  <1>11. ValidClock(up, p) /\ up <= high
    BY <1>1, <1>2, <1>8 DEF ValidClock, OnGrid
  <1>12. ValidClock(low, p) /\ low <= high
    BY <1>1, <1>2, <1>10 DEF ValidClock, OnGrid
  <1> QED BY <1>4, <1>11, <1>12

-----------------------------------------------------------------------------
(* The clocks from lo to hi that are a whole number of steps above lo, and *)
(* those of them that are at least the fraction f.                         *)
StepsUpTo(lo, hi, s) == {c \in lo .. hi : (c - lo) % s = 0}
AtLeast(f, S) == {c \in S : c * f[2] >= f[1]}

LEMMA OnGridIsMultiple ==
  ASSUME NEW lo \in Nat, NEW hi \in Nat, NEW s \in Nat, s > 0, NEW c \in StepsUpTo(lo, hi, s)
  PROVE  \E m \in Nat : c = lo + m * s
  <1> DEFINE x == c - lo
             m == x \div s
  <1>1. x \in Nat /\ x % s = 0 /\ c = lo + x
    BY DEF StepsUpTo
  <1> HIDE DEF x
  <1>2. m \in Int /\ x = m * s + (x % s)
    BY <1>1
  <1>3. m \in Nat
    BY <1>1, FloorBracket
  <1> HIDE DEF m
  <1>4. x = m * s
    BY <1>1, <1>2
  <1> QED BY <1>1, <1>3, <1>4

LEMMA StepsCompare ==
  ASSUME NEW m \in Int, NEW k \in Int, NEW b \in Nat, b > 0
  PROVE  /\ m < k => m * b + b <= k * b
         /\ m <= k => m * b <= k * b
         /\ m * b \in Int /\ k * b \in Int
  <1>1. m * b \in Int /\ k * b \in Int
    OBVIOUS
  <1>2. ASSUME m <= k PROVE m * b <= k * b
    BY <1>2
  <1>3. ASSUME m < k PROVE m * b + b <= k * b
    <2>1. (m + 1) * b <= k * b
      BY <1>3
    <2>2. (m + 1) * b = m * b + b
      OBVIOUS
    <2> QED BY <2>1, <2>2
  <1> QED BY <1>1, <1>2, <1>3

(* Rounding down to the grid passes no clock of the grid on the way.       *)
LEMMA QuantizeDownIsHighest ==
  ASSUME NEW v \in Int, NEW lo \in Nat, NEW hi \in Nat, lo <= hi, v <= hi,
         NEW s \in Nat, s > 0, NEW c \in Int, c >= lo, c <= v, (c - lo) % s = 0
  PROVE  c <= QuantizeDown(v, lo, hi, s)
  <1> DEFINE k == (v - lo) \div s
  <1>1. v \in lo .. hi /\ Clamp(v, lo, hi) = v /\ c \in StepsUpTo(lo, hi, s)
    BY ClampInRange DEF StepsUpTo
  <1>2. /\ k \in Int /\ k * s \in Int
        /\ k * s <= v - lo /\ v - lo < k * s + s
    BY <1>1, FloorBracket
  <1> HIDE DEF k
  <1>3. PICK m \in Nat : c = lo + m * s
    BY <1>1, OnGridIsMultiple
  <1>4. m * s \in Int /\ m * s < k * s + s
    BY <1>2, <1>3, StepsCompare
  <1>5. m <= k
    BY <1>2, <1>4, StepsCompare
  <1>6. m * s <= k * s
    BY <1>2, <1>5, StepsCompare
  <1>7. lo + k * s \in lo .. hi
    BY <1>1, <1>2, <1>3, <1>6
  <1>8. QuantizeDown(v, lo, hi, s) = lo + k * s
    <2>1. Clamp(lo + k * s, lo, hi) = lo + k * s
      BY <1>2, <1>7 DEF Clamp
    <2> QED BY <1>1, <2>1 DEF QuantizeDown, k
  <1> QED BY <1>2, <1>3, <1>4, <1>6, <1>8

(* The two probe clocks are apart, and the low one keeps the floor, unless *)
(* every clock of the grid a step below the high one is under the floor.   *)
THEOREM ProbeClocksApart ==
  ASSUME NEW p, IsPlatform(p), NEW high, ValidClock(high, p),
         NEW configured \in Int, NEW floor \in Int
  PROVE  LET low == LowClock(p, high, configured, floor)
         IN  /\ low < high => low >= floor
             /\ low = high => \A c \in p.min .. (high - p.step) : OnGrid(c, p) => c < floor
  <1> DEFINE goal  == IF configured > floor THEN configured ELSE floor
             f     == QuantizeUp(goal, p.min, high, p.step)
             lower == QuantizeDown(high - p.step, p.min, high, p.step)
             low   == LowClock(p, high, configured, floor)
  <1>1. /\ p.min \in Nat /\ p.max \in Nat /\ p.step \in Nat /\ p.step > 0
        /\ high \in Nat /\ p.min <= high
    BY DEF IsPlatform, ValidClock
  <1>2. goal \in Int /\ goal >= floor
    OBVIOUS
  <1>3. f \in p.min .. high /\ f >= Clamp(goal, p.min, high)
    BY <1>1, <1>2, QuantizeUpOnGrid
  <1>4. f < high => f >= goal
    BY <1>1, <1>2, <1>3 DEF Clamp
  <1>5. low = IF f >= high /\ high > p.min /\ lower >= floor THEN lower ELSE f
    BY DEF LowClock
  <1>6. high - p.step \in Int /\ lower \in p.min .. high
    <2>1. high - p.step \in Int
      BY <1>1
    <2> QED BY <1>1, <2>1, QuantizeDownOnGrid
  <1>7. \A c \in p.min .. (high - p.step) : OnGrid(c, p) => c <= lower
    BY <1>1, <1>6, QuantizeDownIsHighest DEF OnGrid
  <1>8. high > p.min => lower < high
    <2>1. CASE high - p.step >= p.min
      <3> DEFINE k == (high - p.step - p.min) \div p.step
      <3>1. Clamp(high - p.step, p.min, high) = high - p.step
        BY <1>1, <2>1 DEF Clamp
      <3>2. k \in Int /\ k * p.step \in Int /\ k * p.step <= high - p.step - p.min
        BY <1>1, <2>1, FloorBracket
      <3>3. lower = Clamp(p.min + k * p.step, p.min, high)
        BY <3>1 DEF QuantizeDown
      <3> HIDE DEF k, lower
      <3> QED BY <1>1, <3>2, <3>3 DEF Clamp
    <2>2. CASE high - p.step < p.min
      <3>1. Clamp(high - p.step, p.min, high) = p.min
        BY <1>1, <2>2 DEF Clamp
      <3>2. (p.min - p.min) \div p.step = 0 /\ 0 * p.step = 0
        BY <1>1
      <3>3. lower = Clamp(p.min, p.min, high)
        BY <1>1, <3>1, <3>2 DEF QuantizeDown
      <3> QED BY <1>1, <3>3 DEF Clamp
    <2> QED BY <1>1, <2>1, <2>2
  <1> HIDE DEF goal, f, lower, low
  <1>9. low < high => low >= floor
    BY <1>1, <1>2, <1>3, <1>4, <1>5, <1>6
  <1>10. low = high => \A c \in p.min .. (high - p.step) : OnGrid(c, p) => c < floor
    BY <1>1, <1>3, <1>5, <1>6, <1>7, <1>8
  <1> QED BY <1>9, <1>10 DEF low

(* The scaler rounds a fraction to the lowest clock of the grid that is at *)
(* least the fraction, and to the highest clock when there is none.        *)
LEMMA QuantizeUpWithinIsBest ==
  ASSUME NEW f \in Int \X Nat, f[2] > 0, NEW lo \in Nat, NEW hi \in Nat,
         lo <= hi, NEW s \in Nat, s > 0, f[1] >= lo * f[2]
  PROVE  LET c    == QuantizeUpWithin(f, lo, hi, s)
             grid == StepsUpTo(lo, hi, s)
             fit  == AtLeast(f, grid)
         IN  /\ fit # {} => c \in fit /\ \A x \in fit : c <= x
             /\ fit = {} => c \in grid /\ \A x \in grid : x <= c
  <1> DEFINE n  == f[1]
             d  == f[2]
             a  == n - lo * d
             b  == s * d
             k  == CeilDiv(a, b)
             q  == (hi - lo) \div s
             c  == QuantizeUpWithin(f, lo, hi, s)
             grid == StepsUpTo(lo, hi, s)
             fit  == AtLeast(f, grid)
  <1>1. n \in Int /\ d \in Nat /\ d > 0 /\ n >= lo * d
    OBVIOUS
  <1>2. c = IF lo + k * s <= hi THEN lo + k * s ELSE lo + q * s
    BY DEF QuantizeUpWithin
  <1>3. c \in grid
    BY QuantizeUpWithinOnGrid DEF StepsUpTo
  <1>4. \A x \in grid : x \in fit <=> x * d >= n
    BY DEF AtLeast
  <1>5. fit \subseteq grid
    BY DEF AtLeast
  <1> HIDE DEF n, d, c, fit
  <1>6. a \in Int /\ a >= 0 /\ b \in Nat /\ b > 0 /\ n = lo * d + a /\ lo * d \in Int
    BY <1>1, NatProduct
  <1>7. k \in Int /\ k * b \in Int /\ k * b >= a /\ k * b < a + b
    BY <1>6, CeilBracket
  <1>8. q \in Int /\ q * s \in Int /\ q * s <= hi - lo /\ hi - lo < q * s + s
    BY FloorBracket
  <1>9. ASSUME NEW m \in Int PROVE (lo + m * s) * d = lo * d + m * b
    BY <1>1
  <1> HIDE DEF a, b, k, q
  <1>10. ASSUME NEW x \in fit PROVE lo + k * s <= x
    <2>1. x \in grid
      BY <1>5, <1>10
    <2>2. PICK m \in Nat : x = lo + m * s
      BY <2>1, OnGridIsMultiple
    <2>3. lo * d + m * b >= n
      BY <1>4, <1>9, <1>10, <2>1, <2>2
    <2>4. m * b >= a /\ m * b \in Int
      BY <1>6, <2>3
    <2>5. ~(m < k)
      BY <1>6, <1>7, <2>4, StepsCompare
    <2>6. k * s <= m * s /\ k * s \in Int /\ m * s \in Int
      BY <1>7, <2>5, StepsCompare
    <2> QED BY <2>2, <2>6
  <1>11. CASE fit # {}
    <2>1. PICK x : x \in fit
      BY <1>11
    <2>2. x \in lo .. hi
      BY <1>5, <2>1 DEF StepsUpTo
    <2>3. k * s \in Int
      BY <1>7
    <2>4. lo + k * s <= hi
      BY <1>10, <2>1, <2>2, <2>3
    <2>5. c = lo + k * s
      BY <1>2, <2>4
    <2>6. c * d = lo * d + k * b
      BY <1>7, <1>9, <2>5
    <2>7. c * d >= n
      BY <1>6, <1>7, <2>6
    <2> QED BY <1>3, <1>4, <1>10, <1>11, <2>5, <2>7 DEF c, fit
  <1>12. CASE fit = {}
    <2>1. ~(lo + k * s <= hi)
      <3>1. SUFFICES ASSUME lo + k * s <= hi PROVE FALSE
        OBVIOUS
      <3>2. c = lo + k * s
        BY <1>2, <3>1
      <3>3. c * d = lo * d + k * b
        BY <1>7, <1>9, <3>2
      <3>4. c * d >= n
        BY <1>6, <1>7, <3>3
      <3> QED BY <1>3, <1>4, <1>12, <3>4
    <2>2. c = lo + q * s
      BY <1>2, <2>1
    <2>3. ASSUME NEW x \in grid PROVE x <= c
      <3>1. PICK m \in Nat : x = lo + m * s
        BY OnGridIsMultiple
      <3>2. x <= hi /\ m * s \in Int
        BY DEF StepsUpTo
      <3>3. m * s < q * s + s
        BY <1>8, <3>1, <3>2
      <3>4. ~(q < m)
        BY <1>8, <3>2, <3>3, StepsCompare
      <3>5. m * s <= q * s
        BY <1>8, <3>4, StepsCompare
      <3> QED BY <1>8, <2>2, <3>1, <3>2, <3>5
    <2> QED BY <1>3, <1>12, <2>3 DEF c, fit
  <1> QED BY <1>11, <1>12
=============================================================================
