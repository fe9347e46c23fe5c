--------------------------- MODULE StaticJob_proof ---------------------------
(***************************************************************************)
(* For every platform, profile, fitted model, target and order of steps:   *)
(* what the static policies select, and what their summary says.           *)
(***************************************************************************)
EXTENDS StaticJob, WellFoundedInduction, FiniteSetTheorems, TLAPS

-----------------------------------------------------------------------------
(* Python's min(): the first of the best elements of a finite list exists. *)
(* A least counterexample takes the place of an induction.                 *)


NatOrder == {p \in Nat \X Nat : p[1] < p[2]}

LEMMA NatOrderWellFounded == IsWellFoundedOn(NatOrder, Nat)
  <1>1. OpToRel(<, Nat) = NatOrder
    BY DEF OpToRel, NatOrder
  <1> QED BY <1>1, NatLessThanWellFounded

LEMMA LeastNatural ==
  ASSUME NEW T \in SUBSET Nat, T # {}
  PROVE  \E x \in T : \A y \in T : x <= y
  <1>1. T \subseteq Nat
    OBVIOUS
  <1>2. \E x \in T : \A y \in T : ~(<<y, x>> \in NatOrder)
    BY <1>1, NatOrderWellFounded, WFMin
  <1>3. \A x, y \in Nat : y < x => <<y, x>> \in NatOrder
    BY DEF NatOrder
  <1>4. \A x, y \in T : ~(y < x) => x <= y
    BY <1>1
  <1> QED BY <1>1, <1>2, <1>3, <1>4

(* i is the first best index of J, when <<i, j>> \in R means that i is     *)
(* strictly better than j.                                                 *)
FirstBest(i, J, R) ==
    /\ i \in J
    /\ \A j \in J : <<j, i>> \notin R /\ (j < i => <<i, j>> \in R)

(* "Better" is a strict weak order of the indices up to n.                 *)
WeakOrder(R, n) ==
    /\ \A i, j \in 1 .. n : <<i, j>> \in R => <<j, i>> \notin R
    /\ \A i, j, k \in 1 .. n : <<i, k>> \in R => <<i, j>> \in R \/ <<j, k>> \in R

LEMMA FirstBestExists ==
  ASSUME NEW n \in Nat, NEW I \in SUBSET (1 .. n), I # {}, NEW R, WeakOrder(R, n)
  PROVE  \E i \in I : FirstBest(i, I, R)
  <1> DEFINE Upto(k) == {j \in I : j <= k}
             T == {k \in 1 .. n : Upto(k) # {} /\ ~\E i \in I : FirstBest(i, Upto(k), R)}
  <1>0. I \subseteq 1 .. n /\ \E x : x \in I
    OBVIOUS
  <1>1. Upto(n) = I
    <2>1. \A j \in I : j <= n
      BY <1>0
    <2> QED BY <2>1
  <1>2. n \in 1 .. n
    BY <1>0
  <1>3. CASE T = {}
    <2>1. n \notin T
      BY <1>3
    <2>2. \E i \in I : FirstBest(i, Upto(n), R)
      BY <1>1, <1>2, <2>1
    <2> QED BY <1>1, <2>2
  <1>4. CASE T # {}
    <2>1. T \in SUBSET Nat
      OBVIOUS
    <2>2. PICK k \in T : \A y \in T : k <= y
      BY <1>4, <2>1, LeastNatural
    <2>3. k \in 1 .. n /\ Upto(k) # {} /\ ~\E i \in I : FirstBest(i, Upto(k), R)
      BY <2>2
    <2>4. CASE Upto(k - 1) = {}
      <3>1. \A j \in Upto(k) : j = k /\ k \in I
        <4>1. \A j \in I : j <= k => j = k
          BY <1>0, <2>3, <2>4
        <4> QED BY <4>1
      <3>2. <<k, k>> \notin R
        BY <2>3 DEF WeakOrder
      <3>3. FirstBest(k, Upto(k), R)
        <4>1. k \in Upto(k)
          <5>1. \E j : j \in Upto(k)
            BY <2>3
          <5> QED BY <3>1, <5>1
        <4>2. ~(k < k)
          BY <2>3
        <4> QED BY <3>1, <3>2, <4>1, <4>2 DEF FirstBest
      <3> QED BY <2>3, <3>1, <3>3
    <2>5. CASE Upto(k - 1) # {}
      <3>1. k - 1 \in 1 .. n /\ k - 1 \notin T
        <4>1. k - 1 \in 1 .. n
          <5>1. PICK x : x \in Upto(k - 1)
            BY <2>5
          <5>2. x \in 1 .. n /\ x <= k - 1
            BY <1>0, <5>1
          <5> QED BY <2>3, <5>2
        <4>2. ~(k <= k - 1)
          BY <2>3
        <4> QED BY <2>2, <4>1, <4>2
      <3>2. PICK b \in I : FirstBest(b, Upto(k - 1), R)
        BY <2>5, <3>1
      <3>3. b \in 1 .. n /\ b < k
        BY <2>3, <3>2 DEF FirstBest
      <3>4. \A j \in Upto(k) : j = k \/ j \in Upto(k - 1)
        BY <2>3
      <3>5. CASE k \in I /\ <<k, b>> \in R
        <4>1. SUFFICES ASSUME NEW j \in Upto(k)
                       PROVE  <<j, k>> \notin R /\ (j < k => <<k, j>> \in R)
          BY <2>3, <3>5 DEF FirstBest
        <4>2. CASE j = k
          BY <2>3, <4>2 DEF WeakOrder
        <4>3. CASE j \in Upto(k - 1)
          <5>1. <<j, b>> \notin R /\ j \in 1 .. n
            BY <3>2, <4>3 DEF FirstBest
          <5>2. <<k, j>> \in R
            BY <2>3, <3>3, <3>5, <5>1 DEF WeakOrder
          <5> QED BY <2>3, <5>1, <5>2 DEF WeakOrder
        <4> QED BY <3>4, <4>2, <4>3
      <3>6. CASE k \notin I \/ <<k, b>> \notin R
        <4>1. b \in Upto(k)
          BY <2>3, <3>3
        <4>2. \A j \in Upto(k) : <<j, b>> \notin R /\ (j < b => <<b, j>> \in R)
          <5>1. ~(k < b)
            BY <2>3, <3>3
          <5>2. k \in Upto(k) => k \in I
            OBVIOUS
          <5> QED BY <3>2, <3>4, <3>6, <5>1, <5>2 DEF FirstBest
        <4> QED BY <2>3, <4>1, <4>2 DEF FirstBest
      <3> QED BY <3>5, <3>6
    <2> QED BY <2>4, <2>5
  <1> QED BY <1>3, <1>4

-----------------------------------------------------------------------------
(* The static oracle's selection.                                          *)

LEMMA LowerIsWeak ==
  ASSUME NEW a \in Points, NEW b \in Points, NEW c \in Points
  PROVE  /\ Lower(a, b) => ~Lower(b, a)
         /\ Lower(a, c) => Lower(a, b) \/ Lower(b, c)
  <1>1. /\ a.freq \in Int /\ b.freq \in Int /\ c.freq \in Int
        /\ a.power \in Int \cup {NoPower} /\ b.power \in Int \cup {NoPower}
        /\ c.power \in Int \cup {NoPower}
    BY DEF Points
  <1>2. CheaperPower(a, b) => ~CheaperPower(b, a)
    BY <1>1, StaticOracleAssumption DEF CheaperPower
  <1>3. CheaperPower(a, c) => CheaperPower(a, b) \/ CheaperPower(b, c)
    BY <1>1, StaticOracleAssumption DEF CheaperPower
  <1> QED BY <1>1, <1>2, <1>3 DEF Lower

LEMMA FasterIsWeak ==
  ASSUME NEW a \in Points, NEW b \in Points, NEW c \in Points
  PROVE  /\ Faster(a, b) => ~Faster(b, a)
         /\ Faster(a, c) => Faster(a, b) \/ Faster(b, c)
  BY DEF Points, Faster

LEMMA LowestPointIsLowest ==
  ASSUME NEW s \in Seq(Points), NEW I \in SUBSET (DOMAIN s), I # {}
  PROVE  /\ LowestPoint(s, I) \in I
         /\ \A j \in I : s[LowestPoint(s, I)].freq <= s[j].freq
  <1> DEFINE n == Len(s)
             R == {p \in (1 .. n) \X (1 .. n) : Lower(s[p[1]], s[p[2]])}
             Chosen(i) == \A j \in I : ~Lower(s[j], s[i]) /\ (j < i => Lower(s[i], s[j]))
  <1>1. n \in Nat /\ I \in SUBSET (1 .. n) /\ \A i \in 1 .. n : s[i] \in Points
    OBVIOUS
  <1>2. \A i, j \in 1 .. n : <<i, j>> \in R <=> Lower(s[i], s[j])
    OBVIOUS
  <1>3. WeakOrder(R, n)
    BY <1>1, <1>2, LowerIsWeak DEF WeakOrder
  <1> HIDE DEF R, n
  <1>4. \E i \in I : FirstBest(i, I, R)
    BY <1>1, <1>3, FirstBestExists
  <1>5. \E i \in I : Chosen(i)
    BY <1>1, <1>2, <1>4 DEF FirstBest
  <1>6. LowestPoint(s, I) = CHOOSE i \in I : Chosen(i)
    BY DEF LowestPoint
  <1> HIDE DEF Chosen
  <1>7. LowestPoint(s, I) \in I /\ Chosen(LowestPoint(s, I))
    BY <1>5, <1>6
  <1>8. \A i, j \in I : ~Lower(s[j], s[i]) => s[i].freq <= s[j].freq
    BY <1>1 DEF Lower, Points
  <1> QED BY <1>7, <1>8 DEF Chosen

LEMMA FastestPointIsFastest ==
  ASSUME NEW s \in Seq(Points), NEW I \in SUBSET (DOMAIN s), I # {}
  PROVE  /\ FastestPoint(s, I) \in I
         /\ \A j \in I : s[FastestPoint(s, I)].ratio >= s[j].ratio
  <1> DEFINE n == Len(s)
             R == {p \in (1 .. n) \X (1 .. n) : Faster(s[p[1]], s[p[2]])}
             Chosen(i) == \A j \in I : ~Faster(s[j], s[i]) /\ (j < i => Faster(s[i], s[j]))
  <1>1. n \in Nat /\ I \in SUBSET (1 .. n) /\ \A i \in 1 .. n : s[i] \in Points
    OBVIOUS
  <1>2. \A i, j \in 1 .. n : <<i, j>> \in R <=> Faster(s[i], s[j])
    OBVIOUS
  <1>3. WeakOrder(R, n)
    BY <1>1, <1>2, FasterIsWeak DEF WeakOrder
  <1> HIDE DEF R, n
  <1>4. \E i \in I : FirstBest(i, I, R)
    BY <1>1, <1>3, FirstBestExists
  <1>5. \E i \in I : Chosen(i)
    BY <1>1, <1>2, <1>4 DEF FirstBest
  <1>6. FastestPoint(s, I) = CHOOSE i \in I : Chosen(i)
    BY DEF FastestPoint
  <1> HIDE DEF Chosen
  <1>7. FastestPoint(s, I) \in I /\ Chosen(FastestPoint(s, I))
    BY <1>5, <1>6
  <1>8. \A i, j \in I : ~Faster(s[j], s[i]) => s[i].ratio >= s[j].ratio
    BY <1>1 DEF Faster, Points
  <1> QED BY <1>7, <1>8 DEF Chosen

(* Both types of target mean a ratio of at least one minus the loss.       *)
LEMMA TargetType ==
  ASSUME NEW t, ValidTarget(t)
  PROVE  /\ MinimumRatio(t)[1] \in Int /\ MinimumRatio(t)[2] \in Nat \ {0}
         /\ RelativeLoss(t)[1] \in Nat /\ RelativeLoss(t)[2] \in Nat \ {0}
  BY DEF ValidTarget, RawTargets, TargetTypes, MinimumRatio, RelativeLoss

LEMMA MeetsIsTolerable ==
  ASSUME NEW t, ValidTarget(t), HasTarget(t), NEW point \in Points
  PROVE  Meets(point, MinimumRatio(t)) <=> Tolerable(point, t)
  <1> DEFINE r == point.ratio
             n == t.num
             d == t.den
  <1>1. r \in Int /\ n \in Nat /\ d \in Nat
    BY DEF Points, ValidTarget, RawTargets
  <1>2. r * (d + n) = r * d + r * n /\ (100 - r) * (d + n) = 100 * d + 100 * n - (r * d + r * n)
    BY <1>1
  <1>3. (100 - r) * d = 100 * d - r * d /\ (d - n) * 100 = 100 * d - 100 * n
    BY <1>1
  <1>4. r * d \in Int /\ r * n \in Int
    BY <1>1
  <1>5. CASE t.type = "runtime_slowdown"
    <2>1. MinimumRatio(t) = <<d, d + n>> /\ RelativeLoss(t) = <<n, d + n>>
      BY <1>5 DEF MinimumRatio, RelativeLoss
    <2>2. Meets(point, MinimumRatio(t)) <=> r * (d + n) >= d * 100
      BY <2>1 DEF Meets
    <2>3. Tolerable(point, t) <=> (100 - r) * (d + n) <= 100 * n
      BY <2>1 DEF Tolerable
    <2> HIDE DEF r, n, d
    <2> QED BY <1>1, <1>2, <1>4, <2>2, <2>3
  <1>6. CASE t.type = "relative_performance_loss"
    <2>1. MinimumRatio(t) = <<d - n, d>> /\ RelativeLoss(t) = <<n, d>>
      BY <1>6 DEF MinimumRatio, RelativeLoss
    <2>2. Meets(point, MinimumRatio(t)) <=> r * d >= (d - n) * 100
      BY <2>1 DEF Meets
    <2>3. Tolerable(point, t) <=> (100 - r) * d <= 100 * n
      BY <2>1 DEF Tolerable
    <2> HIDE DEF r, n, d
    <2> QED BY <1>1, <1>3, <1>4, <2>2, <2>3
  <1> QED BY <1>5, <1>6 DEF ValidTarget, RawTargets, TargetTypes, HasTarget

LEMMA ProductMonotone ==
  ASSUME NEW a \in Int, NEW b \in Int, NEW c \in Int, a <= b, c >= 0
  PROVE  a * c <= b * c
  OBVIOUS

LEMMA ProductCancel ==
  ASSUME NEW a \in Int, NEW b \in Int, NEW c \in Int, a * c <= b * c, c > 0
  PROVE  a <= b
  OBVIOUS

(* A point that a target tolerates is tolerated by every looser one.       *)
LEMMA LooserTolerates ==
  ASSUME NEW t, ValidTarget(t), NEW u, ValidTarget(u),
         AtMost(RelativeLoss(t), RelativeLoss(u)),
         NEW point \in Points, Tolerable(point, t)
  PROVE  Tolerable(point, u)
  <1> DEFINE x  == 100 - point.ratio
             n1 == RelativeLoss(t)[1]
             d1 == RelativeLoss(t)[2]
             n2 == RelativeLoss(u)[1]
             d2 == RelativeLoss(u)[2]
  <1>1. x \in Int /\ n1 \in Nat /\ n2 \in Nat /\ d1 \in Nat \ {0} /\ d2 \in Nat \ {0}
    BY TargetType DEF Points
  <1>2. x * d1 <= 100 * n1 /\ n1 * d2 <= n2 * d1
    BY DEF Tolerable, AtMost
  <1>3. Tolerable(point, u) <=> x * d2 <= 100 * n2
    BY DEF Tolerable
  <1> HIDE DEF x, n1, d1, n2, d2
  <1>4. (x * d1) * d2 <= (100 * n1) * d2
    BY <1>1, <1>2, ProductMonotone
  <1>5. (x * d1) * d2 = (x * d2) * d1 /\ (100 * n1) * d2 = 100 * (n1 * d2)
        /\ (100 * n2) * d1 = 100 * (n2 * d1)
    BY <1>1
  <1>6. n1 * d2 \in Int /\ n2 * d1 \in Int
    BY <1>1
  <1>7. 100 * (n1 * d2) <= 100 * (n2 * d1)
    BY <1>2, <1>6
  <1>8. (x * d2) * d1 <= (100 * n2) * d1
    BY <1>1, <1>4, <1>5, <1>7
  <1>9. x * d2 <= 100 * n2
    BY <1>1, <1>8, ProductCancel
  <1> QED BY <1>3, <1>9

LEMMA ClampFacts ==
  ASSUME NEW lo \in Int, NEW hi \in Int, lo <= hi
  PROVE  /\ \A v \in Int : Clamp(v, lo, hi) \in lo .. hi
         /\ \A v, w \in Int : v <= w => Clamp(v, lo, hi) <= Clamp(w, lo, hi)
         /\ \A v \in Int : v >= lo => Clamp(v, lo, hi) <= v
         /\ \A v \in lo .. hi : Clamp(v, lo, hi) = v
         /\ \A v \in Int : v > hi => Clamp(v, lo, hi) = hi
  BY DEF Clamp

(* The profile of an accepted configuration, and its domain.               *)
LEMMA AcceptedProfile ==
  ASSUME NEW c, IsOracleConfig(c), NEW p, IsPlatform(p), NEW t, ValidTarget(t),
         OracleAccepts(c, p, t)
  PROVE  /\ Profile(c) \in Seq(Points)
         /\ InDomain(c, p) \in SUBSET (DOMAIN Profile(c)) /\ InDomain(c, p) # {}
         /\ \A i \in InDomain(c, p) : /\ Profile(c)[i] \in Points
                                      /\ Profile(c)[i].freq >= EffectiveFloor(c, p)
         /\ EffectiveFloor(c, p) \in p.min .. p.max
  <1>1. Provenance(c) \in DOMAIN c.profiles
    BY DEF OracleAccepts, Provenance
  <1>2. Profile(c) \in Seq(Points)
    BY <1>1 DEF Profile, IsOracleConfig
  <1>3. \A i \in DOMAIN Profile(c) : Profile(c)[i] \in Points
    BY <1>2
  <1>4. EffectiveFloor(c, p) \in p.min .. p.max
    BY StaticOracleAssumption DEF EffectiveFloor, IsPlatform
  <1> QED BY <1>2, <1>3, <1>4 DEF InDomain, OracleAccepts

(* The point of an accepted configuration: the lowest tolerable one, or    *)
(* the fastest one of a proxy when no point is tolerable.                  *)
LEMMA OraclePointFacts ==
  ASSUME NEW c, IsOracleConfig(c), NEW p, IsPlatform(p), NEW t, ValidTarget(t),
         OracleAccepts(c, p, t)
  PROVE  LET s == Profile(c)
             D == InDomain(c, p)
             k == SelectPoint(s, D, MinimumRatio(t))
         IN  /\ k \in D
             /\ \A i \in D : Tolerable(s[i], t) =>
                  Tolerable(s[k], t) /\ s[k].freq <= s[i].freq
             /\ (\A i \in D : ~Tolerable(s[i], t)) =>
                  k = FastestPoint(s, D) /\ \A i \in D : s[k].ratio >= s[i].ratio
             /\ Provenance(c) = "workload" => Tolerable(s[k], t)
  <1> DEFINE s == Profile(c)
             D == InDomain(c, p)
             M == MeetingPoints(s, D, MinimumRatio(t))
             k == SelectPoint(s, D, MinimumRatio(t))
  <1>1. /\ s \in Seq(Points) /\ D \in SUBSET (DOMAIN s) /\ D # {}
        /\ \A i \in D : s[i] \in Points
    BY AcceptedProfile
  <1>2. HasTarget(t)
    BY DEF OracleAccepts
  <1>3. \A i \in D : i \in M <=> Tolerable(s[i], t)
    BY <1>1, <1>2, MeetsIsTolerable DEF MeetingPoints
  <1>4. M \in SUBSET D
    BY DEF MeetingPoints
  <1>5. Provenance(c) = "workload" => M # {}
    BY DEF OracleAccepts
  <1>6. k = IF M # {} THEN LowestPoint(s, M) ELSE FastestPoint(s, D)
    BY DEF SelectPoint
  <1> HIDE DEF s, D, M, k
  <1>7. CASE M # {}
    <2>1. M \in SUBSET (DOMAIN s)
      BY <1>1, <1>4
    <2>2. k \in M /\ \A j \in M : s[k].freq <= s[j].freq
      BY <1>1, <1>6, <1>7, <2>1, LowestPointIsLowest
    <2>3. k \in D /\ Tolerable(s[k], t)
      BY <1>3, <1>4, <2>2
    <2>4. \A i \in D : Tolerable(s[i], t) => s[k].freq <= s[i].freq
      BY <1>3, <2>2
    <2> QED BY <2>3, <2>4 DEF s, D, k
  <1>8. CASE M = {}
    <2>1. k = FastestPoint(s, D) /\ k \in D /\ \A i \in D : s[k].ratio >= s[i].ratio
      BY <1>1, <1>6, <1>8, FastestPointIsFastest
    <2>2. \A i \in D : ~Tolerable(s[i], t)
      BY <1>3, <1>8
    <2> QED BY <1>5, <1>8, <2>1, <2>2 DEF s, D, k
  <1> QED BY <1>7, <1>8

(* What OracleMeetsTarget says of a clock in force, of an accepted config. *)
LEMMA OracleClockMeets ==
  ASSUME NEW c, IsOracleConfig(c), NEW p, IsPlatform(p), NEW t, ValidTarget(t),
         OracleAccepts(c, p, t), Provenance(c) = "workload"
  PROVE  LET enough == {Profile(c)[i].freq : i \in
                          {k \in InDomain(c, p) : Tolerable(Profile(c)[k], t)}}
             set    == OracleClock(c, p, t)
         IN  /\ set \in enough \/ (set = p.max /\ \E f \in enough : f > p.max)
             /\ set >= EffectiveFloor(c, p)
             /\ \A f \in enough : f >= set
  <1> DEFINE s == Profile(c)
             D == InDomain(c, p)
             k == SelectPoint(s, D, MinimumRatio(t))
             f0 == s[k].freq
             set == OracleClock(c, p, t)
             enough == {s[i].freq : i \in {j \in D : Tolerable(s[j], t)}}
  <1>1. /\ \A i \in D : s[i] \in Points /\ s[i].freq >= EffectiveFloor(c, p)
        /\ EffectiveFloor(c, p) \in p.min .. p.max
    BY AcceptedProfile
  <1>2. /\ k \in D /\ Tolerable(s[k], t)
        /\ \A i \in D : Tolerable(s[i], t) => s[k].freq <= s[i].freq
    BY OraclePointFacts
  <1>3. set = Clamp(f0, p.min, p.max)
    BY DEF OracleClock, OraclePoint
  <1>4. p.min \in Int /\ p.max \in Int /\ p.min <= p.max
    BY DEF IsPlatform
  <1>5. f0 \in Int /\ f0 >= EffectiveFloor(c, p) /\ f0 >= p.min
    BY <1>1, <1>2, <1>4 DEF Points
  <1>6. f0 \in enough /\ \A f \in enough : f \in Int /\ f >= f0
    BY <1>1, <1>2 DEF Points
  <1> HIDE DEF s, D, k, f0, set, enough
  <1>7. set <= f0 /\ set \in Int
    <2>1. \A v \in Int : v >= p.min => Clamp(v, p.min, p.max) <= v
      BY <1>4, ClampFacts
    <2>2. \A v \in Int : Clamp(v, p.min, p.max) \in p.min .. p.max
      BY <1>4, ClampFacts
    <2> QED BY <1>3, <1>4, <1>5, <2>1, <2>2
  <1>8. CASE f0 <= p.max
    <2>1. set = f0
      BY <1>3, <1>4, <1>5, <1>8, ClampFacts
    <2> QED BY <1>5, <1>6, <2>1 DEF s, D, set, enough
  <1>9. CASE f0 > p.max
    <2>1. set = p.max
      BY <1>3, <1>4, <1>5, <1>9, ClampFacts
    <2>2. set >= EffectiveFloor(c, p) /\ \A f \in enough : f >= set
      BY <1>1, <1>4, <1>6, <1>9, <2>1
    <2> QED BY <1>6, <1>9, <2>1, <2>2 DEF s, D, set, enough
  <1> QED BY <1>4, <1>5, <1>8, <1>9

(* What LooserTargetNotHigher says of an accepted configuration.           *)
LEMMA LooserOracle ==
  ASSUME NEW c, IsOracleConfig(c), NEW p, IsPlatform(p), NEW t, ValidTarget(t),
         OracleAccepts(c, p, t), NEW u, ValidTarget(u), HasTarget(u),
         AtMost(RelativeLoss(t), RelativeLoss(u))
  PROVE  OracleAccepts(c, p, u) /\ OracleClock(c, p, u) <= OracleClock(c, p, t)
  <1> DEFINE s == Profile(c)
             D == InDomain(c, p)
             k == SelectPoint(s, D, MinimumRatio(t))
             l == SelectPoint(s, D, MinimumRatio(u))
  <1>1. \A i \in D : s[i] \in Points
    BY AcceptedProfile
  <1>2. \A i \in D : Tolerable(s[i], t) => Tolerable(s[i], u)
    BY <1>1, LooserTolerates
  <1>3. /\ k \in D
        /\ \A i \in D : Tolerable(s[i], t) =>
             Tolerable(s[k], t) /\ s[k].freq <= s[i].freq
        /\ (\A i \in D : ~Tolerable(s[i], t)) =>
             k = FastestPoint(s, D) /\ \A i \in D : s[k].ratio >= s[i].ratio
        /\ Provenance(c) = "workload" => Tolerable(s[k], t)
    BY OraclePointFacts
  <1>4. OracleAccepts(c, p, u)
    <2>1. CASE Provenance(c) # "workload"
      BY <2>1 DEF OracleAccepts
    <2>2. CASE Provenance(c) = "workload"
      <3>1. Tolerable(s[k], u)
        BY <1>2, <1>3, <2>2
      <3>2. Meets(s[k], MinimumRatio(u))
        BY <1>1, <1>3, <3>1, MeetsIsTolerable
      <3>3. MeetingPoints(s, D, MinimumRatio(u)) # {}
        BY <1>3, <3>2 DEF MeetingPoints
      <3> QED BY <3>3 DEF OracleAccepts
    <2> QED BY <2>1, <2>2
  <1>5. /\ l \in D
        /\ \A i \in D : Tolerable(s[i], u) =>
             Tolerable(s[l], u) /\ s[l].freq <= s[i].freq
        /\ (\A i \in D : ~Tolerable(s[i], u)) => l = FastestPoint(s, D)
    BY <1>4, OraclePointFacts
  <1>6. s[l].freq <= s[k].freq
    <2>1. CASE Tolerable(s[k], u)
      BY <1>3, <1>5, <2>1
    <2>2. CASE ~Tolerable(s[k], u)
      <3>1. \A i \in D : ~Tolerable(s[i], t)
        BY <1>2, <1>3, <2>2
      <3>2. k = FastestPoint(s, D) /\ \A i \in D : s[k].ratio >= s[i].ratio
        BY <1>3, <3>1
      <3>3. \A i \in D : ~Tolerable(s[i], u)
        <4>1. SUFFICES ASSUME NEW i \in D, Tolerable(s[i], u) PROVE FALSE
          OBVIOUS
        <4>2. s[i].ratio \in Int /\ s[k].ratio \in Int /\ s[k].ratio >= s[i].ratio
          BY <1>1, <1>3, <3>2 DEF Points
        <4>3. RelativeLoss(u)[1] \in Nat /\ RelativeLoss(u)[2] \in Nat \ {0}
          BY TargetType
        <4>4. (100 - s[k].ratio) * RelativeLoss(u)[2] <= (100 - s[i].ratio) * RelativeLoss(u)[2]
          BY <4>2, <4>3, ProductMonotone
        <4>5. /\ (100 - s[k].ratio) * RelativeLoss(u)[2] \in Int
              /\ (100 - s[i].ratio) * RelativeLoss(u)[2] \in Int
              /\ 100 * RelativeLoss(u)[1] \in Int
          BY <4>2, <4>3
        <4>6. (100 - s[i].ratio) * RelativeLoss(u)[2] <= 100 * RelativeLoss(u)[1]
          BY <4>1 DEF Tolerable
        <4>7. Tolerable(s[k], u)
          BY <4>4, <4>5, <4>6 DEF Tolerable
        <4> QED BY <2>2, <4>7
      <3>4. l = k
        BY <1>5, <3>2, <3>3
      <3>5. s[k].freq \in Int
        BY <1>1, <1>3 DEF Points
      <3> QED BY <3>4, <3>5
    <2> QED BY <2>1, <2>2
  <1>7. s[l].freq \in Int /\ s[k].freq \in Int
    BY <1>1, <1>3, <1>5 DEF Points
  <1>8. p.min \in Int /\ p.max \in Int /\ p.min <= p.max
    BY DEF IsPlatform
  <1>9. /\ OracleClock(c, p, u) = Clamp(s[l].freq, p.min, p.max)
        /\ OracleClock(c, p, t) = Clamp(s[k].freq, p.min, p.max)
    BY DEF OracleClock, OraclePoint
  <1>10. \A v, w \in Int : v <= w => Clamp(v, p.min, p.max) <= Clamp(w, p.min, p.max)
    BY <1>8, ClampFacts
  <1> HIDE DEF s, D, k, l
  <1>11. Clamp(s[l].freq, p.min, p.max) <= Clamp(s[k].freq, p.min, p.max)
    BY <1>6, <1>7, <1>10
  <1> QED BY <1>4, <1>9, <1>11

-----------------------------------------------------------------------------
(* The selection of Ali et al.                                             *)

LEMMA AliTypes ==
  ASSUME NEW p, IsPlatform(p), NEW c \in AliConfigs
  PROVE  /\ FMax(c, p) \in Int
         /\ \E n \in Nat : DOMAIN Frequencies(c, p) = 1 .. n
         /\ Frequencies(c, p) # <<>> => DOMAIN Frequencies(c, p) # {}
         /\ \A i \in DOMAIN Frequencies(c, p) : Frequencies(c, p)[i] \in Int
         /\ \A f \in Int : /\ Power(c, f) \in Int
                           /\ Runtime(c, f, FMax(c, p)) \in Int
                           /\ Cost(c, f, p) \in Int
  <1>1. FMax(c, p) \in Int
    BY DEF FMax, AliConfigs, IsPlatform
  <1>2. /\ \E n \in Nat : DOMAIN Frequencies(c, p) = 1 .. n
        /\ Frequencies(c, p) # <<>> => DOMAIN Frequencies(c, p) # {}
        /\ \A i \in DOMAIN Frequencies(c, p) : Frequencies(c, p)[i] \in Int
    <2>1. CASE c.freqs = NoClock
      <3> DEFINE n == ((p.max - p.min) \div p.step) + 1
                 fs == [i \in 1 .. n |-> p.min + (i - 1) * p.step]
      <3>1. p.min \in Nat /\ p.max \in Nat /\ p.step \in Nat /\ p.step > 0 /\ p.min <= p.max
        BY DEF IsPlatform
      <3>2. n \in Nat /\ n >= 1
        BY <3>1
      <3>3. Frequencies(c, p) = fs
        BY <2>1 DEF Frequencies
      <3> HIDE DEF n
      <3>4. \A i \in 1 .. n : fs[i] \in Int
        BY <3>1, <3>2
      <3>5. DOMAIN fs = 1 .. n /\ 1 \in 1 .. n
        BY <3>2
      <3> HIDE DEF fs
      <3> QED BY <3>2, <3>3, <3>4, <3>5
    <2>2. CASE c.freqs # NoClock
      <3>1. Frequencies(c, p) \in Seq(Nat)
        BY <2>2 DEF Frequencies, AliConfigs
      <3> DEFINE fs == Frequencies(c, p)
      <3>2. Len(fs) \in Nat /\ DOMAIN fs = 1 .. Len(fs) /\ \A i \in 1 .. Len(fs) : fs[i] \in Nat
        BY <3>1
      <3>3. fs # <<>> => Len(fs) # 0
        BY <3>1
      <3>4. Len(fs) # 0 => 1 \in 1 .. Len(fs)
        BY <3>2
      <3> HIDE DEF fs
      <3>5. fs # <<>> => DOMAIN fs # {}
        BY <3>2, <3>3, <3>4
      <3>6. \A i \in DOMAIN fs : fs[i] \in Int
        BY <3>2
      <3> QED BY <3>2, <3>5, <3>6 DEF fs
    <2> QED BY <2>1, <2>2
  <1>4. ASSUME NEW f \in Int
        PROVE  Power(c, f) \in Int /\ Runtime(c, f, FMax(c, p)) \in Int
    <2>1. /\ c.power.alpha \in Int /\ c.power.beta \in Int /\ c.power.gamma \in Int
          /\ c.power.constant \in Int /\ c.fp \in Int /\ c.dram \in Int /\ c.time \in Int
          /\ c.perf[1] \in Int /\ c.perf[2] \in Int /\ c.perf[3] \in Int
          /\ c.perf[4] \in Int /\ c.perf[5] \in Int
      BY DEF AliConfigs
    <2> QED BY <1>1, <2>1 DEF Power, Runtime
  <1>5. ASSUME NEW f \in Int PROVE Cost(c, f, p) \in Int
    BY <1>4 DEF Cost, Objective
  <1> QED BY <1>1, <1>2, <1>4, <1>5

LEMMA BestIsLeast ==
  ASSUME NEW p, IsPlatform(p), NEW c \in AliConfigs, Frequencies(c, p) # <<>>
  PROVE  /\ Best(c, p) \in DOMAIN Frequencies(c, p)
         /\ \A j \in DOMAIN Frequencies(c, p) :
              Cost(c, AliClock(c, p), p) <= Cost(c, Frequencies(c, p)[j], p)
  <1> DEFINE fs == Frequencies(c, p)
             K(i) == Cost(c, fs[i], p)
             Chosen(i) == \A j \in DOMAIN fs : K(i) <= K(j) /\ (j < i => K(i) < K(j))
  <1>1. PICK n \in Nat : DOMAIN fs = 1 .. n
    BY AliTypes
  <1> DEFINE R == {q \in (1 .. n) \X (1 .. n) : K(q[1]) < K(q[2])}
  <1>2. 1 .. n # {}
    BY <1>1, AliTypes
  <1>3. \A i \in 1 .. n : K(i) \in Int
    BY <1>1, AliTypes
  <1>4. Best(c, p) = CHOOSE i \in DOMAIN fs : Chosen(i)
    BY DEF Best
  <1>5. AliClock(c, p) = fs[Best(c, p)]
    BY DEF AliClock
  <1>6. \A i, j \in 1 .. n : <<i, j>> \in R <=> K(i) < K(j)
    OBVIOUS
  <1> HIDE DEF K, R
  <1>7. WeakOrder(R, n)
    BY <1>3, <1>6 DEF WeakOrder
  <1>8. \E i \in 1 .. n : FirstBest(i, 1 .. n, R)
    BY <1>2, <1>7, FirstBestExists
  <1>9. \E i \in DOMAIN fs : Chosen(i)
    <2>1. PICK i \in 1 .. n : FirstBest(i, 1 .. n, R)
      BY <1>8
    <2>2. \A j \in 1 .. n : ~(K(j) < K(i)) /\ (j < i => K(i) < K(j))
      BY <1>6, <2>1 DEF FirstBest
    <2>3. \A j \in 1 .. n : K(i) <= K(j)
      BY <1>3, <2>2
    <2> QED BY <1>1, <2>2, <2>3
  <1> HIDE DEF Chosen
  <1>10. Best(c, p) \in DOMAIN fs /\ Chosen(Best(c, p))
    BY <1>4, <1>9
  <1> QED BY <1>5, <1>10 DEF Chosen, K

(* One more factor of the runtime never prefers a longer runtime.          *)
LEMMA ShorterWins ==
  ASSUME NEW a \in Int, NEW b \in Int, NEW s \in Int, NEW t \in Int,
         a > 0, b > 0, s > 0, t > 0, a <= b, b * t <= a * s
  PROVE  t <= s
  <1>1. SUFFICES ASSUME s < t PROVE FALSE
    OBVIOUS
  <1>2. a * s <= b * s
    BY ProductMonotone
  <1>3. b * (t - s) > 0
    BY <1>1
  <1>4. b * (t - s) = b * t - b * s
    OBVIOUS
  <1>5. b * t \in Int /\ b * s \in Int /\ a * s \in Int
    OBVIOUS
  <1> QED BY <1>2, <1>3, <1>4, <1>5

LEMMA PositiveProduct ==
  ASSUME NEW a \in Int, NEW b \in Int, a > 0, b > 0
  PROVE  a * b \in Int /\ a * b > 0
  OBVIOUS

LEMMA Ed2pFaster ==
  ASSUME NEW p, IsPlatform(p), NEW c \in AliConfigs, AliAccepts(c, p), Plausible(c, p)
  PROVE  Runtime(c, AliClock([c EXCEPT !.objective = "ed2p"], p), FMax(c, p))
           <= Runtime(c, AliClock([c EXCEPT !.objective = "edp"], p), FMax(c, p))
  <1> DEFINE e  == [c EXCEPT !.objective = "edp"]
             d  == [c EXCEPT !.objective = "ed2p"]
             fs == Frequencies(c, p)
             P(f) == Power(c, f)
             T(f) == Runtime(c, f, FMax(c, p))
             f1 == AliClock(e, p)
             f2 == AliClock(d, p)
  <1>1. e \in AliConfigs /\ d \in AliConfigs
    BY DEF AliConfigs
  <1>2. /\ e.objective = "edp" /\ e.fmax = c.fmax /\ e.freqs = c.freqs /\ e.fp = c.fp
        /\ e.dram = c.dram /\ e.time = c.time /\ e.power = c.power /\ e.perf = c.perf
        /\ d.objective = "ed2p" /\ d.fmax = c.fmax /\ d.freqs = c.freqs /\ d.fp = c.fp
        /\ d.dram = c.dram /\ d.time = c.time /\ d.power = c.power /\ d.perf = c.perf
    BY DEF AliConfigs
  <1> HIDE DEF e, d
  <1>3. /\ Frequencies(e, p) = fs /\ Frequencies(d, p) = fs
        /\ FMax(e, p) = FMax(c, p) /\ FMax(d, p) = FMax(c, p)
    BY <1>2 DEF Frequencies, FMax
  <1>4. \A f : /\ Cost(e, f, p) = P(f) * T(f) * T(f)
               /\ Cost(d, f, p) = P(f) * T(f) * T(f) * T(f)
    BY <1>2, <1>3 DEF Cost, Objective, Power, Runtime
  <1>5. fs # <<>>
    BY DEF AliAccepts, ValidSpace
  <1>6. /\ \E i \in DOMAIN fs : f1 = fs[i]
        /\ \A j \in DOMAIN fs : Cost(e, f1, p) <= Cost(e, fs[j], p)
    BY <1>1, <1>3, <1>5, BestIsLeast DEF AliClock
  <1>7. /\ \E i \in DOMAIN fs : f2 = fs[i]
        /\ \A j \in DOMAIN fs : Cost(d, f2, p) <= Cost(d, fs[j], p)
    BY <1>1, <1>3, <1>5, BestIsLeast DEF AliClock
  <1>8. \A i \in DOMAIN fs : P(fs[i]) \in Int /\ P(fs[i]) > 0 /\ T(fs[i]) \in Int /\ T(fs[i]) > 0
    BY AliTypes DEF Plausible
  <1> HIDE DEF P, T, fs, f1, f2
  <1>9. /\ P(f1) \in Int /\ P(f1) > 0 /\ T(f1) \in Int /\ T(f1) > 0
        /\ P(f2) \in Int /\ P(f2) > 0 /\ T(f2) \in Int /\ T(f2) > 0
    BY <1>6, <1>7, <1>8
  <1> DEFINE a == P(f1) * T(f1) * T(f1)
             b == P(f2) * T(f2) * T(f2)
  <1>10. a \in Int /\ b \in Int /\ a > 0 /\ b > 0
    BY <1>9, PositiveProduct
  <1>11. a <= b /\ b * T(f2) <= a * T(f1)
    BY <1>4, <1>6, <1>7
  <1> HIDE DEF a, b
  <1>12. T(f2) <= T(f1)
    BY <1>9, <1>10, <1>11, ShorterWins
  <1> QED BY <1>12 DEF T, f1, f2, e, d

-----------------------------------------------------------------------------
(* The job.                                                                *)

Accepted(c) == Accepts(job.policy, c, job.platform, job.target)

Selection(c) == SelectedClock(job.policy, c, job.platform, job.target)

Stages == {"prerun", "selected", "applied", "running", "finished", "failed"}

(* What is selected and set comes from the configuration of that process.  *)
SelectionInv ==
    /\ job \in Jobs /\ Parses(job.policy, config) /\ stage \in Stages
    /\ selected \in Int \cup {NoClock} /\ clock \in Int \cup {NoClock}
    /\ stage \in {"prerun", "selected"} => config = job.config
    /\ stage = "selected" => Accepted(job.config) /\ selected = Selection(job.config)
    /\ clock # NoClock => /\ Accepted(job.config) /\ clock = Selection(job.config)
                          /\ ValidClock(clock, job.platform)
    /\ stage \in {"applied", "running", "finished"} => clock = Selection(job.config)
    /\ stage \in {"running", "finished"} => selected = Selection(config)

(* The counters tell of the windows so far, the summary of the counters.   *)
CountInv ==
    /\ count \in [total : Nat, violations : Nat, worst : Nat]
    /\ reports \in Seq(Ratios \cup {NoRatio})
    /\ count.total = Len(reports)
    /\ job.policy = "oracle_static" =>
         /\ IsFiniteSet(Violating) /\ count.violations = Cardinality(Violating)
         /\ \A i \in Violating : Shortfall(job.target, reports[i]) <= count.worst
         /\ count.worst > 0 => \E i \in Violating :
               count.worst = Shortfall(job.target, reports[i])
    /\ stage = "finished" =>
         summary = [clock |-> selected, total |-> count.total,
                    violations |-> count.violations, worst |-> count.worst]

LEMMA JobTypes ==
  ASSUME NEW j \in Jobs
  PROVE  /\ j.policy \in Policies /\ IsPlatform(j.platform) /\ j.target \in Targets
         /\ ValidTarget(j.target) /\ Parses(j.policy, j.config)
         /\ \A c \in Edits(j.policy) : Parses(j.policy, c)
  BY StaticJobAssumption

LEMMA SelectionType ==
  ASSUME NEW j \in Jobs, NEW c, Parses(j.policy, c),
         Accepts(j.policy, c, j.platform, j.target)
  PROVE  SelectedClock(j.policy, c, j.platform, j.target) \in Int
  <1> DEFINE p == j.platform
             t == j.target
  <1>1. /\ j.policy \in Policies /\ IsPlatform(p) /\ ValidTarget(t)
        /\ p.min \in Int /\ p.max \in Int /\ p.min <= p.max
    BY JobTypes DEF IsPlatform
  <1> HIDE DEF p, t
  <1>2. CASE j.policy = "oracle_static"
    <2>1. IsOracleConfig(c) /\ OracleAccepts(c, p, t)
      BY <1>2 DEF Parses, Accepts, p, t
    <2> DEFINE k == SelectPoint(Profile(c), InDomain(c, p), MinimumRatio(t))
    <2>2. k \in InDomain(c, p)
      BY <1>1, <2>1, OraclePointFacts
    <2>3. Profile(c)[k] \in Points
      BY <1>1, <2>1, <2>2, AcceptedProfile
    <2>4. Profile(c)[k].freq \in Int
      BY <2>3 DEF Points
    <2>5. OracleClock(c, p, t) = Clamp(Profile(c)[k].freq, p.min, p.max)
      BY DEF OracleClock, OraclePoint
    <2> HIDE DEF k
    <2>6. OracleClock(c, p, t) \in Int
      BY <1>1, <2>4, <2>5 DEF Clamp
    <2> QED BY <1>2, <2>6 DEF SelectedClock, p, t
  <1>3. CASE j.policy = "ali_2022_reimpl"
    <2>1. c \in AliConfigs /\ AliAccepts(c, p)
      BY <1>3 DEF Parses, Accepts, p, t
    <2>2. Frequencies(c, p) # <<>>
      BY <2>1 DEF AliAccepts, ValidSpace
    <2>3. Best(c, p) \in DOMAIN Frequencies(c, p)
      BY <1>1, <2>1, <2>2, BestIsLeast
    <2>4. AliClock(c, p) \in Int
      BY <1>1, <2>1, <2>3, AliTypes DEF AliClock
    <2> QED BY <1>3, <2>4 DEF SelectedClock, p, t
  <1>4. CASE j.policy \in {"max_freq", "min_freq"}
    BY <1>1, <1>4 DEF SelectedClock, p, t
  <1> QED BY <1>1, <1>2, <1>3, <1>4 DEF Policies

LEMMA InitSelection == Init => SelectionInv
  BY JobTypes DEF Init, SelectionInv, Stages

LEMMA NextSelection == SelectionInv /\ [Next]_vars => SelectionInv'
  <1> SUFFICES ASSUME SelectionInv, [Next]_vars PROVE SelectionInv'
    OBVIOUS
  <1> USE DEF Accepted, Selection
  <1>1. ASSUME NEW from, NEW to, Initialize(from, to), to \in {"selected", "running"},
               from = "prerun" <=> to = "selected", from \in {"prerun", "applied"}
        PROVE  SelectionInv'
    <2>1. CASE Accepts(job.policy, config, job.platform, job.target)
      <3>1. SelectedClock(job.policy, config, job.platform, job.target) \in Int
        BY <2>1, SelectionType DEF SelectionInv
      <3> QED BY <1>1, <2>1, <3>1 DEF SelectionInv, Stages, Initialize
    <2>2. CASE ~Accepts(job.policy, config, job.platform, job.target)
      BY <1>1, <2>2 DEF SelectionInv, Stages, Initialize
    <2> QED BY <2>1, <2>2
  <1>2. CASE PrerunInitialize
    BY <1>1, <1>2 DEF PrerunInitialize
  <1>3. CASE LoopInitialize
    BY <1>1, <1>3 DEF LoopInitialize
  <1>4. CASE PrerunApply
    <2>1. validate_decision([action |-> "set_clock", target |-> selected], job.platform)
            => ValidClock(selected, job.platform)
      BY DEF validate_decision
    <2> QED BY <1>4, <2>1 DEF SelectionInv, Stages, PrerunApply
  <1>5. CASE EditConfig
    <2>1. Parses(job.policy, config')
      BY <1>5, JobTypes DEF SelectionInv, EditConfig
    <2> QED BY <1>5, <2>1 DEF SelectionInv, Stages, EditConfig
  <1>6. CASE \E r \in Ratios \cup {NoRatio} : Window(r)
    BY <1>6 DEF SelectionInv, Window
  <1>7. CASE Finalize
    BY <1>7 DEF SelectionInv, Stages, Finalize
  <1>8. CASE UNCHANGED vars
    BY <1>8 DEF SelectionInv, vars
  <1> QED BY <1>2, <1>3, <1>4, <1>5, <1>6, <1>7, <1>8 DEF Next

LEMMA ShortfallType ==
  ASSUME NEW t, ValidTarget(t), NEW r \in Ratios
  PROVE  Shortfall(t, r) \in Int
  <1>1. MinimumRatio(t)[1] \in Int /\ MinimumRatio(t)[2] \in Int /\ r \in Int
    BY TargetType, StaticJobAssumption
  <1> QED BY <1>1 DEF Shortfall

LEMMA InitCount == Init => CountInv
  <1> SUFFICES ASSUME Init PROVE CountInv
    OBVIOUS
  <1>1. reports = <<>> /\ Violating = {}
    BY DEF Init, Violating
  <1> QED BY <1>1, FS_EmptySet DEF Init, CountInv

LEMMA NextCount == SelectionInv /\ CountInv /\ [Next]_vars => CountInv'
  <1> SUFFICES ASSUME SelectionInv, CountInv, [Next]_vars PROVE CountInv'
    OBVIOUS
  <1>1. ASSUME UNCHANGED <<job, count, reports>>,
               stage' = "finished" => UNCHANGED <<stage, selected, summary>>
        PROVE  CountInv'
    <2>1. Violating' = Violating
      BY <1>1 DEF Violating
    <2> QED BY <1>1, <2>1 DEF CountInv, Shortfall
  <1>2. ASSUME NEW r \in Ratios \cup {NoRatio}, Window(r) PROVE CountInv'
    <2> DEFINE n == Len(reports) + 1
               lack == Shortfall(job.target, r)
    <2>1. /\ job' = job /\ stage' = "running" /\ reports' = Append(reports, r)
          /\ reports \in Seq(Ratios \cup {NoRatio}) /\ Len(reports) \in Nat
      BY <1>2 DEF Window, CountInv
    <2>2. /\ reports' \in Seq(Ratios \cup {NoRatio}) /\ Len(reports') = n
          /\ DOMAIN reports = 1 .. Len(reports) /\ DOMAIN reports' = 1 .. n
          /\ reports'[n] = r /\ \A i \in 1 .. Len(reports) : reports'[i] = reports[i]
      BY <2>1
    <2>3. ValidTarget(job.target)
      BY JobTypes DEF SelectionInv
    <2>4. Below(job.target, r) => lack \in Int /\ lack > 0
      BY <2>3, ShortfallType DEF Below
    <2>5. count' \in [total : Nat, violations : Nat, worst : Nat] /\ count'.total = n
      BY <1>2, <2>4 DEF Window, Worst, CountInv
    <2>6. ASSUME job.policy = "oracle_static", Below(job.target, r)
          PROVE  /\ IsFiniteSet(Violating') /\ count'.violations = Cardinality(Violating')
                 /\ \A i \in Violating' : Shortfall(job.target, reports'[i]) <= count'.worst
                 /\ count'.worst > 0 => \E i \in Violating' :
                      count'.worst = Shortfall(job.target, reports'[i])
      <3>1. Violating' = Violating \cup {n} /\ n \notin Violating
        BY <2>1, <2>2, <2>6 DEF Violating
      <3>2. /\ IsFiniteSet(Violating) /\ count.violations = Cardinality(Violating)
            /\ \A i \in Violating : Shortfall(job.target, reports[i]) <= count.worst
            /\ count.worst > 0 => \E i \in Violating :
                 count.worst = Shortfall(job.target, reports[i])
        BY <2>6 DEF CountInv
      <3>3. count'.violations = count.violations + 1 /\ count'.worst = Worst(count.worst, lack)
        BY <1>2, <2>6 DEF Window, CountInv
      <3>4. IsFiniteSet(Violating') /\ count'.violations = Cardinality(Violating')
        BY <3>1, <3>2, <3>3, FS_AddElement
      <3>5. \A i \in Violating : reports'[i] = reports[i] /\ reports[i] \in Ratios
        BY <2>1, <2>2 DEF Violating, Below
      <3>6. \A i \in Violating : Shortfall(job.target, reports[i]) \in Int
        BY <2>3, <3>5, ShortfallType
      <3>7. /\ count.worst \in Nat /\ lack \in Int /\ lack > 0
            /\ lack = Shortfall(job.target, reports'[n])
        BY <2>2, <2>4, <2>6 DEF CountInv
      <3> HIDE DEF lack, n
      <3>8. count'.worst >= count.worst /\ count'.worst >= lack
            /\ count'.worst \in {count.worst, lack} /\ (count'.worst = count.worst => count.worst >= lack)
        BY <3>3, <3>7 DEF Worst
      <3>9. ASSUME NEW i \in Violating' PROVE Shortfall(job.target, reports'[i]) <= count'.worst
        <4>1. CASE i \in Violating
          <5>1. Shortfall(job.target, reports[i]) <= count.worst
            BY <3>2, <4>1
          <5>2. reports'[i] = reports[i] /\ Shortfall(job.target, reports[i]) \in Int
            BY <3>5, <3>6, <4>1
          <5> QED BY <3>7, <3>8, <5>1, <5>2
        <4>2. CASE i = n
          BY <3>7, <3>8, <4>2
        <4> QED BY <3>1, <4>1, <4>2
      <3>10. \E i \in Violating' : count'.worst = Shortfall(job.target, reports'[i])
        <4>1. CASE count'.worst = lack
          BY <3>1, <3>7, <4>1
        <4>2. CASE count'.worst = count.worst
          <5>1. count.worst > 0
            BY <3>7, <3>8, <4>2
          <5> QED BY <3>1, <3>2, <3>5, <4>2, <5>1
        <4> QED BY <3>8, <4>1, <4>2
      <3> QED BY <3>4, <3>9, <3>10
    <2>7. ASSUME job.policy = "oracle_static", ~Below(job.target, r)
          PROVE  /\ IsFiniteSet(Violating') /\ count'.violations = Cardinality(Violating')
                 /\ \A i \in Violating' : Shortfall(job.target, reports'[i]) <= count'.worst
                 /\ count'.worst > 0 => \E i \in Violating' :
                      count'.worst = Shortfall(job.target, reports'[i])
      <3>1. Violating' = Violating
        BY <2>1, <2>2, <2>7 DEF Violating
      <3>2. \A i \in Violating : reports'[i] = reports[i]
        BY <2>2 DEF Violating
      <3>3. count'.violations = count.violations /\ count'.worst = count.worst
        BY <1>2, <2>7 DEF Window, CountInv
      <3> QED BY <2>7, <3>1, <3>2, <3>3 DEF CountInv
    <2> QED BY <2>1, <2>2, <2>5, <2>6, <2>7 DEF CountInv
  <1>3. CASE Finalize
    <2>1. Violating' = Violating
      BY <1>3 DEF Finalize, Violating
    <2> QED BY <1>3, <2>1 DEF Finalize, CountInv
  <1>4. CASE PrerunInitialize \/ LoopInitialize
    BY <1>1, <1>4 DEF PrerunInitialize, LoopInitialize, Initialize
  <1>5. CASE PrerunApply \/ EditConfig
    BY <1>1, <1>5 DEF PrerunApply, EditConfig
  <1>6. CASE UNCHANGED vars
    BY <1>1, <1>6 DEF vars
  <1> QED BY <1>2, <1>3, <1>4, <1>5, <1>6 DEF Next

LEMMA Inductive == Spec => [](SelectionInv /\ CountInv)
  <1>1. Init => SelectionInv /\ CountInv
    BY InitSelection, InitCount
  <1>2. SelectionInv /\ CountInv /\ [Next]_vars => (SelectionInv /\ CountInv)'
    BY NextSelection, NextCount
  <1> QED BY <1>1, <1>2, PTL DEF Spec

-----------------------------------------------------------------------------
(* The variables of a job keep their types.                                *)
THEOREM StaticJobTypeCorrect == Spec => []TypeOK
  <1>1. SelectionInv /\ CountInv => TypeOK
    BY DEF SelectionInv, CountInv, TypeOK, Stages
  <1> QED BY <1>1, Inductive, PTL

(* The clock that a faithful static oracle sets is the lowest one whose    *)
(* loss of performance the target tolerates, whatever type the target has, *)
(* whatever the sweep and the platform are, and whatever is edited later.  *)
THEOREM OracleMeetsTargetCorrect == Spec => []OracleMeetsTarget
  <1>1. SelectionInv => OracleMeetsTarget
    <2> SUFFICES ASSUME SelectionInv, clock # NoClock PROVE OracleMeetsTarget
      BY DEF OracleMeetsTarget
    <2> DEFINE c == job.config
               p == job.platform
               t == job.target
    <2>1. ValidClock(clock, p) /\ Accepted(c) /\ clock = Selection(c)
      BY DEF SelectionInv
    <2>2. CASE job.policy = "oracle_static" /\ Provenance(c) = "workload"
      <3>1. IsOracleConfig(c) /\ IsPlatform(p) /\ ValidTarget(t)
        BY <2>2, JobTypes DEF SelectionInv, Parses
      <3>2. OracleAccepts(c, p, t) /\ clock = OracleClock(c, p, t)
        BY <2>1, <2>2 DEF Accepted, Accepts, Selection, SelectedClock
      <3> DEFINE enough == {Profile(c)[i].freq : i \in
                              {k \in InDomain(c, p) : Tolerable(Profile(c)[k], t)}}
      <3>3. /\ clock \in enough \/ (clock = p.max /\ \E f \in enough : f > p.max)
            /\ clock >= EffectiveFloor(c, p)
            /\ \A f \in enough : f >= clock
        BY <2>2, <3>1, <3>2, OracleClockMeets
      <3> QED BY <2>1, <3>3 DEF OracleMeetsTarget
    <2> QED BY <2>1, <2>2 DEF OracleMeetsTarget
  <1> QED BY <1>1, Inductive, PTL

(* A looser target, of either type, is accepted where a tighter one is and *)
(* gets no higher clock.                                                   *)
THEOREM LooserTargetNotHigherCorrect == Spec => []LooserTargetNotHigher
  <1>1. SelectionInv => LooserTargetNotHigher
    <2> SUFFICES ASSUME SelectionInv, stage = "selected", job.policy = "oracle_static",
                        NEW t \in Targets, HasTarget(t),
                        AtMost(RelativeLoss(job.target), RelativeLoss(t))
                 PROVE  /\ OracleAccepts(job.config, job.platform, t)
                        /\ OracleClock(job.config, job.platform, t) <= selected
      BY DEF LooserTargetNotHigher
    <2>1. /\ IsOracleConfig(job.config) /\ IsPlatform(job.platform)
          /\ ValidTarget(job.target) /\ ValidTarget(t)
      BY JobTypes, StaticJobAssumption DEF SelectionInv, Parses
    <2>2. /\ OracleAccepts(job.config, job.platform, job.target)
          /\ selected = OracleClock(job.config, job.platform, job.target)
      BY DEF SelectionInv, Accepted, Accepts, Selection, SelectedClock
    <2> QED BY <2>1, <2>2, LooserOracle
  <1> QED BY <1>1, Inductive, PTL

(* Of two jobs that differ in the objective, the one that weights the      *)
(* delay more has no longer predicted runtime.                             *)
THEOREM Ed2pNotSlowerCorrect == Spec => []Ed2pNotSlower
  <1>1. SelectionInv => Ed2pNotSlower
    <2> SUFFICES ASSUME SelectionInv, stage = "selected", job.policy = "ali_2022_reimpl"
                 PROVE  Ed2pNotSlower
      BY DEF Ed2pNotSlower
    <2> DEFINE c == job.config
               p == job.platform
    <2>1. c \in AliConfigs /\ IsPlatform(p)
      BY JobTypes DEF SelectionInv, Parses
    <2>2. AliAccepts(c, p) /\ selected = AliClock(c, p)
      BY DEF SelectionInv, Accepted, Accepts, Selection, SelectedClock
    <2>3. selected <= FMax(c, p)
      <3>1. Frequencies(c, p) # <<>>
            /\ \A i \in DOMAIN Frequencies(c, p) : Frequencies(c, p)[i] <= FMax(c, p)
        BY <2>2 DEF AliAccepts, ValidSpace
      <3>2. Best(c, p) \in DOMAIN Frequencies(c, p)
        BY <2>1, <3>1, BestIsLeast
      <3> QED BY <2>2, <3>1, <3>2 DEF AliClock
    <2>4. Plausible(c, p) =>
            Runtime(c, AliClock([c EXCEPT !.objective = "ed2p"], p), FMax(c, p))
              <= Runtime(c, AliClock([c EXCEPT !.objective = "edp"], p), FMax(c, p))
      BY <2>1, <2>2, Ed2pFaster
    <2> QED BY <2>3, <2>4 DEF Ed2pNotSlower
  <1> QED BY <1>1, Inductive, PTL

(* The summary of a job that was not edited names the clock in force, and  *)
(* any summary counts exactly the windows that missed the target and tells *)
(* the largest shortfall.                                                  *)
THEOREM SummaryTruthfulCorrect == Spec => []SummaryTruthful
  <1>1. SelectionInv /\ CountInv => SummaryTruthful
    BY DEF SelectionInv, CountInv, SummaryTruthful
  <1> QED BY <1>1, Inductive, PTL
=============================================================================
