------------------------ MODULE PhaseIdentifier_proof ------------------------
(***************************************************************************)
(* What the phase identifier reports, for every window duration, phase     *)
(* window, threshold and utilization.                                      *)
(***************************************************************************)
EXTENDS PhaseIdentifier, WellFoundedInduction, TLAPS

-----------------------------------------------------------------------------
(* The recursive function behind a sum exists: a least length at which it  *)
(* did not would be one more than a length at which it does.               *)

NatOrder == {p \in Nat \X Nat : p[1] < p[2]}

LEMMA LeastNatural ==
  ASSUME NEW T \in SUBSET Nat, T # {}
  PROVE  \E x \in T : \A y \in T : x <= y
  <1>1. T \subseteq Nat
    OBVIOUS
  <1>2. IsWellFoundedOn(NatOrder, Nat)
    <2>1. OpToRel(<, Nat) = NatOrder
      BY DEF OpToRel, NatOrder
    <2> QED BY <2>1, NatLessThanWellFounded
  <1>3. \E x \in T : \A y \in T : ~(<<y, x>> \in NatOrder)
    BY <1>1, <1>2, WFMin
  <1>4. \A x, y \in Nat : y < x => <<y, x>> \in NatOrder
    BY DEF NatOrder
  <1>5. \A x, y \in T : ~(y < x) => x <= y
    BY <1>1
  <1> QED BY <1>1, <1>3, <1>4, <1>5

(* The running sums of the first n numbers of a.                           *)
Sums(a, n) == {g \in [0 .. n -> Nat] :
                  g[0] = 0 /\ \A i \in 1 .. n : g[i] = g[i - 1] + a[i]}

LEMMA SumsExist ==
  ASSUME NEW m \in Nat, NEW a, \A i \in 1 .. m : a[i] \in Nat
  PROVE  Sums(a, m) # {}
  <1> DEFINE T == {n \in 0 .. m : Sums(a, n) = {}}
  <1>1. SUFFICES ASSUME T # {} PROVE FALSE
    OBVIOUS
  <1>2. T \in SUBSET Nat
    OBVIOUS
  <1>3. PICK k \in T : \A y \in T : k <= y
    BY <1>1, <1>2, LeastNatural
  <1>4. k \in 0 .. m /\ Sums(a, k) = {}
    BY <1>3
  <1>5. CASE k = 0
    <2> DEFINE g == [i \in 0 .. 0 |-> 0]
    <2>1. g \in [0 .. 0 -> Nat] /\ g[0] = 0
      OBVIOUS
    <2>2. g \in Sums(a, 0)
      BY <2>1 DEF Sums
    <2> QED BY <1>4, <1>5, <2>2
  <1>6. CASE k # 0
    <2>1. k \in Nat /\ k >= 1 /\ k - 1 \in 0 .. m /\ k \in 1 .. m
      BY <1>4, <1>6
    <2>2. k - 1 \notin T
      BY <1>3, <2>1
    <2>3. PICK f : f \in Sums(a, k - 1)
      BY <2>1, <2>2
    <2>4. /\ f \in [0 .. k - 1 -> Nat] /\ f[0] = 0
          /\ \A i \in 1 .. k - 1 : f[i] = f[i - 1] + a[i]
      BY <2>3 DEF Sums
    <2> DEFINE g == [i \in 0 .. k |-> IF i = k THEN f[k - 1] + a[k] ELSE f[i]]
    <2>5. f[k - 1] \in Nat /\ a[k] \in Nat
      BY <2>1, <2>4
    <2>6. \A i \in 0 .. k : g[i] \in Nat
      BY <2>1, <2>4, <2>5
    <2>7. g[0] = 0
      BY <2>1, <2>4
    <2>8. \A i \in 1 .. k : g[i] = g[i - 1] + a[i]
      <3>1. SUFFICES ASSUME NEW i \in 1 .. k PROVE g[i] = g[i - 1] + a[i]
        OBVIOUS
      <3>2. i - 1 \in 0 .. k /\ i - 1 # k /\ i \in 0 .. k
        BY <2>1
      <3>3. CASE i = k
        BY <3>2, <3>3
      <3>4. CASE i # k
        <4>1. i \in 1 .. k - 1
          BY <2>1, <3>4
        <4> QED BY <2>4, <3>2, <3>4, <4>1
      <3> QED BY <3>3, <3>4
    <2>9. g \in [0 .. k -> Nat]
      BY <2>6
    <2> HIDE DEF g
    <2>10. g \in Sums(a, k)
      BY <2>7, <2>8, <2>9 DEF Sums
    <2> QED BY <1>4, <2>10
  <1> QED BY <1>5, <1>6

(* A sum of natural numbers is the last of their running sums.             *)
LEMMA TotalIsSum ==
  ASSUME NEW a, Len(a) \in Nat, \A i \in 1 .. Len(a) : a[i] \in Nat
  PROVE  \E g \in Sums(a, Len(a)) : Total(a) = g[Len(a)]
  <1> DEFINE n == Len(a)
             F(g) == [i \in 0 .. n |-> IF i = 0 THEN 0 ELSE g[i - 1] + a[i]]
  <1>1. PICK g : g \in Sums(a, n)
    BY SumsExist
  <1>2. g \in [0 .. n -> Nat] /\ g[0] = 0 /\ \A i \in 1 .. n : g[i] = g[i - 1] + a[i]
    BY <1>1 DEF Sums
  <1>3. g = F(g)
    BY <1>2
  <1> DEFINE upto == CHOOSE f : f = F(f)
  <1>4. upto = F(upto)
    BY <1>3
  <1>5. Total(a) = upto[n]
    BY DEF Total
  <1> HIDE DEF upto
  <1>6. upto[0] = 0 /\ \A i \in 1 .. n : upto[i] = upto[i - 1] + a[i]
    BY <1>4
  <1> DEFINE T == {i \in 0 .. n : upto[i] # g[i]}
  <1>7. T = {}
    <2>1. SUFFICES ASSUME T # {} PROVE FALSE
      OBVIOUS
    <2>0. T \in SUBSET Nat
      OBVIOUS
    <2>2. PICK k \in T : \A y \in T : k <= y
      BY <2>0, <2>1, LeastNatural
    <2>3. k \in 0 .. n /\ upto[k] # g[k] /\ k # 0
      BY <1>2, <1>6, <2>2
    <2>4. k - 1 \in 0 .. n /\ k - 1 \notin T /\ k \in 1 .. n
      BY <2>2, <2>3
    <2>5. upto[k - 1] = g[k - 1]
      BY <2>4
    <2> QED BY <1>2, <1>6, <2>3, <2>4, <2>5
  <1>8. n \in 0 .. n
    OBVIOUS
  <1>9. upto[n] = g[n]
    BY <1>7, <1>8
  <1> QED BY <1>1, <1>5, <1>9

LEMMA TotalType ==
  ASSUME NEW a, Len(a) \in Nat, \A i \in 1 .. Len(a) : a[i] \in Nat
  PROVE  Total(a) \in Nat
  <1>1. PICK g \in Sums(a, Len(a)) : Total(a) = g[Len(a)]
    BY TotalIsSum
  <1> QED BY <1>1 DEF Sums

LEMMA TotalOfOne ==
  ASSUME NEW a, Len(a) = 1, a[1] \in Nat
  PROVE  Total(a) = a[1]
  <1>0. Len(a) \in Nat /\ \A i \in 1 .. Len(a) : a[i] \in Nat
    <2>1. \A i \in 1 .. 1 : i = 1
      OBVIOUS
    <2> QED BY <2>1
  <1>1. PICK g \in Sums(a, Len(a)) : Total(a) = g[Len(a)]
    BY ONLY <1>0, TotalIsSum
  <1>2. g[0] = 0 /\ g[1] = g[0] + a[1]
    BY <1>1 DEF Sums
  <1> QED BY <1>1, <1>2


-----------------------------------------------------------------------------
(* Windows, in a set W, whose utilizations are natural numbers.            *)
Windows(W) == \A w \in W : w.gpu \in Nat /\ w.mem \in Nat

AveragesSet == [gpu : Nat, mem : Nat, idle : BOOLEAN]

LEMMA AveragesType ==
  ASSUME NEW W, Windows(W), NEW h \in Seq(W)
  PROVE  Averages(h) \in AveragesSet
  <1> DEFINE n == Len(h)
             gpus == [i \in DOMAIN h |-> h[i].gpu]
             mems == [i \in DOMAIN h |-> h[i].mem]
  <1>1. n \in Nat /\ DOMAIN h = 1 .. n /\ \A i \in 1 .. n : h[i] \in W
    OBVIOUS
  <1>2. \A i \in 1 .. n : h[i].gpu \in Nat /\ h[i].mem \in Nat
    BY <1>1 DEF Windows
  <1>3. gpus \in [1 .. n -> Nat] /\ mems \in [1 .. n -> Nat]
    BY <1>1, <1>2
  <1> HIDE DEF gpus, mems
  <1>4. Len(gpus) = n /\ Len(mems) = n
    BY <1>1, <1>3
  <1>5. Total(gpus) \in Nat /\ Total(mems) \in Nat
    BY <1>1, <1>3, <1>4, TotalType
  <1> QED BY <1>5 DEF Averages, AveragesSet, gpus, mems

LEMMA CapacityType ==
  /\ Capacity \in Nat \ {0}
  /\ \A n \in Nat : n <= Capacity => n * Duration <= PhaseSeconds \/ n <= 1
  <1>1. Duration \in Nat \ {0} /\ PhaseSeconds \in Nat \ {0}
    BY PhaseIdentifierAssumption
  <1>2. CASE Duration >= PhaseSeconds
    BY <1>2 DEF Capacity
  <1>3. CASE ~(Duration >= PhaseSeconds)
    <2> DEFINE q == PhaseSeconds \div Duration
    <2>1. q \in Int /\ q * Duration <= PhaseSeconds /\ PhaseSeconds < q * Duration + Duration
      BY <1>1
    <2>2. Capacity = q
      BY <1>3 DEF Capacity
    <2> HIDE DEF q
    <2>3. q >= 1
      <3>1. SUFFICES ASSUME q <= 0 PROVE FALSE
        BY <2>1
      <3>2. q * Duration <= 0
        BY <1>1, <2>1, <3>1
      <3> QED BY <1>1, <1>3, <2>1, <3>2
    <2>4. ASSUME NEW n \in Nat, n <= q PROVE n * Duration <= PhaseSeconds
      <3>1. n * Duration <= q * Duration
        BY <1>1, <2>1, <2>4
      <3>2. n * Duration \in Int /\ q * Duration \in Int
        BY <1>1, <2>1
      <3> QED BY <1>1, <2>1, <3>1, <3>2
    <2> QED BY <2>1, <2>2, <2>3, <2>4
  <1> QED BY <1>2, <1>3

LEMMA PushType ==
  ASSUME NEW W, NEW h \in Seq(W), Len(h) <= Capacity, NEW w \in W
  PROVE  Push(h, w) \in Seq(W) /\ Len(Push(h, w)) <= Capacity
  <1> DEFINE longer == Append(h, w)
  <1>1. longer \in Seq(W) /\ Len(longer) = Len(h) + 1 /\ Len(h) \in Nat
    OBVIOUS
  <1>2. Tail(longer) \in Seq(W) /\ Len(Tail(longer)) = Len(h)
    BY <1>1
  <1>3. Push(h, w) = IF Len(longer) > Capacity THEN Tail(longer) ELSE longer
    BY DEF Push
  <1>4. Capacity \in Nat
    BY CapacityType
  <1> HIDE DEF longer
  <1> QED BY <1>1, <1>2, <1>3, <1>4

(* Averages are near themselves.                                           *)
LEMMA NotFarFromItself ==
  ASSUME NEW a \in AveragesSet
  PROVE  ~FarFrom(a, a)
  <1>1. Threshold * Capacity \in Nat \ {0}
    BY CapacityType, PhaseIdentifierAssumption
  <1>2. a.gpu - a.gpu = 0 /\ a.mem - a.mem = 0
    BY DEF AveragesSet
  <1>3. Abs(0) = 0 /\ ~(0 >= Threshold * Capacity)
    BY <1>1 DEF Abs
  <1> QED BY <1>2, <1>3 DEF FarFrom

LEMMA PhaseIdIsPhase ==
  ASSUME NEW a \in AveragesSet
  PROVE  PhaseId(a) # NoPhase
  <1>1. Threshold * Capacity \in Nat \ {0}
    BY CapacityType, PhaseIdentifierAssumption
  <1>2. a.gpu \div (Threshold * Capacity) \in Int /\ a.mem \div (Threshold * Capacity) \in Int
    BY <1>1 DEF AveragesSet
  <1>3. PhaseId(a) \in BOOLEAN \X Int \X Int
    BY <1>2 DEF PhaseId, AveragesSet
  <1> QED BY <1>3, PhaseIdentifierAssumption

-----------------------------------------------------------------------------
(* The identifier over windows in W.  The history is bounded, the anchor   *)
(* is a point, and both agree with the phase reported.                     *)
IdentifierInv(W) ==
    /\ history \in Seq(W) /\ Len(history) <= Capacity
    /\ anchor \in AveragesSet
    /\ active # NoPhase => active = PhaseId(anchor)
    /\ HasPhase(history) => active # NoPhase /\ ~FarFrom(Averages(history), anchor)

LEMMA InitInv ==
  ASSUME NEW W, InitIdentifier
  PROVE  IdentifierInv(W)
  <1>1. history = <<>> /\ Len(<<>>) = 0 /\ active = NoPhase /\ anchor \in AveragesSet
    BY DEF InitIdentifier, AveragesSet
  <1>2. ~HasPhase(history)
    BY <1>1, PhaseIdentifierAssumption DEF HasPhase, Full
  <1>3. Len(history) <= Capacity
    BY <1>1, CapacityType
  <1> QED BY <1>1, <1>2, <1>3 DEF IdentifierInv

LEMMA ObserveInv ==
  ASSUME NEW W, Windows(W), IdentifierInv(W), NEW w \in W, Observe(Push(history, w))
  PROVE  IdentifierInv(W)'
  <1> DEFINE h == Push(history, w)
  <1>1. h \in Seq(W) /\ Len(h) <= Capacity
    BY PushType DEF IdentifierInv
  <1>2. Averages(h) \in AveragesSet
    BY <1>1, AveragesType
  <1>3. history' = h /\ HasPhase(history)' = HasPhase(h)
        /\ FarFrom(Averages(history), anchor)' = FarFrom(Averages(h), anchor')
    BY DEF Observe, HasPhase, Full, Stable, FarFrom, Averages, Total
  <1> HIDE DEF h
  <1>4. CASE HasPhase(h) /\ NewPhase(h)
    <2>1. active' = PhaseId(anchor') /\ anchor' = Averages(h)
      BY <1>4 DEF Observe, h
    <2>2. PhaseId(anchor)' = PhaseId(anchor')
      BY DEF PhaseId
    <2> QED BY <1>1, <1>2, <1>3, <2>1, <2>2, NotFarFromItself, PhaseIdIsPhase DEF IdentifierInv
  <1>5. CASE ~(HasPhase(h) /\ NewPhase(h))
    <2>1. UNCHANGED <<active, anchor>>
      BY <1>5 DEF Observe, h
    <2>2. PhaseId(anchor)' = PhaseId(anchor)
      BY <2>1 DEF PhaseId
    <2>3. HasPhase(h) => active # NoPhase /\ ~FarFrom(Averages(h), anchor)
      BY <1>5 DEF NewPhase
    <2> QED BY <1>1, <1>3, <2>1, <2>2, <2>3 DEF IdentifierInv
  <1> QED BY <1>4, <1>5

IdentifierSpec(levels) == InitIdentifier /\ [][ObserveAny(levels)]_identifier

LEMMA IdentifierInductive ==
  ASSUME NEW levels \in SUBSET Nat
  PROVE  IdentifierSpec(levels) => []IdentifierInv([gpu : levels, mem : levels])
  <1> DEFINE W == [gpu : levels, mem : levels]
  <1>1. Windows(W)
    BY DEF Windows
  <1> HIDE DEF W
  <1>2. InitIdentifier => IdentifierInv(W)
    BY InitInv
  <1>3. IdentifierInv(W) /\ [ObserveAny(levels)]_identifier => IdentifierInv(W)'
    <2>1. SUFFICES ASSUME IdentifierInv(W), [ObserveAny(levels)]_identifier
                   PROVE  IdentifierInv(W)'
      OBVIOUS
    <2>2. CASE ObserveAny(levels)
      <3>1. PICK w \in W : Observe(Push(history, w))
        BY <2>2 DEF ObserveAny, W
      <3> QED BY <1>1, <2>1, <3>1, ObserveInv
    <2>3. CASE UNCHANGED identifier
      BY <2>1, <2>3 DEF identifier, IdentifierInv, HasPhase, Full, Stable, FarFrom,
                        Averages, Total, PhaseId
    <2> QED BY <2>1, <2>2, <2>3
  <1> QED BY <1>2, <1>3, PTL DEF IdentifierSpec, W

(* The phase reported is the one of the averages, within the threshold, and*)
(* the history spans no more than the phase window, for ever.              *)
THEOREM PhaseMatchesHistoryCorrect ==
  ASSUME NEW levels \in SUBSET Nat
  PROVE  IdentifierSpec(levels) => []PhaseMatchesHistory
  <1> DEFINE W == [gpu : levels, mem : levels]
  <1> HIDE DEF W
  <1>1. IdentifierInv(W) => PhaseMatchesHistory
    <2>1. IdentifierInv(W) => Len(history) \in Nat
      BY DEF IdentifierInv
    <2> QED BY <2>1, CapacityType DEF IdentifierInv, PhaseMatchesHistory
  <1> QED BY <1>1, IdentifierInductive, PTL DEF W

-----------------------------------------------------------------------------
(* A phase window that is longer than the telemetry window and no multiple *)
(* of it is never filled: the history is trimmed below it.                 *)
LEMMA NeverFull ==
  ASSUME Duration < PhaseSeconds, PhaseSeconds % Duration # 0,
         NEW h, Len(h) \in Nat, Len(h) <= Capacity
  PROVE  ~Full(h)
  <1> DEFINE q == PhaseSeconds \div Duration
  <1>1. Duration \in Nat \ {0} /\ PhaseSeconds \in Nat \ {0}
    BY PhaseIdentifierAssumption
  <1>2. Capacity = q
    BY <1>1 DEF Capacity
  <1>3. q \in Int /\ PhaseSeconds = q * Duration + (PhaseSeconds % Duration)
        /\ PhaseSeconds % Duration \in Nat
    BY <1>1
  <1> HIDE DEF q
  <1>4. q * Duration < PhaseSeconds /\ q * Duration \in Int
    BY <1>1, <1>3
  <1>5. Len(h) * Duration <= q * Duration /\ Len(h) * Duration \in Int
    BY <1>1, <1>2, <1>3
  <1> QED BY <1>1, <1>4, <1>5 DEF Full

NoPhaseFound == active = NoPhase

(* Such a phase window switches the identification off without an error:   *)
(* no phase is ever reported, whatever the workload does.                  *)
THEOREM UnevenWindowFindsNoPhase ==
  ASSUME Duration < PhaseSeconds, PhaseSeconds % Duration # 0, NEW levels \in SUBSET Nat
  PROVE  IdentifierSpec(levels) => []NoPhaseFound
  <1> DEFINE W == [gpu : levels, mem : levels]
  <1>1. \A h \in Seq(W) : Len(h) <= Capacity => ~HasPhase(h)
    BY NeverFull DEF HasPhase
  <1> HIDE DEF W
  <1>2. InitIdentifier => NoPhaseFound
    BY DEF InitIdentifier, NoPhaseFound
  <1>3. IdentifierInv(W) /\ NoPhaseFound /\ [ObserveAny(levels)]_identifier
          => NoPhaseFound'
    <2>1. SUFFICES ASSUME IdentifierInv(W), active = NoPhase, [ObserveAny(levels)]_identifier
                   PROVE  active' = NoPhase
      BY DEF NoPhaseFound
    <2>2. CASE ObserveAny(levels)
      <3>1. PICK w \in W : Observe(Push(history, w))
        BY <2>2 DEF ObserveAny, W
      <3>2. Push(history, w) \in Seq(W) /\ Len(Push(history, w)) <= Capacity
        BY <2>1, PushType DEF IdentifierInv
      <3> QED BY <1>1, <2>1, <3>1, <3>2 DEF Observe
    <2>3. CASE UNCHANGED identifier
      BY <2>1, <2>3 DEF identifier
    <2> QED BY <2>1, <2>2, <2>3
  <1>4. IdentifierSpec(levels) => []IdentifierInv(W)
    BY IdentifierInductive DEF W
  <1> QED BY <1>2, <1>3, <1>4, PTL DEF IdentifierSpec
=============================================================================
