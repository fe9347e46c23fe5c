------------------------ MODULE EverestDeployed_proof ------------------------
(***************************************************************************)
(* EVeREST in each of its deployments, for every platform, configuration,  *)
(* telemetry, number of windows, and loss of hook processes.               *)
(***************************************************************************)
EXTENDS EverestDeployed, PhaseIdentifier_proof, ClockGrid_proof, FiniteSetTheorems

-----------------------------------------------------------------------------
(* Types of what the policy computes.                                      *)

LEMMA MetricsType ==
  /\ \A m \in Metrics : m.gpu \in Nat /\ m.mem \in Nat /\ m.clock \in Nat
  /\ Windows(Metrics)
  <1>1. \A m \in Metrics : m.gpu \in Nat /\ m.mem \in Nat /\ m.clock \in Nat
    BY EverestAssumption DEF Metrics
  <1> QED BY <1>1 DEF Windows

LEMMA PlatformType ==
  /\ IsPlatform(Platform) /\ Platform.min \in Nat /\ Platform.max \in Nat
  /\ Loss \in Nat \X Nat /\ Loss[1] < Loss[2]
  BY EverestAssumption DEF IsPlatform

LEMMA ProbeClocks ==
  /\ ValidClock(f_high, Platform) /\ ValidClock(f_low, Platform)
  /\ f_high \in Nat /\ f_low \in Nat /\ f_low <= f_high
  <1>1. ValidClock(f_high, Platform)
    BY PlatformType, EverestAssumption, HighClockValid DEF f_high
  <1>2. ValidClock(f_low, Platform) /\ f_low <= f_high
    BY <1>1, PlatformType, EverestAssumption, LowClockValid DEF f_low
  <1>3. \A c : ValidClock(c, Platform) => c \in Nat
    BY PlatformType DEF ValidClock
  <1> QED BY <1>1, <1>2, <1>3

(* The high probe clock and the scaled clock are good to ask for.          *)
GoodTarget(c) == ValidClock(c, Platform) /\ c <= f_high

LEMMA GoodTargetType ==
  ASSUME NEW c, GoodTarget(c)
  PROVE  c \in Int /\ c \in Platform.min .. Platform.max /\ c # NoClock
  BY NoClockAssumption, PlatformType DEF GoodTarget, ValidClock

LEMMA SensitivityType ==
  ASSUME NEW high \in Nat, NEW low \in Nat
  PROVE  IsSensitivity(Sensitivity(high, low))
  <1> DEFINE num == (high - Capacity * low) * f_low
             den == Capacity * low * (f_high - f_low)
  <1>1. num \in Int /\ den \in Int
    BY ProbeClocks, CapacityType
  <1> HIDE DEF num, den
  <1>2. Sensitivity(high, low) =
          IF num <= 0 THEN <<0, 1>> ELSE IF num >= den THEN <<1, 1>> ELSE <<num, den>>
    BY DEF Sensitivity, num, den
  <1> QED BY <1>1, <1>2 DEF IsSensitivity

LEMMA TargetForGood ==
  ASSUME NEW r \in RecordType
  PROVE  GoodTarget(TargetFor(r))
  <1>1. IsSensitivity(Sensitivity(r.memHigh, r.memLow))
    BY SensitivityType DEF RecordType
  <1>2. IsLoss(Loss) /\ ScaledFloor \in Int
    BY PlatformType, EverestAssumption DEF IsLoss
  <1> QED BY <1>1, <1>2, PlatformType, ProbeClocks, ScaledClockValid DEF TargetFor, GoodTarget

LEMMA ProbesGood == GoodTarget(f_high) /\ GoodTarget(f_low)
  BY ProbeClocks DEF GoodTarget

(* A good decision is valid and asks for no clock above the high one.      *)
GoodDecision(d) ==
    /\ d \in Decisions(Platform.min .. Platform.max)
    /\ validate_decision(d, Platform)
    /\ d.target # NoClock => d.target <= f_high

LEMMA HoldGood == GoodDecision(Hold)
  BY DEF GoodDecision, Hold, Decisions, Actions, validate_decision

LEMMA SetGood ==
  ASSUME NEW c, GoodTarget(c)
  PROVE  GoodDecision(Set(c))
  BY GoodTargetType DEF GoodDecision, GoodTarget, Set, Decisions, Actions, validate_decision

LEMMA AskForGood ==
  ASSUME NEW m, NEW c, GoodTarget(c)
  PROVE  GoodDecision(AskFor(m, c))
  BY HoldGood, SetGood DEF AskFor

LEMMA AbsType ==
  ASSUME NEW x \in Int
  PROVE  Abs(x) \in Nat
  BY DEF Abs

LEMMA AloneType ==
  ASSUME NEW m \in Metrics
  PROVE  Alone(m) \in AveragesSet
  BY MetricsType, CapacityType DEF Alone, AveragesSet

(* Good pending states and records.                                        *)
GoodPending(q) ==
    \/ q = None
    \/ /\ q.stage = "capture_high"
       /\ q.gpu \in Nat /\ q.mem \in Nat /\ q.idle \in BOOLEAN
    \/ /\ q.stage = "capture_low"
       /\ q.memHigh \in Nat /\ q.gpu \in Nat /\ q.allHigh \in BOOLEAN /\ q.began \in Nat

GoodRecords(records) == \A p \in DOMAIN records : records[p] \in RecordType

LEMMA WithRecords ==
  ASSUME NEW records, NEW p, NEW r
  PROVE  /\ DOMAIN With(records, p, r) = DOMAIN records \cup {p}
         /\ With(records, p, r)[p] = r
         /\ \A q \in DOMAIN records : q # p => With(records, p, r)[q] = records[q]
  BY DEF With

PolicyInv ==
    /\ IdentifierInv(Metrics)
    /\ GoodPending(pending) /\ GoodRecords(cache) /\ GoodRecords(phase_cache)
    /\ count \in [Counters -> Nat]
    /\ GoodDecision(decision)

LEMMA InitPolicy == Init => PolicyInv
  <1> SUFFICES ASSUME Init PROVE PolicyInv
    OBVIOUS
  <1>1. IdentifierInv(Metrics)
    BY InitInv DEF Init
  <1>2. GoodPending(pending) /\ GoodRecords(cache) /\ GoodRecords(phase_cache)
    BY DEF Init, GoodPending, GoodRecords
  <1>3. count \in [Counters -> Nat]
    BY DEF Init
  <1>4. GoodDecision(decision)
    BY HoldGood DEF Init
  <1> QED BY <1>1, <1>2, <1>3, <1>4 DEF PolicyInv

LEMMA CountType ==
  ASSUME count \in [Counters -> Nat], NEW names, Count(names)
  PROVE  count' \in [Counters -> Nat]
  BY DEF Count

LEMMA GoHighGood ==
  ASSUME count \in [Counters -> Nat], NEW m, NEW names, GoHigh(m, names)
  PROVE  count' \in [Counters -> Nat] /\ GoodDecision(decision')
  BY CountType, AskForGood, ProbesGood DEF GoHigh

LEMMA GoScaledGood ==
  ASSUME count \in [Counters -> Nat], NEW m, NEW r \in RecordType, NEW names,
         GoScaled(m, r, names)
  PROVE  count' \in [Counters -> Nat] /\ GoodDecision(decision')
  BY CountType, AskForGood, TargetForGood DEF GoScaled

LEMMA ProbeLowGood ==
  ASSUME NEW phase, NEW avg \in AveragesSet, NEW allHigh \in BOOLEAN, NEW began \in Nat,
         NEW m, ProbeLow(m, phase, avg, allHigh, began)
  PROVE  GoodPending(pending')
  BY DEF ProbeLow, GoodPending, AveragesSet

(* One window, of any deployment, keeps the types of the policy.           *)
LEMMA WindowPolicy ==
  ASSUME PolicyInv, NEW m \in Metrics, on_window(m)
  PROVE  PolicyInv'
  <1>1. CASE ObserveWindow(m)
    <2> DEFINE h == Push(history, m)
    <2>1. Observe(h)
      BY <1>1 DEF ObserveWindow
    <2>2. IdentifierInv(Metrics)'
      BY <2>1, MetricsType, ObserveInv DEF PolicyInv
    <2>3. h \in Seq(Metrics)
      BY PushType DEF PolicyInv, IdentifierInv
    <2>4. Averages(h) \in AveragesSet
      BY <2>3, MetricsType, AveragesType
    <2> HIDE DEF h
    <2>5. CASE Unstable(m, h)
      BY <2>2, <2>5, GoHighGood DEF Unstable, PolicyInv
    <2>6. CASE ApplyCached(m, h)
      <3>1. cache[Phase(h)] \in RecordType
        BY <2>6 DEF ApplyCached, PolicyInv, GoodRecords
      <3> QED BY <2>2, <2>6, <3>1, GoScaledGood DEF ApplyCached, PolicyInv
    <2>7. CASE NotCharacterizable(m, h)
      BY <2>2, <2>7, GoHighGood DEF NotCharacterizable, PolicyInv
    <2>8. CASE CollectHigh(m, h)
      <3>1. GoodPending(pending')
        BY <2>4, <2>8 DEF CollectHigh, GoodPending, AveragesSet
      <3>2. count' \in [Counters -> Nat] /\ GoodDecision(decision')
        BY <2>8, CountType, SetGood, ProbesGood DEF CollectHigh, PolicyInv
      <3> QED BY <2>2, <2>8, <3>1, <3>2 DEF CollectHigh, PolicyInv
    <2>9. CASE ProbeFromHistory(m, h)
      <3>1. Averages(h).gpu \in Nat
        BY <2>4 DEF AveragesSet
      <3>2. GoodPending(pending')
        BY <2>4, <2>9, <3>1, ProbeLowGood DEF ProbeFromHistory
      <3>3. count' \in [Counters -> Nat] /\ GoodDecision(decision')
        BY <2>9, CountType, AskForGood, ProbesGood DEF ProbeFromHistory, PolicyInv
      <3> QED BY <2>2, <2>9, <3>2, <3>3 DEF ProbeFromHistory, PolicyInv
    <2> QED BY <1>1, <2>5, <2>6, <2>7, <2>8, <2>9 DEF ObserveWindow, h
  <1>2. ASSUME UNCHANGED identifier PROVE IdentifierInv(Metrics)'
    BY <1>2 DEF PolicyInv, identifier, IdentifierInv, HasPhase, Full, Stable, FarFrom,
                Averages, Total, PhaseId
  <1>3. ASSUME GiveUp(m), UNCHANGED <<identifier, cache, phase_cache>> PROVE PolicyInv'
    <2>1. GoodPending(pending')
      BY <1>3 DEF GiveUp, GoodPending
    <2> QED BY <1>2, <1>3, <2>1, GoHighGood DEF GiveUp, PolicyInv
  <1>4. CASE CaptureHigh(m)
    <2>1. CASE MatchesHigh(m)
      <3>1. pending.gpu \in Nat
        BY <1>4 DEF CaptureHigh, PolicyInv, GoodPending, None
      <3>2. GoodPending(pending')
        BY <1>4, <2>1, <3>1, AloneType, ProbeLowGood DEF CaptureHigh
      <3>3. count' \in [Counters -> Nat] /\ GoodDecision(decision')
        BY <1>4, <2>1, CountType, AskForGood, ProbesGood DEF CaptureHigh, PolicyInv
      <3> QED BY <1>2, <1>4, <3>2, <3>3 DEF CaptureHigh, PolicyInv
    <2>2. CASE ~MatchesHigh(m)
      BY <1>3, <1>4, <2>2 DEF CaptureHigh
    <2> QED BY <2>1, <2>2
  <1>5. CASE Finish(m)
    <2> DEFINE r == [memHigh |-> pending.memHigh, memLow |-> m.mem, lowClock |-> m.clock,
                     allHigh |-> pending.allHigh, drift |-> Abs(Alone(m).gpu - pending.began)]
    <2>1. r \in RecordType
      <3>1. pending.memHigh \in Nat /\ pending.allHigh \in BOOLEAN /\ pending.began \in Nat
        BY <1>5 DEF Finish, PolicyInv, GoodPending, None
      <3>2. Alone(m).gpu \in Nat
        BY AloneType DEF AveragesSet
      <3>3. Abs(Alone(m).gpu - pending.began) \in Nat
        BY <3>1, <3>2, AbsType
      <3> QED BY <3>1, <3>3, MetricsType DEF RecordType
    <2>2. CASE MatchesLow(m)
      <3>1. pending' = None /\ Store(r) /\ GoScaled(m, r, {"characterized"}) /\ UNCHANGED identifier
        BY <1>5, <2>2 DEF Finish
      <3> HIDE DEF r
      <3>2. GoodRecords(cache') /\ GoodRecords(phase_cache')
        BY <2>1, <3>1 DEF Store, With, GoodRecords, PolicyInv
      <3>3. GoodPending(pending')
        BY <3>1 DEF GoodPending
      <3> QED BY <1>2, <2>1, <3>1, <3>2, <3>3, GoScaledGood DEF PolicyInv
    <2>3. CASE ~MatchesLow(m)
      BY <1>3, <1>5, <2>3 DEF Finish
    <2> QED BY <2>2, <2>3
  <1> QED BY <1>1, <1>4, <1>5 DEF on_window

-----------------------------------------------------------------------------
(* What one window does to the pending state, the records and the counters:*)
(* one of seven outcomes.  The counters of changes and resets are left out.*)
Told == Counters \ {"changes", "resets"}

Adds(names) == \A c \in Told : count'[c] = count[c] + (IF c \in names THEN 1 ELSE 0)

KeepsRecords == UNCHANGED <<cache, phase_cache>>

Unstabled == /\ Adds({"total", "unstable"})
             /\ pending = None /\ UNCHANGED pending /\ KeepsRecords

Hit == /\ Adds({"total", "stable", "hits", "scaled"})
       /\ DOMAIN cache # {}
       /\ pending = None /\ UNCHANGED pending /\ KeepsRecords

Missed == /\ Adds({"total", "stable", "misses"})
          /\ pending = None /\ UNCHANGED pending /\ KeepsRecords

Began(m) == /\ Adds({"total", "stable", "misses"})
            /\ pending = None /\ pending'.phase \notin DOMAIN cache
            /\ \/ pending'.stage = "capture_high"
               \/ /\ pending'.stage = "capture_low" /\ IsHigh(m)
                  /\ Capacity = 1 => pending'.allHigh = TRUE
            /\ KeepsRecords

Advanced(m) == /\ Adds({"total"})
               /\ pending.stage = "capture_high" /\ pending'.stage = "capture_low"
               /\ pending'.phase = pending.phase /\ pending'.allHigh = TRUE
               /\ IsHigh(m) /\ KeepsRecords

GaveUp == /\ Adds({"total"})
          /\ pending # None /\ pending' = None /\ KeepsRecords

Recorded(m) == /\ Adds({"total", "characterized", "scaled"})
               /\ pending.stage = "capture_low" /\ pending' = None
               /\ MatchesLow(m)
               /\ \E r \in RecordType :
                     /\ r.allHigh = pending.allHigh /\ r.lowClock = m.clock
                     /\ cache' = With(cache, pending.phase, r)
                     /\ phase_cache' = With(phase_cache, pending.phase, r)

Outcome(m) == Unstabled \/ Hit \/ Missed \/ Began(m) \/ Advanced(m) \/ GaveUp \/ Recorded(m)

LEMMA CountAdds ==
  ASSUME count \in [Counters -> Nat], NEW names, NEW told, Count(names),
         \A c \in Told : c \in names \cup {"total"} <=> c \in told
  PROVE  Adds(told)
  <1>1. \A c \in Told : c \in Counters /\ count[c] \in Nat
    BY DEF Told
  <1>2. ASSUME NEW c \in Told PROVE count'[c] = count[c] + (IF c \in told THEN 1 ELSE 0)
    BY <1>1, <1>2 DEF Count
  <1> QED BY <1>2 DEF Adds

(* A history of one window is the newest one.                              *)
LEMMA OneWindow ==
  ASSUME NEW W, NEW h \in Seq(W), Len(h) <= Capacity, NEW w \in W, Capacity = 1
  PROVE  \A i \in DOMAIN Push(h, w) : Push(h, w)[i] = w
  <1> DEFINE longer == Append(h, w)
             n == Len(h)
  <1>1. n \in Nat /\ n <= 1
    OBVIOUS
  <1>2. longer \in Seq(W) /\ Len(longer) = n + 1 /\ longer[n + 1] = w
    OBVIOUS
  <1>3. Push(h, w) = IF Len(longer) > 1 THEN Tail(longer) ELSE longer
    BY DEF Push
  <1> HIDE DEF n, longer
  <1>4. CASE n = 0
    BY <1>2, <1>3, <1>4
  <1>5. CASE n = 1
    <2>1. Push(h, w) = Tail(longer)
      BY <1>2, <1>3, <1>5
    <2>2. longer # <<>> /\ Len(longer) = 2 /\ longer \in Seq(W)
      BY <1>2, <1>5
    <2>3. Tail(longer) \in Seq(W) /\ Len(Tail(longer)) = 1
      BY <2>2
    <2>4. Tail(longer)[1] = longer[2]
      BY <2>2, <2>3
    <2>5. ASSUME NEW s \in Seq(W), Len(s) = 1 PROVE \A i \in DOMAIN s : i = 1
      BY <2>5
    <2>6. \A i \in DOMAIN Tail(longer) : i = 1
      BY <2>3, <2>5
    <2> QED BY <2>4, <2>6, <1>2, <1>5, <2>1, <2>2
  <1> QED BY <1>1, <1>4, <1>5

LEMMA WindowOutcome ==
  ASSUME PolicyInv, NEW m \in Metrics, on_window(m)
  PROVE  Outcome(m)
  <1>0. count \in [Counters -> Nat]
    BY DEF PolicyInv
  <1>1. CASE ObserveWindow(m)
    <2> DEFINE h == Push(history, m)
    <2>1. pending = None /\ Observe(h)
      BY <1>1 DEF ObserveWindow
    <2>2. Capacity = 1 => \A i \in DOMAIN h : h[i] = m
      BY OneWindow DEF PolicyInv, IdentifierInv
    <2> HIDE DEF h
    <2>3. CASE Unstable(m, h)
      <3>1. PICK names : Count(names) /\ \A c \in Told : c \in names \cup {"total"} <=> c \in {"total", "unstable"}
        BY <2>3 DEF Unstable, GoHigh, Told, Counters
      <3>2. Adds({"total", "unstable"})
        BY <1>0, <3>1, CountAdds
      <3> QED BY <2>1, <2>3, <3>2 DEF Unstable, Unstabled, KeepsRecords, Outcome
    <2>4. CASE ApplyCached(m, h)
      <3>1. PICK names : Count(names) /\ \A c \in Told : c \in names \cup {"total"}
                              <=> c \in {"total", "stable", "hits", "scaled"}
        BY <2>4 DEF ApplyCached, GoScaled, Seen, Told, Counters
      <3>2. Adds({"total", "stable", "hits", "scaled"})
        BY <1>0, <3>1, CountAdds
      <3>3. Phase(h) \in DOMAIN cache
        BY <2>4 DEF ApplyCached
      <3> QED BY <2>1, <2>4, <3>2, <3>3 DEF ApplyCached, Hit, KeepsRecords, Outcome
    <2>5. CASE NotCharacterizable(m, h)
      <3>1. PICK names : Count(names) /\ \A c \in Told : c \in names \cup {"total"}
                              <=> c \in {"total", "stable", "misses"}
        BY <2>5 DEF NotCharacterizable, GoHigh, Seen, Told, Counters
      <3>2. Adds({"total", "stable", "misses"})
        BY <1>0, <3>1, CountAdds
      <3> QED BY <2>1, <2>5, <3>2 DEF NotCharacterizable, Missed, KeepsRecords, Outcome
    <2>6. ASSUME Count(Seen(h) \cup {"misses"}) PROVE Adds({"total", "stable", "misses"})
      <3>1. \A c \in Told : c \in Seen(h) \cup {"misses"} \cup {"total"}
                              <=> c \in {"total", "stable", "misses"}
        BY DEF Seen, Told, Counters
      <3> QED BY <1>0, <2>6, <3>1, CountAdds
    <2>7. CASE CollectHigh(m, h)
      <3>1. pending'.phase \notin DOMAIN cache /\ pending'.stage = "capture_high"
        BY <2>7 DEF CollectHigh, Miss
      <3> QED BY <2>1, <2>6, <2>7, <3>1 DEF CollectHigh, Began, KeepsRecords, Outcome
    <2>8. CASE ProbeFromHistory(m, h)
      <3>1. IsHigh(m)
        BY <2>8 DEF ProbeFromHistory
      <3>2. pending'.phase \notin DOMAIN cache /\ pending'.stage = "capture_low"
            /\ pending'.allHigh = (\A i \in DOMAIN h : IsHigh(h[i]))
        BY <2>8 DEF ProbeFromHistory, Miss, ProbeLow
      <3>3. Capacity = 1 => \A i \in DOMAIN h : IsHigh(h[i])
        BY <2>2, <3>1
      <3> QED BY <2>1, <2>6, <2>8, <3>1, <3>2, <3>3 DEF ProbeFromHistory, Began, KeepsRecords, Outcome
    <2> QED BY <1>1, <2>3, <2>4, <2>5, <2>7, <2>8 DEF ObserveWindow, h
  <1>2. ASSUME Count({}) PROVE Adds({"total"})
    BY <1>0, <1>2, CountAdds
  <1>3. ASSUME pending # None, GiveUp(m), KeepsRecords PROVE Outcome(m)
    <2>1. PICK names : Count(names) /\ \A c \in Told : c \in names \cup {"total"} <=> c \in {"total"}
      BY <1>3 DEF GiveUp, GoHigh, Told, Counters
    <2>2. Adds({"total"})
      BY <1>0, <2>1, CountAdds
    <2> QED BY <1>3, <2>2 DEF GiveUp, GaveUp, Outcome
  <1>4. CASE CaptureHigh(m)
    <2>1. pending.stage = "capture_high" /\ pending # None /\ KeepsRecords
      BY <1>4 DEF CaptureHigh, None, KeepsRecords
    <2>2. CASE MatchesHigh(m)
      <3>1. ProbeLow(m, pending.phase, Alone(m), TRUE, pending.gpu) /\ Count({})
        BY <1>4, <2>2 DEF CaptureHigh
      <3>2. pending'.stage = "capture_low" /\ pending'.phase = pending.phase
            /\ pending'.allHigh = TRUE
        BY <3>1 DEF ProbeLow
      <3> QED BY <1>2, <2>1, <2>2, <3>1, <3>2 DEF MatchesHigh, Advanced, Outcome
    <2> QED BY <1>3, <1>4, <2>1, <2>2 DEF CaptureHigh
  <1>5. CASE Finish(m)
    <2> DEFINE r == [memHigh |-> pending.memHigh, memLow |-> m.mem, lowClock |-> m.clock,
                     allHigh |-> pending.allHigh, drift |-> Abs(Alone(m).gpu - pending.began)]
    <2>1. pending.stage = "capture_low" /\ pending # None
      BY <1>5 DEF Finish, None
    <2>2. r \in RecordType
      <3>1. pending.memHigh \in Nat /\ pending.allHigh \in BOOLEAN /\ pending.began \in Nat
        BY <2>1 DEF PolicyInv, GoodPending, None
      <3>2. Alone(m).gpu \in Nat
        BY AloneType DEF AveragesSet
      <3>3. Abs(Alone(m).gpu - pending.began) \in Nat
        BY <3>1, <3>2, AbsType
      <3> QED BY <3>1, <3>3, MetricsType DEF RecordType
    <2>3. CASE MatchesLow(m)
      <3>1. pending' = None /\ Store(r) /\ GoScaled(m, r, {"characterized"})
        BY <1>5, <2>3 DEF Finish
      <3>2. r.allHigh = pending.allHigh /\ r.lowClock = m.clock
        OBVIOUS
      <3> HIDE DEF r
      <3>3. PICK names : Count(names) /\ \A c \in Told : c \in names \cup {"total"}
                              <=> c \in {"total", "characterized", "scaled"}
        BY <3>1 DEF GoScaled, Told, Counters
      <3>4. Adds({"total", "characterized", "scaled"})
        BY <1>0, <3>3, CountAdds
      <3> QED BY <2>1, <2>2, <2>3, <3>1, <3>2, <3>4 DEF Store, Recorded, Outcome
    <2>4. CASE ~MatchesLow(m)
      BY <1>3, <1>5, <2>1, <2>4 DEF Finish, KeepsRecords
    <2> QED BY <2>3, <2>4
  <1> QED BY <1>1, <1>4, <1>5 DEF on_window

-----------------------------------------------------------------------------
(* The deployment: only a hook process ends, and what it left in the file  *)
(* is as good as what it had in memory.                                    *)
DeployedInv ==
    /\ PolicyInv
    /\ GoodPending(saved.pending) /\ GoodRecords(saved.phase_cache)
    /\ saved.count \in [Counters -> Nat]
    /\ pc \in {"window", "save"} /\ (pc = "save" => deployment = "hook")

LEMMA DeployedInitInv == DeployedInit => DeployedInv
  BY InitPolicy DEF DeployedInit, DeployedInv, State, PolicyInv

(* A new policy object is as good as the first one.                        *)
LEMMA NewProcessGood ==
  ASSUME NewProcess
  PROVE  IdentifierInv(Metrics)' /\ GoodRecords(cache')
  <1>1. history' = <<>> /\ Len(<<>>) = 0 /\ active' = NoPhase /\ anchor' \in AveragesSet
    BY DEF NewProcess, AveragesSet
  <1>2. ~HasPhase(history')
    BY <1>1, PhaseIdentifierAssumption DEF HasPhase, Full
  <1>3. HasPhase(history)' = HasPhase(history') /\ Len(history') <= Capacity
    BY <1>1, CapacityType DEF HasPhase, Full, Stable
  <1>4. GoodRecords(cache')
    BY DEF NewProcess, GoodRecords
  <1> QED BY <1>1, <1>2, <1>3, <1>4 DEF IdentifierInv

LEMMA DeployedStep ==
  ASSUME DeployedInv, [DeployedNext]_deployed
  PROVE  DeployedInv'
  <1>1. ASSUME NEW m \in Metrics, OnWindow(m) PROVE DeployedInv'
    <2>1. PolicyInv'
      BY <1>1, WindowPolicy DEF OnWindow, DeployedInv
    <2> QED BY <1>1, <2>1 DEF OnWindow, DeployedInv
  <1>2. CASE Save
    <2>1. IdentifierInv(Metrics)' /\ GoodRecords(cache')
      BY <1>2, NewProcessGood DEF Save
    <2>2. /\ saved'.pending = pending /\ saved'.phase_cache = phase_cache /\ saved'.count = count
          /\ UNCHANGED <<pending, phase_cache, count, decision, deployment>>
          /\ pc' = "window"
      BY <1>2 DEF Save, State
    <2> QED BY <2>1, <2>2 DEF DeployedInv, PolicyInv
  <1>3. CASE Lose
    <2>1. IdentifierInv(Metrics)' /\ GoodRecords(cache')
      BY <1>3, NewProcessGood DEF Lose
    <2>2. /\ pending' = saved.pending /\ phase_cache' = saved.phase_cache
          /\ count' = saved.count /\ decision' = Hold
          /\ UNCHANGED <<saved, deployment>> /\ pc' = "window"
      BY <1>3 DEF Lose
    <2> QED BY <2>1, <2>2, HoldGood DEF DeployedInv, PolicyInv
  <1>4. CASE UNCHANGED deployed
    <2>1. UNCHANGED <<history, active, anchor, pending, cache, phase_cache, count,
                      decision, deployment, pc, saved, last, steady>>
      BY <1>4 DEF deployed, vars, identifier
    <2>2. IdentifierInv(Metrics)'
      BY <2>1 DEF DeployedInv, PolicyInv, IdentifierInv, HasPhase, Full, Stable, FarFrom,
                  Averages, Total, PhaseId
    <2> QED BY <2>1, <2>2 DEF DeployedInv, PolicyInv
  <1> QED BY <1>1, <1>2, <1>3, <1>4 DEF DeployedNext

LEMMA DeployedInductive == DeployedSpec => []DeployedInv
  <1>1. DeployedInv /\ [DeployedNext]_deployed => DeployedInv'
    BY DeployedStep
  <1> QED BY <1>1, DeployedInitInv, PTL DEF DeployedSpec

(* The policy's state has its type in every deployment.                    *)
THEOREM EverestTypeCorrect == DeployedSpec => []TypeOK
  <1>1. DeployedInv => TypeOK
    <2> SUFFICES ASSUME DeployedInv PROVE TypeOK
      OBVIOUS
    <2>1. pending.stage \in {"none", "capture_high", "capture_low"}
      BY DEF DeployedInv, PolicyInv, GoodPending, None
    <2> QED BY <2>1 DEF DeployedInv, PolicyInv, IdentifierInv, AveragesSet, GoodRecords,
                        GoodDecision, TypeOK
  <1> QED BY <1>1, DeployedInductive, PTL

(* Every decision passes the runner's validation, and none asks for a      *)
(* clock above the configured high one, whatever telemetry reports and     *)
(* whatever process began the characterisation that ends.                  *)
THEOREM EverestDecisionsValid == DeployedSpec => []DecisionsValid
  <1>1. DeployedInv => DecisionsValid
    BY DEF DeployedInv, PolicyInv, GoodDecision, DecisionsValid
  <1> QED BY <1>1, DeployedInductive, PTL

-----------------------------------------------------------------------------
(* The counters: what they say of one state, held or saved ...             *)
CountersAgree(q, records, n) ==
    /\ n["stable"] = n["hits"] + n["misses"]
    /\ n["scaled"] = n["hits"] + n["characterized"]
    /\ n["characterized"] + (IF q = None THEN 0 ELSE 1) <= n["misses"]
    /\ n["unstable"] + n["stable"] + n["characterized"] <= n["total"]
    /\ IsFiniteSet(DOMAIN records)
    /\ n["characterized"] >= Cardinality(DOMAIN records)

(* ... and of a run in one process.                                        *)
OneProcess ==
    /\ cache = phase_cache
    /\ count["characterized"] = Cardinality(DOMAIN cache)
    /\ pending # None => pending.phase \notin DOMAIN cache

TellInv ==
    /\ CountersAgree(pending, phase_cache, count)
    /\ CountersAgree(saved.pending, saved.phase_cache, saved.count)
    /\ deployment # "hook" => OneProcess

LEMMA InitTell == DeployedInit => TellInv
  <1> SUFFICES ASSUME DeployedInit PROVE TellInv
    OBVIOUS
  <1>1. /\ pending = None /\ cache = phase_cache /\ DOMAIN phase_cache = {}
        /\ \A c \in Counters : count[c] = 0
        /\ saved.pending = pending /\ saved.phase_cache = phase_cache /\ saved.count = count
    BY DEF DeployedInit, Init, State
  <1>2. IsFiniteSet({}) /\ Cardinality({}) = 0
    BY FS_EmptySet
  <1>3. CountersAgree(pending, phase_cache, count)
    BY <1>1, <1>2 DEF CountersAgree, Counters
  <1> QED BY <1>1, <1>2, <1>3 DEF TellInv, OneProcess, CountersAgree, Counters

LEMMA WindowTell ==
  ASSUME DeployedInv, TellInv, NEW m \in Metrics, Outcome(m),
         UNCHANGED <<saved, deployment>>
  PROVE  TellInv'
  <1>1. \A c \in Counters : count[c] \in Nat
    BY DEF DeployedInv, PolicyInv
  <1>2. CountersAgree(pending, phase_cache, count)
    BY DEF TellInv
  <1>3. Cardinality(DOMAIN phase_cache) \in Nat /\ IsFiniteSet(DOMAIN phase_cache)
    BY <1>2, FS_CardinalityType DEF CountersAgree
  <1>4. SUFFICES /\ CountersAgree(pending', phase_cache', count')
                 /\ deployment # "hook" => OneProcess'
    BY DEF TellInv, CountersAgree
  <1>5. CASE Unstabled \/ Hit \/ Missed
    <2>1. UNCHANGED <<pending, cache, phase_cache>>
      BY <1>5 DEF Unstabled, Hit, Missed, KeepsRecords
    <2>2. CountersAgree(pending', phase_cache', count')
      BY <1>1, <1>2, <1>3, <1>5, <2>1
         DEF Unstabled, Hit, Missed, Adds, Told, Counters, CountersAgree
    <2>3. count'["characterized"] = count["characterized"]
      BY <1>1, <1>5 DEF Unstabled, Hit, Missed, Adds, Told, Counters
    <2> QED BY <2>1, <2>2, <2>3 DEF TellInv, OneProcess
  <1>6. CASE Began(m)
    <2>1. pending = None /\ pending'.phase \notin DOMAIN cache /\ KeepsRecords
          /\ Adds({"total", "stable", "misses"})
      BY <1>6 DEF Began
    <2>2. CountersAgree(pending', phase_cache', count')
      BY <1>1, <1>2, <1>3, <2>1 DEF Adds, Told, Counters, CountersAgree, KeepsRecords
    <2>3. count'["characterized"] = count["characterized"]
      BY <1>1, <2>1 DEF Adds, Told, Counters
    <2> QED BY <2>1, <2>2, <2>3 DEF TellInv, OneProcess, KeepsRecords
  <1>7. CASE Advanced(m) \/ GaveUp
    <2>1. pending # None /\ KeepsRecords /\ Adds({"total"})
          /\ (pending' # None => pending'.phase = pending.phase)
      BY <1>7 DEF Advanced, GaveUp, None
    <2>2. CountersAgree(pending', phase_cache', count')
      BY <1>1, <1>2, <1>3, <2>1 DEF Adds, Told, Counters, CountersAgree, KeepsRecords
    <2>3. count'["characterized"] = count["characterized"]
      BY <1>1, <2>1 DEF Adds, Told, Counters
    <2> QED BY <2>1, <2>2, <2>3 DEF TellInv, OneProcess, KeepsRecords
  <1>8. CASE Recorded(m)
    <2>1. PICK r \in RecordType : /\ cache' = With(cache, pending.phase, r)
                                  /\ phase_cache' = With(phase_cache, pending.phase, r)
      BY <1>8 DEF Recorded
    <2>2. pending # None /\ pending' = None /\ Adds({"total", "characterized", "scaled"})
      BY <1>8 DEF Recorded, None
    <2>3. DOMAIN phase_cache' = DOMAIN phase_cache \cup {pending.phase}
      BY <2>1 DEF With
    <2>4. /\ IsFiniteSet(DOMAIN phase_cache')
          /\ Cardinality(DOMAIN phase_cache') =
               IF pending.phase \in DOMAIN phase_cache THEN Cardinality(DOMAIN phase_cache)
               ELSE Cardinality(DOMAIN phase_cache) + 1
      BY <1>3, <2>3, FS_AddElement
    <2>5. CountersAgree(pending', phase_cache', count')
      BY <1>1, <1>2, <1>3, <2>2, <2>4 DEF Adds, Told, Counters, CountersAgree
    <2>6. count'["characterized"] = count["characterized"] + 1
      BY <1>1, <2>2 DEF Adds, Told, Counters
    <2> QED BY <2>1, <2>2, <2>4, <2>5, <2>6 DEF TellInv, OneProcess
  <1> QED BY <1>5, <1>6, <1>7, <1>8 DEF Outcome

LEMMA TellStep ==
  ASSUME DeployedInv, TellInv, [DeployedNext]_deployed
  PROVE  TellInv'
  <1>1. ASSUME NEW m \in Metrics, OnWindow(m) PROVE TellInv'
    <2>1. Outcome(m) /\ UNCHANGED <<saved, deployment>>
      BY <1>1, WindowOutcome DEF OnWindow, DeployedInv
    <2> QED BY <1>1, <2>1, WindowTell
  <1>2. CASE Save
    <2>1. /\ saved'.pending = pending /\ saved'.phase_cache = phase_cache /\ saved'.count = count
          /\ UNCHANGED <<pending, phase_cache, count, deployment>> /\ deployment = "hook"
      BY <1>2 DEF Save, State, DeployedInv
    <2> QED BY <2>1 DEF TellInv, CountersAgree
  <1>3. CASE Lose
    <2>1. /\ pending' = saved.pending /\ phase_cache' = saved.phase_cache
          /\ count' = saved.count /\ UNCHANGED <<saved, deployment>> /\ deployment = "hook"
      BY <1>3 DEF Lose, DeployedInv
    <2> QED BY <2>1 DEF TellInv, CountersAgree
  <1>4. CASE UNCHANGED deployed
    BY <1>4 DEF deployed, vars, TellInv, CountersAgree, OneProcess
  <1> QED BY <1>1, <1>2, <1>3, <1>4 DEF DeployedNext

(* The counters of the final summary agree with each other and with the    *)
(* records, through every loss of a hook process.                          *)
THEOREM CountersTellCorrect == DeployedSpec => []CountersTell
  <1>1. DeployedInv /\ TellInv /\ [DeployedNext]_deployed => TellInv'
    BY TellStep
  <1>2. TellInv => CountersTell
    BY DEF TellInv, CountersAgree, OneProcess, CountersTell
  <1> QED BY <1>1, <1>2, InitTell, DeployedInductive, PTL DEF DeployedSpec

-----------------------------------------------------------------------------
(* The records of one process only grow, and the file forgets no phase.    *)
KeptInv == (deployment # "hook" => OneProcess) /\ DOMAIN saved.phase_cache \subseteq DOMAIN phase_cache

(* Outcomes that keep a record, and the domain of the mirror.              *)
LEMMA WindowKeeps ==
  ASSUME NEW m, Outcome(m), deployment # "hook" => OneProcess
  PROVE  /\ DOMAIN phase_cache \subseteq DOMAIN phase_cache'
         /\ deployment # "hook" => \A p \in DOMAIN cache : p \in DOMAIN cache' /\ cache'[p] = cache[p]
  <1>1. CASE KeepsRecords
    BY <1>1 DEF KeepsRecords
  <1>2. CASE Recorded(m)
    <2>1. PICK r \in RecordType : /\ cache' = With(cache, pending.phase, r)
                                  /\ phase_cache' = With(phase_cache, pending.phase, r)
      BY <1>2 DEF Recorded
    <2>2. DOMAIN phase_cache \subseteq DOMAIN phase_cache'
      BY <2>1 DEF With
    <2>3. \A p \in DOMAIN cache : p # pending.phase => p \in DOMAIN cache' /\ cache'[p] = cache[p]
      BY <2>1 DEF With
    <2>4. deployment # "hook" => pending.phase \notin DOMAIN cache
      BY <1>2 DEF Recorded, OneProcess, None
    <2> QED BY <2>2, <2>3, <2>4
  <1> QED BY <1>1, <1>2 DEF Outcome, Unstabled, Hit, Missed, Began, Advanced, GaveUp

LEMMA KeptStep ==
  ASSUME DeployedInv, KeptInv, TellInv', [DeployedNext]_deployed
  PROVE  /\ KeptInv'
         /\ deployment # "hook" =>
               \A p \in DOMAIN cache : p \in DOMAIN cache' /\ cache'[p] = cache[p]
         /\ DOMAIN saved.phase_cache \subseteq DOMAIN saved'.phase_cache
  <1>1. deployment' # "hook" => OneProcess'
    BY DEF TellInv
  <1>2. ASSUME NEW m \in Metrics, OnWindow(m)
        PROVE  /\ DOMAIN phase_cache \subseteq DOMAIN phase_cache'
               /\ deployment # "hook" =>
                     \A p \in DOMAIN cache : p \in DOMAIN cache' /\ cache'[p] = cache[p]
               /\ UNCHANGED saved
    <2>1. Outcome(m) /\ UNCHANGED saved
      BY <1>2, WindowOutcome DEF OnWindow, DeployedInv
    <2> QED BY <2>1, WindowKeeps DEF KeptInv
  <1>3. CASE Save
    <2>1. saved'.phase_cache = phase_cache /\ UNCHANGED phase_cache /\ deployment = "hook"
      BY <1>3 DEF Save, State, DeployedInv
    <2> QED BY <1>1, <2>1 DEF KeptInv
  <1>4. CASE Lose
    <2>1. phase_cache' = saved.phase_cache /\ UNCHANGED saved /\ deployment = "hook"
      BY <1>4 DEF Lose, DeployedInv
    <2> QED BY <1>1, <2>1 DEF KeptInv
  <1>5. CASE UNCHANGED deployed
    BY <1>1, <1>5 DEF deployed, vars, KeptInv
  <1> QED BY <1>1, <1>2, <1>3, <1>4, <1>5 DEF DeployedNext, KeptInv

(* A characterisation is final in its process, and no phase the file knows *)
(* is forgotten by it, whatever processes are lost.                        *)
THEOREM RecordsKeptCorrect == DeployedSpec => RecordsKept
  <1>1. DeployedInit => KeptInv
    BY InitTell DEF DeployedInit, TellInv, KeptInv, State
  <1>2. DeployedInv /\ TellInv /\ [DeployedNext]_deployed => TellInv'
    BY TellStep
  <1>3. DeployedInv /\ KeptInv /\ TellInv' /\ [DeployedNext]_deployed =>
          /\ KeptInv'
          /\ [/\ deployment # "hook" =>
                   \A p \in DOMAIN cache : p \in DOMAIN cache' /\ cache'[p] = cache[p]
              /\ DOMAIN saved.phase_cache \subseteq DOMAIN saved'.phase_cache]_deployed
    BY KeptStep
  <1> QED BY <1>1, <1>2, <1>3, InitTell, DeployedInductive, PTL DEF DeployedSpec, RecordsKept

-----------------------------------------------------------------------------
(* The evidence.  The two probe clocks are told apart by the tolerance, and*)
(* the history of the identifier has one window.                           *)
Apart == f_high - f_low > 2 * Tolerance

LEMMA FarClocks ==
  ASSUME Apart, NEW c \in Nat, SameClock(c, f_low)
  PROVE  ~SameClock(c, f_high)
  <1>1. f_high \in Nat /\ f_low \in Nat /\ Tolerance \in Nat
    BY ProbeClocks, EverestAssumption
  <1> QED BY <1>1 DEF SameClock, Abs, Apart

HighEvidence(q) == q.stage = "capture_low" => q.allHigh = TRUE

EvidenceInv == /\ HighEvidence(pending) /\ HighEvidence(saved.pending)
               /\ EvidenceRecorded

LEMMA WindowEvidence ==
  ASSUME DeployedInv, EvidenceInv, Capacity = 1, Apart, NEW m \in Metrics, Outcome(m)
  PROVE  HighEvidence(pending') /\ EvidenceIn(cache') /\ EvidenceIn(phase_cache')
  <1>1. CASE Recorded(m)
    <2>1. PICK r \in RecordType : /\ r.allHigh = pending.allHigh /\ r.lowClock = m.clock
                                  /\ cache' = With(cache, pending.phase, r)
                                  /\ phase_cache' = With(phase_cache, pending.phase, r)
      BY <1>1 DEF Recorded
    <2>2. r.allHigh = TRUE /\ SameClock(m.clock, f_low) /\ HighEvidence(pending')
      BY <1>1, <2>1 DEF Recorded, EvidenceInv, HighEvidence, MatchesLow, None
    <2>3. ~SameClock(m.clock, f_high)
      BY <2>2, MetricsType, FarClocks
    <2> QED BY <2>1, <2>2, <2>3 DEF EvidenceInv, EvidenceRecorded, EvidenceIn, With
  <1>2. CASE ~Recorded(m)
    <2>1. KeepsRecords
      BY <1>2 DEF Outcome, Unstabled, Hit, Missed, Began, Advanced, GaveUp
    <2>2. HighEvidence(pending')
      BY <1>2 DEF Outcome, Unstabled, Hit, Missed, Began, Advanced, GaveUp, EvidenceInv,
                  HighEvidence, None
    <2> QED BY <2>1, <2>2 DEF KeepsRecords, EvidenceInv, EvidenceRecorded, EvidenceIn
  <1> QED BY <1>1, <1>2

LEMMA EvidenceStep ==
  ASSUME DeployedInv, EvidenceInv, Capacity = 1, Apart, [DeployedNext]_deployed
  PROVE  EvidenceInv'
  <1>0. /\ HighEvidence(pending) /\ HighEvidence(saved.pending) /\ EvidenceIn(cache)
        /\ EvidenceIn(phase_cache) /\ EvidenceIn(saved.phase_cache)
    BY DEF EvidenceInv, EvidenceRecorded
  <1>1. SUFFICES /\ HighEvidence(pending') /\ HighEvidence(saved'.pending) /\ EvidenceIn(cache')
                 /\ EvidenceIn(phase_cache') /\ EvidenceIn(saved'.phase_cache)
    BY DEF EvidenceInv, EvidenceRecorded, EvidenceIn, HighEvidence, SameClock, Abs
  <1>2. ASSUME NEW m \in Metrics, OnWindow(m)
        PROVE  /\ HighEvidence(pending') /\ EvidenceIn(cache') /\ EvidenceIn(phase_cache')
               /\ UNCHANGED saved
    <2>1. Outcome(m) /\ UNCHANGED saved
      BY <1>2, WindowOutcome DEF OnWindow, DeployedInv
    <2> QED BY <2>1, WindowEvidence
  <1>3. EvidenceIn([p \in {} |-> None])
    BY DEF EvidenceIn
  <1>4. CASE Save
    <2>1. saved'.pending = pending /\ saved'.phase_cache = phase_cache
          /\ UNCHANGED <<pending, phase_cache>> /\ cache' = [p \in {} |-> None]
      BY <1>4 DEF Save, State, NewProcess
    <2> QED BY <1>0, <1>3, <2>1
  <1>5. CASE Lose
    <2>1. pending' = saved.pending /\ phase_cache' = saved.phase_cache /\ UNCHANGED saved
          /\ cache' = [p \in {} |-> None]
      BY <1>5 DEF Lose, NewProcess
    <2> QED BY <1>0, <1>3, <2>1
  <1>6. CASE UNCHANGED deployed
    BY <1>0, <1>6 DEF deployed, vars
  <1> QED BY <1>0, <1>2, <1>4, <1>5, <1>6 DEF DeployedNext

(* With a history of one window, and probe clocks that the tolerance tells *)
(* apart, each sensitivity was computed from a high and a low window.      *)
THEOREM EvidenceRecordedCorrect ==
  ASSUME Capacity = 1, f_high - f_low > 2 * Tolerance
  PROVE  DeployedSpec => []EvidenceRecorded
  <1>1. Apart
    BY DEF Apart
  <1>2. DeployedInit => EvidenceInv
    BY DEF DeployedInit, Init, State, None, EvidenceInv, EvidenceRecorded, EvidenceIn, HighEvidence
  <1>3. DeployedInv /\ EvidenceInv /\ [DeployedNext]_deployed => EvidenceInv'
    BY <1>1, EvidenceStep
  <1>4. EvidenceInv => EvidenceRecorded
    BY DEF EvidenceInv
  <1> QED BY <1>2, <1>3, <1>4, DeployedInductive, PTL DEF DeployedSpec

-----------------------------------------------------------------------------
(* The drift.  A threshold between the averages that ask for the probe and *)
(* the high window, and another one between that and the low window.       *)
Limit == Threshold * Capacity

SmallStep(q) == q.stage = "capture_low" => Near(q.gpu, q.began)

DriftIn(records) == \A p \in DOMAIN records : records[p].drift < 2 * Limit

DriftBelowTwoThresholds == DriftIn(cache) /\ DriftIn(phase_cache)

DriftInv == /\ SmallStep(pending) /\ SmallStep(saved.pending)
            /\ DriftIn(cache) /\ DriftIn(phase_cache) /\ DriftIn(saved.phase_cache)

LEMMA LimitType == Limit \in Nat /\ Limit > 0
  <1>1. Threshold \in Nat /\ Threshold > 0 /\ Capacity \in Nat /\ Capacity > 0
    BY PhaseIdentifierAssumption, CapacityType
  <1> QED BY <1>1, NatProduct DEF Limit

LEMMA NearTwice ==
  ASSUME NEW x \in Nat, NEW y \in Nat, NEW z \in Nat, Near(x, y), Near(y, z)
  PROVE  Abs(x - z) < 2 * Limit
  BY LimitType DEF Near, Abs, Limit

LEMMA WindowDrift ==
  ASSUME DeployedInv, DriftInv, NEW m \in Metrics, on_window(m)
  PROVE  SmallStep(pending') /\ DriftIn(cache') /\ DriftIn(phase_cache')
  <1>0. SmallStep(pending) /\ DriftIn(cache) /\ DriftIn(phase_cache) /\ GoodPending(pending)
    BY DEF DriftInv, DeployedInv, PolicyInv
  <1>1. CASE ObserveWindow(m)
    <2>1. PICK h \in Seq(Metrics) :
             /\ h = Push(history, m) /\ pending = None
             /\ \/ Unstable(m, h) \/ ApplyCached(m, h) \/ NotCharacterizable(m, h)
                \/ CollectHigh(m, h) \/ ProbeFromHistory(m, h)
      BY <1>1, PushType DEF ObserveWindow, DeployedInv, PolicyInv, IdentifierInv
    <2>2. UNCHANGED <<cache, phase_cache>>
      BY <2>1 DEF Unstable, ApplyCached, NotCharacterizable, CollectHigh, ProbeFromHistory
    <2>3. SmallStep(pending')
      <3>1. CASE ProbeFromHistory(m, h)
        <4>1. Averages(h).gpu \in Nat
          BY <2>1, MetricsType, AveragesType DEF Windows, AveragesSet
        <4>2. pending'.gpu = Averages(h).gpu /\ pending'.began = Averages(h).gpu
          BY <3>1 DEF ProbeFromHistory, ProbeLow
        <4> QED BY <4>1, <4>2, LimitType DEF SmallStep, Near, Abs, Limit
      <3>2. CASE ~ProbeFromHistory(m, h)
        BY <2>1, <3>2 DEF Unstable, ApplyCached, NotCharacterizable, CollectHigh, SmallStep, None
      <3> QED BY <3>1, <3>2
    <2> QED BY <1>0, <2>2, <2>3 DEF DriftIn
  <1>2. CASE CaptureHigh(m)
    <2>1. SmallStep(pending')
      BY <1>2 DEF CaptureHigh, MatchesHigh, ProbeLow, GiveUp, SmallStep, None
    <2> QED BY <1>0, <1>2, <2>1 DEF CaptureHigh, DriftIn
  <1>3. CASE Finish(m)
    <2>1. SmallStep(pending')
      BY <1>3 DEF Finish, GiveUp, SmallStep, None
    <2>2. CASE MatchesLow(m)
      <3>1. PICK r : /\ r.drift = Abs(Alone(m).gpu - pending.began)
                     /\ cache' = With(cache, pending.phase, r)
                     /\ phase_cache' = With(phase_cache, pending.phase, r)
        BY <1>3, <2>2 DEF Finish, Store
      <3>2. pending.gpu \in Nat /\ pending.began \in Nat /\ Near(pending.gpu, pending.began)
        BY <1>0, <1>3 DEF Finish, SmallStep, GoodPending, None
      <3>3. Alone(m).gpu \in Nat /\ Near(Alone(m).gpu, pending.gpu)
        BY <2>2, AloneType DEF MatchesLow, AveragesSet
      <3>4. r.drift < 2 * Limit
        BY <3>1, <3>2, <3>3, NearTwice
      <3> QED BY <1>0, <2>1, <3>1, <3>4 DEF DriftIn, With
    <2>3. CASE ~MatchesLow(m)
      BY <1>0, <1>3, <2>1, <2>3 DEF Finish, DriftIn
    <2> QED BY <2>2, <2>3
  <1> QED BY <1>1, <1>2, <1>3 DEF on_window

LEMMA DriftStep ==
  ASSUME DeployedInv, DriftInv, [DeployedNext]_deployed
  PROVE  DriftInv'
  <1>0. /\ SmallStep(pending) /\ SmallStep(saved.pending) /\ DriftIn(cache)
        /\ DriftIn(phase_cache) /\ DriftIn(saved.phase_cache)
    BY DEF DriftInv
  <1>1. SUFFICES /\ SmallStep(pending') /\ SmallStep(saved'.pending) /\ DriftIn(cache')
                 /\ DriftIn(phase_cache') /\ DriftIn(saved'.phase_cache)
    BY DEF DriftInv, DriftIn, SmallStep, Near, Abs, Limit
  <1>2. ASSUME NEW m \in Metrics, OnWindow(m)
        PROVE  /\ SmallStep(pending') /\ DriftIn(cache') /\ DriftIn(phase_cache')
               /\ UNCHANGED saved
    BY <1>2, WindowDrift DEF OnWindow
  <1>3. DriftIn([p \in {} |-> None])
    BY DEF DriftIn
  <1>4. CASE Save
    <2>1. saved'.pending = pending /\ saved'.phase_cache = phase_cache
          /\ UNCHANGED <<pending, phase_cache>> /\ cache' = [p \in {} |-> None]
      BY <1>4 DEF Save, State, NewProcess
    <2> QED BY <1>0, <1>3, <2>1
  <1>5. CASE Lose
    <2>1. pending' = saved.pending /\ phase_cache' = saved.phase_cache /\ UNCHANGED saved
          /\ cache' = [p \in {} |-> None]
      BY <1>5 DEF Lose, NewProcess
    <2> QED BY <1>0, <1>3, <2>1
  <1>6. CASE UNCHANGED deployed
    BY <1>0, <1>6 DEF deployed, vars
  <1> QED BY <1>0, <1>2, <1>4, <1>5, <1>6 DEF DeployedNext

(* The GPU utilization of a low probe may leave the threshold around that  *)
(* of the phase its record is for, but never twice the threshold: this is  *)
(* as far as re-anchoring in between lets it drift, in any deployment.     *)
THEOREM DriftBounded == DeployedSpec => []DriftBelowTwoThresholds
  <1>1. DeployedInit => DriftInv
    BY DEF DeployedInit, Init, State, None, DriftInv, DriftIn, SmallStep
  <1>2. DeployedInv /\ DriftInv /\ [DeployedNext]_deployed => DriftInv'
    BY DriftStep
  <1>3. DriftInv => DriftBelowTwoThresholds
    BY DEF DriftInv, DriftBelowTwoThresholds
  <1> QED BY <1>1, <1>2, <1>3, DeployedInductive, PTL DEF DeployedSpec

-----------------------------------------------------------------------------
(* Batch telemetry never shows the low clock after the high one; a hook    *)
(* process has an empty cache, and pays two windows for each scaled one.   *)
NoRecords == [p \in {} |-> None]

BatchInv ==
    /\ cache = NoRecords /\ count["scaled"] = 0
    /\ pending # None => last \in Metrics
    /\ pending.stage = "capture_low" => IsHigh(last)

Paid(q, n) == n["hits"] = 0 /\ 2 * n["scaled"] + (IF q = None THEN 0 ELSE 1) <= n["total"]

HookInv ==
    /\ Paid(pending, count) /\ Paid(saved.pending, saved.count)
    /\ pc = "window" => cache = NoRecords

StaleInv == (deployment = "batch" => BatchInv) /\ (deployment = "hook" => HookInv)

LEMMA InitStale == DeployedInit => StaleInv
  <1> SUFFICES ASSUME DeployedInit PROVE StaleInv
    OBVIOUS
  <1>1. /\ pending = None /\ cache = NoRecords /\ \A c \in Counters : count[c] = 0
        /\ saved.pending = pending /\ saved.count = count
    BY DEF DeployedInit, Init, State, NoRecords
  <1>2. BatchInv
    BY <1>1 DEF BatchInv, None, Counters
  <1>3. HookInv
    BY <1>1 DEF HookInv, Paid, Counters
  <1> QED BY <1>2, <1>3 DEF StaleInv

LEMMA WindowBatch ==
  ASSUME DeployedInv, BatchInv, Apart, NEW m \in Metrics, Outcome(m),
         last \in {NoMetrics, m}, last' = m
  PROVE  BatchInv'
  <1>1. \A c \in Counters : count[c] \in Nat
    BY DEF DeployedInv, PolicyInv
  <1>2. ~Hit
    BY DEF Hit, BatchInv, NoRecords
  <1>3. ~Recorded(m)
    <2>1. SUFFICES ASSUME Recorded(m) PROVE FALSE
      OBVIOUS
    <2>2. pending # None /\ pending.stage = "capture_low" /\ SameClock(m.clock, f_low)
      BY <2>1 DEF Recorded, None, MatchesLow
    <2>3. last = m
      <3>1. last # NoMetrics
        BY <2>2, MetricsType, NoClockAssumption DEF BatchInv, NoMetrics
      <3> QED BY <3>1
    <2>4. IsHigh(m)
      BY <2>2, <2>3 DEF BatchInv
    <2> QED BY <2>2, <2>4, MetricsType, FarClocks DEF IsHigh
  <1>4. KeepsRecords /\ count'["scaled"] = count["scaled"]
    BY <1>1, <1>2, <1>3 DEF Outcome, Unstabled, Missed, Began, Advanced, GaveUp, Adds, Told, Counters
  <1>5. pending'.stage = "capture_low" => IsHigh(m)
    BY <1>2, <1>3 DEF Outcome, Unstabled, Missed, Began, Advanced, GaveUp, None
  <1> QED BY <1>4, <1>5 DEF BatchInv, KeepsRecords, IsHigh, SameClock, Abs

LEMMA WindowHook ==
  ASSUME DeployedInv, Paid(pending, count), cache = NoRecords, NEW m, Outcome(m)
  PROVE  Paid(pending', count')
  <1>1. \A c \in Counters : count[c] \in Nat
    BY DEF DeployedInv, PolicyInv
  <1>2. ~Hit
    BY DEF Hit, NoRecords
  <1>3. CASE Unstabled \/ Missed
    BY <1>1, <1>3 DEF Unstabled, Missed, Adds, Told, Counters, Paid
  <1>4. CASE Began(m)
    BY <1>1, <1>4 DEF Began, Adds, Told, Counters, Paid
  <1>5. CASE Advanced(m) \/ GaveUp
    <2>1. pending # None /\ Adds({"total"})
      BY <1>5 DEF Advanced, GaveUp, None
    <2>2. /\ count'["hits"] = count["hits"] /\ count'["scaled"] = count["scaled"]
          /\ count'["total"] = count["total"] + 1
      BY <1>1, <2>1 DEF Adds, Told, Counters
    <2>3. count["scaled"] \in Nat /\ count["total"] \in Nat
      BY <1>1 DEF Counters
    <2>4. count["hits"] = 0 /\ 2 * count["scaled"] + 1 <= count["total"]
      BY <2>1 DEF Paid
    <2> QED BY <2>2, <2>3, <2>4 DEF Paid
  <1>6. CASE Recorded(m)
    <2>1. pending # None /\ pending' = None /\ Adds({"total", "characterized", "scaled"})
      BY <1>6 DEF Recorded, None
    <2>2. /\ count'["hits"] = count["hits"] /\ count'["scaled"] = count["scaled"] + 1
          /\ count'["total"] = count["total"] + 1
      BY <1>1, <2>1 DEF Adds, Told, Counters
    <2>3. count["scaled"] \in Nat /\ count["total"] \in Nat
      BY <1>1 DEF Counters
    <2>4. count["hits"] = 0 /\ 2 * count["scaled"] + 1 <= count["total"]
      BY <2>1 DEF Paid
    <2>5. 2 * (count["scaled"] + 1) <= count["total"] + 1
      BY <2>3, <2>4
    <2> QED BY <2>1, <2>2, <2>3, <2>4, <2>5 DEF Paid
  <1> QED BY <1>2, <1>3, <1>4, <1>5, <1>6 DEF Outcome

LEMMA StaleStep ==
  ASSUME DeployedInv, StaleInv, Apart, [DeployedNext]_deployed
  PROVE  StaleInv'
  <1>1. ASSUME NEW m \in Metrics, OnWindow(m) PROVE StaleInv'
    <2>1. /\ Outcome(m) /\ UNCHANGED <<saved, deployment>> /\ last' = m /\ pc = "window"
          /\ deployment = "batch" => last \in {NoMetrics, m}
          /\ deployment = "hook" => pc' = "save"
      BY <1>1, WindowOutcome DEF OnWindow, DeployedInv
    <2>2. deployment = "batch" => BatchInv'
      BY <2>1, WindowBatch DEF StaleInv
    <2>3. deployment = "hook" => Paid(pending', count')
      BY <2>1, WindowHook DEF StaleInv, HookInv
    <2> QED BY <2>1, <2>2, <2>3 DEF StaleInv, HookInv, Paid
  <1>2. CASE Save
    <2>1. /\ saved'.pending = pending /\ saved'.count = count /\ UNCHANGED <<pending, count, deployment>>
          /\ deployment = "hook" /\ cache' = NoRecords
      BY <1>2 DEF Save, State, NewProcess, NoRecords, DeployedInv
    <2> QED BY <2>1 DEF StaleInv, HookInv, Paid
  <1>3. CASE Lose
    <2>1. /\ pending' = saved.pending /\ count' = saved.count /\ UNCHANGED <<saved, deployment>>
          /\ deployment = "hook" /\ cache' = NoRecords
      BY <1>3 DEF Lose, NewProcess, NoRecords, DeployedInv
    <2> QED BY <2>1 DEF StaleInv, HookInv, Paid
  <1>4. CASE UNCHANGED deployed
    BY <1>4 DEF deployed, vars, StaleInv, BatchInv, HookInv, Paid, IsHigh, SameClock, Abs
  <1> QED BY <1>1, <1>2, <1>3, <1>4 DEF DeployedNext

(* With probe clocks that the tolerance tells apart, telemetry that never  *)
(* changes characterises nothing, and a hook process scales the clock only *)
(* in the window that completes a characterisation.                        *)
THEOREM NoStaleEvidenceCorrect ==
  ASSUME f_high - f_low > 2 * Tolerance
  PROVE  DeployedSpec => []NoStaleEvidence
  <1>1. Apart
    BY DEF Apart
  <1>2. DeployedInv /\ StaleInv /\ [DeployedNext]_deployed => StaleInv'
    BY <1>1, StaleStep
  <1>3. DeployedInv /\ StaleInv => NoStaleEvidence
    <2> SUFFICES ASSUME DeployedInv, StaleInv PROVE NoStaleEvidence
      OBVIOUS
    <2>1. count["scaled"] \in Nat /\ count["total"] \in Nat
      BY DEF DeployedInv, PolicyInv, Counters
    <2> QED BY <2>1 DEF StaleInv, BatchInv, HookInv, Paid, NoRecords, NoStaleEvidence
  <1> QED BY <1>2, <1>3, InitStale, DeployedInductive, PTL DEF DeployedSpec

-----------------------------------------------------------------------------
(* A characterisation completes.  One telemetry window fills the history,  *)
(* as it does with the configured phase window.                            *)
Short == Duration >= PhaseSeconds

(* The phase of the newest window, and whether the active phase is its own.*)
OurPhase == IF deployment = "hook" THEN PhaseId(Alone(last)) ELSE active

Fits == deployment = "hook" \/ (active # NoPhase /\ ~FarFrom(Alone(last), anchor))

(* How far its characterisation has come: it is done, it awaits the window *)
(* at the low clock, or the one at the high clock ...                      *)
Done == IF deployment = "hook" THEN OurPhase \in DOMAIN phase_cache
        ELSE pending = None /\ active \in DOMAIN cache /\ Fits

OurLow ==
    /\ pending.stage = "capture_low" /\ pending.phase = OurPhase /\ Fits
    /\ pending.gpu = Alone(last).gpu /\ pending.memHigh > 0
    /\ decision = AskFor(last, f_low)

OurHigh ==
    /\ pending.stage = "capture_high" /\ pending.phase = OurPhase /\ Fits
    /\ pending.gpu = Alone(last).gpu /\ pending.mem = Alone(last).mem
    /\ pending.idle = Alone(last).idle
    /\ decision = Set(f_high)

(* ... or it waits for the probe another workload or process began.  Each  *)
(* of these lasts for one window.                                          *)
Stages ==
    \/ Done
    \/ steady <= 4 /\ OurLow
    \/ steady <= 3 /\ OurHigh
    \/ steady <= 2 /\ pending = None
    \/ steady <= 1 /\ pending.stage = "capture_low"

StillInv ==
    /\ steady \in Nat /\ (steady # 0 => last \in Metrics)
    /\ deployment = "hook" /\ pc = "window" => active = NoPhase /\ cache = NoRecords
    /\ steady # 0 /\ last.mem > 0 /\ f_low < f_high => Stages

(* The history is then the newest window, whose average is the window.     *)
LEMMA ShortHistory ==
  ASSUME Short, NEW h \in Seq(Metrics), Len(h) <= Capacity, NEW m \in Metrics
  PROVE  HasPhase(Push(h, m)) /\ Averages(Push(h, m)) = Alone(m)
  <1> DEFINE p == Push(h, m)
  <1>1. Capacity = 1
    BY DEF Short, Capacity
  <1>2. p \in Seq(Metrics) /\ Len(p) <= 1
    BY <1>1, PushType
  <1>3. Len(p) = 1
    <2> DEFINE longer == Append(h, m)
    <2>1. longer \in Seq(Metrics) /\ Len(longer) = Len(h) + 1 /\ Len(h) \in Nat
      OBVIOUS
    <2>2. p = IF Len(longer) > 1 THEN Tail(longer) ELSE longer
      BY <1>1 DEF Push
    <2>3. Len(longer) > 1 => Len(Tail(longer)) = Len(h)
      BY <2>1
    <2> HIDE DEF longer, p
    <2> QED BY <1>2, <2>1, <2>2, <2>3
  <1>4. \A i \in DOMAIN p : p[i] = m
    BY <1>1, OneWindow
  <1> HIDE DEF p
  <1>5. DOMAIN p = 1 .. 1 /\ p[1] = m
    BY <1>2, <1>3, <1>4
  <1>6. m.gpu \in Nat /\ m.mem \in Nat
    BY MetricsType
  <1>7. Full(p)
    BY <1>3, PhaseIdentifierAssumption DEF Full, Short
  <1>8. Stable(p)
    BY <1>4, <1>6, PhaseIdentifierAssumption DEF Stable
  <1>9. /\ Total([i \in DOMAIN p |-> p[i].gpu]) = m.gpu
        /\ Total([i \in DOMAIN p |-> p[i].mem]) = m.mem
    <2> DEFINE gpus == [i \in DOMAIN p |-> p[i].gpu]
               mems == [i \in DOMAIN p |-> p[i].mem]
    <2>1. gpus \in [1 .. 1 -> Nat] /\ mems \in [1 .. 1 -> Nat] /\ gpus[1] = m.gpu /\ mems[1] = m.mem
      BY <1>4, <1>5, <1>6
    <2> HIDE DEF gpus, mems
    <2>2. Len(gpus) = 1 /\ Len(mems) = 1 /\ gpus[1] \in Nat /\ mems[1] \in Nat
      BY <1>6, <2>1
    <2>3. Total(gpus) = gpus[1] /\ Total(mems) = mems[1]
      BY <2>2, TotalOfOne
    <2> QED BY <2>1, <2>3 DEF gpus, mems
  <1>10. Averages(p) = Alone(m)
    BY <1>1, <1>6, <1>9, PhaseIdentifierAssumption DEF Averages, Alone
  <1> QED BY <1>7, <1>8, <1>10 DEF HasPhase, p

(* A window that is observed is the first of its characterisation, unless  *)
(* its phase is known.                                                     *)
LEMMA WindowBegins ==
  ASSUME DeployedInv, StillInv, Short, NEW m \in Metrics, OnWindow(m), ObserveWindow(m),
         m.mem > 0, f_low < f_high
  PROVE  Done' \/ OurLow' \/ OurHigh'
  <1> DEFINE h == Push(history, m)
  <1>1. /\ pending = None /\ Observe(h) /\ last' = m /\ UNCHANGED deployment /\ pc = "window"
        /\ \/ Unstable(m, h) \/ ApplyCached(m, h) \/ NotCharacterizable(m, h)
           \/ CollectHigh(m, h) \/ ProbeFromHistory(m, h)
    BY DEF ObserveWindow, OnWindow
  <1>2. HasPhase(h) /\ Averages(h) = Alone(m) /\ Alone(m) \in AveragesSet
    BY ShortHistory, AloneType DEF DeployedInv, PolicyInv, IdentifierInv
  <1>3. active # NoPhase => active = PhaseId(anchor)
    BY DEF DeployedInv, PolicyInv, IdentifierInv
  <1>4. Alone(m).mem > 0
    BY CapacityType, MetricsType DEF Alone
  <1> HIDE DEF h
  <1>5. active' = Phase(h)
    BY <1>1, <1>2 DEF Observe, Phase
  <1>6. active' # NoPhase /\ ~FarFrom(Alone(m), anchor')
    <2>1. CASE NewPhase(h)
      BY <1>1, <1>2, <2>1, NotFarFromItself, PhaseIdIsPhase DEF Observe
    <2>2. CASE ~NewPhase(h)
      BY <1>1, <1>2, <2>2 DEF Observe, NewPhase
    <2> QED BY <2>1, <2>2
  <1>7. Alone(last)' = Alone(m) /\ PhaseId(Alone(last))' = PhaseId(Alone(m))
        /\ (FarFrom(Alone(last), anchor)' <=> FarFrom(Alone(m), anchor'))
    BY <1>1 DEF Alone, PhaseId, FarFrom, Abs
  <1>8. Fits' /\ OurPhase' = Phase(h)
    <2>1. deployment = "hook" => Phase(h) = PhaseId(Alone(m))
      BY <1>1, <1>2 DEF StillInv, Phase, NewPhase
    <2> QED BY <1>1, <1>5, <1>6, <1>7, <2>1 DEF Fits, OurPhase
  <1>9. ~Unstable(m, h) /\ ~NotCharacterizable(m, h)
    BY <1>2, <1>4 DEF Unstable, NotCharacterizable, Characterizable
  <1>10. CASE ApplyCached(m, h)
    <2>1. deployment # "hook"
      BY <1>1, <1>10 DEF ApplyCached, StillInv, NoRecords
    <2> QED BY <1>1, <1>5, <1>8, <1>10, <2>1 DEF ApplyCached, Done
  <1>11. CASE CollectHigh(m, h)
    BY <1>2, <1>7, <1>8, <1>11 DEF CollectHigh, OurHigh, Set
  <1>12. CASE ProbeFromHistory(m, h)
    <2>1. pending'.stage = "capture_low" /\ pending'.phase = Phase(h)
          /\ pending'.memHigh = Alone(m).mem /\ pending'.gpu = Alone(m).gpu
          /\ decision' = AskFor(m, f_low)
      BY <1>2, <1>12 DEF ProbeFromHistory, ProbeLow
    <2>2. AskFor(last, f_low)' = AskFor(m, f_low)
      BY <1>1 DEF AskFor, SameClock, Abs, Set, Hold, f_low, f_high
    <2> QED BY <1>4, <1>7, <1>8, <2>1, <2>2 DEF OurLow
  <1> QED BY <1>1, <1>9, <1>10, <1>11, <1>12

(* A phase that is characterised stays so: its record is not asked for     *)
(* again in the same process, and the file of the hook keeps it.           *)
LEMMA DoneStays ==
  ASSUME DeployedInv, StillInv, Short, NEW m \in Metrics, OnWindow(m), Done,
         Alone(m) = Alone(last)
  PROVE  Done'
  <1>1. last' = m /\ UNCHANGED deployment
    BY DEF OnWindow
  <1>2. Alone(last)' = Alone(last) /\ PhaseId(Alone(last))' = PhaseId(Alone(last))
        /\ (FarFrom(Alone(last), anchor)' <=> FarFrom(Alone(last), anchor'))
    BY <1>1 DEF Alone, PhaseId, FarFrom, Abs
  <1>3. CASE deployment = "hook"
    <2>1. Outcome(m)
      BY WindowOutcome DEF OnWindow, DeployedInv
    <2>2. DOMAIN phase_cache \subseteq DOMAIN phase_cache'
      BY <1>3, <2>1, WindowKeeps
    <2> QED BY <1>1, <1>2, <1>3, <2>2 DEF Done, OurPhase
  <1>4. CASE deployment # "hook"
    <2> DEFINE h == Push(history, m)
    <2>1. /\ pending = None /\ active \in DOMAIN cache
          /\ active # NoPhase /\ ~FarFrom(Alone(last), anchor)
      BY <1>4 DEF Done, Fits
    <2>2. ObserveWindow(m)
      BY <2>1 DEF OnWindow, on_window, CaptureHigh, Finish, None
    <2>3. Averages(h) = Alone(last)
      BY ShortHistory DEF DeployedInv, PolicyInv, IdentifierInv
    <2>4. /\ Observe(h)
          /\ \/ Unstable(m, h) \/ ApplyCached(m, h) \/ NotCharacterizable(m, h)
             \/ CollectHigh(m, h) \/ ProbeFromHistory(m, h)
      BY <2>2 DEF ObserveWindow
    <2> HIDE DEF h
    <2>5. ~NewPhase(h)
      BY <2>1, <2>3 DEF NewPhase
    <2>6. UNCHANGED <<active, anchor>>
      BY <2>4, <2>5 DEF Observe
    <2>7. ~Miss(h)
      BY <2>1, <2>5 DEF Miss, Phase
    <2>8. UNCHANGED <<pending, cache>>
      BY <2>4, <2>7 DEF Unstable, ApplyCached, NotCharacterizable, CollectHigh, ProbeFromHistory
    <2> QED BY <1>1, <1>2, <1>4, <2>1, <2>6, <2>8 DEF Done, Fits
  <1> QED BY <1>3, <1>4

(* The window asked for at the high clock arrives.                         *)
LEMMA HighArrives ==
  ASSUME DeployedInv, NEW m \in Metrics, OnWindow(m), OurHigh, Continues(m), m.mem > 0
  PROVE  OurLow'
  <1>1. last' = m /\ UNCHANGED deployment /\ CaptureHigh(m)
    BY DEF OnWindow, on_window, ObserveWindow, Finish, OurHigh, None
  <1>2. Alone(m) = Alone(last)
    BY DEF Continues, Alone
  <1>3. Alone(m).gpu \in Nat /\ Alone(m).mem \in Nat /\ Alone(m).mem > 0
    BY MetricsType, CapacityType DEF Alone
  <1>4. Alone(last)' = Alone(m) /\ PhaseId(Alone(last))' = PhaseId(Alone(m))
        /\ (FarFrom(Alone(last), anchor)' <=> FarFrom(Alone(m), anchor'))
    BY <1>1 DEF Alone, PhaseId, FarFrom, Abs
  <1>5. IsHigh(m)
    BY DEF Continues, Obeyed, OurHigh, Set, IsHigh
  <1>6. \A x \in Nat : Near(x, x)
    <2>1. Threshold * Capacity \in Nat \ {0}
      BY CapacityType, PhaseIdentifierAssumption
    <2>2. \A x \in Nat : x - x = 0
      OBVIOUS
    <2> QED BY <2>1, <2>2 DEF Near, Abs
  <1>7. MatchesHigh(m)
    BY <1>2, <1>3, <1>5, <1>6 DEF MatchesHigh, OurHigh
  <1>8. /\ ProbeLow(m, pending.phase, Alone(m), TRUE, pending.gpu)
        /\ decision' = AskFor(m, f_low) /\ UNCHANGED identifier
    BY <1>1, <1>7 DEF CaptureHigh
  <1>9. AskFor(last, f_low)' = AskFor(m, f_low)
    BY <1>1 DEF AskFor, SameClock, Abs, Set, Hold, f_low, f_high
  <1>10. Fits' /\ OurPhase' = OurPhase
    BY <1>1, <1>2, <1>4, <1>8 DEF OurHigh, Fits, OurPhase, identifier
  <1> QED BY <1>3, <1>4, <1>8, <1>9, <1>10 DEF ProbeLow, OurLow, OurHigh

(* The window asked for at the low clock arrives.                          *)
LEMMA LowArrives ==
  ASSUME DeployedInv, NEW m \in Metrics, OnWindow(m), OurLow, Continues(m), m.mem > 0
  PROVE  Done'
  <1>1. last' = m /\ UNCHANGED deployment /\ Finish(m)
    BY DEF OnWindow, on_window, ObserveWindow, CaptureHigh, OurLow, None
  <1>2. Alone(m) = Alone(last)
    BY DEF Continues, Alone
  <1>3. Alone(m).gpu \in Nat
    BY MetricsType, CapacityType DEF Alone
  <1>4. Alone(last)' = Alone(m) /\ PhaseId(Alone(last))' = PhaseId(Alone(m))
        /\ (FarFrom(Alone(last), anchor)' <=> FarFrom(Alone(m), anchor'))
    BY <1>1 DEF Alone, PhaseId, FarFrom, Abs
  <1>5. SameClock(m.clock, f_low)
    BY DEF Continues, Obeyed, OurLow, AskFor, Set, Hold
  <1>6. Near(Alone(m).gpu, pending.gpu)
    <2>1. Threshold * Capacity \in Nat \ {0}
      BY CapacityType, PhaseIdentifierAssumption
    <2>2. Alone(m).gpu - pending.gpu = 0
      BY <1>2, <1>3 DEF OurLow
    <2> QED BY <2>1, <2>2 DEF Near, Abs
  <1>7. MatchesLow(m)
    BY <1>5, <1>6 DEF MatchesLow, OurLow
  <1>8. /\ pending' = None /\ UNCHANGED identifier
        /\ pending.phase \in DOMAIN cache' /\ pending.phase \in DOMAIN phase_cache'
    BY <1>1, <1>7 DEF Finish, Store, With
  <1> QED BY <1>1, <1>2, <1>4, <1>8 DEF OurLow, Done, Fits, OurPhase, identifier

LEMMA StillWindow ==
  ASSUME DeployedInv, StillInv, Short, NEW m \in Metrics, OnWindow(m)
  PROVE  StillInv'
  <1>1. /\ last' = m /\ UNCHANGED deployment /\ on_window(m) /\ pc = "window"
        /\ steady' = IF Continues(m) THEN steady + 1 ELSE 1
        /\ deployment = "hook" => pc' = "save"
    BY DEF OnWindow
  <1>2. steady' \in Nat /\ last' \in Metrics /\ steady \in Nat
    BY <1>1 DEF StillInv
  <1>3. SUFFICES ASSUME m.mem > 0, f_low < f_high PROVE Stages'
    <2>1. Stages' => StillInv'
      BY <1>1, <1>2 DEF StillInv
    <2>2. (m.mem > 0 /\ f_low < f_high => Stages') => StillInv'
      BY <1>1, <1>2 DEF StillInv, f_low, f_high
    <2> QED BY <2>2
  <1>4. ASSUME Continues(m), steady # 0
        PROVE  Stages /\ Alone(m) = Alone(last) /\ steady' = steady + 1
    <2>1. last.mem > 0
      BY <1>3, <1>4 DEF Continues
    <2> QED BY <1>1, <1>3, <1>4, <2>1 DEF StillInv, Continues, Alone
  <1>5. ASSUME ~(Continues(m) /\ steady # 0) PROVE steady' = 1
    BY <1>1, <1>2, <1>5
  <1>6. CASE Continues(m) /\ steady # 0 /\ Done
    <2>1. Done'
      BY <1>1, <1>4, <1>6, DoneStays
    <2> QED BY <2>1 DEF Stages
  <1>7. CASE Continues(m) /\ steady # 0 /\ steady <= 4 /\ OurLow
    <2>1. Done'
      BY <1>3, <1>7, LowArrives
    <2> QED BY <2>1 DEF Stages
  <1>8. CASE Continues(m) /\ steady # 0 /\ steady <= 3 /\ OurHigh
    <2>1. OurLow' /\ steady' <= 4
      BY <1>2, <1>3, <1>4, <1>8, HighArrives
    <2> QED BY <2>1 DEF Stages
  <1>9. CASE ObserveWindow(m) /\ steady' <= 3
    <2>1. Done' \/ OurLow' \/ OurHigh'
      BY <1>3, <1>9, WindowBegins
    <2> QED BY <1>2, <1>9, <2>1 DEF Stages
  <1>10. CASE CaptureHigh(m) /\ steady' = 1
    <2>1. pending' = None \/ pending'.stage = "capture_low"
      BY <1>10 DEF CaptureHigh, ProbeLow, GiveUp
    <2> QED BY <1>10, <2>1 DEF Stages
  <1>11. CASE Finish(m) /\ steady' <= 2
    <2>1. pending' = None
      BY <1>11 DEF Finish, GiveUp
    <2> QED BY <1>11, <2>1 DEF Stages
  <1>12. CASE ~(Continues(m) /\ steady # 0)
    BY <1>1, <1>5, <1>9, <1>10, <1>11, <1>12 DEF on_window
  <1>13. CASE Continues(m) /\ steady # 0 /\ steady <= 2 /\ pending = None
    <2>1. ObserveWindow(m) /\ steady' <= 3
      BY <1>1, <1>2, <1>4, <1>13 DEF on_window, CaptureHigh, Finish, None
    <2> QED BY <1>9, <2>1
  <1>14. CASE Continues(m) /\ steady # 0 /\ steady <= 1 /\ pending.stage = "capture_low"
    <2>1. Finish(m) /\ steady' <= 2
      BY <1>1, <1>2, <1>4, <1>14 DEF on_window, CaptureHigh, ObserveWindow, None
    <2> QED BY <1>11, <2>1
  <1> QED BY <1>4, <1>6, <1>7, <1>8, <1>12, <1>13, <1>14 DEF Stages

LEMMA StillStep ==
  ASSUME DeployedInv, StillInv, Short, [DeployedNext]_deployed
  PROVE  StillInv'
  <1>1. ASSUME NEW m \in Metrics, OnWindow(m) PROVE StillInv'
    BY <1>1, StillWindow
  <1>2. CASE Save
    <2>1. /\ UNCHANGED <<pending, phase_cache, decision, deployment, last, steady>>
          /\ active' = NoPhase /\ cache' = NoRecords /\ deployment = "hook"
      BY <1>2 DEF Save, NewProcess, NoRecords, DeployedInv
    <2>2. Alone(last)' = Alone(last) /\ PhaseId(Alone(last))' = PhaseId(Alone(last))
          /\ AskFor(last, f_low)' = AskFor(last, f_low) /\ f_low' = f_low /\ f_high' = f_high
      BY <2>1 DEF Alone, PhaseId, AskFor, SameClock, Abs, Set, Hold, f_low, f_high
    <2>3. (Done => Done') /\ (OurLow => OurLow') /\ (OurHigh => OurHigh')
      BY <2>1, <2>2 DEF Done, OurLow, OurHigh, Fits, OurPhase, Set
    <2>4. Stages => Stages'
      BY <2>1, <2>3 DEF Stages, None
    <2> QED BY <2>1, <2>2, <2>4 DEF StillInv, Metrics
  <1>3. CASE Lose
    BY <1>3 DEF Lose, NewProcess, NoRecords, StillInv
  <1>4. CASE UNCHANGED deployed
    <2>1. UNCHANGED <<history, active, anchor, pending, cache, phase_cache, count,
                      decision, deployment, pc, saved, last, steady>>
      BY <1>4 DEF deployed, vars, identifier
    <2>2. /\ Alone(last)' = Alone(last) /\ PhaseId(Alone(last))' = PhaseId(Alone(last))
          /\ AskFor(last, f_low)' = AskFor(last, f_low) /\ f_low' = f_low /\ f_high' = f_high
          /\ (FarFrom(Alone(last), anchor)' <=> FarFrom(Alone(last), anchor))
      BY <2>1 DEF Alone, PhaseId, FarFrom, AskFor, SameClock, Abs, Set, Hold, f_low, f_high
    <2>3. (Done => Done') /\ (OurLow => OurLow') /\ (OurHigh => OurHigh')
      BY <2>1, <2>2 DEF Done, OurLow, OurHigh, Fits, OurPhase, Set
    <2>4. Stages => Stages'
      BY <2>1, <2>3 DEF Stages, None
    <2> QED BY <2>1, <2>2, <2>4 DEF StillInv, Metrics
  <1> QED BY <1>1, <1>2, <1>3, <1>4 DEF DeployedNext

(* When one telemetry window fills the history, five windows of a workload *)
(* that keeps still and a GPU that obeys are enough to have their phase    *)
(* characterised, in the runner and in the hook, whatever was pending      *)
(* before and whatever hook processes were lost before.                    *)
THEOREM CharacterizedInTimeCorrect ==
  ASSUME Duration >= PhaseSeconds
  PROVE  DeployedSpec => []CharacterizedInTime
  <1>1. Short /\ Capacity = 1
    BY DEF Short, Capacity
  <1>2. DeployedInit => StillInv
    BY DEF DeployedInit, Init, InitIdentifier, StillInv, NoRecords
  <1>3. DeployedInv /\ StillInv /\ [DeployedNext]_deployed => StillInv'
    BY <1>1, StillStep
  <1>4. StillInv => CharacterizedInTime
    <2> SUFFICES ASSUME StillInv, steady >= 5, last.mem > 0, f_low < f_high
                 PROVE  IF deployment = "hook" THEN PhaseId(Alone(last)) \in DOMAIN phase_cache
                                               ELSE pending = None /\ active \in DOMAIN cache
      BY DEF CharacterizedInTime
    <2>1. steady \in Nat /\ steady >= 5
      BY DEF StillInv
    <2>2. Done
      BY <2>1 DEF StillInv, Stages
    <2> QED BY <2>2 DEF Done, OurPhase
  <1> QED BY <1>2, <1>3, <1>4, DeployedInductive, PTL DEF DeployedSpec
=============================================================================
