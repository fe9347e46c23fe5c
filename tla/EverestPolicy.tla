---------------------------- MODULE EverestPolicy ----------------------------
(***************************************************************************)
(* The EVeREST policy (policy.py of everest_reimpl): on_window() over      *)
(* telemetry windows the policy does not control.  A window's clock is the *)
(* one observed, so a lost, delayed or failed clock command is a window    *)
(* whose clock is not the one asked for.  Characterising a phase takes two *)
(* or three windows, which are not shown to the phase identifier: a window *)
(* at the high clock, and one at the low clock.                            *)
(***************************************************************************)
EXTENDS PhaseIdentifier, ClockGrid, FiniteSets

CONSTANTS Platform,
          ConfiguredHigh, ConfiguredLow,    \* configured probe clocks
          LowFloor, ScaledFloor,            \* lowest clocks to ask for
          Tolerance,                        \* clock_match_tolerance_mhz
          Loss,             \* relative_performance_loss, as <<num, den>>
          Utilizations,     \* <<gpu, mem>> pairs telemetry may report
          ObservedClocks,   \* clocks it may report
          MaxWindows                        \* bound: windows of one run

ASSUME EverestAssumption ==
    /\ IsPlatform(Platform) /\ Platform.min > 0
    /\ ConfiguredHigh \in Nat /\ ConfiguredLow \in Nat
    /\ LowFloor \in Nat /\ ScaledFloor \in Nat /\ Tolerance \in Nat
    /\ Loss \in Nat \X Nat /\ Loss[1] < Loss[2]
    /\ Utilizations \subseteq Nat \X Nat /\ ObservedClocks \subseteq Nat
    /\ MaxWindows \in Nat

f_high == HighClock(Platform, ConfiguredHigh)
f_low  == LowClock(Platform, f_high, ConfiguredLow, LowFloor)

Metrics == {[gpu |-> u[1], mem |-> u[2], clock |-> c] :
               u \in Utilizations, c \in ObservedClocks}

None == [stage |-> "none"]

VARIABLES pending,          \* pending_characterization
          cache,            \* the characterisation records, by phase id
          phase_cache,      \* the mirror of them in the policy state
          count,            \* the window counters of the policy state
          decision          \* the decision returned for the last window

vars == <<identifier, pending, cache, phase_cache, count, decision>>

Counters == {"total", "unstable", "stable", "changes", "hits", "misses",
             "characterized", "scaled", "resets"}

Hold   == [action |-> "hold_clock", target |-> NoClock]
Set(c) == [action |-> "set_clock", target |-> c]

Init ==
    /\ InitIdentifier
    /\ pending = None
    /\ cache = [p \in {} |-> None]
    /\ phase_cache = [p \in {} |-> None]
    /\ count = [c \in Counters |-> 0]
    /\ decision = Hold

-----------------------------------------------------------------------------
(* Decisions.  A clock that is observed already is not set again.          *)

SameClock(observed, target) == Abs(observed - target) <= Tolerance

AskFor(m, target) == IF SameClock(m.clock, target) THEN Hold ELSE Set(target)

(* The counters named in "names" go up by one, with the window total.      *)
Count(names) == count' = [c \in Counters |->
                             IF c \in names \cup {"total"} THEN count[c] + 1 ELSE count[c]]

(* Back to, or on at, the high clock; only an actual request is a reset.   *)
GoHigh(m, names) ==
    /\ decision' = AskFor(m, f_high)
    /\ Count(names \cup (IF SameClock(m.clock, f_high) THEN {} ELSE {"resets"}))

(* FS = (mem_high / mem_low - 1) / (f_high / f_low - 1), clamped to 0 .. 1 *)
(* and held as a fraction; mem_high is in units of 1 / Capacity.           *)
Sensitivity(memHigh, memLow) ==
    LET num == (memHigh - Capacity * memLow) * f_low
        den == Capacity * memLow * (f_high - f_low)
    IN  IF num <= 0 THEN <<0, 1>> ELSE IF num >= den THEN <<1, 1>> ELSE <<num, den>>

TargetFor(record) ==
    ScaledClock(Platform, f_high, Sensitivity(record.memHigh, record.memLow),
                Loss, ScaledFloor)

GoScaled(m, record, names) ==
    /\ decision' = AskFor(m, TargetFor(record))
    /\ Count(names \cup {"scaled"})

-----------------------------------------------------------------------------
(* Starting a characterisation.  "phase" and the averages are those of the *)
(* window that asks for it.  The last two fields are history: whether all  *)
(* windows behind memHigh ran at the high clock, and the GPU utilization   *)
(* the phase had when its characterisation began.                          *)

ProbeLow(m, phase, avg, allHigh, began) ==
    pending' = [stage |-> "capture_low", phase |-> phase, memHigh |-> avg.mem,
                gpu |-> avg.gpu, allHigh |-> allHigh, began |-> began]

IsHigh(w) == SameClock(w.clock, f_high)

(* A window seen alone, in the units of the averages.                      *)
Alone(m) == [gpu  |-> Capacity * m.gpu, mem |-> Capacity * m.mem,
             idle |-> m.gpu <= IdleGpu /\ m.mem <= IdleMem]

Near(x, y) == Abs(x - y) < Threshold * Capacity

-----------------------------------------------------------------------------
(* on_window() without a pending characterisation: the identifier observes *)
(* the window, and h is its history after that.                            *)

Unstable(m, h) ==
    /\ ~HasPhase(h)
    /\ GoHigh(m, {"unstable"})
    /\ UNCHANGED <<pending, cache, phase_cache>>

Phase(h) == IF NewPhase(h) THEN PhaseId(Averages(h)) ELSE active

Seen(h) == {"stable"} \cup (IF NewPhase(h) THEN {"changes"} ELSE {})

ApplyCached(m, h) ==
    /\ HasPhase(h) /\ Phase(h) \in DOMAIN cache
    /\ GoScaled(m, cache[Phase(h)], Seen(h) \cup {"hits"})
    /\ UNCHANGED <<pending, cache, phase_cache>>

Miss(h) == HasPhase(h) /\ Phase(h) \notin DOMAIN cache

Characterizable(h) == f_low < f_high /\ Averages(h).mem > 0

NotCharacterizable(m, h) ==
    /\ Miss(h) /\ ~Characterizable(h)
    /\ GoHigh(m, Seen(h) \cup {"misses"})
    /\ UNCHANGED <<pending, cache, phase_cache>>

(* Not at the high clock: go there, and take the next window.              *)
CollectHigh(m, h) ==
    /\ Miss(h) /\ Characterizable(h) /\ ~IsHigh(m)
    /\ pending' = [stage |-> "capture_high", phase |-> Phase(h), gpu |-> Averages(h).gpu,
                   mem |-> Averages(h).mem, idle |-> Averages(h).idle]
    /\ decision' = Set(f_high)
    /\ Count(Seen(h) \cup {"misses"})
    /\ UNCHANGED <<cache, phase_cache>>

(* At the high clock now: the rolling average is taken as memHigh.         *)
ProbeFromHistory(m, h) ==
    /\ Miss(h) /\ Characterizable(h) /\ IsHigh(m)
    /\ ProbeLow(m, Phase(h), Averages(h), \A i \in DOMAIN h : IsHigh(h[i]), Averages(h).gpu)
    /\ decision' = AskFor(m, f_low)
    /\ Count(Seen(h) \cup {"misses"})
    /\ UNCHANGED <<cache, phase_cache>>

ObserveWindow(m) ==
    LET h == Push(history, m) IN
    /\ pending = None
    /\ Observe(h)
    /\ \/ Unstable(m, h) \/ ApplyCached(m, h) \/ NotCharacterizable(m, h)
       \/ CollectHigh(m, h) \/ ProbeFromHistory(m, h)

-----------------------------------------------------------------------------
(* on_window() with a pending characterisation.                            *)

MatchesHigh(m) ==
    /\ IsHigh(m)
    /\ Near(Alone(m).gpu, pending.gpu) /\ Near(Alone(m).mem, pending.mem)
    /\ Alone(m).idle = pending.idle
    /\ m.mem > 0

BugGiveUp(m) == UNCHANGED pending /\ GoHigh(m, {})   \* seeded bug: the probe stays

GiveUp(m) == pending' = None /\ GoHigh(m, {})

(* The high window becomes memHigh and the new anchor of the phase.        *)
CaptureHigh(m) ==
    /\ pending.stage = "capture_high"
    /\ IF MatchesHigh(m)
       THEN /\ ProbeLow(m, pending.phase, Alone(m), TRUE, pending.gpu)
            /\ decision' = AskFor(m, f_low)
            /\ Count({})
       ELSE GiveUp(m)
    /\ UNCHANGED <<identifier, cache, phase_cache>>

BugMatchesLow(m) ==         \* seeded bug: the observed clock is not compared
    Near(Alone(m).gpu, pending.gpu) /\ pending.memHigh > 0 /\ m.mem > 0

MatchesLow(m) ==
    /\ SameClock(m.clock, f_low)
    /\ Near(Alone(m).gpu, pending.gpu)
    /\ pending.memHigh > 0 /\ m.mem > 0

BugWith(records, phase, record) == records      \* seeded bug: nothing is stored

With(records, phase, record) ==
    [p \in DOMAIN records \cup {phase} |-> IF p = phase THEN record ELSE records[p]]

(* _store_characterization(): in memory, and in the mirror.                *)
Store(record) ==
    /\ cache' = With(cache, pending.phase, record)
    /\ phase_cache' = With(phase_cache, pending.phase, record)

BugFinish(m) ==             \* seeded bug: the pending state is not cleared
    LET record == [memHigh |-> pending.memHigh, memLow |-> m.mem, lowClock |-> m.clock,
                   allHigh |-> pending.allHigh, drift |-> Abs(Alone(m).gpu - pending.began)]
    IN  /\ pending.stage = "capture_low"
        /\ IF MatchesLow(m)
           THEN /\ Store(record)
                /\ GoScaled(m, record, {"characterized"})
                /\ UNCHANGED pending
           ELSE GiveUp(m) /\ UNCHANGED <<cache, phase_cache>>
        /\ UNCHANGED identifier

(* Success or not, the characterisation is over.  lowClock, allHigh and    *)
(* drift record the evidence behind the sensitivity.                       *)
Finish(m) ==
    LET record == [memHigh |-> pending.memHigh, memLow |-> m.mem, lowClock |-> m.clock,
                   allHigh |-> pending.allHigh, drift |-> Abs(Alone(m).gpu - pending.began)]
    IN  /\ pending.stage = "capture_low"
        /\ IF MatchesLow(m)
           THEN /\ pending' = None
                /\ Store(record)
                /\ GoScaled(m, record, {"characterized"})
           ELSE GiveUp(m) /\ UNCHANGED <<cache, phase_cache>>
        /\ UNCHANGED identifier

-----------------------------------------------------------------------------
on_window(m) == ObserveWindow(m) \/ CaptureHigh(m) \/ Finish(m)

Next == count["total"] < MaxWindows /\ \E m \in Metrics : on_window(m)

Spec == Init /\ [][Next]_vars
-----------------------------------------------------------------------------
(* Properties.                                                             *)

RecordType == [memHigh : Nat, memLow : Nat, lowClock : Nat, allHigh : BOOLEAN, drift : Nat]

(* The type of the policy's own variables; sums are over Capacity windows. *)
TypeOK ==
    /\ history \in Seq(Metrics)
    /\ anchor \in [gpu : Nat, mem : Nat, idle : BOOLEAN]
    /\ pending.stage \in {"none", "capture_high", "capture_low"}
    /\ \A p \in DOMAIN cache : cache[p] \in RecordType
    /\ count \in [Counters -> Nat]
    /\ decision \in Decisions(Platform.min .. Platform.max)

(* Whatever telemetry reports, the decision passes the runner's validation *)
(* and asks for no clock above the configured high one.                    *)
DecisionsValid ==
    /\ validate_decision(decision, Platform)
    /\ decision.target # NoClock => decision.target <= f_high

(* A sensitivity is cached only when all the windows it was computed from  *)
(* ran at the clocks they stand for, and the two clocks were different:    *)
(* a lost or delayed command defers a record, it never enters the cache.   *)
EvidenceIn(records) ==
    \A p \in DOMAIN records :
        /\ records[p].allHigh
        /\ SameClock(records[p].lowClock, f_low)
        /\ ~SameClock(records[p].lowClock, f_high)

EvidenceAtTarget == EvidenceIn(cache)

(* The reproduction plan says that the low window is accepted only while   *)
(* the utilization still matches the same phase anchor: the GPU            *)
(* utilization is within the threshold of that of the phase when its       *)
(* characterisation began.                                                 *)
SamePhaseAnchor == \A p \in DOMAIN cache : cache[p].drift < Threshold * Capacity
=============================================================================
