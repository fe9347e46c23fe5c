----------------------------- MODULE AliSelection -----------------------------
(***************************************************************************)
(* AliFrequencySelectionPolicy.initialize() (ali_2022_reimpl/policy.py):   *)
(* the clock with the least energy-delay product under two fitted models,  *)
(* one for power and one for runtime.  A config is [objective, mode, fmax, *)
(* freqs, fp, dram, time, power, perf]; fmax and freqs may be NoClock, for *)
(* the platform's own.  All quantities are integers of suitable units.     *)
(***************************************************************************)
EXTENDS ClockGrid, Sequences

CONSTANTS PaperMin, PaperMax    \* the GV100 range, in units of the clocks

AliConfigs ==
    [objective : {"edp", "ed2p"}, mode : {"paper_faithful_gv100", "algorithmic_proxy"},
     fmax : {NoClock} \cup Nat, freqs : {NoClock} \cup Seq(Nat),
     fp : Int, dram : Int, time : Int,
     power : [alpha : Int, beta : Int, gamma : Int, constant : Int],
     perf : [1 .. 5 -> Int]]

-----------------------------------------------------------------------------
(* The frequencies considered and the checks on them.                      *)

FMax(c, p) == IF c.fmax = NoClock THEN p.max ELSE c.fmax

(* _load_frequencies(): range(min, max + 1, step) by default.              *)
Frequencies(c, p) ==
    IF c.freqs = NoClock
    THEN [i \in 1 .. ((p.max - p.min) \div p.step) + 1 |-> p.min + (i - 1) * p.step]
    ELSE c.freqs

(* _validate_frequency_space(): nothing about the platform's grid.         *)
ValidSpace(fs, fmax, mode, p) ==
    /\ fs # <<>>
    /\ \A i \in 1 .. Len(fs) - 1 : fs[i] < fs[i + 1]
    /\ \A i \in DOMAIN fs : p.min <= fs[i] /\ fs[i] <= p.max /\ fs[i] <= fmax
    /\ mode = "paper_faithful_gv100" =>
         fs[Len(fs)] = fmax /\ fs[1] = PaperMin /\ fmax = PaperMax

AliAccepts(c, p) ==
    /\ FMax(c, p) \in p.min .. p.max
    /\ ValidSpace(Frequencies(c, p), FMax(c, p), c.mode, p)

-----------------------------------------------------------------------------
(* The models of Ali et al., and the objective they are combined into.     *)

Power(c, f) ==
    c.power.alpha * c.fp + c.power.beta * c.dram + c.power.gamma * f + c.power.constant

Runtime(c, f, fmax) ==
    LET delta == fmax - f
    IN  c.time + c.perf[1] * c.fp + c.perf[2] * delta + c.perf[3] * c.fp * c.fp
               + c.perf[4] * c.fp * delta + c.perf[5] * delta * delta

BugObjective(objective, power, time) ==     \* seeded bug: the exponents are swapped
    IF objective = "ed2p" THEN power * time * time ELSE power * time * time * time

(* Energy is power * runtime; EDP and ED2P are energy by runtime, once and *)
(* twice.                                                                  *)
Objective(objective, power, time) ==
    IF objective = "edp" THEN power * time * time ELSE power * time * time * time

Cost(c, f, p) == Objective(c.objective, Power(c, f), Runtime(c, f, FMax(c, p)))

(* select_frequency_by_objective(): Python's min() returns the first of    *)
(* several least ones.                                                     *)
Best(c, p) ==
    LET fs == Frequencies(c, p)
    IN  CHOOSE i \in DOMAIN fs : \A j \in DOMAIN fs :
            Cost(c, fs[i], p) <= Cost(c, fs[j], p)
            /\ (j < i => Cost(c, fs[i], p) < Cost(c, fs[j], p))

AliClock(c, p) == Frequencies(c, p)[Best(c, p)]
=============================================================================
