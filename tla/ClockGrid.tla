------------------------------ MODULE ClockGrid ------------------------------
(***************************************************************************)
(* The clock grid of one GPU and the rule every control decision must obey *)
(* (src/src/common/experiment/validation.py), with the roundings the       *)
(* EVeREST policy and its frequency scaler use to stay on that grid.       *)
(* A platform is a record [min, max, step] of MHz values.  The maximum     *)
(* clock is always allowed, even when it is not a whole number of steps    *)
(* above the minimum.                                                      *)
(***************************************************************************)
EXTENDS Integers

CONSTANT NoClock                   \* Python's None for a clock or a window

ASSUME NoClockAssumption == NoClock \notin Int

(* The platforms considered: 0 < step and min <= max. *)
IsPlatform(p) ==
    /\ p \in [min : Nat, max : Nat, step : Nat]
    /\ p.min <= p.max
    /\ p.step > 0

Actions == {"set_clock", "reset_to_max", "hold_clock", "no_op"}

Decisions(targets) == [action : Actions, target : targets \cup {NoClock}]

RequiresClockChange(d) == d.action \in {"set_clock", "reset_to_max"}

-----------------------------------------------------------------------------
(* Validation of a decision. *)

OnGrid(c, p) == (c - p.min) % p.step = 0

ValidClock(c, p) ==
    /\ c \in p.min .. p.max
    /\ c \in {p.min, p.max} \/ OnGrid(c, p)

validate_decision(d, p) ==
    \/ d.action = "set_clock" /\ d.target # NoClock /\ ValidClock(d.target, p)
    \/ d.action = "reset_to_max" /\ d.target \in {NoClock, p.max}
    \/ d.action \in {"hold_clock", "no_op"} /\ d.target = NoClock

-----------------------------------------------------------------------------
(* Roundings to the grid.  Both EVeREST roundings clamp first and clamp    *)
(* again, so that the upper bound itself can be the answer.                *)

Clamp(v, lo, hi) == IF v > hi THEN IF hi < lo THEN lo ELSE hi
                    ELSE IF v < lo THEN lo ELSE v

(* Python's -(-a // b): the ceiling of a / b. *)
CeilDiv(a, b) == -((-a) \div b)

QuantizeUp(v, lo, hi, step) ==
    Clamp(lo + CeilDiv(Clamp(v, lo, hi) - lo, step) * step, lo, hi)

QuantizeDown(v, lo, hi, step) ==
    Clamp(lo + ((Clamp(v, lo, hi) - lo) \div step) * step, lo, hi)

-----------------------------------------------------------------------------
(* EVeREST's two probe clocks, computed once by initialize().              *)

HighClock(p, configured) ==
    LET f == Clamp(configured, p.min, p.max)
    IN  IF f \in {p.min, p.max} THEN f ELSE QuantizeDown(f, p.min, p.max, p.step)

(* "floor" is max(round(max * min_ratio_of_max), min_frequency_mhz). *)
BugLowClock(p, high, configured, floor) ==  \* seeded bug: not moved below high
    QuantizeUp(IF configured > floor THEN configured ELSE floor, p.min, high, p.step)

LowClock(p, high, configured, floor) ==
    LET f     == QuantizeUp(IF configured > floor THEN configured ELSE floor,
                            p.min, high, p.step)
        lower == QuantizeDown(high - p.step, p.min, high, p.step)
    IN  IF f >= high /\ high > p.min /\ lower >= floor THEN lower ELSE f

-----------------------------------------------------------------------------
(* The frequency scaler.  Its raw clock high / (1 + pd / (fs * (1 - pd)))  *)
(* is the fraction num / den; the clamped clock is one too, so the scaler  *)
(* is modelled on fractions.                                               *)

(* max(platform.min, floor), but never above the highest clock allowed. *)
MinAllowed(p, high, floor) ==
    LET m == IF floor > p.min THEN floor ELSE p.min
    IN  IF m > high THEN high ELSE m

(* The fraction num / den clamped to lo .. hi, as a fraction. *)
ClampFraction(num, den, lo, hi) ==
    IF num > hi * den THEN <<hi, 1>>
    ELSE IF num < lo * den THEN <<lo, 1>> ELSE <<num, den>>

BugQuantizeUpWithin(f, lo, hi, step) ==     \* seeded bug: the bound is dropped
    lo + CeilDiv(f[1] - lo * f[2], step * f[2]) * step

(* _quantize_up_within_bounds: up to the next step, or down when that step *)
(* lies above the upper bound.                                             *)
QuantizeUpWithin(f, lo, hi, step) ==
    LET up == lo + CeilDiv(f[1] - lo * f[2], step * f[2]) * step
    IN  IF hi < lo THEN lo
        ELSE IF up <= hi THEN up
        ELSE lo + ((hi - lo) \div step) * step

(* Sensitivity fs and degradation target pd as fractions, after their      *)
(* clamps to 0 .. 1 and 0 .. 0.99; an fs of at most 1e-8 counts as 0.      *)
IsSensitivity(fs) == fs \in Nat \X Nat /\ fs[2] > 0
IsLoss(pd) == pd \in Nat \X Nat /\ pd[1] < pd[2]

RawClock(high, fs, pd, minAllowed) ==
    LET gain == fs[1] * (pd[2] - pd[1])
    IN  IF fs[1] = 0 THEN <<minAllowed, 1>>
        ELSE IF pd[1] = 0 THEN <<high, 1>>
        ELSE <<high * gain, gain + pd[1] * fs[2]>>

ScaledClock(p, high, fs, pd, floor) ==
    LET minA    == MinAllowed(p, high, floor)
        raw     == RawClock(high, fs, pd, minA)
        clamped == ClampFraction(raw[1], raw[2], minA, high)
        target  == QuantizeUpWithin(clamped, p.min, high, p.step)
    IN  IF target < minA THEN QuantizeUpWithin(<<minA, 1>>, p.min, high, p.step)
        ELSE target
=============================================================================
