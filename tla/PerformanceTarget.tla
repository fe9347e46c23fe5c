-------------------------- MODULE PerformanceTarget --------------------------
(***************************************************************************)
(* PerformanceTarget of src/src/common/experiment/types.py: one number     *)
(* that means a runtime slowdown or a relative performance loss, and the   *)
(* three quantities the policies read from it.  EVeREST reads the loss,    *)
(* the static oracle the minimum ratio.  Numbers are fractions <<a, b>>    *)
(* with b > 0; a target holds its raw value as num / den.                  *)
(***************************************************************************)
EXTENDS Integers

TargetTypes == {"runtime_slowdown", "relative_performance_loss", "none"}

RawTargets == [type : TargetTypes, num : Nat, den : Nat \ {0}]

(* __post_init__: no slowdown is negative, a loss is below one.            *)
ValidTarget(t) ==
    /\ t \in RawTargets
    /\ t.type = "relative_performance_loss" => t.num < t.den
    /\ t.type = "none" => t.num = 0

(* require_relative_performance_loss(), require_minimum_performance_ratio()*)
HasTarget(t) == t.type # "none"

RuntimeSlowdown(t) ==
    IF t.type = "runtime_slowdown" THEN <<t.num, t.den>> ELSE <<t.num, t.den - t.num>>

RelativeLoss(t) ==
    IF t.type = "relative_performance_loss" THEN <<t.num, t.den>> ELSE <<t.num, t.den + t.num>>

BugMinimumRatio(t) == <<t.den - t.num, t.den>>      \* seeded bug: any type is a loss

MinimumRatio(t) ==
    IF t.type = "runtime_slowdown" THEN <<t.den, t.den + t.num>> ELSE <<t.den - t.num, t.den>>

AtMost(f, g) == f[1] * g[2] <= g[1] * f[2]
=============================================================================
