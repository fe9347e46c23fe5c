---------------------------- MODULE EverestClocks ----------------------------
(***************************************************************************)
(* The clocks EVeREST computes from one configuration: its two probe       *)
(* clocks, once, and the clock it scales to for one sensitivity.           *)
(***************************************************************************)
EXTENDS ClockGrid, FiniteSetsExt

CONSTANT ClockInputs    \* the platforms, configurations and sensitivities

IsClockInput(i) ==
    /\ IsPlatform(i.platform)
    /\ i.high \in Nat /\ i.low \in Nat /\ i.floor \in Nat
    /\ IsSensitivity(i.fs) /\ IsLoss(i.loss)

ASSUME ClockInputsAssumption == \A i \in ClockInputs : IsClockInput(i)

VARIABLE clocks         \* the result in a set, which is empty before

InitClocks == clocks = {}

ComputeClocks ==
    /\ clocks = {}
    /\ \E i \in ClockInputs :
         LET high == HighClock(i.platform, i.high)
         IN  clocks' = {[input  |-> i,
                         high   |-> high,
                         low    |-> LowClock(i.platform, high, i.low, i.floor),
                         scaled |-> ScaledClock(i.platform, high, i.fs, i.loss, i.floor)]}

ClocksSpec == InitClocks /\ [][ComputeClocks]_clocks

-----------------------------------------------------------------------------
(* The clocks at and above the minimum that lie on the grid.               *)
Grid(p, hi) == {c \in p.min .. hi : OnGrid(c, p)}

(* initialize() ends up with two clocks the runner accepts, whatever was   *)
(* configured.  They are two clocks wherever the floor leaves room for a   *)
(* clock a step below the high one, and the low one then keeps the floor.  *)
ProbeClocksValid ==
    \A r \in clocks :
        LET p == r.input.platform
        IN  /\ ValidClock(r.high, p) /\ ValidClock(r.low, p) /\ r.low <= r.high
            /\ r.low < r.high => r.low >= r.input.floor
            /\ r.low = r.high => \A c \in Grid(p, r.high - p.step) : c < r.input.floor

(* The scaled clock is the one the definition asks for: the lowest clock   *)
(* of the grid that is at least the clamped ideal clock, or, when there is *)
(* none up to the high clock, the highest one below it.                    *)
ScaledClockIsBest ==
    \A r \in clocks :
        LET p    == r.input.platform
            minA == MinAllowed(p, r.high, r.input.floor)
            raw  == RawClock(r.high, r.input.fs, r.input.loss, minA)
            goal == ClampFraction(raw[1], raw[2], minA, r.high)
            fit  == {c \in Grid(p, r.high) : c * goal[2] >= goal[1]}
        IN  r.scaled = IF fit # {} THEN Min(fit) ELSE Max(Grid(p, r.high))

(* The reproduction plan says that the ideal clock is rounded up to the    *)
(* next supported hardware step, which the platform maximum is: the scaled *)
(* clock is never lower than the floor it was clamped to.                  *)
ScaledRoundsUp ==
    \A r \in clocks : r.scaled >= MinAllowed(r.input.platform, r.high, r.input.floor)
=============================================================================
