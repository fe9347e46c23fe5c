--------------------------- MODULE PhaseIdentifier ---------------------------
(***************************************************************************)
(* EVeREST's phase identification (phase_identifier.py): a rolling history *)
(* of telemetry windows, a phase once their utilization is stable, and the *)
(* phase kept until the averages move away from the point it began at.     *)
(*                                                                         *)
(* All windows have the same duration, so the history is full when it has  *)
(* Capacity windows.  Averages are held in units of 1 / Capacity: the      *)
(* average of a full history is the sum of its values.                     *)
(***************************************************************************)
EXTENDS Integers, Sequences

CONSTANTS Duration,         \* seconds of one telemetry window
          PhaseSeconds,     \* phase_window_seconds
          Threshold,        \* change_threshold_pct
          IdleGpu, IdleMem, \* idle_gpu_threshold_pct, idle_mem_threshold_pct
          NoPhase           \* Python's None for a phase id

ASSUME PhaseIdentifierAssumption ==
    /\ Duration \in Nat \ {0} /\ PhaseSeconds \in Nat \ {0}
    /\ Threshold \in Nat \ {0}
    /\ IdleGpu \in Nat /\ IdleMem \in Nat
    /\ NoPhase \notin BOOLEAN \X Int \X Int

VARIABLES history,          \* the windows the averages are taken over
          active,           \* _active_phase_id
          anchor            \* the averages the active phase began with

identifier == <<history, active, anchor>>

Capacity == IF Duration >= PhaseSeconds THEN 1 ELSE PhaseSeconds \div Duration

InitIdentifier ==
    /\ history = <<>>
    /\ active = NoPhase
    /\ anchor = [gpu |-> 0, mem |-> 0, idle |-> FALSE]

-----------------------------------------------------------------------------
(* The oldest windows go while the history spans more than PhaseSeconds.   *)
Push(h, w) == LET longer == Append(h, w)
              IN  IF Len(longer) > Capacity THEN Tail(longer) ELSE longer

Abs(x) == IF x < 0 THEN -x ELSE x

Full(h) == Len(h) * Duration >= PhaseSeconds

Stable(h) == \A i, j \in DOMAIN h :
                /\ h[i].gpu - h[j].gpu < Threshold
                /\ h[i].mem - h[j].mem < Threshold

(* The sum of a sequence of numbers.  It is a recursive function and not a *)
(* fold so that PhaseIdentifier_proof can show what it is.                 *)
Total(a) == LET upto[n \in 0 .. Len(a)] == IF n = 0 THEN 0 ELSE upto[n - 1] + a[n]
            IN  upto[Len(a)]

(* The weighted averages, whose weights are all the same, and whether they *)
(* are those of an idle GPU.                                               *)
Averages(h) ==
    LET gpu == Total([i \in DOMAIN h |-> h[i].gpu])
        mem == Total([i \in DOMAIN h |-> h[i].mem])
    IN  [gpu  |-> gpu, mem |-> mem,
         idle |-> gpu <= IdleGpu * Capacity /\ mem <= IdleMem * Capacity]

PhaseId(avg) == <<avg.idle, avg.gpu \div (Threshold * Capacity),
                            avg.mem \div (Threshold * Capacity)>>

FarFrom(avg, a) ==
    \/ avg.idle # a.idle
    \/ Abs(avg.gpu - a.gpu) >= Threshold * Capacity
    \/ Abs(avg.mem - a.mem) >= Threshold * Capacity

BugNewPhase(h) ==           \* seeded bug: the anchor's averages are not compared
    active = NoPhase \/ Averages(h).idle # anchor.idle

(* What observe() finds in a history: no phase, the active phase, or a new *)
(* one.                                                                    *)
NewPhase(h) == active = NoPhase \/ FarFrom(Averages(h), anchor)

HasPhase(h) == Full(h) /\ Stable(h)

(* observe(window), seen from the history h = Push(history, window).       *)
Observe(h) ==
    /\ history' = h
    /\ IF HasPhase(h) /\ NewPhase(h)
       THEN active' = PhaseId(Averages(h)) /\ anchor' = Averages(h)
       ELSE UNCHANGED <<active, anchor>>

(* The identifier fed with any windows whose utilizations are levels.      *)
ObserveAny(levels) == \E w \in [gpu : levels, mem : levels] : Observe(Push(history, w))

-----------------------------------------------------------------------------
(* The phase reported is the one whose anchor is near the averages: when   *)
(* the newest observation found a phase, the averages of the history lie   *)
(* within the threshold of the point the phase began at, its id is that    *)
(* point's, and the history never spans more than the phase window.        *)
PhaseMatchesHistory ==
    /\ Len(history) * Duration <= PhaseSeconds \/ Len(history) <= 1
    /\ active # NoPhase => active = PhaseId(anchor)
    /\ HasPhase(history) => active # NoPhase /\ ~FarFrom(Averages(history), anchor)
=============================================================================
