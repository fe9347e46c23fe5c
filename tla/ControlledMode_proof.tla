------------------------ MODULE ControlledMode_proof ------------------------
(***************************************************************************)
(* Proofs about ControlledMode, for every set of clocks, and for any       *)
(* RunnerContract process the script may launch.  What concerns the clock  *)
(* needs the signal, if one arrives, to arrive after the loop process was  *)
(* started: the reset is attempted once, and a signal before that wastes   *)
(* it (the run MCControlledModeSignal).                                    *)
(***************************************************************************)
EXTENDS ControlledMode, TLAPS

Early == {"start", "prerun", "start_bench", "start_loop"}

SignalsAreLate == SignalPoints \cap Early = {}

(* Where the script is when a runner process runs, and what has been       *)
(* started by then.                                                        *)
Stages ==
    /\ status = "running" => script \in Foreground
    /\ script = "loop" => phase = "loop"
    /\ script \in {"start_bench", "start_loop"} => exitCode = 0
    /\ script \in {"start", "prerun", "start_bench"} => bench = "none" /\ benchRc = NotSet
    /\ script \in {"start_loop", "loop", "wait_bench", "decide"} => bench # "none"
    /\ script = "exited" => bench # "running"

(* The statuses the script collects, up to the one it exits with.          *)
Statuses ==
    /\ benchRc = 0 => bench = "dead"
    /\ bench = "dead" => benchRc # NotSet
    /\ script = "decide" => benchRc # NotSet
    /\ script \in {"exiting", "exited"} =>
        /\ controlRc # 0 => scriptRc = controlRc
        /\ controlRc = 0 => scriptRc = benchRc /\ benchRc # NotSet

(* The reset comes last.  After it nobody sets a clock, and a job does not *)
(* end without it.                                                         *)
ResetLast ==
    /\ resetAttempted \/ pending => script \notin Early
    /\ resetAttempted => status = "exited"
    /\ resetAttempted /\ ~resetFailed => clock = DefaultClock
    /\ script = "exited" /\ HasReset => resetAttempted

(* The clock of a static policy, from the end of its prerun process on.    *)
StaticHeld ==
    /\ script \in {"start", "prerun"} => staticClock = NotSet
    /\ staticClock # NotSet => static
    /\ staticClock # NotSet /\ (script = "start_bench" \/ bench = "running")
        => clock = staticClock

-----------------------------------------------------------------------------
LEMMA ResetTyped ==
    ASSUME TypeOKMode, reset_clock
    PROVE  clock' \in Clocks /\ resetAttempted' \in BOOLEAN /\ resetFailed' \in BOOLEAN
<1> USE ControlledModeAssumption DEF TypeOKMode, TypeOK
<1>1. CASE ~HasReset \/ resetAttempted
  BY <1>1 DEF reset_clock, reset_vars
<1>2. CASE HasReset /\ ~resetAttempted
  <2>1. resetAttempted' = TRUE /\ clock' \in {clock, DefaultClock}
        /\ (resetFailed' = TRUE \/ UNCHANGED resetFailed)
    BY <1>2 DEF reset_clock
  <2> QED
    BY <2>1
<1> QED
  BY <1>1, <1>2

(* What one more call of the reset function adds up to.                    *)
LEMMA ResetDone ==
    ASSUME reset_clock, resetAttempted /\ ~resetFailed => clock = DefaultClock
    PROVE  /\ HasReset => resetAttempted'
           /\ resetAttempted' /\ ~resetFailed' => clock' = DefaultClock
<1>1. CASE ~HasReset \/ resetAttempted
  BY <1>1 DEF reset_clock, reset_vars
<1>2. CASE HasReset /\ ~resetAttempted
  BY <1>2 DEF reset_clock
<1> QED
  BY <1>1, <1>2

LEMMA TypeModeStep ==
    ASSUME TypeOKMode, [NextMode]_all
    PROVE  TypeOKMode'
<1> USE ControlledModeAssumption, KilledAssumption DEF Points, NotSet, Interrupted, NoExit, Phases
<1>1. CASE StartPrerun
  BY <1>1 DEF StartPrerun, At, Launch, TypeOKMode, TypeOK,
    vars, runner, script_vars, reset_vars, signals
<1>2. CASE PrerunEnds
  BY <1>2 DEF PrerunEnds, At, TypeOKMode, TypeOK,
    vars, runner, script_vars, reset_vars, signals
<1>3. CASE StartBenchmark
  BY <1>3 DEF StartBenchmark, At, TypeOKMode, TypeOK,
    vars, runner, script_vars, reset_vars, signals
<1>4. CASE StartLoop
  BY <1>4 DEF StartLoop, At, LoopPhase, Launch, TypeOKMode, TypeOK,
    vars, runner, script_vars, reset_vars, signals
<1>5. CASE LoopEnds
  BY <1>5, ResetTyped DEF LoopEnds, At, cleanup, NoCleanup, TypeOKMode, TypeOK,
    vars, runner, script_vars, reset_vars, signals
<1>6. CASE BenchmarkWaited
  BY <1>6 DEF BenchmarkWaited, At, TypeOKMode, TypeOK,
    vars, runner, script_vars, reset_vars, signals
<1>7. CASE Decide
  BY <1>7 DEF Decide, At, ExitStatus, TypeOKMode, TypeOK,
    vars, runner, script_vars, reset_vars, signals
<1>8. CASE ExitTrap
  BY <1>8, ResetTyped DEF ExitTrap, At, cleanup, TypeOKMode, TypeOK,
    vars, runner, script_vars, reset_vars, signals
<1>9. CASE SignalTrap
  <2>1. clock' \in Clocks /\ resetAttempted' \in BOOLEAN /\ resetFailed' \in BOOLEAN
    BY <1>9, ResetTyped DEF SignalTrap, cleanup
  <2>2. bench' \in {"none", "running", "killed", "dead"} /\ pending' \in BOOLEAN
    BY <1>9 DEF SignalTrap, cleanup, TypeOKMode
  <2>3. script' \in Points /\ benchRc' \in {NotSet, 0, 1, Interrupted}
    BY <1>9 DEF SignalTrap, TypeOKMode
  <2> QED
    BY <1>9, <2>1, <2>2, <2>3 DEF SignalTrap, TypeOKMode, TypeOK, runner
<1>10. CASE RunnerStep
  BY <1>10 DEF RunnerStep, At, Command, ExitOk, ExitFailed, TypeOKMode, TypeOK,
    vars, runner, script_vars, reset_vars, signals
<1>11. CASE Signal
  BY <1>11 DEF Signal, At, TypeOKMode, TypeOK,
    vars, runner, script_vars, reset_vars, signals
<1>12. CASE BenchmarkEnds
  BY <1>12 DEF BenchmarkEnds, At, TypeOKMode, TypeOK,
    vars, runner, script_vars, reset_vars, signals
<1>13. CASE UNCHANGED all
  BY <1>13 DEF all, TypeOKMode, TypeOK, vars, runner, script_vars, reset_vars, signals
<1> QED
  BY <1>1, <1>2, <1>3, <1>4, <1>5, <1>6, <1>7, <1>8, <1>9, <1>10, <1>11, <1>12, <1>13 DEF NextMode, ScriptStep, Finished

LEMMA StagesStep ==
    ASSUME Stages, [NextMode]_all
    PROVE  Stages'
<1> USE DEF Foreground
<1>1. CASE StartPrerun
  BY <1>1 DEF StartPrerun, At, Launch, Stages,
    vars, runner, script_vars, reset_vars, signals
<1>2. CASE PrerunEnds
  BY <1>2 DEF PrerunEnds, At, Stages,
    vars, runner, script_vars, reset_vars, signals
<1>3. CASE StartBenchmark
  BY <1>3 DEF StartBenchmark, At, Stages,
    vars, runner, script_vars, reset_vars, signals
<1>4. CASE StartLoop
  BY <1>4 DEF StartLoop, At, LoopPhase, Launch, Stages,
    vars, runner, script_vars, reset_vars, signals
<1>5. CASE LoopEnds
  BY <1>5 DEF LoopEnds, At, cleanup, reset_clock, NoCleanup, Stages,
    vars, runner, script_vars, reset_vars, signals
<1>6. CASE BenchmarkWaited
  BY <1>6 DEF BenchmarkWaited, At, Stages,
    vars, runner, script_vars, reset_vars, signals
<1>7. CASE Decide
  BY <1>7 DEF Decide, At, ExitStatus, Stages,
    vars, runner, script_vars, reset_vars, signals
<1>8. CASE ExitTrap
  BY <1>8 DEF ExitTrap, At, cleanup, reset_clock, Stages,
    vars, runner, script_vars, reset_vars, signals
<1>9. CASE SignalTrap
  BY <1>9 DEF SignalTrap, At, cleanup, reset_clock, Stages,
    vars, runner, script_vars, reset_vars, signals
<1>10. CASE RunnerStep
  BY <1>10 DEF RunnerStep, At, Command, ExitOk, ExitFailed, Stages,
    vars, runner, script_vars, reset_vars, signals
<1>11. CASE Signal
  BY <1>11 DEF Signal, At, Stages,
    vars, runner, script_vars, reset_vars, signals
<1>12. CASE BenchmarkEnds
  BY <1>12 DEF BenchmarkEnds, At, Stages,
    vars, runner, script_vars, reset_vars, signals
<1>13. CASE UNCHANGED all
  BY <1>13 DEF all, Stages, vars, runner, script_vars, reset_vars, signals
<1> QED
  BY <1>1, <1>2, <1>3, <1>4, <1>5, <1>6, <1>7, <1>8, <1>9, <1>10, <1>11, <1>12, <1>13 DEF NextMode, ScriptStep, Finished

LEMMA StatusesStep ==
    ASSUME Stages, Statuses, [NextMode]_all
    PROVE  Statuses'
<1> USE DEF NotSet, Interrupted
<1>1. CASE StartPrerun
  BY <1>1 DEF StartPrerun, At, Launch, Stages, Statuses,
    vars, runner, script_vars, reset_vars, signals
<1>2. CASE PrerunEnds
  BY <1>2 DEF PrerunEnds, At, Stages, Statuses,
    vars, runner, script_vars, reset_vars, signals
<1>3. CASE StartBenchmark
  BY <1>3 DEF StartBenchmark, At, Stages, Statuses,
    vars, runner, script_vars, reset_vars, signals
<1>4. CASE StartLoop
  BY <1>4 DEF StartLoop, At, LoopPhase, Launch, Stages, Statuses,
    vars, runner, script_vars, reset_vars, signals
<1>5. CASE LoopEnds
  BY <1>5 DEF LoopEnds, At, cleanup, reset_clock, NoCleanup, Stages, Statuses,
    vars, runner, script_vars, reset_vars, signals
<1>6. CASE BenchmarkWaited
  BY <1>6 DEF BenchmarkWaited, At, Stages, Statuses,
    vars, runner, script_vars, reset_vars, signals
<1>7. CASE Decide
  BY <1>7 DEF Decide, At, ExitStatus, Stages, Statuses,
    vars, runner, script_vars, reset_vars, signals
<1>8. CASE ExitTrap
  BY <1>8 DEF ExitTrap, At, cleanup, reset_clock, Stages, Statuses,
    vars, runner, script_vars, reset_vars, signals
<1>9. CASE SignalTrap
  BY <1>9 DEF SignalTrap, At, cleanup, reset_clock, Stages, Statuses,
    vars, runner, script_vars, reset_vars, signals
<1>10. CASE RunnerStep
  BY <1>10 DEF RunnerStep, At, Command, ExitOk, ExitFailed, Stages, Statuses,
    vars, runner, script_vars, reset_vars, signals
<1>11. CASE Signal
  BY <1>11 DEF Signal, At, Stages, Statuses,
    vars, runner, script_vars, reset_vars, signals
<1>12. CASE BenchmarkEnds
  BY <1>12 DEF BenchmarkEnds, At, Stages, Statuses,
    vars, runner, script_vars, reset_vars, signals
<1>13. CASE UNCHANGED all
  BY <1>13 DEF all, Stages, Statuses, vars, runner, script_vars, reset_vars, signals
<1> QED
  BY <1>1, <1>2, <1>3, <1>4, <1>5, <1>6, <1>7, <1>8, <1>9, <1>10, <1>11, <1>12, <1>13 DEF NextMode, ScriptStep, Finished

LEMMA ResetLastStep ==
    ASSUME SignalsAreLate, TypeOKMode, Stages, ResetLast, [NextMode]_all
    PROVE  ResetLast'
<1> USE DEF Early, Foreground, SignalsAreLate
<1>0. status \in {"running", "exited"}
  BY DEF TypeOKMode, TypeOK
<1>1. CASE StartPrerun
  BY <1>1 DEF StartPrerun, At, Launch, Stages, ResetLast,
    vars, runner, script_vars, reset_vars, signals
<1>2. CASE PrerunEnds
  BY <1>2 DEF PrerunEnds, At, Stages, ResetLast,
    vars, runner, script_vars, reset_vars, signals
<1>3. CASE StartBenchmark
  BY <1>3 DEF StartBenchmark, At, Stages, ResetLast,
    vars, runner, script_vars, reset_vars, signals
<1>4. CASE StartLoop
  BY <1>4 DEF StartLoop, At, LoopPhase, Launch, Stages, ResetLast,
    vars, runner, script_vars, reset_vars, signals
<1>5. CASE LoopEnds
  BY <1>5 DEF LoopEnds, At, cleanup, reset_clock, NoCleanup, Stages, ResetLast,
    vars, runner, script_vars, reset_vars, signals
<1>6. CASE BenchmarkWaited
  BY <1>6 DEF BenchmarkWaited, At, Stages, ResetLast,
    vars, runner, script_vars, reset_vars, signals
<1>7. CASE Decide
  BY <1>7 DEF Decide, At, ExitStatus, Stages, ResetLast,
    vars, runner, script_vars, reset_vars, signals
<1>8. CASE ExitTrap
  <2>1. /\ HasReset => resetAttempted'
        /\ resetAttempted' /\ ~resetFailed' => clock' = DefaultClock
    BY <1>8, ResetDone DEF ExitTrap, cleanup, ResetLast
  <2>2. script \notin Early /\ status = "exited" /\ UNCHANGED status
    BY <1>8, <1>0 DEF ExitTrap, At, Stages, ResetLast, runner
  <2> QED
    BY <1>8, <2>1, <2>2 DEF ExitTrap, ResetLast
<1>9. CASE SignalTrap
  <2>1. /\ HasReset => resetAttempted'
        /\ resetAttempted' /\ ~resetFailed' => clock' = DefaultClock
    BY <1>9, ResetDone DEF SignalTrap, cleanup, ResetLast
  <2>2. script \notin Early /\ status = "exited" /\ UNCHANGED status
    BY <1>9, <1>0 DEF SignalTrap, At, Stages, ResetLast, runner
  <2> QED
    BY <1>9, <2>1, <2>2 DEF SignalTrap, ResetLast
<1>10. CASE RunnerStep
  BY <1>10 DEF RunnerStep, At, Command, ExitOk, ExitFailed, Stages, ResetLast,
    vars, runner, script_vars, reset_vars, signals
<1>11. CASE Signal
  BY <1>11 DEF Signal, At, Stages, ResetLast,
    vars, runner, script_vars, reset_vars, signals
<1>12. CASE BenchmarkEnds
  BY <1>12 DEF BenchmarkEnds, At, Stages, ResetLast,
    vars, runner, script_vars, reset_vars, signals
<1>13. CASE UNCHANGED all
  BY <1>13 DEF all, Stages, ResetLast, vars, runner, script_vars, reset_vars, signals
<1> QED
  BY <1>1, <1>2, <1>3, <1>4, <1>5, <1>6, <1>7, <1>8, <1>9, <1>10, <1>11, <1>12, <1>13 DEF NextMode, ScriptStep, Finished

LEMMA StaticHeldStep ==
    ASSUME Stages, ResetLast, StaticHeld, [NextMode]_all
    PROVE  StaticHeld'
<1> USE DEF Early, Foreground, MayCommand, NotSet
<1>1. CASE StartPrerun
  BY <1>1 DEF StartPrerun, At, Launch, Stages, ResetLast, StaticHeld,
    vars, runner, script_vars, reset_vars, signals
<1>2. CASE PrerunEnds
  BY <1>2 DEF PrerunEnds, At, Stages, ResetLast, StaticHeld,
    vars, runner, script_vars, reset_vars, signals
<1>3. CASE StartBenchmark
  BY <1>3 DEF StartBenchmark, At, Stages, ResetLast, StaticHeld,
    vars, runner, script_vars, reset_vars, signals
<1>4. CASE StartLoop
  BY <1>4 DEF StartLoop, At, LoopPhase, Launch, Stages, ResetLast, StaticHeld,
    vars, runner, script_vars, reset_vars, signals
<1>5. CASE LoopEnds
  BY <1>5 DEF LoopEnds, At, cleanup, reset_clock, NoCleanup, Stages, ResetLast, StaticHeld,
    vars, runner, script_vars, reset_vars, signals
<1>6. CASE BenchmarkWaited
  BY <1>6 DEF BenchmarkWaited, At, Stages, ResetLast, StaticHeld,
    vars, runner, script_vars, reset_vars, signals
<1>7. CASE Decide
  BY <1>7 DEF Decide, At, ExitStatus, Stages, ResetLast, StaticHeld,
    vars, runner, script_vars, reset_vars, signals
<1>8. CASE ExitTrap
  BY <1>8 DEF ExitTrap, At, cleanup, reset_clock, Stages, ResetLast, StaticHeld,
    vars, runner, script_vars, reset_vars, signals
<1>9. CASE SignalTrap
  BY <1>9 DEF SignalTrap, At, cleanup, reset_clock, Stages, ResetLast, StaticHeld,
    vars, runner, script_vars, reset_vars, signals
<1>10. CASE RunnerStep
  BY <1>10 DEF RunnerStep, At, Command, ExitOk, ExitFailed, Stages, ResetLast, StaticHeld,
    vars, runner, script_vars, reset_vars, signals
<1>11. CASE Signal
  BY <1>11 DEF Signal, At, Stages, ResetLast, StaticHeld,
    vars, runner, script_vars, reset_vars, signals
<1>12. CASE BenchmarkEnds
  BY <1>12 DEF BenchmarkEnds, At, Stages, ResetLast, StaticHeld,
    vars, runner, script_vars, reset_vars, signals
<1>13. CASE UNCHANGED all
  BY <1>13 DEF all, Stages, ResetLast, StaticHeld, vars, runner, script_vars, reset_vars, signals
<1> QED
  BY <1>1, <1>2, <1>3, <1>4, <1>5, <1>6, <1>7, <1>8, <1>9, <1>10, <1>11, <1>12, <1>13 DEF NextMode, ScriptStep, Finished

-----------------------------------------------------------------------------
LEMMA ModeInit == InitMode => TypeOKMode /\ Stages /\ Statuses /\ ResetLast /\ StaticHeld
<1> SUFFICES ASSUME InitMode
             PROVE  TypeOKMode /\ Stages /\ Statuses /\ ResetLast /\ StaticHeld
  OBVIOUS
<1>1. TypeOKMode
  BY ControlledModeAssumption DEF InitMode, TypeOKMode, TypeOK, Points, Phases, NotSet, NoExit
<1>2. Stages /\ Statuses
  BY DEF InitMode, Stages, Statuses, NotSet
<1>3. ResetLast
  BY DEF InitMode, ResetLast
<1>4. StaticHeld
  BY DEF InitMode, StaticHeld
<1> QED
  BY <1>1, <1>2, <1>3, <1>4

LEMMA ModeInvariant == SpecMode => [](TypeOKMode /\ Stages /\ Statuses)
<1>1. TypeOKMode /\ Stages /\ Statuses /\ [NextMode]_all
        => TypeOKMode' /\ Stages' /\ Statuses'
  BY TypeModeStep, StagesStep, StatusesStep
<1> QED
  BY <1>1, ModeInit, PTL DEF SpecMode

LEMMA LateInvariant ==
    ASSUME SignalsAreLate
    PROVE  SpecMode => [](ResetLast /\ StaticHeld)
<1>1. TypeOKMode /\ Stages /\ ResetLast /\ StaticHeld /\ [NextMode]_all
        => ResetLast' /\ StaticHeld'
  BY ResetLastStep, StaticHeldStep
<1> QED
  BY <1>1, ModeInit, ModeInvariant, PTL DEF SpecMode

(* The type of every variable is kept.                                     *)
THEOREM ModeTypeCorrect == SpecMode => []TypeOKMode
BY ModeInvariant, PTL

(* No job leaves a benchmark running behind its back, or starts one after  *)
(* its initial decision failed, wherever the signal arrives.               *)
THEOREM StrayBenchmarkCorrect == SpecMode => []NoStrayBenchmark
<1>1. Stages => NoStrayBenchmark
  BY DEF Stages, NoStrayBenchmark
<1> QED
  BY <1>1, ModeInvariant, PTL

(* The job's status is the runner's if that failed, and 0 only if both     *)
(* runner processes and the benchmark succeeded.                           *)
THEOREM JobStatusCorrect == SpecMode => []ExitStatusTells
<1>1. TypeOKMode /\ Statuses => ExitStatusTells
  BY DEF TypeOKMode, Statuses, ExitStatusTells
<1> QED
  BY <1>1, ModeInvariant, PTL

(* A job whose signal, if any, comes after its loop process was started    *)
(* leaves the clock at its default unless the reset command is missing or  *)
(* fails.                                                                  *)
THEOREM ClockRestoredCorrect ==
    ASSUME SignalsAreLate
    PROVE  SpecMode => []ClockRestored
<1>1. ResetLast => ClockRestored
  BY DEF ResetLast, ClockRestored
<1> QED
  BY <1>1, LateInvariant, PTL

(* Under the same condition no runner process runs after the reset.        *)
THEOREM ResetIsLast ==
    ASSUME SignalsAreLate
    PROVE  SpecMode => []NoRunnerAfterReset
<1>1. ResetLast => NoRunnerAfterReset
  BY DEF ResetLast, NoRunnerAfterReset
<1> QED
  BY <1>1, LateInvariant, PTL

(* Under the same condition the clock a static policy's prerun process set *)
(* stays in force as long as the benchmark runs.                           *)
THEOREM StaticClockCorrect ==
    ASSUME SignalsAreLate
    PROVE  SpecMode => []StaticClockInForce
<1>1. StaticHeld => StaticClockInForce
  BY DEF StaticHeld, StaticClockInForce
<1> QED
  BY <1>1, LateInvariant, PTL
=============================================================================
