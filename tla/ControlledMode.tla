--------------------------- MODULE ControlledMode ---------------------------
(***************************************************************************)
(* scripts/run/controlled_mode.sbatch, the owner of one job: it runs the   *)
(* runner once with CONTROL_PHASE=prerun, starts the benchmark, runs the   *)
(* runner again with CONTROL_PHASE=loop, waits for the benchmark and, on   *)
(* any way out, kills the benchmark and resets the clock.  The two runner  *)
(* processes are RunnerContract's, which ControlLoop implements.           *)
(*                                                                         *)
(* bash runs a trap handler between two commands: a signal that arrives    *)
(* while a foreground child runs is handled when the child has exited, one *)
(* that arrives in "wait" ends the wait.  The handler does not exit, so    *)
(* the script goes on after it.                                            *)
(***************************************************************************)
EXTENDS RunnerContract

CONSTANTS DefaultClock,     \* the clock before the job, and after a reset
          HasReset,         \* APPLY_CLOCK_RESET_CMD is set
          SignalPoints      \* bound: where INT or TERM may arrive, once

ASSUME ControlledModeAssumption ==
    /\ DefaultClock \in Clocks
    /\ HasReset \in BOOLEAN

VARIABLES script,           \* the next command of the script
          bench,            \* "none", "running", "killed" (signalled), "dead"
          benchRc, controlRc, scriptRc,
          resetAttempted,   \* RESET_CLOCK_ATTEMPTED
          pending,          \* a signal waits for its handler
          signalled,        \* a signal has arrived
          resetFailed,      \* history: the reset command failed
          staticClock       \* history: the clock a static policy's prerun set

script_vars == <<script, benchRc, controlRc, scriptRc>>
reset_vars  == <<resetAttempted, resetFailed>>
signals     == <<pending, signalled>>
all         == <<vars, script_vars, bench, reset_vars, signals, staticClock>>

Foreground == {"prerun", "loop"}    \* points where a runner is waited for
Interrupted == 143                  \* status of a wait ended by SIGTERM
NotSet == -1

InitMode ==
    /\ status = "exited" /\ phase = "prerun" /\ static \in BOOLEAN
    /\ applied = "none" /\ clock = DefaultClock /\ exitCode = NoExit
    /\ script = "start"
    /\ bench = "none" /\ benchRc = NotSet /\ controlRc = NotSet /\ scriptRc = NotSet
    /\ resetAttempted = FALSE /\ resetFailed = FALSE
    /\ pending = FALSE /\ signalled = FALSE
    /\ staticClock = NotSet

-----------------------------------------------------------------------------
(* The two shell functions.                                                *)

BugResetClock ==            \* seeded bug: the flag is set, then the test made
    /\ resetAttempted' = TRUE
    /\ UNCHANGED <<clock, resetFailed>>

(* At most one attempt per job; its failure is only reported.              *)
reset_clock ==
    IF ~HasReset \/ resetAttempted
    THEN UNCHANGED <<clock, reset_vars>>
    ELSE /\ resetAttempted' = TRUE
         /\ \/ clock' = DefaultClock /\ UNCHANGED resetFailed
            \/ clock' \in {clock, DefaultClock} /\ resetFailed' = TRUE

BugCleanup == UNCHANGED bench /\ reset_clock    \* seeded bug: no kill

cleanup ==
    /\ bench' = IF bench = "running" THEN "killed" ELSE bench
    /\ reset_clock

NoCleanup == UNCHANGED <<bench, clock, reset_vars>>

-----------------------------------------------------------------------------
(* The script.  A command waits for a pending handler.                     *)

At(point) == script = point /\ ~pending

Launch(p) ==
    /\ status' = "running"
    /\ phase' = p
    /\ applied' = "none"
    /\ exitCode' = NoExit
    /\ UNCHANGED <<static, clock>>

StartPrerun ==
    /\ At("start")
    /\ Launch("prerun")
    /\ script' = "prerun"
    /\ UNCHANGED <<bench, benchRc, controlRc, scriptRc, reset_vars, signals, staticClock>>

(* A failed initial decision ends the job before the benchmark.            *)
PrerunEnds ==
    /\ At("prerun") /\ status = "exited"
    /\ controlRc' = exitCode
    /\ staticClock' = IF static /\ applied = "ok" THEN clock ELSE NotSet
    /\ IF exitCode = 0
       THEN script' = "start_bench" /\ UNCHANGED scriptRc
       ELSE script' = "exiting" /\ scriptRc' = exitCode
    /\ UNCHANGED <<vars, bench, benchRc, reset_vars, signals>>

BugStartBenchmark ==        \* seeded bug: the clock is reset first
    /\ At("start_bench")
    /\ bench' = "running"
    /\ script' = "start_loop"
    /\ reset_clock
    /\ UNCHANGED <<runner, benchRc, controlRc, scriptRc, signals, staticClock>>

StartBenchmark ==
    /\ At("start_bench")
    /\ bench' = "running"
    /\ script' = "start_loop"
    /\ UNCHANGED <<vars, benchRc, controlRc, scriptRc, reset_vars, signals, staticClock>>

BugLoopPhase == "all"       \* seeded bug: CONTROL_PHASE=loop is not exported

LoopPhase == "loop"

StartLoop ==
    /\ At("start_loop")
    /\ Launch(LoopPhase)
    /\ script' = "loop"
    /\ UNCHANGED <<bench, benchRc, controlRc, scriptRc, reset_vars, signals, staticClock>>

(* A runner that failed has the benchmark killed and the clock reset.      *)
LoopEnds ==
    /\ At("loop") /\ status = "exited"
    /\ controlRc' = exitCode
    /\ script' = "wait_bench"
    /\ IF exitCode # 0 THEN cleanup ELSE NoCleanup
    /\ UNCHANGED <<runner, benchRc, scriptRc, signals, staticClock>>

BenchmarkWaited ==
    /\ At("wait_bench") /\ bench = "dead"
    /\ script' = "decide"
    /\ UNCHANGED <<vars, bench, benchRc, controlRc, scriptRc, reset_vars, signals, staticClock>>

BugExitStatus == benchRc    \* seeded bug: the runner's status is lost

BugAddStatuses == controlRc + benchRc    \* seeded bug: not a status at all

(* The runner's failure goes before the benchmark's.                       *)
ExitStatus == IF controlRc # 0 THEN controlRc ELSE benchRc

Decide ==
    /\ At("decide")
    /\ scriptRc' = ExitStatus
    /\ script' = "exiting"
    /\ UNCHANGED <<vars, bench, benchRc, controlRc, reset_vars, signals, staticClock>>

ExitTrap ==
    /\ At("exiting")
    /\ cleanup
    /\ script' = "exited"
    /\ UNCHANGED <<runner, benchRc, controlRc, scriptRc, signals, staticClock>>

(* The handler of INT and TERM: cleanup, and the script goes on.           *)
SignalTrap ==
    /\ pending
    /\ script \in Foreground => status = "exited"
    /\ pending' = FALSE
    /\ cleanup
    /\ \/ /\ script = "wait_bench" /\ bench # "dead"    \* the wait ends
          /\ script' = "decide" /\ benchRc' = Interrupted
       \/ UNCHANGED <<script, benchRc>>
    /\ UNCHANGED <<runner, controlRc, scriptRc, signalled, staticClock>>

-----------------------------------------------------------------------------
(* What happens outside the script.                                        *)

Signal ==
    /\ script \in SignalPoints /\ ~signalled
    /\ pending' = TRUE /\ signalled' = TRUE
    /\ UNCHANGED <<vars, script_vars, bench, reset_vars, staticClock>>

(* The benchmark ends by itself, or after the kill.  A status the script   *)
(* took from an interrupted wait is not overwritten.                       *)
BenchmarkEnds ==
    /\ bench \in {"running", "killed"}
    /\ bench' = "dead"
    /\ benchRc' \in IF benchRc = NotSet THEN {0, 1} ELSE {benchRc}
    /\ UNCHANGED <<vars, script, controlRc, scriptRc, reset_vars, signals, staticClock>>

RunnerStep ==
    /\ Command \/ ExitOk \/ ExitFailed
    /\ UNCHANGED <<script_vars, bench, reset_vars, signals, staticClock>>

BugRunnerExit ==            \* seeded bug: BENCH_PID is not exported
    /\ phase = "prerun"
    /\ ExitOk \/ ExitFailed
    /\ UNCHANGED <<script_vars, bench, reset_vars, signals, staticClock>>

(* A runner exits once the benchmark is gone (the prerun one at once).     *)
RunnerExit ==
    /\ phase = "prerun" \/ bench = "dead"
    /\ ExitOk \/ ExitFailed
    /\ UNCHANGED <<script_vars, bench, reset_vars, signals, staticClock>>

ScriptStep ==
    \/ StartPrerun \/ PrerunEnds \/ StartBenchmark \/ StartLoop \/ LoopEnds
    \/ BenchmarkWaited \/ Decide \/ ExitTrap \/ SignalTrap

Finished == script = "exited" /\ UNCHANGED all

NextMode == ScriptStep \/ RunnerStep \/ Signal \/ BenchmarkEnds \/ Finished

SpecMode == InitMode /\ [][NextMode]_all

FairSpecMode ==
    SpecMode /\ WF_all(ScriptStep) /\ WF_all(RunnerExit) /\ WF_all(BenchmarkEnds)

-----------------------------------------------------------------------------
(* Properties.                                                             *)

Points == {"start", "prerun", "start_bench", "start_loop", "loop",
           "wait_bench", "decide", "exiting", "exited"}

(* The type of every variable.                                             *)
TypeOKMode ==
    /\ TypeOK
    /\ script \in Points
    /\ bench \in {"none", "running", "killed", "dead"}
    /\ benchRc \in {NotSet, 0, 1, Interrupted}
    /\ controlRc \in {NotSet, 0, 1, 2, Killed}
    /\ scriptRc \in {NotSet, 0, 1, 2, Killed, Interrupted}
    /\ resetAttempted \in BOOLEAN /\ resetFailed \in BOOLEAN
    /\ pending \in BOOLEAN /\ signalled \in BOOLEAN
    /\ staticClock \in Clocks \cup {NotSet}

(* Whatever the two runner processes did to the clock, a job that ends     *)
(* leaves it at its default, unless there is no reset command or it fails. *)
ClockRestored ==
    script = "exited" /\ HasReset /\ ~resetFailed => clock = DefaultClock

(* While a benchmark of a static policy runs, the clock is the one its     *)
(* prerun process set: not reset, and not set again by the loop process.   *)
StaticClockInForce ==
    bench = "running" /\ staticClock # NotSet => clock = staticClock

(* The one reset comes after the last process that sets clocks.            *)
NoRunnerAfterReset == resetAttempted => status = "exited"

(* A job never leaves a benchmark running that it has not tried to stop,   *)
(* and never starts one after its initial decision failed.                 *)
NoStrayBenchmark ==
    /\ script = "exited" => bench # "running"
    /\ bench # "none" /\ script \in {"start_loop", "loop"} /\ phase = "prerun"
        => exitCode = 0

(* Status 0 means both runner processes and the benchmark succeeded, and a *)
(* runner's failure is the job's status.                                   *)
ExitStatusTells ==
    script = "exited" =>
    /\ scriptRc = 0 => controlRc = 0 /\ benchRc = 0 /\ bench = "dead"
    /\ controlRc # 0 => scriptRc = controlRc

(* A job whose benchmark ends comes to its end.                            *)
JobEnds == <>(script = "exited")
=============================================================================
