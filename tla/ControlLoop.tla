----------------------------- MODULE ControlLoop -----------------------------
(***************************************************************************)
(* One process of scripts/run/control_loop.py: main(), run_control_loop()  *)
(* and run_initial_decision_only(), one action per call they make.  Any    *)
(* call may raise.  The environment may create the STOP file, end the      *)
(* benchmark and kill the process between any two calls.  The policy is    *)
(* abstract: it may return any decision (a StaticPolicy only the ones its  *)
(* contract allows) or raise, before or after it counted the window.       *)
(***************************************************************************)
EXTENDS ClockGrid, FiniteSets, Sequences

CONSTANTS Platform,         \* the platform validated against
          Targets,          \* the clocks a policy may ask for
          ClockValues,      \* the values the GPU clock can have
          MaxWindowsValues, \* the values of MAX_WINDOWS, NoClock when unset
          LimitValues,      \* the values of MAX_CONSECUTIVE_FAILURES
          WindowBound,      \* bound: no window of this index is started
          Killed            \* exit status of a process ended by a signal

ASSUME ControlLoopAssumption ==
    /\ IsPlatform(Platform)
    /\ Targets \subseteq Int
    /\ {c \in Targets : ValidClock(c, Platform)} \cup {Platform.max} \subseteq ClockValues
    /\ MaxWindowsValues \subseteq Nat \cup {NoClock}
    /\ LimitValues \subseteq Int
    /\ WindowBound \in Nat
    /\ Killed \in Int \ {-1, 0, 1, 2}

(* What main() reads from the environment.  dryRun: no                     *)
(* APPLY_CLOCK_CMD_TEMPLATE; static: the policy is a StaticPolicy.         *)
Configs == [phase      : {"all", "prerun", "loop"},
            static     : BOOLEAN,
            dryRun     : BOOLEAN,
            watchBench : BOOLEAN,
            maxWindows : MaxWindowsValues,
            limit      : LimitValues]

Prelaunch == -1             \* the window index of the initial decision

Hold == [action |-> "hold_clock", target |-> NoClock]

(* A StaticPolicy's on_window() never asks for a clock change.             *)
WindowDecisions(s) ==
    IF s THEN {Hold, [action |-> "no_op", target |-> NoClock]} ELSE Decisions(Targets)

NoSummary == [status |-> "none", windows |-> 0, failures |-> 0, longest |-> 0]

VARIABLES
    config,                 \* the configuration, fixed for the process
    pc,                     \* the call about to be made
    window,                 \* window_index, or Prelaunch before the loop
    decision,               \* the decision in hand
    counted,                \* state.data["total_windows"] of the policy
    consecutive, failed, longest,  \* the runner's three failure counters
    aborted,                \* abort_reason is set
    snapshot,               \* windows counted in policy_state.json; Torn
    rows,                   \* the windows of this process's rows in decisions.csv
    lastDecision,           \* the window it left in last_decision.json, or NoClock
    summary,                \* final_summary.json, once written completely
    clock, applied,         \* the GPU clock, outcome of the last command
    exitCode,
    stopFile, benchAlive,   \* the environment
    failures,               \* history: indices of the windows that raised
    actuated,               \* history: windows whose decision was applied
    lateApplies,            \* history: applications after STOP or bench end
    finalized               \* history: finalize() has been called

counters  == <<counted, consecutive, failed, longest, aborted>>
artifacts == <<snapshot, rows, lastDecision, summary>>
gpu       == <<clock, applied>>
outside   == <<stopFile, benchAlive>>
history   == <<failures, actuated, lateApplies, finalized>>
vars      == <<config, pc, window, decision, counters, artifacts, gpu,
               exitCode, outside, history>>

Torn == -1                  \* a snapshot whose write failed half way
NoExit == -1

-----------------------------------------------------------------------------
(* Of what earlier processes left in RUN_DIR, the runner reads the STOP    *)
(* file only; the other files stand for what this process makes of them.   *)
Init ==
    /\ config \in Configs
    /\ pc = "main"
    /\ window = Prelaunch
    /\ decision = Hold
    /\ counted = 0 /\ consecutive = 0 /\ failed = 0 /\ longest = 0
    /\ aborted = FALSE
    /\ snapshot = 0 /\ rows = <<>> /\ lastDecision = NoClock
    /\ summary = NoSummary
    /\ clock \in ClockValues /\ applied = "none"
    /\ exitCode = NoExit
    /\ stopFile \in BOOLEAN            \* a reused RUN_DIR may hold a STOP file
    /\ benchAlive \in BOOLEAN
    /\ failures = {} /\ actuated = {} /\ lateApplies = 0 /\ finalized = FALSE

(* How a call of the run leaves the normal path: before the loop the       *)
(* exception reaches main(), inside a window the except clause handles it. *)
Exit(rc) == pc' = "exited" /\ exitCode' = rc

Raise ==
    IF window = Prelaunch THEN Exit(1)
    ELSE pc' = "handle_failure" /\ UNCHANGED exitCode

Goto(label) == pc' = label /\ UNCHANGED exitCode

-----------------------------------------------------------------------------
(* main(), and the setup both entry points start with.                     *)

(* An unbounded windowed loop is refused with status 2.                    *)
RejectArguments ==
    /\ pc = "main"
    /\ config.phase # "prerun" /\ ~config.watchBench /\ config.maxWindows = NoClock
    /\ Exit(2)
    /\ UNCHANGED <<config, window, decision, counters, artifacts, gpu, outside, history>>

(* load_policy_config, resolve_policy, build_context and initialize(),     *)
(* which may raise; then the first snapshot.                               *)
Initialize ==
    /\ pc = "main"
    /\ config.phase = "prerun" \/ config.watchBench \/ config.maxWindows # NoClock
    /\ \/ Exit(1) /\ UNCHANGED snapshot
       \/ Exit(1) /\ snapshot' = Torn
       \/ Goto("announce") /\ snapshot' = counted
    /\ UNCHANGED <<config, window, decision, counters, rows, lastDecision,
                   summary, gpu, outside, history>>

BugEveryPhase == TRUE       \* seeded bug: a loop process applies it too

(* The loop phase leaves the initial decision to the prerun process.       *)
AppliesInitialDecision == config.phase # "loop"

(* The manifest and the log line that precede the initial decision.        *)
Announce ==
    /\ pc = "announce"
    /\ \/ Exit(1)
       \/ Goto(IF AppliesInitialDecision THEN "initial_decision" ELSE "enter_loop")
    /\ UNCHANGED <<config, window, decision, counters, artifacts, gpu, outside, history>>

AfterInitial == IF config.phase = "prerun" THEN "finish_prerun" ELSE "enter_loop"

(* An online policy has no initial decision; a static one may opt out.     *)
InitialDecision ==
    /\ pc = "initial_decision"
    /\ \/ Goto(AfterInitial) /\ UNCHANGED decision
       \/ config.static /\ Exit(1) /\ UNCHANGED decision
       \/ /\ config.static
          /\ decision' \in Decisions(Targets)
          /\ Goto("validate")
    /\ UNCHANGED <<config, window, counters, artifacts, gpu, outside, history>>

FinishPrerun ==
    /\ pc = "finish_prerun"
    /\ Exit(0) \/ Exit(1)
    /\ UNCHANGED <<config, window, decision, counters, artifacts, gpu, outside, history>>

-----------------------------------------------------------------------------
(* The windowed loop.                                                      *)

EnterLoop ==
    /\ pc = "enter_loop"
    /\ window' = 0
    /\ Goto("check")
    /\ UNCHANGED <<config, decision, counters, artifacts, gpu, outside, history>>

BugStopIgnoresBenchmark ==  \* seeded bug: the benchmark is not watched
    stopFile \/ (config.maxWindows # NoClock /\ window >= config.maxWindows)

(* A signal-0 probe of the benchmark counts a permission error as alive.   *)
_should_stop ==
    \/ stopFile
    \/ config.maxWindows # NoClock /\ window >= config.maxWindows
    \/ config.watchBench /\ ~benchAlive

(* The check is outside the try block: when the look for the STOP file or  *)
(* the probe of the benchmark raises, the exception reaches main().        *)
(* WindowBound is the model's bound: there the loop only waits to be told  *)
(* to stop, so that a raise cannot be what ends it.                        *)
Check ==
    /\ pc = "check"
    /\ _should_stop \/ window < WindowBound
    /\ \/ Goto(IF _should_stop THEN "finalize" ELSE "build_window")
       \/ Exit(1)
    /\ UNCHANGED <<config, window, decision, counters, artifacts, gpu, outside, history>>

BuildWindow ==
    /\ pc = "build_window"
    /\ Goto("on_window") \/ Raise
    /\ UNCHANGED <<config, window, decision, counters, artifacts, gpu, outside, history>>

(* The policy mutates its state in place: a call that raises may already   *)
(* have counted the window, and nothing undoes it.                         *)
OnWindow ==
    /\ pc = "on_window"
    /\ \/ /\ decision' \in WindowDecisions(config.static)
          /\ counted' = counted + 1
          /\ Goto("validate")
       \/ /\ UNCHANGED decision
          /\ counted' \in {counted, counted + 1}
          /\ Raise
    /\ UNCHANGED <<config, window, consecutive, failed, longest, aborted,
                   artifacts, gpu, outside, history>>

-----------------------------------------------------------------------------
(* What is done with a decision, before the loop and in every window.      *)

BugValidate ==             \* seeded bug: the decision is not validated
    /\ pc = "validate"
    /\ Goto("apply")
    /\ UNCHANGED <<config, window, decision, counters, artifacts, gpu, outside, history>>

Validate ==
    /\ pc = "validate"
    /\ IF validate_decision(decision, Platform) THEN Goto("apply") ELSE Raise
    /\ UNCHANGED <<config, window, decision, counters, artifacts, gpu, outside, history>>

Ended == stopFile \/ (config.watchBench /\ ~benchAlive)

BugCommandFailed ==         \* seeded bug: the exit status is not checked
    /\ ~config.dryRun
    /\ clock' \in {clock, decision.target}
    /\ applied' = "failed"
    /\ lateApplies' = lateApplies + (IF Ended THEN 1 ELSE 0)
    /\ Goto("persist")
    /\ UNCHANGED actuated

(* A command that fails may have changed the clock all the same.           *)
CommandFailed ==
    /\ ~config.dryRun
    /\ clock' \in {clock, decision.target}
    /\ applied' = "failed"
    /\ lateApplies' = lateApplies + (IF Ended THEN 1 ELSE 0)
    /\ Raise
    /\ UNCHANGED actuated

(* The shell controller: nothing to do without a clock to set; a log line  *)
(* only, in a dry run; otherwise the command.                              *)
ApplyNothing ==
    /\ pc = "apply"
    /\ ~RequiresClockChange(decision) \/ decision.target = NoClock
    /\ actuated' = actuated \cup {window}
    /\ Goto("persist")
    /\ UNCHANGED <<config, window, decision, counters, artifacts, gpu, outside,
                   failures, lateApplies, finalized>>

ApplyClock ==
    /\ pc = "apply"
    /\ RequiresClockChange(decision) /\ decision.target # NoClock
    /\ \/ /\ clock' = IF config.dryRun THEN clock ELSE decision.target
          /\ applied' = "ok"
          /\ actuated' = actuated \cup {window}
          /\ lateApplies' = lateApplies + (IF Ended THEN 1 ELSE 0)
          /\ Goto("persist")
       \/ CommandFailed
       \/ Raise /\ UNCHANGED <<gpu, actuated, lateApplies>>    \* the log line
    /\ UNCHANGED <<config, window, decision, counters, artifacts, outside,
                   failures, finalized>>

BugPersistState ==          \* seeded bug: only clock changes are persisted
    /\ pc = "persist"
    /\ snapshot' = IF RequiresClockChange(decision) THEN counted ELSE snapshot
    /\ Goto("append_row")
    /\ UNCHANGED <<config, window, decision, counters, rows, lastDecision,
                   summary, gpu, outside, history>>

(* write_text truncates the file before it writes it.                      *)
PersistState ==
    /\ pc = "persist"
    /\ \/ snapshot' = counted /\ Goto("append_row")
       \/ snapshot' \in {snapshot, Torn} /\ Raise
    /\ UNCHANGED <<config, window, decision, counters, rows, lastDecision,
                   summary, gpu, outside, history>>

BugAppendDecisionRow ==     \* seeded bug: a row that cannot be written is skipped
    /\ pc = "append_row"
    /\ rows' \in {rows, Append(rows, window)}
    /\ Goto("write_last")
    /\ UNCHANGED <<config, window, decision, counters, snapshot, lastDecision,
                   summary, gpu, outside, history>>

AppendDecisionRow ==
    /\ pc = "append_row"
    /\ \/ rows' = Append(rows, window) /\ Goto("write_last")
       \/ UNCHANGED rows /\ Raise
    /\ UNCHANGED <<config, window, decision, counters, snapshot, lastDecision,
                   summary, gpu, outside, history>>

(* A write that fails half way leaves a file nobody can read.              *)
WriteLastDecision ==
    /\ pc = "write_last"
    /\ \/ lastDecision' = window /\ Goto("log_decision")
       \/ lastDecision' \in {lastDecision, NoClock} /\ Raise
    /\ UNCHANGED <<config, window, decision, counters, snapshot, rows, summary,
                   gpu, outside, history>>

BugKeepFailures == UNCHANGED consecutive    \* seeded bug: a missing reset

(* Only a window that went through all of the try block ends a failure run. *)
ResetFailures == consecutive' = 0

(* The log line ends the initial decision, or ends the try block and       *)
(* resets the consecutive-failure counter.                                 *)
LogDecision ==
    /\ pc = "log_decision"
    /\ \/ Raise /\ UNCHANGED consecutive
       \/ IF window = Prelaunch
          THEN Goto(AfterInitial) /\ UNCHANGED consecutive
          ELSE Goto("sleep") /\ ResetFailures
    /\ UNCHANGED <<config, window, decision, counted, failed, longest, aborted,
                   artifacts, gpu, outside, history>>

-----------------------------------------------------------------------------
(* The except clause, the end of an iteration and the end of the loop.     *)

BugLimitReached == consecutive + 1 > config.limit  \* seeded bug: off by one

LimitReached == consecutive + 1 >= config.limit

BugContinue == "check"      \* seeded bug: "continue" skips the index increment

AfterFailure == "sleep"

(* Both log lines of the except clause may raise, which leaves the loop    *)
(* without finalize().                                                     *)
HandleFailure ==
    /\ pc = "handle_failure"
    /\ consecutive' = consecutive + 1
    /\ failed' = failed + 1
    /\ longest' = IF longest > consecutive' THEN longest ELSE consecutive'
    /\ failures' = failures \cup {window}
    /\ \/ Exit(1) /\ UNCHANGED aborted
       \/ /\ LimitReached
          /\ aborted' = TRUE
          /\ Goto("finalize")
       \/ /\ ~LimitReached
          /\ Goto(AfterFailure)
          /\ UNCHANGED aborted
    /\ UNCHANGED <<config, window, decision, counted, artifacts, gpu, outside,
                   actuated, lateApplies, finalized>>

(* The sleep is outside the try block too, and raises for a negative       *)
(* duration or one that is no number, which nothing checks.                *)
Sleep ==
    /\ pc = "sleep"
    /\ window' = window + 1
    /\ Goto("check") \/ Exit(1)
    /\ UNCHANGED <<config, decision, counters, artifacts, gpu, outside, history>>

(* finalize() and the write of final_summary.json.                         *)
Finalize ==
    /\ pc = "finalize"
    /\ finalized' = TRUE
    /\ \/ Exit(1) /\ UNCHANGED summary
       \/ /\ summary' = [status   |-> IF aborted THEN "aborted" ELSE "completed",
                         windows  |-> counted,
                         failures |-> failed,
                         longest  |-> longest]
          /\ Goto("finish_loop")
    /\ UNCHANGED <<config, window, decision, counters, snapshot, rows,
                   lastDecision, gpu, outside, failures, actuated, lateApplies>>

BugFinishLoop ==            \* seeded bug: an abort is not raised
    /\ pc = "finish_loop"
    /\ Exit(1) \/ Exit(0)
    /\ UNCHANGED <<config, window, decision, counters, artifacts, gpu, outside, history>>

(* The last log line; then an abort is raised to main() as status 1.       *)
FinishLoop ==
    /\ pc = "finish_loop"
    /\ Exit(1) \/ (~aborted /\ Exit(0))
    /\ UNCHANGED <<config, window, decision, counters, artifacts, gpu, outside, history>>

-----------------------------------------------------------------------------
(* The environment.                                                        *)

BenchmarkEnds ==
    /\ benchAlive
    /\ benchAlive' = FALSE
    /\ UNCHANGED <<config, pc, window, decision, counters, artifacts, gpu,
                   exitCode, stopFile, history>>

StopRequested ==
    /\ ~stopFile
    /\ stopFile' = TRUE
    /\ UNCHANGED <<config, pc, window, decision, counters, artifacts, gpu,
                   exitCode, benchAlive, history>>

(* No handler is installed: a signal ends the process between two calls.   *)
Kill ==
    /\ pc # "exited"
    /\ Exit(Killed)
    /\ UNCHANGED <<config, window, decision, counters, artifacts, gpu, outside, history>>

RunnerStep ==
    \/ RejectArguments \/ Initialize \/ Announce \/ InitialDecision \/ FinishPrerun
    \/ EnterLoop \/ Check \/ BuildWindow \/ OnWindow
    \/ Validate \/ ApplyNothing \/ ApplyClock \/ PersistState
    \/ AppendDecisionRow \/ WriteLastDecision \/ LogDecision
    \/ HandleFailure \/ Sleep \/ Finalize \/ FinishLoop

Done == pc = "exited" /\ UNCHANGED vars

Next == RunnerStep \/ BenchmarkEnds \/ StopRequested \/ Kill \/ Done

Spec == Init /\ [][Next]_vars

(* Every call returns; the benchmark ends one day.                         *)
FairSpec == Spec /\ WF_vars(RunnerStep) /\ WF_vars(BenchmarkEnds)

-----------------------------------------------------------------------------
(* Properties.                                                             *)

Labels == {"main", "announce", "initial_decision", "finish_prerun",
           "enter_loop", "check", "build_window", "on_window", "validate",
           "apply", "persist", "append_row", "write_last", "log_decision",
           "handle_failure", "sleep", "finalize", "finish_loop", "exited"}

(* The type of every variable.                                             *)
TypeOK ==
    /\ config \in Configs
    /\ pc \in Labels
    /\ window \in Nat \cup {Prelaunch}
    /\ decision \in Decisions(Targets)
    /\ counted \in Nat /\ consecutive \in Nat /\ failed \in Nat /\ longest \in Nat
    /\ aborted \in BOOLEAN
    /\ snapshot \in Nat \cup {Torn}
    /\ rows \in Seq(Nat \cup {Prelaunch})
    /\ lastDecision \in Nat \cup {Prelaunch, NoClock}
    /\ summary \in [status : {"none", "aborted", "completed"},
                    windows : Nat, failures : Nat, longest : Nat]
    /\ clock \in ClockValues
    /\ applied \in {"none", "ok", "failed"}
    /\ exitCode \in {NoExit, 0, 1, 2, Killed}
    /\ stopFile \in BOOLEAN /\ benchAlive \in BOOLEAN
    /\ failures \subseteq Nat /\ IsFiniteSet(failures)
    /\ actuated \subseteq Nat \cup {Prelaunch}
    /\ lateApplies \in Nat /\ finalized \in BOOLEAN

(* The number of windows whose outcome is known: 0 .. Attempts - 1.        *)
Attempts ==
    IF window = Prelaunch THEN 0
    ELSE IF window \in failures \/ pc = "sleep" THEN window + 1 ELSE window

(* The failure counters written to final_summary.json say what happened:   *)
(* the total is the number of windows that raised, "consecutive" the       *)
(* length of the run of failures that ends with the last window, "longest" *)
(* the length of the longest run, wherever in the window the call raised.  *)
FailureCountersExact ==
    exitCode # Killed =>
    /\ failed = Cardinality(failures)
    /\ (Attempts - consecutive) .. (Attempts - 1) \subseteq failures
    /\ Attempts > consecutive => Attempts - consecutive - 1 \notin failures
    /\ \E s \in 0 .. Attempts : s .. (s + longest - 1) \subseteq failures
    /\ \A s \in 0 .. Attempts : ~(s .. (s + longest) \subseteq failures)

EffectiveLimit == IF config.limit > 1 THEN config.limit ELSE 1

(* The loop aborts when, and only when, the last max(1, limit) windows all *)
(* raised: a loop that goes on has never had that many failures in a row,  *)
(* and an abort has exactly that many behind it.                           *)
AbortIffLimitReached ==
    /\ aborted => (window - EffectiveLimit + 1) .. window \subseteq failures
    /\ pc = "check" => \A s \in 0 .. window :
                          ~(s .. (s + EffectiveLimit - 1) \subseteq failures)

Recorded == {rows[i] : i \in DOMAIN rows}

(* decisions.csv and last_decision.json only tell of decisions that were   *)
(* validated and carried out, in window order and once each; a decision    *)
(* carried out without a row is the current one or belongs to a window     *)
(* counted as failed.                                                      *)
ArtifactsAgree ==
    /\ \A i, j \in DOMAIN rows : i < j => rows[i] < rows[j]
    /\ Recorded \subseteq actuated
    /\ actuated \subseteq Recorded \cup failures \cup {window}
    /\ lastDecision # NoClock => lastDecision \in Recorded

(* The windows the policy counted, the failures the runner counted and the *)
(* windows attempted fit together in final_summary.json: every window that *)
(* did not fail is counted once, one that failed at most once.             *)
SummaryAccounts ==
    summary.status # "none" =>
    /\ summary.failures = Cardinality(failures)
    /\ summary.windows <= Attempts
    /\ Attempts <= summary.windows + summary.failures
    /\ Cardinality(actuated \ {Prelaunch}) <= summary.windows
    /\ summary.status = "aborted" => summary.longest >= EffectiveLimit

(* When the last window attempted succeeded, policy_state.json holds the   *)
(* state the summary was computed from, whatever failed before.            *)
SnapshotCurrent ==
    summary.status # "none" /\ Attempts > 0 /\ Attempts - 1 \notin failures
        => snapshot = summary.windows

(* Exit status 0 is never an overstatement: no abort, a "completed"        *)
(* summary from a windowed run, and a static clock that was commanded and  *)
(* recorded before the benchmark is allowed to start.                      *)
ExitStatusHonest ==
    exitCode = 0 =>
    /\ ~aborted
    /\ config.phase # "prerun" => summary.status = "completed"
    /\ config.phase = "prerun" => summary.status = "none"
    /\ config.static => applied # "failed"
    /\ Prelaunch \in actuated => Prelaunch \in Recorded
    /\ config.phase = "prerun" => lastDecision \in {NoClock} \cup actuated

(* STOP and the end of the benchmark are looked at only between windows,   *)
(* so a clock may still be set afterwards, but only once.                  *)
AtMostOneLateApply == lateApplies <= 1

(* With every call returning and a benchmark that ends, the process exits. *)
Termination == <>(pc = "exited")

(* The process keeps the contract the orchestrator relies on.              *)
Contract == INSTANCE RunnerContract WITH
    Clocks <- ClockValues,
    status <- IF pc = "exited" THEN "exited" ELSE "running",
    phase  <- config.phase,
    static <- config.static

ImplementsContract == Contract!Spec

(* A process that lost finalize() can be told by what it did: it ends with *)
(* status 1, wrote no final_summary.json, and of every window attempted    *)
(* has a row or counted a failure: no window is lost with the summary.     *)
UnfinalizedIsVisible ==
    pc = "exited" /\ exitCode # Killed /\ window # Prelaunch /\ ~finalized =>
    /\ exitCode = 1
    /\ summary.status = "none"
    /\ 0 .. (Attempts - 1) \subseteq Recorded \cup failures

(* control_loop.py says that finalize() is guaranteed to be called: a      *)
(* process that attempted a window and was not killed called it.           *)
FinalizeGuaranteed ==
    pc = "exited" /\ exitCode # Killed /\ Attempts > 0 => finalized
=============================================================================
