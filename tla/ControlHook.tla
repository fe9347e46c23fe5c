----------------------------- MODULE ControlHook -----------------------------
(***************************************************************************)
(* scripts/run/control_hook.py: one process per window.  What a window     *)
(* knows of the earlier ones is in policy_state.json, which each process   *)
(* loads, and rewrites when its decision has been applied.  Any call may   *)
(* raise, a signal may end the process anywhere, and a write that does not *)
(* finish leaves a file nobody can read.                                   *)
(*                                                                         *)
(* The caller is not in the repository: it runs the hook for the windows   *)
(* in turn, one process at a time, and may retry one that failed.          *)
(***************************************************************************)
EXTENDS ClockGrid, FiniteSets, Sequences

CONSTANTS Platform,         \* the platform validated against
          Targets,          \* the clocks a policy may ask for
          ClockValues,      \* the values the GPU clock can have
          EarlierRuns,      \* what RUN_DIR may hold when the run begins
          CallBound,        \* bound: the number of processes
          Killed            \* exit status of a process ended by a signal

Prelaunch == -1             \* the window index of the initial decision
Absent == -2                \* no policy_state.json
Torn == -1                  \* one whose write did not finish

(* The three files as an earlier run in RUN_DIR left them: the windows its *)
(* state counts, the windows of its rows, and that of its last decision.   *)
ASSUME ControlHookAssumption ==
    /\ IsPlatform(Platform)
    /\ Targets \subseteq Int
    /\ {c \in Targets : ValidClock(c, Platform)} \cup {Platform.max} \subseteq ClockValues
    /\ \A r \in EarlierRuns : /\ r.file \in Nat \cup {Absent, Torn}
                              /\ r.rows \in Seq(Nat \cup {Prelaunch})
                              /\ r.last \in Nat \cup {Prelaunch, NoClock}
    /\ CallBound \in Nat
    /\ Killed \in Int \ {0, 1}

Hold == [action |-> "hold_clock", target |-> NoClock]

(* A StaticPolicy's on_window() never asks for a clock change.             *)
WindowDecisions(s) ==
    IF s THEN {Hold, [action |-> "no_op", target |-> NoClock]} ELSE Decisions(Targets)

VARIABLES
    static, dryRun,         \* the policy's kind; no command template
    earlier,                \* history: the files the run found in RUN_DIR
    file,                   \* windows counted in policy_state.json, or above
    rows,                   \* decisions.csv: the windows of its rows
    lastDecision,           \* the window in last_decision.json, or NoClock
    clock,                  \* the GPU clock
    pc,                     \* the call about to be made; "idle": no process
    window,                 \* WINDOW_INDEX of this process
    label,                  \* decision_window_index
    decision, counted,      \* the decision in hand, the state in memory
    exitCode,               \* of the last process
    calls,                  \* history: number of processes started
    actuated,               \* history: windows whose decision was applied
    failed                  \* history: windows whose process failed

fixed == <<static, dryRun, earlier>>
files == <<rows, lastDecision>>
hand  == <<window, label, decision, counted>>
past  == <<actuated, failed>>
vars  == <<fixed, file, files, clock, pc, hand, exitCode, calls, past>>

(* Nothing clears a RUN_DIR: the state of an earlier run there is taken    *)
(* over, and the rows are appended to its decisions.csv.                   *)
Init ==
    /\ static \in BOOLEAN /\ dryRun \in BOOLEAN
    /\ earlier \in EarlierRuns
    /\ file = earlier.file /\ rows = earlier.rows /\ lastDecision = earlier.last
    /\ clock \in ClockValues
    /\ pc = "idle" /\ window = Prelaunch /\ label = Prelaunch
    /\ decision = Hold /\ counted = 0
    /\ exitCode = 0
    /\ calls = 0
    /\ actuated = {} /\ failed = {}

-----------------------------------------------------------------------------
Call ==
    /\ pc = "idle" /\ calls < CallBound
    /\ window' \in {window + 1} \cup (IF window \in failed /\ exitCode # 0 THEN {window} ELSE {})
    /\ label' = window'
    /\ decision' = Hold /\ counted' = 0
    /\ calls' = calls + 1
    /\ pc' = "load"
    /\ UNCHANGED <<fixed, file, files, clock, exitCode, past>>

Goto(l) == pc' = l /\ UNCHANGED <<exitCode, failed>>

Ends(rc) ==
    /\ pc' = "idle"
    /\ exitCode' = rc
    /\ failed' = IF rc = 0 THEN failed ELSE failed \cup {window}

BugFailure == 0             \* seeded bug: the except clause returns 0

Failure == 1

(* The except clause: whatever raised, and whether its log line is written.*)
Raise == Ends(Failure)

BugMissing == file \in {Absent, Torn}  \* seeded bug: torn is as good as absent

Missing == file = Absent

BugLoaded == 0              \* seeded bug: a state that exists is not read

Loaded == file

(* Configuration, policy and context, which may raise, then                *)
(* load_or_initialize_state(): an existing file is the state, and an       *)
(* unreadable one raises; without a file the initial state is saved.       *)
Load ==
    /\ pc = "load"
    /\ \/ Raise /\ UNCHANGED <<file, counted>>
       \/ Missing /\ file' = 0 /\ counted' = 0 /\ Goto("decide")
       \/ Missing /\ file' = Torn /\ Raise /\ UNCHANGED counted
       \/ ~Missing /\ file # Torn /\ counted' = Loaded /\ Goto("decide") /\ UNCHANGED file
    /\ UNCHANGED <<fixed, files, clock, window, label, decision, calls, actuated>>

BugTakesInitial == static   \* seeded bug: in every window

TakesInitial == window = 0 /\ static

(* A static policy's initial decision is what its window 0 does, instead   *)
(* of on_window(), and has the window index -1.                            *)
DecideInitial ==
    /\ pc = "decide" /\ TakesInitial
    /\ decision' \in Decisions(Targets)
    /\ label' = Prelaunch
    /\ Goto("validate")
    /\ UNCHANGED <<fixed, file, files, clock, window, counted, calls, actuated>>

(* on_window().  A static policy without an initial decision gets here in  *)
(* window 0 too, and that window is recorded as window -1.                 *)
DecideWindow ==
    /\ pc = "decide"
    /\ decision' \in WindowDecisions(static)
    /\ counted' = counted + 1
    /\ label' = IF TakesInitial THEN Prelaunch ELSE window
    /\ Goto("validate")
    /\ UNCHANGED <<fixed, file, files, clock, window, calls, actuated>>

DecideRaises ==
    /\ pc = "decide"
    /\ Raise
    /\ UNCHANGED <<fixed, file, files, clock, hand, calls, actuated>>

BugValidate ==              \* seeded bug: the decision is not validated
    /\ pc = "validate"
    /\ Goto("apply")
    /\ UNCHANGED <<fixed, file, files, clock, hand, calls, actuated>>

Validate ==
    /\ pc = "validate"
    /\ IF validate_decision(decision, Platform) THEN Goto("apply") ELSE Raise
    /\ UNCHANGED <<fixed, file, files, clock, hand, calls, actuated>>

ApplyNothing ==
    /\ pc = "apply"
    /\ ~RequiresClockChange(decision) \/ decision.target = NoClock
    /\ actuated' = actuated \cup {label}
    /\ Goto("persist")
    /\ UNCHANGED <<fixed, file, files, clock, hand, calls>>

BugCommandFailed ==         \* seeded bug: the exit status is not checked
    clock' \in {clock, decision.target} /\ UNCHANGED actuated /\ Goto("persist")

(* A command that fails may have changed the clock all the same.           *)
CommandFailed == clock' \in {clock, decision.target} /\ UNCHANGED actuated /\ Raise

ApplyClock ==
    /\ pc = "apply"
    /\ RequiresClockChange(decision) /\ decision.target # NoClock
    /\ \/ /\ clock' = IF dryRun THEN clock ELSE decision.target
          /\ actuated' = actuated \cup {label}
          /\ Goto("persist")
       \/ ~dryRun /\ CommandFailed
       \/ Raise /\ UNCHANGED <<clock, actuated>>    \* the log line
    /\ UNCHANGED <<fixed, file, files, hand, calls>>

(* write_text truncates the file before it writes it.                      *)
PersistState ==
    /\ pc = "persist"
    /\ \/ file' = counted /\ Goto("append_row")
       \/ file' \in {file, Torn} /\ Raise
    /\ UNCHANGED <<fixed, files, clock, hand, calls, actuated>>

AppendDecisionRow ==
    /\ pc = "append_row"
    /\ \/ rows' = Append(rows, label) /\ Goto("write_last")
       \/ UNCHANGED rows /\ Raise
    /\ UNCHANGED <<fixed, file, lastDecision, clock, hand, calls, actuated>>

WriteLastDecision ==
    /\ pc = "write_last"
    /\ \/ lastDecision' = label /\ Goto("log_decision")
       \/ lastDecision' \in {lastDecision, NoClock} /\ Raise
    /\ UNCHANGED <<fixed, file, rows, clock, hand, calls, actuated>>

LogDecision ==
    /\ pc = "log_decision"
    /\ Ends(0) \/ Raise
    /\ UNCHANGED <<fixed, file, files, clock, hand, calls, actuated>>

(* A signal may come inside a write, or while the clock command runs.      *)
Kill ==
    /\ pc # "idle"
    /\ Ends(Killed)
    /\ file' \in IF pc = "persist" \/ (pc = "load" /\ Missing) THEN {file, Torn} ELSE {file}
    /\ lastDecision' \in IF pc = "write_last" THEN {lastDecision, NoClock} ELSE {lastDecision}
    /\ clock' \in IF pc = "apply" /\ RequiresClockChange(decision)
                                  /\ decision.target # NoClock /\ ~dryRun
                  THEN {clock, decision.target} ELSE {clock}
    /\ UNCHANGED <<fixed, rows, hand, calls, actuated>>

HookStep ==
    \/ Load \/ DecideInitial \/ DecideWindow \/ DecideRaises \/ Validate
    \/ ApplyNothing \/ ApplyClock \/ PersistState \/ AppendDecisionRow
    \/ WriteLastDecision \/ LogDecision

Next == Call \/ HookStep \/ Kill

Spec == Init /\ [][Next]_vars

-----------------------------------------------------------------------------
(* Properties.                                                             *)

Labels == {"idle", "load", "decide", "validate", "apply", "persist",
           "append_row", "write_last", "log_decision"}

(* The type of every variable.                                             *)
TypeOK ==
    /\ static \in BOOLEAN /\ dryRun \in BOOLEAN /\ earlier \in EarlierRuns
    /\ file \in Nat \cup {Absent, Torn}
    /\ rows \in Seq(Nat \cup {Prelaunch})
    /\ lastDecision \in Nat \cup {Prelaunch, NoClock}
    /\ clock \in ClockValues
    /\ pc \in Labels
    /\ window \in Nat \cup {Prelaunch} /\ label \in Nat \cup {Prelaunch}
    /\ decision \in Decisions(Targets)
    /\ counted \in Nat
    /\ exitCode \in {0, 1, Killed}
    /\ calls \in Nat
    /\ actuated \subseteq Nat \cup {Prelaunch} /\ failed \subseteq Nat

(* The rows this run appended.                                             *)
NewRows == {i \in DOMAIN rows : i > Len(earlier.rows)}

WindowRows == {i \in NewRows : rows[i] # Prelaunch}

EarlierCount == IF earlier.file \in Nat THEN earlier.file ELSE 0

(* The state on disk is neither behind the decisions this run recorded nor *)
(* ahead of its processes, and goes on from the count an earlier run left: *)
(* every row of a window was counted before it was written, and a process  *)
(* counts one window at most, whether it failed, was killed, or ran again. *)
StateCoversRows ==
    file \in Nat => /\ EarlierCount + Cardinality(WindowRows) <= file
                    /\ file <= EarlierCount + calls

(* A torn state is never acted on and never replaced: no later process     *)
(* sets a clock or records a decision from a state it could not read.      *)
TornStops == [][file = Torn => UNCHANGED <<file, files, clock>>]_vars

(* Status 0 means that the decision was carried out and is in all three    *)
(* files, under the same window, in a row of this run.                     *)
SuccessRecorded ==
    pc = "idle" /\ exitCode = 0 /\ window # Prelaunch =>
    /\ label \in actuated
    /\ Len(rows) \in NewRows /\ rows[Len(rows)] = label
    /\ lastDecision = label
    /\ file = counted

WindowOf(r) == IF r = Prelaunch THEN 0 ELSE r

(* What this run appended to decisions.csv follows the order of the        *)
(* windows, has rows only of decisions that were carried out, and two of   *)
(* one window only after a process for it failed.  The rows of an earlier  *)
(* run stand before them, and nothing in the file tells the two apart.     *)
RowsTellRetries ==
    /\ \A i \in NewRows : rows[i] \in actuated
    /\ \A i, j \in NewRows : i < j =>
          \/ WindowOf(rows[i]) < WindowOf(rows[j])
          \/ WindowOf(rows[i]) = WindowOf(rows[j]) /\ WindowOf(rows[i]) \in failed

(* A static policy's clock is set by the processes of window 0 only.       *)
StaticClockHeld == [][static /\ window > 0 => UNCHANGED clock]_vars
=============================================================================
