# GPU frequency selection: a TLA+ model of the control plane

This directory holds TLA+ modules for the control plane of the repository: the
runner that asks a policy for a GPU clock in every window, the batch script
that owns a job, the rules a decision is validated by, EVeREST, the one
registered policy that probes the clock to learn from it, the policies that
select a static clock, and the algorithm core of EnergyUCB. TLC checks
small instances of them; TLAPS proves the main theorems for all values of the
constants. `PROJECT.json` maps every definition to the lines it translates
and lists runs, mutants (plausible bugs each property catches), findings,
hazards and theorems. Paths below are relative to the repository.

## 1. The system

| Component | State | Operations | Talks to |
|---|---|---|---|
| Batch script `scripts/run/controlled_mode.sbatch` | BENCH_PID, RESET_CLOCK_ATTEMPTED, the statuses | prerun, start benchmark, loop, wait, traps, reset | launches two runners and the benchmark, resets the clock |
| Runner `scripts/run/control_loop.py`, `control_runtime.py` | window index, failure counters, decision, exit status, five files in RUN_DIR | initial decision, the window loop, the except clause, finalize | calls the policy, telemetry, validation and the clock controller |
| Single-window hook `scripts/run/control_hook.py` | `policy_state.json` | one window per process | the same, with state on disk |
| Validation `src/common/experiment` | none | `validate_decision`, `PlatformSpec` | called before every `apply` |
| Actuation `src/common/control` | none | `apply`, `reset` | the shell command that sets the clock |
| Telemetry `src/common/telemetry` | none (reads the environment) | `get_window` | |
| EVeREST `.../everest_reimpl` | rolling history, active phase, phase cache, pending characterisation, counters | `initialize`, `on_window`, `finalize` | phase identifier, characterizer, frequency scaler |
| Fixed-clock baselines, static oracle, Ali 2022 | a selected clock, counters of windows and violations | `initialize` (the selection), `initial_decision`, `on_window`, `finalize` | the configuration file, `PerformanceTarget`; all static: the prerun process sets the clock, the loop holds it |
| EnergyUCB core | none: functions over arm states the caller keeps | reward, mean update, index, argmax, feasible set | not in the registry: no runner reaches it |
| `PerformanceTarget`, registry | none | validation and conversions, look-up | static oracle, EVeREST |
| Contracts | none | look-ups in a constant table | nothing at run time |

**What is hard.** One job is a tree of processes that share only a GPU clock, a
few files and exit statuses. Any call of a window may raise, before or after it
had an effect, including the log writes of the handler that deals with it. The
benchmark, an operator's STOP file and a signal arrive at any point. bash runs
a trap handler only between two commands, and the handlers here do not exit.
EVeREST asks for a clock and learns only a window later whether it got it,
and under the hook it is a new object in every window, with the state of the
last process that managed to save it. A static policy selects its clock twice,
in two processes that read the same configuration file at different times.
PROJECT.json lists these hazards one by one, at their lines, with the
properties that would catch each going wrong.

**What makes it correct.** Runner: counters and artifacts tell what happened,
the abort limit is exact, status 0 is never an overstatement, a run terminates.
Script: the clock is restored last, a static clock holds while the benchmark
runs, no benchmark is left or started wrongly, the job's status is honest.
EVeREST: every decision passes validation, a sensitivity is recorded only from
windows at the clocks it stands for and never replaced in its process, a
characterisation completes once the workload keeps still, the counters tell
what happened. Static policies: the oracle's clock is a profiled one that
tolerates no more loss than the target, or the platform maximum where that point
lies above it; targets of the two types agree; the summary counts the reported
violations and names the clock in force, unless the configuration was edited
between the two processes.
EnergyUCB: the means are empirical, a switch pays for itself.

## 2. Modules

| Module | What it is |
|---|---|
| `ClockGrid` | decisions, `validate_decision`, and the roundings of EVeREST's clocks (pure operators) |
| `ControlLoop` | one runner process: one action per call of `main()`, `run_control_loop()` and `run_initial_decision_only()`, plus the environment |
| `RunnerContract` | abstract specification of a runner, in terms of the clock and the exit status alone |
| `ControlledMode` | the batch script; its two runners are `RunnerContract`'s |
| `ControlHook` | the single-window hook: one process per window over the files of RUN_DIR |
| `PhaseIdentifier` | `PhaseIdentifier.observe()` |
| `EverestPolicy` | `EverestPolicy.initialize()` and `on_window()`, over `PhaseIdentifier` and `ClockGrid` |
| `EverestDeployed` | `EverestPolicy` in its three deployments: live telemetry, the environment of one process, a hook process per window |
| `PerformanceTarget` | `PerformanceTarget` of `types.py` (pure operators) |
| `StaticOracle`, `AliSelection` | `initialize()` of the two selecting policies (pure operators) |
| `StaticJob` | a job under any of the four static policies: prerun, edit of the configuration, loop, summary |
| `EverestClocks` | the three clocks EVeREST computes from a configuration and a sensitivity, over the operators of `ClockGrid` |
| `EnergyUcb` | the functions of EnergyUCB's core, in a session of calls of them |
| `MCAlgorithms` | `EverestClocks` or a session of `EnergyUcb`, over bounded inputs |
| `ClockGrid_proof`, `Algorithms_proof`, `ControlLoop_proof`, `ControlledMode_proof`, `ControlHook_proof`, `PhaseIdentifier_proof`, `EverestDeployed_proof`, `StaticJob_proof` | theorems and proofs |
| `MC*` with `.cfg` | the instances TLC checks |

They compose like this. `ControlLoop` is shown to implement `RunnerContract`
(theorem `Refinement`, and a property of run `control_loop`); `ControlledMode`
extends `RunnerContract` and uses its actions for whichever runner is alive.
What is proved of `ControlledMode` therefore holds with the real runner in the
contract's place. `EverestPolicy` is one of the policies that the abstract
policy of `ControlLoop` stands for, which may return any decision or raise;
`EverestDeployed` extends it with what the three callers keep of it between
windows. `StaticJob` puts `StaticOracle`, `AliSelection` and
`PerformanceTarget` into the two processes of a job. `ControlLoop`,
`EverestPolicy` and `StaticJob` share the validation of `ClockGrid`.

### ControlLoop and the code

`pc` names the call that is about to be made; its values follow the order of
the calls in the source. An action is a call with its outcomes: it returns, or
raises (`Raise`: before the loop the exception reaches `main()` and status 1,
in a window it goes to the except clause), with the effects it may have had by
then. `on_window()` may have counted the window before it raises; a clock
command that fails may have changed the clock; `write_text` truncates before it
writes, so that a failed write leaves a torn file. `counted` is
`state.data["total_windows"]`, `consecutive`, `failed` and `longest` are the
runner's counters, `rows`, `lastDecision`, `snapshot` and `summary` stand for
`decisions.csv`, `last_decision.json`, `policy_state.json` and
`final_summary.json`. `failures`, `actuated`, `lateApplies` and `finalized` are
history variables: no guard reads them. `rows` are the rows of this process:
`decisions.csv` is only ever appended to, and no call of the loop reads it. Two
calls of the loop are outside its `try`, the check of what stops it (`Check`)
and the sleep (`Sleep`: `CONTROL_WINDOW_SECONDS` is never checked for a negative
value); when one raises, the exception reaches `main()`, and the process ends
with status 1. The environment creates the STOP file,
ends the benchmark, and kills the process between any two calls.

### ControlledMode and the code

`script` is the next command. A signal sets `pending`; `At(point)` keeps the
script from going on until `SignalTrap` ran `cleanup`, and `SignalTrap` waits
for a foreground runner to exit, as bash does. In `wait` the handler ends the
wait with status 143. `reset_clock` is attempted once, and may fail with or
without effect. Nothing forwards a signal to the runner: the batch shell is
the process that receives it, and a runner killed by the cluster is
`ExitFailed` of the contract.

### ControlHook and the code

The calls are those of the runner, but each process handles one window and
knows the earlier ones from `policy_state.json` (`file`: absent, torn, or the
windows it counts). Nothing clears a RUN_DIR, so that an earlier run may have left
a state, rows and a last decision (`EarlierRuns`); `earlier` remembers them. The
state is taken over and `decisions.csv` appended to, which is why the properties
tell the rows of this run (`NewRows`) from those it found. The file itself does
not: the windows of two runs in one RUN_DIR have the same numbers there. `Load` is `load_or_initialize_state()`. The caller is not in
the repository: `Call` runs the windows in turn and may retry one that failed.
Because a later process reads what an earlier one left, a kill may also come
inside a write or while the clock command runs. A static policy takes its
initial decision in window 0, and records whatever that process does under
window -1 (`label`), also when there was no initial decision.

### EverestPolicy and the code

One step is one `on_window(metrics)`, with any utilization and any observed
clock: clock commands may be lost, late or refused. The disjuncts are the
return statements of `on_window()` and of the two handlers of a pending
characterisation. `initialize()` fixes `f_high` and `f_low`, which are
constant operators. `cache` is the characterizer's memory, `phase_cache` its
mirror in the policy state. A record keeps the evidence it was computed from
(`allHigh`, `lowClock`, `drift`), which no guard reads.

### EverestDeployed and the code

`deployment` is chosen once. In `"runner"` each window is any telemetry. In
`"batch"` the runner has its default window builder, which reads the
environment of its own process: every window reports the same metrics. In
`"hook"` each window is a process: `OnWindow` is followed by `Save` (the
decision was validated and applied, `persist_state()` wrote pending state,
mirror and counters to `policy_state.json`) or by `Lose` (the process failed or
was killed before that, with or without effect on the clock). Either way the
next process has a new policy object (`NewProcess`): history, active phase and
cache are empty, and `load_or_initialize_state()` restores only `saved`. The
code loads the mirror but never fills the cache from it, which is why a hook
process can only finish a characterisation, never use one. `last` and `steady`
are history variables.

### StaticJob, StaticOracle, AliSelection and the code

`stage` follows the two processes. `PrerunInitialize` and `LoopInitialize` are
the same `initialize()`, over the configuration file as it is at that time;
`EditConfig` lies between them. `Accepts` collects the exceptions of each
policy's `initialize()`, `SelectedClock` its result. In the oracle, `min()` and
`max()` with a key are `LowestPoint` and `FastestPoint`, which return the first
of several best points; the clamp comes after the choice, as in the code. In
`AliSelection` the two fitted models are integer polynomials, and nothing
rejects a negative prediction, as nothing in the code does. `Window` counts a
violation when telemetry reports a ratio below the target; only the oracle
looks at it. Failures of calls are `ControlLoop`'s and `ControlledMode`'s
subject, not this module's.

### EverestClocks and the code

One step computes, from a platform, a configuration and a sensitivity, the two
probe clocks as `initialize()` does and the scaled clock as `_scaled_decision()`
asks `FrequencyScaler` for it. A result is kept beside its input, so that the
properties can compare the two.

### EnergyUcb and the code

An operator per function of `core.py`. Means and rewards are fractions; the
bonus `alpha * sqrt(ln(t) / n)` is an operator constant. The core keeps no state:
`arms` is what its caller keeps between calls, `Learn` one use of
`energy_progress_reward()` and `update_empirical_mean()`, `Choose` one of
`qos_feasible_arm_ids()`, `switching_aware_ucb_index()` and
`deterministic_argmax()`. They come in any order and with any arguments. No code
in the repository makes these calls yet; the package's README says that a runtime
is to come. `total` is a history variable. `choice` is the last choice until the
next reward; as a choice changes no arm, a second one in between would have the
same arms as the first, and `NextCall` leaves it out.

### Abstractions

- Floating point is replaced by fractions of integers (ClockGrid) and by sums
  over the history (PhaseIdentifier), for windows of one duration. Rounding
  errors of the floats are out of scope.
- A phase id is the tuple of its buckets, as in the code, not the string.
- In `ControlLoop` a process is killed between two calls, never inside one: a
  file torn by a kill matters to a later process only, and the runner reads
  none of its files. `ControlHook` has kills inside writes.
- Two jobs do not share a RUN_DIR or a GPU at the same time.
- The benchmark is one process whose pid is not reused while a runner watches
  it. A shell command that hangs is not modelled (see fairness).
- `main()` can also leave with status 1 or 2 on malformed numbers, before any
  effect: those exits are the ones `RejectArguments` and `Initialize` have.
- CSV and JSON formatting, log texts and debug fields are left out.

## 3. Runs

| Run | Question | Result |
|---|---|---|
| `algorithms` | Do EVeREST's probe clocks pass validation, and are they apart where the floor leaves room? Is the scaled clock the one a direct definition picks? Are EnergyUCB's means empirical, and is its chosen arm feasible and worth a switch? | holds |
| `scaler_floor` | Is the ideal clock rounded *up* to a supported clock? | violated |
| `control_loop` | Counters, abort limit, artifacts, summary, snapshot and status right; a missed `finalize()` visible; implements the contract; terminates | holds |
| `finalize_guarantee` | Is `finalize()` called whenever a window was attempted? | violated |
| `controlled_mode` | Clock restored, static clock in force, reset last, no stray benchmark, honest status, the job ends; any failures and one signal from the loop phase on | holds |
| `signal_in_prerun` | Is the clock restored when the signal comes in the prerun phase? | violated |
| `control_hook` | State covers the records, a torn state is never acted on, status 0 and the rows are honest, a static clock is set in window 0 only; with failures, kills, retries, and what an earlier run left in RUN_DIR: its state, its rows and its last decision | holds |
| `phase_identifier` | Does the reported phase match the history? | holds |
| `everest_deployed` | Counters, decisions, records and the evidence behind them with the default one-window history; stale telemetry and lost hook processes; does a characterisation complete? | holds |
| `static_job` | Does the clock set meet the target (the platform maximum excepted, where the chosen point lies above it), do targets of both types agree, are Ali's objectives consistent for positive predictions, does the summary count the reported violations, and name the clock in force when the configuration was not edited between the two processes? | holds |
| `everest_mixed_history` | The same evidence, with a phase window of two telemetry windows | violated |
| `everest_drift` | Does the low probe match the anchor of its phase? | violated |

### What the violated ones show

- **`finalize_guarantee`.** The except clause logs before it counts on. If that
  log write raises as well (a full disk raises in both places), the exception
  leaves `run_control_loop()`: no `finalize()`, no `final_summary.json`. So does
  an exception of the stop check or of the sleep, which are outside the `try`,
  after a window that succeeded. `UnfinalizedVisibleCorrect` proves what is left
  of the guarantee: wherever `finalize()` is missed, the status is 1, the process
  wrote no summary, and every window attempted has a row or is counted as failed.
- **`signal_in_prerun`.** The trap for INT and TERM resets the clock and spends
  the one attempt, but does not exit. The script goes on: it starts the
  benchmark and a loop that sets clocks, and the EXIT trap resets nothing.
- **`scaler_floor`.** With a maximum off the grid, an ideal clock above the last
  grid step is rounded down, below the floor, though the maximum is valid.
  `ScaledRoundsUpOnEvenRanges` proves that such a maximum is the only cause.
- **`everest_mixed_history`.** Only the newest window's clock is compared with
  `f_high`; the rolling average that becomes Mem_high may hold older windows at
  other clocks. With the default configuration the phase window is one
  telemetry window, for which `EvidenceRecordedCorrect` is proved.
- **`everest_drift`.** The high window re-anchors the phase, so that two drifts
  of almost a threshold each pass, and the record goes to the old phase id.
  `DriftBounded` proves that they never add up to two thresholds.

### Bounds, and why they are enough

- `ControlLoop`: at most three windows (`WindowBound`), limits 0 and 2, maxima
  unset and 2, two targets (one valid, one off the grid), two clocks, the
  prerun, loop and combined phases. Three windows hold every pattern of
  failure and success around a limit of 2: reached, interrupted and restarted;
  0 shows that the limit is read as at least 1. At the bound the process only
  waits to be told to stop, which the code does not do; the proofs have no such
  need, since `WindowBound` is any natural number.
- `ControlledMode`: three clocks are enough to tell the default, the static and
  another clock apart; one signal, because the handler's only lasting effect
  (the spent reset) is the same for a second one.
- `ControlHook`: four processes (`CallBound`): a failed one, its retry, and two
  that come after. RUN_DIR is new, or an earlier run left one of five sets of
  files in it: a state without a row, a complete window, an initial decision, a
  second window of which only the state was written, a torn state.
- `PhaseIdentifier`: no bound on the number of windows; three utilization levels
  with a threshold of two make one step tolerable and two a change.
- `EverestDeployed`: seven windows (`MaxWindows`). A characterisation takes two
  or three; `CharacterizedInTime` allows five quiet windows, which is
  tight: with four the run finds a counterexample (a pending
  probe of an earlier phase is given up first). Seven leave two windows before
  the quiet ones. Four pairs of utilizations (idle, busy, two that differ from
  it by less and by more than the threshold); observed clocks at the low probe,
  near it and at the high one; clocks in units of 100 MHz, utilizations in
  units of five points, so that the threshold is the default of ten. The
  platform's maximum is off its grid.
- `EverestPolicy` with two-window histories (the two violated runs): five
  windows are enough for either counterexample.
- `StaticJob`: clocks in units of 30 MHz, so that the paper's GV100 range is
  17 .. 46 and the oracle's floor 30; platforms below, across and above the
  floor, with maxima off the grid; profiles of up to three points with equal
  clocks, equal ratios, missing powers and clocks outside the platform;
  slowdowns of 1/9 and 1/19 and losses of 1/10 and 1/20, which mean the same
  in pairs; Ali configurations with negative predictions, unsorted and empty
  lists; two windows, at, below and without a ratio.
- `MCAlgorithms`: 28 platforms with steps of 2 and 3 and maxima on and off the
  grid, configured values below, inside and above the range; three arms in two
  orders, two optimistic means, up to three rewards of each arm (`MaxPulls`)
  from three observations, one of which has no uncore activity and so no reward;
  between any two of them a choice with every last arm, two times, a penalty or
  none, and four progress tables (all feasible, some, one faster than the
  maximum, none measured at the maximum). An update depends on an arm's mean
  and count alone, so that a second and a third one show what every later one
  does; the proofs need no such bound.

Deadlock is checked wherever a process waits for others. It is off where a run
ends by its bound or its nature: `algorithms` and `scaler_floor` stop after one
computation of clocks, or when every arm has `MaxPulls` rewards and a choice is
made, `static_job` when the summary is written or a process failed,
`control_hook` after its last call, and the EVeREST runs at `MaxWindows`.

### Fairness

`ControlLoop`: weak fairness of `RunnerStep` (a running process makes its next
call, and a call returns or raises; wherever it may raise it may also return, so
that no run is made to end by a raise) and of `BenchmarkEnds`. The second is an
assumption about the workload, needed only where neither `MAX_WINDOWS` nor a
STOP file ends the loop; the code refuses to run a loop that watches no
benchmark and has no maximum. `Termination` fails without the benchmark's end
or if the loop did not watch it (its mutant).

`ControlledMode`: weak fairness of the script, of the benchmark's end, and of a
runner's exit once it is the prerun process or the benchmark is gone. The last
is what `Termination` of `ControlLoop` establishes. It is not assumed that a
runner exits while the benchmark runs.

## 4. Proofs

**ClockGrid_proof**: for every platform with a positive step whose minimum does
not exceed its maximum, the high probe clock is valid (`HighClockValid`), the
low one is valid and not higher (`LowClockValid`), and the scaled clock is
valid (`ScaledClockValid`), whatever is configured. `ProbeClocksApart` says when
the two probe clocks are one: only if the floor leaves no clock of the grid a
step below the high one (`QuantizeDownIsHighest`: rounding down passes none). The lemmas state what the
roundings up and down return; `QuantizeUpWithinIsBest` says that the scaler's
rounding gives the lowest multiple of the step that is not below what was asked
for, or else the highest one within the bounds.

**Algorithms_proof**, for every platform, configuration, number of arms, order of
them and sequence of calls:

- `ProbeClocksCorrect` puts three theorems of `ClockGrid_proof` together.
- `ScaledClockCorrect`: the scaled clock is the least element of the grid at or
  above the clamped ideal clock, or the greatest of the grid when there is none:
  the multiple of the step that the rounding returns (`QuantizeUpWithinIsBest`)
  against the set that the property minimises over.
- `ScaledRoundsUpOnEvenRanges`: with a whole number of steps between minimum and
  maximum the high clock is on the grid (`HighOnGrid`), and rounding the floor
  up from below cannot overshoot it.
- `MeansCorrect`. `MeansAreEmpirical` is inductive with the types of means and
  totals (`SessionInv`): one update keeps mean times pulls the sum of the
  rewards, and the first one cancels the optimistic mean. Cross-multiplied
  fractions are products of five numbers, which the solver does not normalise;
  `Products` and the lemmas after it do so in steps.
- `ArgmaxIsFirstBest`: the recursive function behind `deterministic_argmax()`
  exists and returns the first of the best arms, by least counterexamples.
- `SwitchCorrect`: what the first-best arm's switching index says of its plain
  index, with the penalty subtracted on one side only (`PenaltyPaid`), and the
  arithmetic that turns a feasible loss into a tolerated progress. The
  invariant `ChoiceInv` is the property with the arms of the choice in types.

**ControlLoop_proof**, for every platform, policy, configuration and number of
windows:

- `TypeCorrect`. Not immediate, because the clock must be one of the GPU's
  values: it depends on `decision` being valid at `pc = "apply"`.
- `Refinement`: `Spec => ImplementsContract`. The mapping hides everything but
  phase, kind of policy, clock, last outcome and exit status. A step maps to
  `Command`, `ExitOk`, `ExitFailed` or a stutter; the inductive invariant says
  which program points a phase can reach, that a static policy's decision in
  the loop never requires a clock change, that it has commanded nothing before
  its one command, and that it never reaches a successful end with a failed
  command.
- `ArtifactsCorrect`. `ArtifactsAgree` is not inductive: it is strengthened by
  the position of the program counter relative to the rows (all rows are of
  earlier windows until `append_row` ran) and by `actuated` containing the
  current window while its row is written.
- `ExitStatusCorrect`, from the same invariant and one on the outcome: at
  `finish_loop` the summary is complete and says whether the run was aborted.

Its second part is about what one process counts. Most steps are `Quiet` (they touch nothing that is counted of failures); the others are the
end of a good window, a failed one, `Sleep`, `EnterLoop` and `Kill`, and the
lemma `StepKinds` says so once.

- `FailureCountersCorrect`. The invariant adds that the current run of failures
  is not longer than the longest and that no window which is not settled is
  among the failures; `RunEnds` and `RunGrows` are the two things one more
  window can do to the runs.
- `AbortCorrect`: until the loop is over the longest run stays below
  `max(1, limit)`, so a failure that reaches the limit makes it exactly that long.
- `LateApplyBounded`: after one late clock the process is past `apply` with the end
  already visible, and the next check leaves the loop.
- `SnapshotCorrect`: the snapshot is the counted state from `append_row` to the end
  of a window that did not fail, and until the summary if nothing follows.
- `SummaryCorrect`: from `on_window` to the end of its window the policy is one
  ahead of the windows attempted; a failure closes the gap on one side or the
  other.
- `UnfinalizedVisibleCorrect`: after each step the windows attempted are among
  the rows and the failures (`Traced`), because a good window has its row before
  the sleep and a failed one is counted before its log line; and a process that
  ends in the loop without `finalize()` ends with status 1 (`Unfinished`).

**ControlledMode_proof**: `ModeTypeCorrect`, `StrayBenchmarkCorrect` and
`JobStatusCorrect` hold wherever the signal arrives. `ClockRestoredCorrect`,
`ResetIsLast` and `StaticClockCorrect` assume `SignalsAreLate`, that the signal
arrives after the loop process has started; run `signal_in_prerun` shows that
they need it. The invariant ties the script's position to the runner's phase
and status, to the benchmark, and to the reset: once attempted, no runner is
alive and the clock is the default, unless the command failed.

**ControlHook_proof**: `HookTypeCorrect`, `TornStopsCorrect`,
`StaticClockHeldCorrect`, `SuccessRecordedCorrect` and
`RowsTellRetriesCorrect`, for any number of processes and any files an earlier
run left. The invariant says that a process which got past `Load` has a
readable state behind it, what is in the files at each later call, and that
new rows before `append_row` are of earlier windows or of a failed process for
this one. `StateCoversRowsCorrect` counts the rows: its invariant `Cover` says
where the file stands between the number of new rows and the number of
processes, both from the count an earlier run left, at each call (ahead of the rows from `persist_state()` to `append_row`, behind
the processes until then), and that an absent file means that no row was written.

**PhaseIdentifier_proof**, for every window length, phase window, threshold and
telemetry: `PhaseMatchesHistoryCorrect`. The
invariant bounds the history by `Capacity` and keeps the anchor a point. That
the averages are numbers at all needs the existence of the running-sum
function that `Total` chooses: it is shown by a least counterexample over the
naturals (well-foundedness of `<`), the one kind of induction available here.
`UnevenWindowFindsNoPhase` is about the other phase windows: when the phase window
is longer than the telemetry window and no multiple of it, the history is
trimmed before it fills (`NeverFull`), so no phase is ever reported.

**EverestDeployed_proof**, for every platform, configuration, telemetry, number
of windows and loss of hook processes. One lemma, `WindowOutcome`, says that
`on_window()` has one of seven outcomes (unstable, hit, miss, begun, advanced,
given up, recorded), each with the counters it moves; every property is then
one case analysis, and `Save` and `Lose` carry it over a process boundary
because it holds of the saved state as well.

- `EverestTypeCorrect` and `EverestDecisionsValid`: pending states and records are
  well formed, so that every target comes from the clocks `ClockGrid_proof`
  shows valid.
- `CountersTellCorrect`: the same inequalities for the state and the saved
  state; in one process the pending phase has no record yet, so that a
  record adds one to the cache and to the counter.
- `RecordsKeptCorrect`: from the same fact, and `saved` knowing no phase that
  the mirror has forgotten.
- `EvidenceRecordedCorrect` assumes `Capacity = 1` (the default; run
  `everest_mixed_history` shows that it needs it) and probe clocks more than
  two tolerances apart; the invariant is that a pending low probe has only high
  windows behind it, in memory and in the file.
- `NoStaleEvidenceCorrect` assumes the same of the clocks: in `"batch"` a pending
  low probe means that the one window there is ran at the high clock, which
  the low window cannot then match; in `"hook"` a scaled window is preceded by
  the one that left the probe pending.
- `DriftBounded`, for every history length: a pending low probe is within one
  threshold of the utilization its characterisation began with, in memory and
  in the file, and the low window is within one of the probe.
- `CharacterizedInTimeCorrect` assumes that one telemetry window fills the history
  (`Duration >= PhaseSeconds`; by default they are equal). Its invariant
  `StillInv`, which TLC checked on the instance of the run first, lists how far
  the characterisation of the still workload can be after each number of quiet
  windows: after the first another phase's low probe may still be pending, the
  second gives it up, the third begins the own one, the fourth is its high
  probe and the fifth its low one. `DoneStays` is why it then stays recorded.

**StaticJob_proof**, for every set of jobs, profiles, platforms, targets and
edits: `StaticJobTypeCorrect`, `OracleMeetsTargetCorrect`,
`LooserTargetNotHigherCorrect`, `Ed2pNotSlowerCorrect`,
`SummaryTruthfulCorrect`. All rest on the existence of a first best element of
a finite index set (a least counterexample again). That the two target types
agree is algebra on the fractions: a slowdown `s` tolerates the loss
`s / (1 + s)`, so that `MinimumRatio` and one minus `RelativeLoss` are the same
number. `Ed2pNotSlower` is the exchange argument: the two objectives order two
clocks differently only if the one ED2P takes is faster.

Assumptions are the named `ASSUME`s of the modules, which TLC evaluates in the
runs, `SignalsAreLate` where stated, the two about EVeREST's evidence, the one
about its phase window in `CharacterizedInTimeCorrect`, and the even ranges of
`ScaledRoundsUpOnEvenRanges`. Late signals, one-window histories and even ranges
exclude what a run shows violated; that the probe clocks are more than two
tolerances apart holds by default, where the tolerance is half a step, unless
they are a step or less apart.

**Model-checked only.** Liveness under fairness (`Termination`, `JobEnds`), which
the prover does not reach. Every other property of a passing run is the
statement of a theorem. `CharacterizedInTime` is about a history of one telemetry
window, in the run and in the theorem. A longer one takes longer: near the idle
thresholds a history that mixes two workloads is a phase of its own, whose probe
comes first, and in a history of three windows a workload can still be pending
after seven of its windows. A hook process never fills a longer history.

## 5. Not modelled

- The admission contracts (`contracts.py`): a constant table of methods and
  requirements with set differences over it. Nothing at run time calls it, and
  a model would repeat the table.
- The parsing of profiles, Ali configurations and EVeREST's configuration:
  `Parses` and the constants' assumptions say what it lets through.
- The hook's exits with status 2 for a missing RUN_DIR or BENCH_ID.
- Windows of different durations in the phase identifier. A phase window that
  is not a whole number of telemetry windows is in `PhaseIdentifier`'s
  assumptions and theorems; no run has one.
- Power and energy in telemetry: no modelled decision reads them. EVeREST's
  violation counters, the oracle's line by line, are modelled in `StaticJob`.
- Argument parsing and environment exports of the script, the manifest, log
  texts, plotting, the submodule update script.
- `ClockController.reset()`: nothing in the repository calls it.

The oracle's reproduction plan gives `target_ratio = 1 - PD` and says that this
matches the source. It does for a target of the type
`relative_performance_loss`; the default type, `runtime_slowdown`, gives
`1 / (1 + PD)`. `PerformanceTarget` follows the source.

## 6. Plan

1. Proofs: the number of windows a characterisation takes with longer histories;
   which windows are behind a record when the history is longer than one.
2. `EverestRun`: `EverestPolicy` under the runner's failures (a window whose
   decision is not applied or not recorded), composed with `ControlLoop`'s
   order of calls; a model of the clock with delay in place of free telemetry.
3. Windows of different durations in `PhaseIdentifier`.
4. An EnergyUCB controller, when the repository has one.
