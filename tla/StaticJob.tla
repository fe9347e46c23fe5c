------------------------------ MODULE StaticJob ------------------------------
(***************************************************************************)
(* A job under a static policy, seen from the policy: the prerun process   *)
(* reads the configuration, selects a clock and sets it; the loop process  *)
(* reads the configuration again, selects again, and never sets a clock:   *)
(* it counts windows and violations of the target, and writes the summary. *)
(* The file may be edited between the two.  Failures of calls are in       *)
(* ControlLoop and ControlledMode.                                         *)
(***************************************************************************)
EXTENDS StaticOracle, AliSelection, FiniteSets

CONSTANTS Jobs,             \* [policy, platform, target, config] of a job
          Targets,          \* performance targets a job may be given
          Edits(_),         \* what a policy's configuration may be edited to
          Ratios,           \* performance ratios (percent) telemetry may report
          NoRatio,          \* a window without one
          MaxWindows        \* bound: windows of the loop

Policies == {"max_freq", "min_freq", "oracle_static", "ali_2022_reimpl"}

(* A file that the parsers of the policy accept.                           *)
Parses(policy, c) == /\ policy = "oracle_static" => IsOracleConfig(c)
                     /\ policy = "ali_2022_reimpl" => c \in AliConfigs

ASSUME StaticJobAssumption ==
    /\ \A j \in Jobs : /\ j.policy \in Policies /\ IsPlatform(j.platform)
                       /\ j.target \in Targets
                       /\ \A c \in {j.config} \cup Edits(j.policy) : Parses(j.policy, c)
    /\ \A t \in Targets : ValidTarget(t)
    /\ Ratios \subseteq Nat /\ NoRatio \notin Nat
    /\ MaxWindows \in Nat

VARIABLES job,              \* what the job was started with
          config,           \* the policy configuration, as it is now
          stage,            \* of the job; "failed" and "finished" are final
          selected,         \* selected_clock_mhz of the process that runs
          clock,            \* the GPU clock, NoClock until a command sets it
          count,            \* the counters of the loop's state
          summary,          \* final_summary.json
          reports           \* history: what telemetry reported, per window

vars == <<job, config, stage, selected, clock, count, summary, reports>>

NoSummary == [clock |-> NoClock]

Init ==
    /\ job \in Jobs
    /\ config = job.config
    /\ stage = "prerun"
    /\ selected = NoClock /\ clock = NoClock
    /\ count = [total |-> 0, violations |-> 0, worst |-> 0]
    /\ summary = NoSummary
    /\ reports = <<>>

-----------------------------------------------------------------------------
(* initialize() of the four policies of the registry that are static.      *)

Accepts(policy, c, p, t) ==
    \/ policy \in {"max_freq", "min_freq"}
    \/ policy = "oracle_static" /\ OracleAccepts(c, p, t)
    \/ policy = "ali_2022_reimpl" /\ AliAccepts(c, p)

SelectedClock(policy, c, p, t) ==
    CASE policy = "max_freq" -> p.max
      [] policy = "min_freq" -> p.min
      [] policy = "oracle_static" -> OracleClock(c, p, t)
      [] policy = "ali_2022_reimpl" -> AliClock(c, p)

Initialize(from, to) ==
    /\ stage = from
    /\ IF Accepts(job.policy, config, job.platform, job.target)
       THEN /\ selected' = SelectedClock(job.policy, config, job.platform, job.target)
            /\ stage' = to
       ELSE UNCHANGED selected /\ stage' = "failed"
    /\ UNCHANGED <<job, config, clock, count, summary, reports>>

PrerunInitialize == Initialize("prerun", "selected")

(* initial_decision(), validate_decision() and apply().                    *)
PrerunApply ==
    /\ stage = "selected"
    /\ IF validate_decision([action |-> "set_clock", target |-> selected], job.platform)
       THEN clock' = selected /\ stage' = "applied"
       ELSE UNCHANGED clock /\ stage' = "failed"
    /\ UNCHANGED <<job, config, selected, count, summary, reports>>

(* Somebody edits the file before the second process reads it.             *)
EditConfig ==
    /\ stage = "applied" /\ config = job.config
    /\ config' \in Edits(job.policy) \ {config}
    /\ UNCHANGED <<job, stage, selected, clock, count, summary, reports>>

LoopInitialize == Initialize("applied", "running")

-----------------------------------------------------------------------------
(* Targets and reports in units of 1 / (100 * target[2]).                  *)
Shortfall(t, r) == MinimumRatio(t)[1] * 100 - r * MinimumRatio(t)[2]

Below(t, r) == r # NoRatio /\ Shortfall(t, r) > 0

BugWorst(worst, s) == s     \* seeded bug: the newest shortfall replaces the worst

Worst(worst, s) == IF s > worst THEN s ELSE worst

(* on_window(): holds.  Only the oracle looks at the reported ratio.       *)
Window(r) ==
    LET violated == job.policy = "oracle_static" /\ Below(job.target, r) IN
    /\ stage = "running" /\ count.total < MaxWindows
    /\ count' = [total      |-> count.total + 1,
                 violations |-> count.violations + (IF violated THEN 1 ELSE 0),
                 worst      |-> IF violated THEN Worst(count.worst, Shortfall(job.target, r))
                                            ELSE count.worst]
    /\ reports' = Append(reports, r)
    /\ UNCHANGED <<job, config, stage, selected, clock, summary>>

Finalize ==
    /\ stage = "running"
    /\ summary' = [clock |-> selected, total |-> count.total,
                   violations |-> count.violations, worst |-> count.worst]
    /\ stage' = "finished"
    /\ UNCHANGED <<job, config, selected, clock, count, reports>>

Next ==
    \/ PrerunInitialize \/ PrerunApply \/ EditConfig \/ LoopInitialize
    \/ \E r \in Ratios \cup {NoRatio} : Window(r)
    \/ Finalize

Spec == Init /\ [][Next]_vars

-----------------------------------------------------------------------------
(* Properties.                                                             *)

TypeOK ==
    /\ job \in Jobs
    /\ stage \in {"prerun", "selected", "applied", "running", "finished", "failed"}
    /\ selected \in Int \cup {NoClock} /\ clock \in Int \cup {NoClock}
    /\ count \in [total : Nat, violations : Nat, worst : Nat]
    /\ reports \in Seq(Ratios \cup {NoRatio})

(* The loss of performance that a target, of either type, tolerates.       *)
Tolerable(point, t) ==
    (100 - point.ratio) * RelativeLoss(t)[2] <= 100 * RelativeLoss(t)[1]

(* A clock that was set is one the platform has; a faithful oracle's is    *)
(* that of a profiled point with a tolerable loss, or the maximum clock    *)
(* where that point lies above it, it respects the paper's floor, and no   *)
(* lower profiled clock in the domain would have been tolerable.           *)
OracleMeetsTarget ==
    clock # NoClock =>
    /\ ValidClock(clock, job.platform)
    /\ job.policy = "oracle_static" /\ Provenance(job.config) = "workload" =>
         LET c      == job.config
             p      == job.platform
             enough == {Profile(c)[i].freq : i \in
                          {k \in InDomain(c, p) : Tolerable(Profile(c)[k], job.target)}}
         IN  /\ clock \in enough \/ (clock = p.max /\ \E f \in enough : f > p.max)
             /\ clock >= EffectiveFloor(c, p)
             /\ \A f \in enough : f >= clock

(* A job that tolerates at least as large a loss, stated as a slowdown or  *)
(* as a loss, gets no higher clock from the same profile, also where the   *)
(* oracle falls back to the fastest point of a proxy: so that equal        *)
(* targets of the two types get the same clock.                            *)
LooserTargetNotHigher ==
    stage = "selected" /\ job.policy = "oracle_static" =>
    \A t \in Targets :
        HasTarget(t) /\ AtMost(RelativeLoss(job.target), RelativeLoss(t)) =>
            /\ OracleAccepts(job.config, job.platform, t)
            /\ OracleClock(job.config, job.platform, t) <= selected

(* Weighting the delay more never makes the predicted run slower, and the  *)
(* energy-delay products of an accepted configuration are compared over    *)
(* clocks up to f_max only.  The models have to predict a positive power   *)
(* and runtime, which nothing in the code checks.                          *)
Plausible(c, p) ==
    \A i \in DOMAIN Frequencies(c, p) :
        /\ Power(c, Frequencies(c, p)[i]) > 0
        /\ Runtime(c, Frequencies(c, p)[i], FMax(c, p)) > 0

Ed2pNotSlower ==
    stage = "selected" /\ job.policy = "ali_2022_reimpl" =>
    LET c     == job.config
        p     == job.platform
        For(o) == AliClock([c EXCEPT !.objective = o], p)
    IN  /\ selected <= FMax(c, p)
        /\ Plausible(c, p) =>
             Runtime(c, For("ed2p"), FMax(c, p)) <= Runtime(c, For("edp"), FMax(c, p))

Violating == {i \in DOMAIN reports : Below(job.target, reports[i])}

(* The summary of a job whose configuration was not edited under way names *)
(* the clock that was in force; its violations are the windows that        *)
(* reported less than the target, and its worst one is the largest.        *)
SummaryTruthful ==
    stage = "finished" =>
    /\ config = job.config => summary.clock = clock
    /\ summary.total = Len(reports)
    /\ job.policy = "oracle_static" =>
         /\ summary.violations = Cardinality(Violating)
         /\ \A i \in Violating : Shortfall(job.target, reports[i]) <= summary.worst
         /\ summary.worst > 0 => \E i \in Violating :
               summary.worst = Shortfall(job.target, reports[i])
=============================================================================
