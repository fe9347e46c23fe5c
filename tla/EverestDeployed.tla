--------------------------- MODULE EverestDeployed ---------------------------
(***************************************************************************)
(* EVeREST in the three ways the repository can run it:                    *)
(*   "runner"  run_control_loop() with a live window_builder               *)
(*   "batch"   the same with the default one, which reads the environment  *)
(*             of its own process: every window reports the same metrics   *)
(*   "hook"    control_hook.py: a process per window, whose policy object  *)
(*             is new while the policy state is loaded from the file the   *)
(*             last successful process left                                *)
(***************************************************************************)
EXTENDS EverestPolicy

VARIABLES deployment,
          pc,               \* "window", or "save" while a hook process ends
          saved,            \* policy_state.json
          last,             \* history: the metrics of the newest window
          steady            \* history: windows without a surprise, so far

deployed == <<vars, deployment, pc, saved, last, steady>>

NoMetrics == [clock |-> NoClock]

State == [pending |-> pending, phase_cache |-> phase_cache, count |-> count]

DeployedInit ==
    /\ Init
    /\ deployment \in {"runner", "batch", "hook"}
    /\ pc = "window"
    /\ saved = State
    /\ last = NoMetrics
    /\ steady = 0

-----------------------------------------------------------------------------
(* The workload does the same as in the window before, and the last clock  *)
(* command was carried out.                                                *)
Obeyed(m) == IF decision.action = "set_clock" THEN SameClock(m.clock, decision.target)
             ELSE m.clock = last.clock

Continues(m) == /\ last # NoMetrics
                /\ m.gpu = last.gpu /\ m.mem = last.mem
                /\ Obeyed(m)

OnWindow(m) ==
    /\ pc = "window"
    /\ deployment = "batch" => last \in {NoMetrics, m}
    /\ on_window(m)
    /\ pc' = IF deployment = "hook" THEN "save" ELSE "window"
    /\ last' = m
    /\ steady' = IF Continues(m) THEN steady + 1 ELSE 1
    /\ UNCHANGED <<deployment, saved>>

BugNewProcess ==            \* seeded bug: the policy object outlives its process
    UNCHANGED <<identifier, cache>>

(* resolve_policy(): a new policy object, whose identifier is built again  *)
(* by the first window.                                                    *)
NewProcess ==
    /\ history' = <<>> /\ active' = NoPhase
    /\ anchor' = [gpu |-> 0, mem |-> 0, idle |-> FALSE]
    /\ cache' = [p \in {} |-> None]

(* validate_decision(), apply_decision() and persist_state() succeed.      *)
Save ==
    /\ pc = "save" /\ pc' = "window"
    /\ saved' = State
    /\ NewProcess
    /\ UNCHANGED <<pending, phase_cache, count, decision, deployment, last, steady>>

(* The process fails or is killed before it has persisted the state, with  *)
(* or without effect on the clock.                                         *)
Lose ==
    /\ pc = "save" /\ pc' = "window"
    /\ pending' = saved.pending
    /\ phase_cache' = saved.phase_cache
    /\ count' = saved.count
    /\ NewProcess
    /\ last' = NoMetrics /\ steady' = 0 /\ decision' = Hold
    /\ UNCHANGED <<deployment, saved>>

DeployedNext ==
    \/ count["total"] < MaxWindows /\ \E m \in Metrics : OnWindow(m)
    \/ Save
    \/ Lose

DeployedSpec == DeployedInit /\ [][DeployedNext]_deployed

-----------------------------------------------------------------------------
(* Properties.                                                             *)

(* The final summary's counters agree with each other and with the records *)
(* of the state, also when the state was loaded from a file or a window is *)
(* taken again: a stable window is a hit or a miss, a scaled clock comes   *)
(* from a hit or a new record, and each record and the pending one was     *)
(* asked for by a miss of its own.  In one process, memory and mirror hold *)
(* the same records, and no phase is characterised twice.                  *)
CountersTell ==
    /\ count["stable"] = count["hits"] + count["misses"]
    /\ count["scaled"] = count["hits"] + count["characterized"]
    /\ count["characterized"] + (IF pending = None THEN 0 ELSE 1) <= count["misses"]
    /\ count["unstable"] + count["stable"] + count["characterized"] <= count["total"]
    /\ count["characterized"] >= Cardinality(DOMAIN phase_cache)
    /\ deployment # "hook" =>
         /\ cache = phase_cache
         /\ count["characterized"] = Cardinality(DOMAIN cache)
         /\ pending # None => pending.phase \notin DOMAIN cache

(* A sensitivity is recorded, in memory or in the file, only when all the  *)
(* windows it was computed from ran at the clocks they stand for, and the  *)
(* two clocks were different: a command that was lost or late, or a probe  *)
(* that another process began, defers a record and is never part of one.   *)
EvidenceRecorded ==
    EvidenceIn(cache) /\ EvidenceIn(phase_cache) /\ EvidenceIn(saved.phase_cache)

(* A characterisation is final: no later window of a process replaces or   *)
(* drops the record of a phase, although every path through the pending    *)
(* state ends in an "upsert".  In the hook a phase may be characterised    *)
(* again, but none that the file knows is forgotten.                       *)
RecordsKept ==
    [][/\ deployment # "hook" =>
             \A p \in DOMAIN cache : p \in DOMAIN cache' /\ cache'[p] = cache[p]
       /\ DOMAIN saved.phase_cache \subseteq DOMAIN saved'.phase_cache]_deployed

(* No clock is scaled by evidence that is not there.  Telemetry that never *)
(* changes cannot show the effect of a clock, so nothing is characterised  *)
(* by it.  A hook process has no cache to hit: it scales the clock only in *)
(* the window that completes a characterisation, at most every second one. *)
NoStaleEvidence ==
    /\ deployment = "batch" => cache = [p \in {} |-> None] /\ count["scaled"] = 0
    /\ deployment = "hook" => count["hits"] = 0 /\ 2 * count["scaled"] <= count["total"]

(* A characterisation always completes: with a history of one window, five *)
(* windows of a workload that keeps still and a GPU that obeys are enough  *)
(* to have their phase characterised, whatever was pending when they began,*)
(* and whatever process began it.  A longer history may take longer: while *)
(* it mixes two workloads it can be a phase of its own, with its own probe.*)
CharacterizedInTime ==
    steady >= 5 /\ last.mem > 0 /\ f_low < f_high =>
        IF deployment = "hook" THEN PhaseId(Alone(last)) \in DOMAIN phase_cache
                               ELSE pending = None /\ active \in DOMAIN cache
=============================================================================
