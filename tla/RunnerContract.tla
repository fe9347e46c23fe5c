--------------------------- MODULE RunnerContract ---------------------------
(***************************************************************************)
(* What one run of scripts/run/control_loop.py promises the orchestrator   *)
(* that launches it.  The process sends clock commands to the GPU and then *)
(* exits; everything else it does is hidden.  ControlLoop implements this  *)
(* contract, ControlledMode relies on it.                                  *)
(***************************************************************************)
EXTENDS Integers

CONSTANTS Clocks,           \* the values the GPU clock can have
          Killed            \* exit status of a process ended by a signal

ASSUME KilledAssumption == Killed \in Int \ {-1, 0, 1, 2}

Phases == {"all", "prerun", "loop"}

NoExit == -1                \* the process has not exited

VARIABLES status,           \* "running" or "exited"
          phase,            \* CONTROL_PHASE of this process
          static,           \* its policy is a StaticPolicy
          applied,          \* outcome of its last clock command, or "none"
          clock,            \* the GPU clock
          exitCode

runner == <<status, phase, static, applied, exitCode>>
vars   == <<runner, clock>>

TypeOK ==
    /\ status \in {"running", "exited"}
    /\ phase \in Phases
    /\ static \in BOOLEAN
    /\ applied \in {"none", "ok", "failed"}
    /\ clock \in Clocks
    /\ exitCode \in {NoExit, 0, 1, 2, Killed}

(* A process that has just been started. *)
Init ==
    /\ status = "running"
    /\ phase \in Phases
    /\ static \in BOOLEAN
    /\ applied = "none"
    /\ clock \in Clocks
    /\ exitCode = NoExit

(* A static policy's clock is commanded once and never from the windowed   *)
(* loop; an online policy's never before the loop.                         *)
MayCommand ==
    IF static THEN phase # "loop" /\ applied = "none" ELSE phase # "prerun"

(* One clock command.  A command that fails may have changed the clock all *)
(* the same, and may end the process; one that succeeds in a dry run has   *)
(* not changed it.                                                         *)
Command ==
    /\ status = "running"
    /\ MayCommand
    /\ clock' \in Clocks
    /\ applied' \in {"ok", "failed"}
    /\ \/ UNCHANGED <<status, exitCode>>
       \/ applied' = "failed" /\ status' = "exited" /\ exitCode' = 1
    /\ UNCHANGED <<phase, static>>

(* Success is reported only if a static policy's one command succeeded.    *)
ExitOk ==
    /\ status = "running"
    /\ static => applied # "failed"
    /\ status' = "exited"
    /\ exitCode' = 0
    /\ UNCHANGED <<phase, static, applied, clock>>

ExitFailed ==
    /\ status = "running"
    /\ status' = "exited"
    /\ exitCode' \in {1, 2, Killed}
    /\ UNCHANGED <<phase, static, applied, clock>>

Next == Command \/ ExitOk \/ ExitFailed

Spec == Init /\ [][Next]_vars
=============================================================================
