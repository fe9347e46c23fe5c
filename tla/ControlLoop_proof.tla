-------------------------- MODULE ControlLoop_proof --------------------------
(***************************************************************************)
(* Proofs about ControlLoop, for every platform, policy, configuration and *)
(* number of windows.  The inductive invariant says which calls belong to  *)
(* the time before the loop, what kind of decision is in hand at each of   *)
(* them, and how far the artifacts of the current window have got.         *)
(***************************************************************************)
EXTENDS ControlLoop, FiniteSetTheorems, TLAPS

BeforeLoop == {"main", "announce", "initial_decision", "finish_prerun", "enter_loop"}
InLoop == {"check", "build_window", "on_window", "handle_failure", "sleep",
           "finalize", "finish_loop"}
WithDecision == {"validate", "apply", "persist", "append_row", "write_last", "log_decision"}

(* The window index tells the two halves of a run apart.                   *)
Position ==
    /\ pc \in BeforeLoop => window = Prelaunch
    /\ pc \in InLoop => window # Prelaunch
    /\ window # Prelaunch \/ pc = "enter_loop" => config.phase # "prerun"
    /\ pc = "initial_decision" => config.phase # "loop"
    /\ pc = "finish_prerun" => config.phase = "prerun"

(* Which decision is in hand: before the loop a static policy's initial    *)
(* one, in the loop never a clock change of a static policy.               *)
InHand ==
    /\ pc \in WithDecision /\ window = Prelaunch => config.static /\ config.phase # "loop"
    /\ pc \in WithDecision /\ window # Prelaunch /\ config.static
        => ~RequiresClockChange(decision)
    /\ pc = "apply" => validate_decision(decision, Platform)

ExitCodeSet == (exitCode = NoExit) <=> (pc # "exited")

(* A static policy's clock is commanded at most once, and a failure of     *)
(* that command is the end of the process.                                 *)
OneCommand ==
    config.static =>
    /\ pc \in {"main", "announce", "initial_decision"} => applied = "none"
    /\ pc \in {"validate", "apply"} /\ window = Prelaunch => applied = "none"
    /\ applied = "failed" => pc = "exited" /\ exitCode # 0

Control == Position /\ InHand /\ ExitCodeSet /\ OneCommand

(* The artifacts of the current window: no row until "append_row", a row   *)
(* of an actuated decision after it, and a row or a counted failure by the *)
(* time the next window begins.                                            *)
Progress ==
    /\ \A i \in DOMAIN rows : rows[i] <= window
    /\ pc \in {"main", "announce", "initial_decision", "check", "build_window",
              "on_window", "validate", "apply", "persist", "append_row"}
        => \A i \in DOMAIN rows : rows[i] < window
    /\ pc \in {"persist", "append_row", "write_last", "log_decision"} => window \in actuated
    /\ pc \in {"write_last", "log_decision"} => window \in Recorded
    /\ pc = "sleep" => window \in Recorded \cup failures
    /\ pc \in {"main", "announce", "initial_decision"} => Prelaunch \notin actuated
    /\ window # Prelaunch \/ pc \in {"finish_prerun", "enter_loop"}
        => (Prelaunch \in actuated => Prelaunch \in Recorded)
    /\ pc \in {"validate", "apply"} /\ window = Prelaunch => Prelaunch \notin actuated

(* An abort is decided in the loop and final_summary.json tells it.        *)
Outcome ==
    /\ window = Prelaunch => ~aborted /\ summary.status = "none"
    /\ pc = "finish_loop" /\ ~aborted => summary.status = "completed"

-----------------------------------------------------------------------------
LEMMA Exits == Killed \in Int /\ Killed # NoExit /\ Killed # 0
BY ControlLoopAssumption DEF NoExit

(* A validated clock change asks for a clock the GPU can have.             *)
LEMMA ValidatedClock ==
    ASSUME TypeOK, validate_decision(decision, Platform),
           RequiresClockChange(decision), decision.target # NoClock
    PROVE  decision.target \in ClockValues
<1>1. decision.target \in Targets
  BY DEF TypeOK, Decisions
<1>2. CASE decision.action = "set_clock"
  BY <1>1, <1>2, ControlLoopAssumption DEF validate_decision
<1>3. CASE decision.action = "reset_to_max"
  BY <1>3, ControlLoopAssumption DEF validate_decision
<1> QED
  BY <1>2, <1>3 DEF RequiresClockChange

LEMMA WindowDecisionsTyped ==
    ASSUME NEW s \in BOOLEAN, NEW d \in WindowDecisions(s)
    PROVE  d \in Decisions(Targets) /\ (s => ~RequiresClockChange(d))
BY DEF WindowDecisions, Decisions, Hold, Actions, RequiresClockChange

LEMMA TypeInit == Init => TypeOK
<1> SUFFICES ASSUME Init PROVE TypeOK
  OBVIOUS
<1>1. decision \in Decisions(Targets)
  BY DEF Init, Hold, Decisions, Actions
<1>2. IsFiniteSet(failures)
  BY FS_EmptySet DEF Init
<1>3. rows \in Seq(Nat \cup {Prelaunch})
  BY DEF Init
<1>4. summary \in [status : {"none", "aborted", "completed"},
                   windows : Nat, failures : Nat, longest : Nat]
  BY DEF Init, NoSummary
<1> QED
  BY <1>1, <1>2, <1>3, <1>4 DEF Init, TypeOK, Labels, Prelaunch, Torn, NoExit

(* The parts of TypeOK, apart from that of the clock, are kept by every    *)
(* step; the clock is kept because only validated clocks are commanded.    *)
LEMMA TypeStep ==
    ASSUME TypeOK, Position, InHand, [Next]_vars
    PROVE  TypeOK'
<1> USE Exits DEF Labels
<1>1. CASE RejectArguments
  BY <1>1 DEF RejectArguments, Exit, TypeOK, counters, artifacts, gpu, outside, history
<1>2. CASE Initialize
  BY <1>2 DEF Initialize, Exit, Goto, TypeOK, counters, gpu, outside, history
<1>3. CASE Announce
  BY <1>3 DEF Announce, Exit, Goto, TypeOK, counters, artifacts, gpu, outside, history
<1>4. CASE InitialDecision
  BY <1>4 DEF InitialDecision, AfterInitial, Exit, Goto, TypeOK, counters, artifacts, gpu, outside, history
<1>5. CASE FinishPrerun
  BY <1>5 DEF FinishPrerun, Exit, TypeOK, counters, artifacts, gpu, outside, history
<1>6. CASE EnterLoop
  BY <1>6 DEF EnterLoop, Goto, TypeOK, counters, artifacts, gpu, outside, history
<1>7. CASE Check
  BY <1>7 DEF Check, Exit, Goto, TypeOK, counters, artifacts, gpu, outside, history
<1>8. CASE BuildWindow
  BY <1>8 DEF BuildWindow, Raise, Exit, Goto, TypeOK, counters, artifacts, gpu, outside, history
<1>9. CASE OnWindow
  <2>1. config.static \in BOOLEAN
    BY DEF TypeOK, Configs
  <2>2. decision' \in Decisions(Targets)
    BY <1>9, <2>1, WindowDecisionsTyped DEF OnWindow, TypeOK
  <2> QED
    BY <1>9, <2>2 DEF OnWindow, Raise, Exit, Goto, TypeOK, artifacts, gpu, outside, history
<1>10. CASE Validate
  BY <1>10 DEF Validate, Raise, Exit, Goto, TypeOK, counters, artifacts, gpu, outside, history
<1>11. CASE ApplyNothing
  BY <1>11 DEF ApplyNothing, Goto, TypeOK, counters, artifacts, gpu, outside
<1>12. CASE ApplyClock
  <2>1. decision.target \in ClockValues
    BY <1>12, ValidatedClock DEF ApplyClock, InHand
  <2>2. clock' \in ClockValues
    BY <1>12, <2>1 DEF ApplyClock, CommandFailed, TypeOK, gpu
  <2>3. lateApplies' \in Nat /\ actuated' \in {actuated, actuated \cup {window}}
    <3>1. lateApplies \in Nat
      BY DEF TypeOK
    <3> QED
      BY <1>12, <3>1 DEF ApplyClock, CommandFailed
  <2>4. applied' \in {"none", "ok", "failed"}
    BY <1>12 DEF ApplyClock, CommandFailed, TypeOK, gpu
  <2>5. pc' \in Labels /\ exitCode' \in {NoExit, 0, 1, 2, Killed}
    BY <1>12 DEF ApplyClock, CommandFailed, Raise, Exit, Goto, TypeOK
  <2> QED
    BY <1>12, <2>2, <2>3, <2>4, <2>5 DEF ApplyClock, TypeOK, counters, artifacts, outside
<1>13. CASE PersistState
  BY <1>13 DEF PersistState, Raise, Exit, Goto, TypeOK, counters, gpu, outside, history
<1>14. CASE AppendDecisionRow
  <2>1. rows' \in Seq(Nat \cup {Prelaunch})
    BY <1>14 DEF AppendDecisionRow, TypeOK
  <2> QED
    BY <1>14, <2>1 DEF AppendDecisionRow, Raise, Exit, Goto, TypeOK, counters, gpu, outside, history
<1>15. CASE WriteLastDecision
  BY <1>15 DEF WriteLastDecision, Raise, Exit, Goto, TypeOK, counters, gpu, outside, history
<1>16. CASE LogDecision
  BY <1>16 DEF LogDecision, ResetFailures, AfterInitial, Raise, Exit, Goto, TypeOK, artifacts, gpu, outside, history
<1>17. CASE HandleFailure
  <2>1. window \in Nat
    BY <1>17 DEF HandleFailure, Position, InLoop, TypeOK
  <2>2. failures' \subseteq Nat /\ IsFiniteSet(failures')
    BY <1>17, <2>1, FS_AddElement DEF HandleFailure, TypeOK
  <2>3. consecutive' \in Nat /\ failed' \in Nat /\ longest' \in Nat
    BY <1>17 DEF HandleFailure, TypeOK
  <2>4. pc' \in Labels /\ exitCode' \in {NoExit, 0, 1, 2, Killed} /\ aborted' \in BOOLEAN
    BY <1>17 DEF HandleFailure, AfterFailure, Exit, Goto, TypeOK
  <2> QED
    BY <1>17, <2>2, <2>3, <2>4 DEF HandleFailure, TypeOK, artifacts, gpu, outside
<1>18. CASE Sleep
  BY <1>18 DEF Sleep, Exit, Goto, Prelaunch, TypeOK, counters, artifacts, gpu, outside, history
<1>19. CASE Finalize
  BY <1>19 DEF Finalize, Exit, Goto, TypeOK, counters, gpu, outside
<1>20. CASE FinishLoop
  BY <1>20 DEF FinishLoop, Exit, TypeOK, counters, artifacts, gpu, outside, history
<1>21. CASE BenchmarkEnds
  <2>1. stopFile' \in BOOLEAN /\ benchAlive' \in BOOLEAN
    BY <1>21 DEF BenchmarkEnds, TypeOK
  <2> QED
    BY <1>21, <2>1 DEF BenchmarkEnds, TypeOK, counters, artifacts, gpu, history
<1>22. CASE StopRequested
  BY <1>22 DEF StopRequested, TypeOK, counters, artifacts, gpu, history
<1>23. CASE Kill
  BY <1>23 DEF Kill, Exit, TypeOK, counters, artifacts, gpu, outside, history
<1>24. CASE UNCHANGED vars
  BY <1>24 DEF vars, TypeOK, counters, artifacts, gpu, outside, history
<1> QED
  BY <1>1, <1>2, <1>3, <1>4, <1>5, <1>6, <1>7, <1>8, <1>9, <1>10, <1>11, <1>12,
     <1>13, <1>14, <1>15, <1>16, <1>17, <1>18, <1>19, <1>20, <1>21, <1>22, <1>23,
     <1>24 DEF Next, RunnerStep, Done

-----------------------------------------------------------------------------
LEMMA ControlInit == Init => Control
BY Exits DEF Init, Control, Position, InHand, ExitCodeSet, OneCommand, BeforeLoop,
             InLoop, WithDecision, NoExit

LEMMA ControlStep ==
    ASSUME TypeOK, Control, [Next]_vars
    PROVE  Control'
<1> USE Exits DEF BeforeLoop, InLoop, WithDecision, NoExit, Prelaunch
<1>0. window \in Nat \cup {Prelaunch} /\ config.static \in BOOLEAN /\ config.phase \in {"all", "prerun", "loop"}
  BY DEF TypeOK, Configs
<1>1. CASE RejectArguments
  BY <1>1, <1>0 DEF RejectArguments, Exit, Control, Position, InHand, ExitCodeSet, OneCommand, gpu
<1>2. CASE Initialize
  BY <1>2, <1>0 DEF Initialize, Exit, Goto, Control, Position, InHand, ExitCodeSet, OneCommand, gpu
<1>3. CASE Announce
  BY <1>3, <1>0 DEF Announce, AppliesInitialDecision, Exit, Goto, Control, Position, InHand, ExitCodeSet, OneCommand, gpu
<1>4. CASE InitialDecision
  BY <1>4, <1>0 DEF InitialDecision, AfterInitial, Exit, Goto, Control, Position, InHand, ExitCodeSet, OneCommand, gpu
<1>5. CASE FinishPrerun
  BY <1>5, <1>0 DEF FinishPrerun, Exit, Control, Position, InHand, ExitCodeSet, OneCommand, gpu
<1>6. CASE EnterLoop
  BY <1>6, <1>0 DEF EnterLoop, Goto, Control, Position, InHand, ExitCodeSet, OneCommand, gpu
<1>7. CASE Check
  BY <1>7, <1>0 DEF Check, Exit, Goto, Control, Position, InHand, ExitCodeSet, OneCommand, gpu
<1>8. CASE BuildWindow
  BY <1>8, <1>0 DEF BuildWindow, Raise, Exit, Goto, Control, Position, InHand, ExitCodeSet, OneCommand, gpu
<1>9. CASE OnWindow
  <2>1. pc' = "validate" /\ config.static => ~RequiresClockChange(decision')
    BY <1>9, <1>0, WindowDecisionsTyped DEF OnWindow, Raise, Exit, Goto
  <2> QED
    BY <1>9, <1>0, <2>1 DEF OnWindow, Raise, Exit, Goto, Control, Position, InHand,
      ExitCodeSet, OneCommand, gpu
<1>10. CASE Validate
  BY <1>10, <1>0 DEF Validate, Raise, Exit, Goto, Control, Position, InHand, ExitCodeSet, OneCommand, gpu
<1>11. CASE ApplyNothing
  BY <1>11, <1>0 DEF ApplyNothing, Goto, Control, Position, InHand, ExitCodeSet, OneCommand, gpu
<1>12. CASE ApplyClock
  BY <1>12, <1>0 DEF ApplyClock, CommandFailed, Raise, Exit, Goto, Control, Position, InHand, ExitCodeSet, OneCommand, gpu
<1>13. CASE PersistState
  BY <1>13, <1>0 DEF PersistState, Raise, Exit, Goto, Control, Position, InHand, ExitCodeSet, OneCommand, gpu
<1>14. CASE AppendDecisionRow
  BY <1>14, <1>0 DEF AppendDecisionRow, Raise, Exit, Goto, Control, Position, InHand, ExitCodeSet, OneCommand, gpu
<1>15. CASE WriteLastDecision
  BY <1>15, <1>0 DEF WriteLastDecision, Raise, Exit, Goto, Control, Position, InHand, ExitCodeSet, OneCommand, gpu
<1>16. CASE LogDecision
  BY <1>16, <1>0 DEF LogDecision, AfterInitial, Raise, Exit, Goto, Control, Position, InHand, ExitCodeSet, OneCommand, gpu
<1>17. CASE HandleFailure
  BY <1>17, <1>0 DEF HandleFailure, AfterFailure, Exit, Goto, Control, Position, InHand, ExitCodeSet, OneCommand, gpu
<1>18. CASE Sleep
  BY <1>18, <1>0 DEF Sleep, Exit, Goto, Control, Position, InHand, ExitCodeSet, OneCommand, gpu
<1>19. CASE Finalize
  BY <1>19, <1>0 DEF Finalize, Exit, Goto, Control, Position, InHand, ExitCodeSet, OneCommand, gpu
<1>20. CASE FinishLoop
  BY <1>20, <1>0 DEF FinishLoop, Exit, Control, Position, InHand, ExitCodeSet, OneCommand, gpu
<1>21. CASE BenchmarkEnds
  BY <1>21, <1>0 DEF BenchmarkEnds, Control, Position, InHand, ExitCodeSet, OneCommand, gpu
<1>22. CASE StopRequested
  BY <1>22, <1>0 DEF StopRequested, Control, Position, InHand, ExitCodeSet, OneCommand, gpu
<1>23. CASE Kill
  BY <1>23, <1>0 DEF Kill, Exit, Control, Position, InHand, ExitCodeSet, OneCommand, gpu
<1>24. CASE UNCHANGED vars
  BY <1>24 DEF vars, Control, Position, InHand, ExitCodeSet, OneCommand, gpu
<1> QED
  BY <1>1, <1>2, <1>3, <1>4, <1>5, <1>6, <1>7, <1>8, <1>9, <1>10, <1>11, <1>12, <1>13, <1>14, <1>15, <1>16, <1>17, <1>18, <1>19, <1>20, <1>21, <1>22, <1>23, <1>24 DEF Next, RunnerStep, Done

LEMMA ControlInvariant == Spec => [](TypeOK /\ Control)
<1>1. Init => TypeOK /\ Control
  BY TypeInit, ControlInit
<1>2. TypeOK /\ Control /\ [Next]_vars => TypeOK' /\ Control'
  BY TypeStep, ControlStep DEF Control
<1> QED
  BY <1>1, <1>2, PTL DEF Spec

(* The type of every variable is kept.                                     *)
THEOREM TypeCorrect == Spec => []TypeOK
BY ControlInvariant, PTL

-----------------------------------------------------------------------------
(* The refinement of RunnerContract.                                       *)

LEMMA ContractInit == Init => Contract!Init
BY ControlLoopAssumption DEF Init, Configs, Contract!Init, Contract!Phases,
   Contract!NoExit, NoExit

(* Steps that only change what the contract hides.                         *)
LEMMA Hidden ==
    ASSUME UNCHANGED <<config, clock, applied, exitCode>>, (pc = "exited") <=> (pc' = "exited")
    PROVE  UNCHANGED Contract!vars
BY DEF Contract!vars, Contract!runner

(* A process that leaves without success, and without a command.           *)
LEMMA LeavesFailed ==
    ASSUME pc # "exited", UNCHANGED <<config, clock, applied>>,
           pc' = "exited", exitCode' \in {1, 2, Killed}
    PROVE  Contract!Next
BY DEF Contract!Next, Contract!ExitFailed

LEMMA LeavesOk ==
    ASSUME pc # "exited", UNCHANGED <<config, clock, applied>>,
           pc' = "exited", exitCode' = 0, config.static => applied # "failed"
    PROVE  Contract!Next
BY DEF Contract!Next, Contract!ExitOk

LEMMA ContractStep ==
    ASSUME TypeOK, TypeOK', Control, [Next]_vars
    PROVE  [Contract!Next]_(Contract!vars)
<1> USE DEF NoExit
<1>1. CASE RejectArguments
  BY <1>1, Hidden, LeavesFailed DEF RejectArguments, Exit, gpu
<1>2. CASE Initialize
  BY <1>2, Hidden, LeavesFailed DEF Initialize, Exit, Goto, gpu
<1>3. CASE Announce
  BY <1>3, Hidden, LeavesFailed DEF Announce, Exit, Goto, gpu
<1>4. CASE InitialDecision
  BY <1>4, Hidden, LeavesFailed DEF InitialDecision, AfterInitial, Exit, Goto, gpu
<1>5. CASE FinishPrerun
  BY <1>5, Hidden, LeavesFailed, LeavesOk DEF FinishPrerun, Exit, gpu, Control, OneCommand
<1>6. CASE EnterLoop
  BY <1>6, Hidden DEF EnterLoop, Goto, gpu
<1>7. CASE Check
  BY <1>7, Hidden, LeavesFailed DEF Check, Exit, Goto, gpu
<1>8. CASE BuildWindow
  BY <1>8, Hidden, LeavesFailed DEF BuildWindow, Raise, Exit, Goto, gpu
<1>9. CASE OnWindow
  BY <1>9, Hidden, LeavesFailed DEF OnWindow, Raise, Exit, Goto, gpu
<1>10. CASE Validate
  BY <1>10, Hidden, LeavesFailed DEF Validate, Raise, Exit, Goto, gpu
<1>11. CASE ApplyNothing
  BY <1>11, Hidden DEF ApplyNothing, Goto, gpu
<1>12. CASE ApplyClock
  <2>1. pc = "apply" /\ UNCHANGED config /\ clock' \in ClockValues
    BY <1>12 DEF ApplyClock, TypeOK
  <2>2. Contract!MayCommand
    BY <1>12, <2>1 DEF ApplyClock, Control, Position, InHand, OneCommand, WithDecision,
                      Contract!MayCommand
  <2>3. window # Prelaunch => ~config.static
    BY <1>12, <2>1 DEF ApplyClock, Control, InHand, WithDecision
  <2>4. CASE UNCHANGED gpu /\ Raise
    BY <2>1, <2>4, Hidden, LeavesFailed DEF Raise, Exit, gpu
  <2>5. CASE CommandFailed
    BY <2>1, <2>2, <2>5 DEF CommandFailed, Raise, Exit, Contract!Next, Contract!Command
  <2>6. CASE applied' = "ok" /\ Goto("persist")
    BY <2>1, <2>2, <2>6 DEF Goto, Contract!Next, Contract!Command
  <2> QED
    BY <1>12, <2>4, <2>5, <2>6 DEF ApplyClock, gpu
<1>13. CASE PersistState
  BY <1>13, Hidden, LeavesFailed DEF PersistState, Raise, Exit, Goto, gpu
<1>14. CASE AppendDecisionRow
  BY <1>14, Hidden, LeavesFailed DEF AppendDecisionRow, Raise, Exit, Goto, gpu
<1>15. CASE WriteLastDecision
  BY <1>15, Hidden, LeavesFailed DEF WriteLastDecision, Raise, Exit, Goto, gpu
<1>16. CASE LogDecision
  BY <1>16, Hidden, LeavesFailed DEF LogDecision, AfterInitial, Raise, Exit, Goto, gpu
<1>17. CASE HandleFailure
  BY <1>17, Hidden, LeavesFailed DEF HandleFailure, AfterFailure, Exit, Goto, gpu
<1>18. CASE Sleep
  BY <1>18, Hidden, LeavesFailed DEF Sleep, Exit, Goto, gpu
<1>19. CASE Finalize
  BY <1>19, Hidden, LeavesFailed DEF Finalize, Exit, Goto, gpu
<1>20. CASE FinishLoop
  BY <1>20, Hidden, LeavesFailed, LeavesOk DEF FinishLoop, Exit, gpu, Control, OneCommand
<1>21. CASE BenchmarkEnds
  BY <1>21, Hidden DEF BenchmarkEnds, gpu
<1>22. CASE StopRequested
  BY <1>22, Hidden DEF StopRequested, gpu
<1>23. CASE Kill
  BY <1>23, Hidden, LeavesFailed DEF Kill, Exit, gpu
<1>24. CASE UNCHANGED vars
  BY <1>24, Hidden DEF vars, gpu
<1> QED
  BY <1>1, <1>2, <1>3, <1>4, <1>5, <1>6, <1>7, <1>8, <1>9, <1>10, <1>11, <1>12, <1>13, <1>14, <1>15, <1>16, <1>17, <1>18, <1>19, <1>20, <1>21, <1>22, <1>23, <1>24 DEF Next, RunnerStep, Done

(* A process of the runner is a process of RunnerContract, whatever the    *)
(* policy decides and whichever call raises: a static policy's clock is    *)
(* commanded once and never from the loop, an online policy's never before *)
(* the loop, and success is never reported for a static clock that failed. *)
THEOREM Refinement == Spec => ImplementsContract
<1>1. Init => Contract!Init
  BY ContractInit
<1>2. TypeOK /\ Control /\ TypeOK' /\ [Next]_vars => [Contract!Next]_(Contract!vars)
  BY ContractStep
<1> QED
  BY <1>1, <1>2, ControlInvariant, PTL DEF Spec, ImplementsContract, Contract!Spec

-----------------------------------------------------------------------------
(* The artifacts.  All that is used of decisions.csv is who is recorded,   *)
(* that the rows ascend, and that none is later than the current window.   *)

Ascending == \A i, j \in DOMAIN rows : i < j => rows[i] < rows[j]

LEMMA RowAppended ==
    ASSUME TypeOK, rows' = Append(rows, window), Ascending,
           \A i \in DOMAIN rows : rows[i] < window
    PROVE  /\ Recorded' = Recorded \cup {window}
           /\ Ascending'
           /\ \A i \in DOMAIN rows' : rows'[i] <= window
<1>1. rows \in Seq(Int) /\ window \in Int
  BY DEF TypeOK, Prelaunch
<1>2. /\ DOMAIN rows = 1 .. Len(rows) /\ Len(rows) \in Nat
      /\ DOMAIN rows' = 1 .. (Len(rows) + 1)
      /\ \A i \in 1 .. Len(rows) : rows'[i] = rows[i] /\ rows[i] \in Int
      /\ rows'[Len(rows) + 1] = window
  BY <1>1
<1> HIDE DEF TypeOK
<1>3. Recorded' = Recorded \cup {window}
  BY <1>2 DEF Recorded
<1>4. Ascending'
  <2> SUFFICES ASSUME NEW i \in DOMAIN rows', NEW j \in DOMAIN rows', i < j
               PROVE  rows'[i] < rows'[j]
    BY DEF Ascending
  <2>1. i \in 1 .. Len(rows)
    BY <1>2
  <2>2. CASE j = Len(rows) + 1
    BY <1>2, <2>1, <2>2
  <2>3. CASE j \in 1 .. Len(rows)
    BY <1>2, <2>1, <2>3 DEF Ascending
  <2> QED
    BY <1>2, <2>2, <2>3
<1>5. \A i \in DOMAIN rows' : rows'[i] <= window
  BY <1>1, <1>2
<1> QED
  BY <1>3, <1>4, <1>5

Artifacts == Progress /\ ArtifactsAgree

LEMMA ArtifactsInit == Init => Artifacts
BY NoClockAssumption DEF Init, Artifacts, Progress, ArtifactsAgree, Recorded, Prelaunch

LEMMA ArtifactsStep ==
    ASSUME TypeOK, Control, Artifacts, [Next]_vars
    PROVE  Artifacts'
<1> USE NoClockAssumption DEF BeforeLoop, InLoop, WithDecision, Prelaunch
<1>0. /\ window \in Nat \cup {Prelaunch}
      /\ DOMAIN rows = 1 .. Len(rows) /\ \A i \in DOMAIN rows : rows[i] \in Int
  BY DEF TypeOK
<1>1. CASE RejectArguments
  BY <1>1, <1>0 DEF RejectArguments, Exit, Artifacts, Progress, ArtifactsAgree, Recorded, Control, Position,
    artifacts, history
<1>2. CASE Initialize
  BY <1>2, <1>0 DEF Initialize, Exit, Goto, Artifacts, Progress, ArtifactsAgree, Recorded, Control, Position,
    artifacts, history
<1>3. CASE Announce
  BY <1>3, <1>0 DEF Announce, Exit, Goto, Artifacts, Progress, ArtifactsAgree, Recorded, Control, Position,
    artifacts, history
<1>4. CASE InitialDecision
  BY <1>4, <1>0 DEF InitialDecision, AfterInitial, Exit, Goto, Artifacts, Progress, ArtifactsAgree, Recorded, Control, Position,
    artifacts, history
<1>5. CASE FinishPrerun
  BY <1>5, <1>0 DEF FinishPrerun, Exit, Artifacts, Progress, ArtifactsAgree, Recorded, Control, Position,
    artifacts, history
<1>6. CASE EnterLoop
  BY <1>6, <1>0 DEF EnterLoop, Goto, Artifacts, Progress, ArtifactsAgree, Recorded, Control, Position,
    artifacts, history
<1>7. CASE Check
  BY <1>7, <1>0 DEF Check, Exit, Goto, Artifacts, Progress, ArtifactsAgree, Recorded, Control, Position,
    artifacts, history
<1>8. CASE BuildWindow
  BY <1>8, <1>0 DEF BuildWindow, Raise, Exit, Goto, Artifacts, Progress, ArtifactsAgree, Recorded, Control, Position,
    artifacts, history
<1>9. CASE OnWindow
  BY <1>9, <1>0 DEF OnWindow, Raise, Exit, Goto, Artifacts, Progress, ArtifactsAgree, Recorded, Control, Position,
    artifacts, history
<1>10. CASE Validate
  BY <1>10, <1>0 DEF Validate, Raise, Exit, Goto, Artifacts, Progress, ArtifactsAgree, Recorded, Control, Position,
    artifacts, history
<1>11. CASE ApplyNothing
  BY <1>11, <1>0 DEF ApplyNothing, Goto, Artifacts, Progress, ArtifactsAgree, Recorded, Control, Position,
    artifacts, history
<1>12. CASE ApplyClock
  BY <1>12, <1>0 DEF ApplyClock, CommandFailed, Raise, Exit, Goto, Artifacts, Progress, ArtifactsAgree, Recorded, Control, Position,
    artifacts, history
<1>13. CASE PersistState
  BY <1>13, <1>0 DEF PersistState, Raise, Exit, Goto, Artifacts, Progress, ArtifactsAgree, Recorded, Control, Position,
    artifacts, history
<1>14. CASE AppendDecisionRow
  <2>1. CASE rows' = Append(rows, window) /\ Goto("write_last")
    <3>1. /\ Recorded' = Recorded \cup {window}
          /\ \A m, n \in DOMAIN rows' : m < n => rows'[m] < rows'[n]
          /\ \A m \in DOMAIN rows' : rows'[m] <= window
      BY <1>14, <2>1, RowAppended DEF AppendDecisionRow, Artifacts, Progress, ArtifactsAgree, Ascending
    <3> QED
      BY <1>14, <2>1, <3>1, <1>0 DEF AppendDecisionRow, Goto, Artifacts, Progress, ArtifactsAgree, history
  <2>2. CASE UNCHANGED rows /\ Raise
    BY <1>14, <2>2, <1>0 DEF AppendDecisionRow, Raise, Exit, Artifacts, Progress, ArtifactsAgree,
      Recorded, Control, Position, history
  <2> QED
    BY <1>14, <2>1, <2>2 DEF AppendDecisionRow
<1>15. CASE WriteLastDecision
  BY <1>15, <1>0 DEF WriteLastDecision, Raise, Exit, Goto, Artifacts, Progress, ArtifactsAgree, Recorded, Control, Position,
    artifacts, history
<1>16. CASE LogDecision
  BY <1>16, <1>0 DEF LogDecision, AfterInitial, Raise, Exit, Goto, Artifacts, Progress, ArtifactsAgree, Recorded, Control, Position,
    artifacts, history
<1>17. CASE HandleFailure
  BY <1>17, <1>0 DEF HandleFailure, AfterFailure, Exit, Goto, Artifacts, Progress, ArtifactsAgree, Recorded, Control, Position,
    artifacts, history
<1>18. CASE Sleep
  BY <1>18, <1>0 DEF Sleep, Exit, Goto, Artifacts, Progress, ArtifactsAgree, Recorded, Control, Position,
    artifacts, history
<1>19. CASE Finalize
  BY <1>19, <1>0 DEF Finalize, Exit, Goto, Artifacts, Progress, ArtifactsAgree, Recorded, Control, Position,
    artifacts, history
<1>20. CASE FinishLoop
  BY <1>20, <1>0 DEF FinishLoop, Exit, Artifacts, Progress, ArtifactsAgree, Recorded, Control, Position,
    artifacts, history
<1>21. CASE BenchmarkEnds
  BY <1>21, <1>0 DEF BenchmarkEnds, Artifacts, Progress, ArtifactsAgree, Recorded, Control, Position,
    artifacts, history
<1>22. CASE StopRequested
  BY <1>22, <1>0 DEF StopRequested, Artifacts, Progress, ArtifactsAgree, Recorded, Control, Position,
    artifacts, history
<1>23. CASE Kill
  BY <1>23, <1>0 DEF Kill, Exit, Artifacts, Progress, ArtifactsAgree, Recorded, Control, Position,
    artifacts, history
<1>24. CASE UNCHANGED vars
  BY <1>24 DEF vars, Artifacts, Progress, ArtifactsAgree, Recorded, artifacts, history
<1> QED
  BY <1>1, <1>2, <1>3, <1>4, <1>5, <1>6, <1>7, <1>8, <1>9, <1>10, <1>11, <1>12, <1>13, <1>14, <1>15, <1>16, <1>17, <1>18, <1>19, <1>20, <1>21, <1>22, <1>23, <1>24 DEF Next, RunnerStep, Done

LEMMA ArtifactsInvariant == Spec => []Artifacts
<1>1. TypeOK /\ Control /\ Artifacts /\ [Next]_vars => Artifacts'
  BY ArtifactsStep
<1> QED
  BY <1>1, ArtifactsInit, ControlInvariant, PTL DEF Spec

(* decisions.csv and last_decision.json only tell of decisions that were   *)
(* validated and carried out, in window order and once each, and every     *)
(* decision carried out is recorded, counted as failed, or the current one.*)
THEOREM ArtifactsCorrect == Spec => []ArtifactsAgree
BY ArtifactsInvariant, PTL DEF Artifacts

-----------------------------------------------------------------------------
(* The exit status.                                                        *)

LEMMA OutcomeInit == Init => Outcome /\ ExitStatusHonest
BY DEF Init, Outcome, ExitStatusHonest, NoSummary, NoExit

LEMMA OutcomeStep ==
    ASSUME TypeOK, Control, Artifacts, Outcome, ExitStatusHonest, [Next]_vars
    PROVE  Outcome' /\ ExitStatusHonest'
<1> USE Exits DEF BeforeLoop, InLoop, NoExit, Prelaunch
<1>0. /\ window \in Nat \cup {Prelaunch} /\ aborted \in BOOLEAN
      /\ lastDecision \in Recorded \cup {NoClock} /\ Recorded \subseteq actuated
  BY DEF TypeOK, Artifacts, ArtifactsAgree
<1>1. CASE RejectArguments
  BY <1>1, <1>0 DEF RejectArguments, Exit, Outcome, ExitStatusHonest, Control, Position, ExitCodeSet,
    counters, artifacts, gpu, history
<1>2. CASE Initialize
  BY <1>2, <1>0 DEF Initialize, Exit, Goto, Outcome, ExitStatusHonest, Control, Position, ExitCodeSet,
    counters, artifacts, gpu, history
<1>3. CASE Announce
  BY <1>3, <1>0 DEF Announce, Exit, Goto, Outcome, ExitStatusHonest, Control, Position, ExitCodeSet,
    counters, artifacts, gpu, history
<1>4. CASE InitialDecision
  BY <1>4, <1>0 DEF InitialDecision, AfterInitial, Exit, Goto, Outcome, ExitStatusHonest, Control, Position, ExitCodeSet,
    counters, artifacts, gpu, history
<1>5. CASE FinishPrerun
  <2>1. UNCHANGED <<config, window, applied, actuated, rows, lastDecision, summary, aborted>>
    BY <1>5 DEF FinishPrerun, counters, artifacts, gpu, history
  <2>2. pc = "finish_prerun" /\ Outcome /\ Artifacts /\ Control
    BY <1>5 DEF FinishPrerun
  <2> QED
    BY <1>5, <1>0, <2>1, <2>2 DEF FinishPrerun, Exit, Outcome, ExitStatusHonest, Recorded, Artifacts, Progress,
      Control, Position, ExitCodeSet, OneCommand
<1>6. CASE EnterLoop
  BY <1>6, <1>0 DEF EnterLoop, Goto, Outcome, ExitStatusHonest, Control, Position, ExitCodeSet,
    counters, artifacts, gpu, history
<1>7. CASE Check
  BY <1>7, <1>0 DEF Check, Exit, Goto, Outcome, ExitStatusHonest, Control, Position, ExitCodeSet,
    counters, artifacts, gpu, history
<1>8. CASE BuildWindow
  BY <1>8, <1>0 DEF BuildWindow, Raise, Exit, Goto, Outcome, ExitStatusHonest, Control, Position, ExitCodeSet,
    counters, artifacts, gpu, history
<1>9. CASE OnWindow
  BY <1>9, <1>0 DEF OnWindow, Raise, Exit, Goto, Outcome, ExitStatusHonest, Control, Position, ExitCodeSet,
    counters, artifacts, gpu, history
<1>10. CASE Validate
  BY <1>10, <1>0 DEF Validate, Raise, Exit, Goto, Outcome, ExitStatusHonest, Control, Position, ExitCodeSet,
    counters, artifacts, gpu, history
<1>11. CASE ApplyNothing
  BY <1>11, <1>0 DEF ApplyNothing, Goto, Outcome, ExitStatusHonest, Control, Position, ExitCodeSet,
    counters, artifacts, gpu, history
<1>12. CASE ApplyClock
  BY <1>12, <1>0 DEF ApplyClock, CommandFailed, Raise, Exit, Goto, Outcome, ExitStatusHonest, Control, Position, ExitCodeSet,
    counters, artifacts, gpu, history
<1>13. CASE PersistState
  BY <1>13, <1>0 DEF PersistState, Raise, Exit, Goto, Outcome, ExitStatusHonest, Control, Position, ExitCodeSet,
    counters, artifacts, gpu, history
<1>14. CASE AppendDecisionRow
  BY <1>14, <1>0 DEF AppendDecisionRow, Raise, Exit, Goto, Outcome, ExitStatusHonest, Control, Position, ExitCodeSet,
    counters, artifacts, gpu, history
<1>15. CASE WriteLastDecision
  BY <1>15, <1>0 DEF WriteLastDecision, Raise, Exit, Goto, Outcome, ExitStatusHonest, Control, Position, ExitCodeSet,
    counters, artifacts, gpu, history
<1>16. CASE LogDecision
  BY <1>16, <1>0 DEF LogDecision, AfterInitial, Raise, Exit, Goto, Outcome, ExitStatusHonest, Control, Position, ExitCodeSet,
    counters, artifacts, gpu, history
<1>17. CASE HandleFailure
  BY <1>17, <1>0 DEF HandleFailure, AfterFailure, Exit, Goto, Outcome, ExitStatusHonest, Control, Position, ExitCodeSet,
    counters, artifacts, gpu, history
<1>18. CASE Sleep
  BY <1>18, <1>0 DEF Sleep, Exit, Goto, Outcome, ExitStatusHonest, Control, Position, ExitCodeSet,
    counters, artifacts, gpu, history
<1>19. CASE Finalize
  BY <1>19, <1>0 DEF Finalize, Exit, Goto, Outcome, ExitStatusHonest, Control, Position, ExitCodeSet,
    counters, artifacts, gpu, history
<1>20. CASE FinishLoop
  <2>1. UNCHANGED <<config, window, applied, actuated, rows, lastDecision, summary, aborted>>
    BY <1>20 DEF FinishLoop, counters, artifacts, gpu, history
  <2>2. pc = "finish_loop" /\ Outcome /\ Artifacts /\ Control
    BY <1>20 DEF FinishLoop
  <2> QED
    BY <1>20, <1>0, <2>1, <2>2 DEF FinishLoop, Exit, Outcome, ExitStatusHonest, Recorded, Artifacts, Progress,
      Control, Position, ExitCodeSet, OneCommand
<1>21. CASE BenchmarkEnds
  BY <1>21, <1>0 DEF BenchmarkEnds, Outcome, ExitStatusHonest, Recorded,
    counters, artifacts, gpu, history
<1>22. CASE StopRequested
  BY <1>22, <1>0 DEF StopRequested, Outcome, ExitStatusHonest, Recorded,
    counters, artifacts, gpu, history
<1>23. CASE Kill
  BY <1>23, <1>0 DEF Kill, Exit, Outcome, ExitStatusHonest, Control, Position, ExitCodeSet,
    counters, artifacts, gpu, history
<1>24. CASE UNCHANGED vars
  BY <1>24 DEF vars, Outcome, ExitStatusHonest, Recorded, counters, artifacts, gpu, history
<1> QED
  BY <1>1, <1>2, <1>3, <1>4, <1>5, <1>6, <1>7, <1>8, <1>9, <1>10, <1>11, <1>12, <1>13, <1>14, <1>15, <1>16, <1>17, <1>18, <1>19, <1>20, <1>21, <1>22, <1>23, <1>24 DEF Next, RunnerStep, Done

(* Exit status 0 is never an overstatement: no abort, a "completed"        *)
(* summary from a windowed run, a static clock whose command succeeded,    *)
(* and every initial decision that was carried out recorded.               *)
THEOREM ExitStatusCorrect == Spec => []ExitStatusHonest
<1>1. Init => Outcome /\ ExitStatusHonest
  BY OutcomeInit
<1>2. TypeOK /\ Control /\ Artifacts /\ Outcome /\ ExitStatusHonest /\ [Next]_vars
        => Outcome' /\ ExitStatusHonest'
  BY OutcomeStep
<1> QED
  BY <1>1, <1>2, ControlInvariant, ArtifactsInvariant, PTL DEF Spec

-----------------------------------------------------------------------------
(* What a process counts: the failure counters, the abort, the summary,    *)
(* the snapshot, and the clocks set after the end was announced.           *)

(* Where the process is once the window has failed.                        *)
Settled == {"sleep", "finalize", "finish_loop", "exited"}

(* Where the process is once the loop is over.                             *)
Over == {"finalize", "finish_loop", "exited"}

(* A step that leaves alone what is counted of failures.                   *)
Quiet ==
    /\ UNCHANGED <<config, window, failures, consecutive, failed, longest, aborted>>
    /\ pc' = pc \/ (pc # "sleep" /\ pc' # "sleep")
    /\ pc \in Settled => pc' \in Settled
    /\ pc \in Over => pc' \in Over
    /\ pc' = "check" => pc = "check"
    /\ exitCode = Killed => exitCode' = Killed

(* The log line that ends a window without a failure.                      *)
GoodWindow ==
    /\ pc = "log_decision" /\ window # Prelaunch
    /\ pc' = "sleep" /\ consecutive' = 0
    /\ UNCHANGED <<config, window, failures, failed, longest, aborted, exitCode>>

LEMMA StepKinds ==
    ASSUME TypeOK, Control, [Next]_vars
    PROVE  Quiet \/ GoodWindow \/ HandleFailure \/ Sleep \/ EnterLoop \/ Kill
<1> USE Exits DEF Settled, Over
<1>0. exitCode = Killed => pc = "exited"
  BY DEF Control, ExitCodeSet
<1>1. CASE RejectArguments
  BY <1>1, <1>0 DEF RejectArguments, Exit, Quiet, counters, history
<1>2. CASE Initialize
  BY <1>2, <1>0 DEF Initialize, Exit, Goto, Quiet, counters, history
<1>3. CASE Announce
  BY <1>3, <1>0 DEF Announce, Exit, Goto, Quiet, counters, history
<1>4. CASE InitialDecision
  BY <1>4, <1>0 DEF InitialDecision, AfterInitial, Exit, Goto, Quiet, counters, history
<1>5. CASE FinishPrerun
  BY <1>5, <1>0 DEF FinishPrerun, Exit, Quiet, counters, history
<1>6. CASE Check
  BY <1>6, <1>0 DEF Check, Exit, Goto, Quiet, counters, history
<1>7. CASE BuildWindow
  BY <1>7, <1>0 DEF BuildWindow, Raise, Exit, Goto, Quiet, counters, history
<1>8. CASE OnWindow
  BY <1>8, <1>0 DEF OnWindow, Raise, Exit, Goto, Quiet, history
<1>9. CASE Validate
  BY <1>9, <1>0 DEF Validate, Raise, Exit, Goto, Quiet, counters, history
<1>10. CASE ApplyNothing
  BY <1>10, <1>0 DEF ApplyNothing, Goto, Quiet, counters
<1>11. CASE ApplyClock
  BY <1>11, <1>0 DEF ApplyClock, CommandFailed, Raise, Exit, Goto, Quiet, counters
<1>12. CASE PersistState
  BY <1>12, <1>0 DEF PersistState, Raise, Exit, Goto, Quiet, counters, history
<1>13. CASE AppendDecisionRow
  BY <1>13, <1>0 DEF AppendDecisionRow, Raise, Exit, Goto, Quiet, counters, history
<1>14. CASE WriteLastDecision
  BY <1>14, <1>0 DEF WriteLastDecision, Raise, Exit, Goto, Quiet, counters, history
<1>15. CASE LogDecision
  BY <1>15, <1>0 DEF LogDecision, ResetFailures, AfterInitial, Raise, Exit, Goto, Quiet,
      GoodWindow, history
<1>16. CASE Finalize
  BY <1>16, <1>0 DEF Finalize, Exit, Goto, Quiet, counters
<1>17. CASE FinishLoop
  BY <1>17, <1>0 DEF FinishLoop, Exit, Quiet, counters, history
<1>18. CASE BenchmarkEnds
  BY <1>18, <1>0 DEF BenchmarkEnds, Quiet, counters, history
<1>19. CASE StopRequested
  BY <1>19, <1>0 DEF StopRequested, Quiet, counters, history
<1>20. CASE UNCHANGED vars
  BY <1>20, <1>0 DEF vars, Quiet, counters, history
<1> QED
  BY <1>1, <1>2, <1>3, <1>4, <1>5, <1>6, <1>7, <1>8, <1>9, <1>10, <1>11, <1>12, <1>13,
     <1>14, <1>15, <1>16, <1>17, <1>18, <1>19, <1>20 DEF Next, RunnerStep, Done

-----------------------------------------------------------------------------
(* The failure counters.  "a" is the number of windows attempted.          *)
RunsExact(a, c, l, f) ==
    /\ c <= a
    /\ (a - c) .. (a - 1) \subseteq f
    /\ a > c => a - c - 1 \notin f
    /\ c <= l
    /\ \E s \in 0 .. a : s .. (s + l - 1) \subseteq f
    /\ \A s \in 0 .. a : ~(s .. (s + l) \subseteq f)

Counted ==
    /\ failed = Cardinality(failures)
    /\ \A f \in failures : f <= window
    /\ pc \notin Settled => window \notin failures
    /\ exitCode # Killed => RunsExact(Attempts, consecutive, longest, failures)

LEMMA AttemptsType ==
    ASSUME TypeOK
    PROVE  Attempts \in Nat /\ window \in Nat \cup {-1}
BY DEF TypeOK, Attempts, Prelaunch

LEMMA CountedInit == Init => Counted
<1> SUFFICES ASSUME Init PROVE Counted
  OBVIOUS
<1>1. failures = {} /\ failed = 0 /\ consecutive = 0 /\ longest = 0 /\ Attempts = 0
  BY DEF Init, Attempts
<1>2. Cardinality({}) = 0
  BY FS_EmptySet
<1>3. RunsExact(0, 0, 0, {})
  BY DEF RunsExact
<1> QED
  BY <1>1, <1>2, <1>3 DEF Counted

(* A window that did not fail ends every run.                              *)
LEMMA RunEnds ==
    ASSUME NEW a \in Nat, NEW c \in Nat, NEW l \in Nat, NEW f \in SUBSET Nat,
           RunsExact(a, c, l, f), \A x \in f : x < a, NEW b, b = a + 1
    PROVE  RunsExact(b, 0, l, f)
<1>1. PICK s \in 0 .. a : s .. (s + l - 1) \subseteq f
  BY DEF RunsExact
<1>2. s \in 0 .. (a + 1)
  OBVIOUS
<1>3. ASSUME NEW t \in 0 .. (a + 1) PROVE ~(t .. (t + l) \subseteq f)
  <2>1. CASE t = a + 1
    <3>1. t \in t .. (t + l) /\ t \notin f
      BY <2>1
    <3> QED BY <3>1
  <2>2. CASE t \in 0 .. a
    BY <2>2 DEF RunsExact
  <2> QED BY <2>1, <2>2
<1>4. b > 0 => b - 0 - 1 \notin f
  OBVIOUS
<1>5. 0 <= b /\ 0 <= l /\ (b - 0) .. (b - 1) \subseteq f
  OBVIOUS
<1>6. \E t \in 0 .. b : t .. (t + l - 1) \subseteq f
  BY <1>1, <1>2
<1>7. \A t \in 0 .. b : ~(t .. (t + l) \subseteq f)
  BY <1>3
<1> QED
  BY <1>4, <1>5, <1>6, <1>7, Zenon DEF RunsExact

(* A window that failed makes the last run one longer.                     *)
LEMMA RunGrows ==
    ASSUME NEW a \in Nat, NEW c \in Nat, NEW l \in Nat, NEW f \in SUBSET Nat,
           RunsExact(a, c, l, f), \A x \in f : x < a, NEW m \in Nat,
           NEW b, b = a + 1, NEW d, d = c + 1, NEW g, g = f \cup {a},
           m = IF l > d THEN l ELSE d
    PROVE  RunsExact(b, d, m, g)
<1>0. c <= a /\ c <= l /\ (a - c) .. (a - 1) \subseteq f /\ (a > c => a - c - 1 \notin f)
  BY DEF RunsExact
<1>1. (b - d) .. (b - 1) \subseteq g
  BY <1>0
<1>2. b > d => b - d - 1 \notin g
  BY <1>0
<1>3. \E s \in 0 .. b : s .. (s + m - 1) \subseteq g
  <2>1. CASE m = l
    <3>1. PICK s \in 0 .. a : s .. (s + l - 1) \subseteq f
      BY DEF RunsExact
    <3>2. s \in 0 .. b /\ s .. (s + m - 1) \subseteq g
      BY <2>1, <3>1
    <3> QED BY <3>2
  <2>2. CASE m = d
    <3>1. a - c \in 0 .. b /\ (a - c) .. (a - c + m - 1) \subseteq g
      BY <1>0, <2>2
    <3> QED BY <3>1
  <2> QED BY <2>1, <2>2
<1>4. ASSUME NEW s \in 0 .. b, s .. (s + m) \subseteq g PROVE FALSE
  <2>0. \A x \in g : x <= a
    OBVIOUS
  <2>1. s + m \in s .. (s + m)
    OBVIOUS
  <2>2. s + m <= a
    BY <1>4, <2>0, <2>1
  <2>3. CASE s + m < a
    <3>1. s .. (s + l) \subseteq f
      BY <1>4, <2>3
    <3>2. s \in 0 .. a
      BY <2>3
    <3>3. \A t \in 0 .. a : ~(t .. (t + l) \subseteq f)
      BY DEF RunsExact
    <3> QED BY <3>1, <3>2, <3>3
  <2>4. CASE s + m = a
    <3>1. a - c - 1 \in s .. (s + m)
      BY <2>4
    <3>2. a - c - 1 \in g /\ a > c /\ a - c - 1 # a
      BY <1>4, <2>4, <3>1
    <3> QED BY <1>0, <3>2
  <2> QED BY <2>2, <2>3, <2>4
<1>5. \A s \in 0 .. b : ~(s .. (s + m) \subseteq g)
  BY <1>4
<1>6. d <= b /\ d <= m
  BY <1>0
<1> QED
  BY <1>1, <1>2, <1>3, <1>5, <1>6, Zenon DEF RunsExact

LEMMA AttemptsKept ==
    ASSUME TypeOK, Control, Counted, Quiet \/ Sleep \/ EnterLoop
    PROVE  Attempts' = Attempts
<1>0. window \in Nat \cup {-1} /\ \A f \in failures : f \in Nat /\ f <= window
  BY AttemptsType DEF TypeOK, Counted
<1>1. CASE Quiet
  BY <1>1 DEF Quiet, Attempts
<1>2. CASE Sleep
  <2>1. window \in Nat
    BY <1>0, <1>2 DEF Sleep, Prelaunch, Control, Position, InLoop
  <2>2. window' = window + 1 /\ pc = "sleep" /\ pc' # "sleep" /\ failures' = failures
    BY <1>2 DEF Sleep, Exit, Goto, history
  <2>3. window + 1 \notin failures
    BY <1>0, <2>1
  <2> QED
    BY <2>1, <2>2, <2>3 DEF Attempts, Prelaunch
<1>3. CASE EnterLoop
  <2>1. window = -1 /\ window' = 0 /\ pc' = "check" /\ failures' = failures
    BY <1>3 DEF EnterLoop, Goto, history, Prelaunch, Control, Position, BeforeLoop
  <2>2. 0 \notin failures
    BY <1>0, <2>1
  <2> QED
    BY <2>1, <2>2 DEF Attempts, Prelaunch
<1> QED
  BY <1>1, <1>2, <1>3

LEMMA CountedStep ==
    ASSUME TypeOK, Control, Counted, TypeOK', [Next]_vars
    PROVE  Counted'
<1>0. /\ window \in Nat \cup {-1} /\ Attempts \in Nat /\ consecutive \in Nat /\ longest \in Nat
      /\ failures \in SUBSET Nat /\ IsFiniteSet(failures)
  BY AttemptsType DEF TypeOK
<1>1. CASE Quiet
  <2>1. Attempts' = Attempts
    BY <1>1, AttemptsKept
  <2>2. exitCode' # Killed => RunsExact(Attempts, consecutive, longest, failures)
    BY <1>1 DEF Quiet, Counted
  <2> QED
    BY <1>1, <2>1, <2>2 DEF Quiet, Counted, RunsExact
<1>2. CASE GoodWindow
  <2>1. window \in Nat /\ window \notin failures /\ exitCode # Killed
    BY <1>0, <1>2, Exits DEF GoodWindow, Counted, Settled, Prelaunch, Control, ExitCodeSet
  <2>2. Attempts = window /\ Attempts' = window + 1
    BY <1>2, <2>1 DEF GoodWindow, Attempts, Prelaunch
  <2>3. RunsExact(window, consecutive, longest, failures) /\ \A x \in failures : x < window
    BY <1>0, <2>1, <2>2 DEF Counted
  <2>4. RunsExact(window + 1, 0, longest, failures)
    BY <1>0, <2>1, <2>3, RunEnds
  <2>5. RunsExact(Attempts', consecutive', longest', failures')
    BY <1>2, <2>2, <2>4 DEF GoodWindow
  <2> QED
    BY <1>2, <2>5 DEF GoodWindow, Counted, Settled, RunsExact
<1>3. CASE HandleFailure
  <2>1. window \in Nat /\ window \notin failures /\ exitCode # Killed
    BY <1>0, <1>3, Exits DEF HandleFailure, Counted, Settled, Prelaunch, Control, ExitCodeSet,
      Position, InLoop
  <2>2. /\ failures' = failures \cup {window} /\ window' = window /\ failed' = failed + 1
        /\ consecutive' = consecutive + 1 /\ pc' \in Settled
        /\ longest' = IF longest > consecutive + 1 THEN longest ELSE consecutive + 1
    BY <1>3 DEF HandleFailure, AfterFailure, Exit, Goto, Settled
  <2>3. Attempts = window /\ Attempts' = window + 1
    BY <1>3, <2>1, <2>2 DEF HandleFailure, Attempts, Prelaunch
  <2>4. RunsExact(window, consecutive, longest, failures) /\ \A x \in failures : x < window
    BY <1>0, <2>1, <2>3 DEF Counted
  <2>5. longest' \in Nat
    BY <1>0, <2>2
  <2>6. RunsExact(window + 1, consecutive + 1, longest', failures \cup {window})
    BY <1>0, <2>1, <2>2, <2>4, <2>5, RunGrows
  <2>7. RunsExact(Attempts', consecutive', longest', failures')
    BY <2>2, <2>3, <2>6
  <2>8. failed' = Cardinality(failures')
    BY <1>0, <2>1, <2>2, FS_AddElement DEF Counted
  <2> QED
    BY <2>1, <2>2, <2>4, <2>7, <2>8 DEF Counted, RunsExact
<1>4. CASE Sleep
  <2>1. window \in Nat /\ exitCode # Killed
    BY <1>0, <1>4, Exits DEF Sleep, Prelaunch, Control, ExitCodeSet, Position, InLoop
  <2>2. /\ window' = window + 1
        /\ UNCHANGED <<failures, consecutive, failed, longest>>
    BY <1>4 DEF Sleep, counters, history
  <2>3. window + 1 \notin failures
    BY <1>0, <2>1 DEF Counted
  <2>4. Attempts' = Attempts
    BY <1>4, AttemptsKept
  <2>5. RunsExact(Attempts', consecutive', longest', failures')
    BY <2>1, <2>2, <2>4 DEF Counted
  <2>6. \A f \in failures' : f <= window'
    BY <1>0, <2>1, <2>2 DEF Counted
  <2> QED
    BY <2>2, <2>3, <2>5, <2>6 DEF Counted, RunsExact
<1>5. CASE EnterLoop
  <2>1. window = -1 /\ exitCode # Killed
    BY <1>5, Exits DEF EnterLoop, Prelaunch, Control, ExitCodeSet, Position, BeforeLoop
  <2>2. /\ window' = 0 /\ pc' = "check"
        /\ UNCHANGED <<failures, consecutive, failed, longest, exitCode>>
    BY <1>5 DEF EnterLoop, Goto, counters, history
  <2>3. failures = {}
    BY <1>0, <2>1 DEF Counted
  <2>4. Attempts' = Attempts
    BY <1>5, AttemptsKept
  <2> QED
    BY <1>0, <2>1, <2>2, <2>3, <2>4 DEF Counted, RunsExact
<1>6. CASE Kill
  BY <1>6 DEF Kill, Exit, Counted, Settled, counters, history
<1> QED
  BY <1>1, <1>2, <1>3, <1>4, <1>5, <1>6, StepKinds

LEMMA CountedInvariant == Spec => [](TypeOK /\ Control /\ Counted)
<1>1. TypeOK /\ Control /\ Counted /\ TypeOK' /\ [Next]_vars => Counted'
  BY CountedStep
<1> QED
  BY <1>1, CountedInit, ControlInvariant, PTL DEF Spec

(* The failure counters of final_summary.json are exact.                   *)
THEOREM FailureCountersCorrect == Spec => []FailureCountersExact
<1>1. Counted => FailureCountersExact
  BY DEF Counted, RunsExact, FailureCountersExact
<1> QED
  BY <1>1, CountedInvariant, PTL

-----------------------------------------------------------------------------
(* The abort.  As long as the loop goes on no run is as long as the limit. *)
BelowLimit ==
    /\ pc \notin Over => longest < EffectiveLimit
    /\ aborted => /\ pc \in Over
                  /\ (window - EffectiveLimit + 1) .. window \subseteq failures
                  /\ longest >= EffectiveLimit

LEMMA LimitType ==
    ASSUME TypeOK
    PROVE  /\ config.limit \in Int /\ EffectiveLimit \in Nat
           /\ EffectiveLimit >= 1 /\ EffectiveLimit >= config.limit
           /\ EffectiveLimit = 1 \/ EffectiveLimit = config.limit
<1>1. config.limit \in Int
  BY ControlLoopAssumption DEF TypeOK, Configs
<1> QED
  BY <1>1 DEF EffectiveLimit

LEMMA BelowLimitInit == Init => BelowLimit
<1> SUFFICES ASSUME Init PROVE BelowLimit
  OBVIOUS
<1>1. longest = 0 /\ aborted = FALSE
  BY DEF Init
<1>2. EffectiveLimit >= 1
  BY LimitType, TypeInit
<1> QED
  BY <1>1, <1>2, LimitType, TypeInit DEF BelowLimit

LEMMA BelowLimitStep ==
    ASSUME TypeOK, Control, Counted, BelowLimit, [Next]_vars
    PROVE  BelowLimit'
<1> USE DEF Over
<1>0. /\ window \in Nat \cup {-1} /\ consecutive \in Nat /\ longest \in Nat
      /\ failures \in SUBSET Nat
  BY AttemptsType DEF TypeOK
<1>1. CASE Quiet
  <2>1. pc \in Over => pc' \in Over
    BY <1>1 DEF Quiet
  <2> QED
    BY <1>1, <2>1 DEF Quiet, BelowLimit, EffectiveLimit
<1>2. CASE GoodWindow
  BY <1>2 DEF GoodWindow, BelowLimit, EffectiveLimit
<1>3. CASE HandleFailure
  <2>1. /\ window \in Nat /\ window \notin failures /\ exitCode # Killed /\ ~aborted
        /\ longest < EffectiveLimit /\ pc = "handle_failure"
    BY <1>0, <1>3, Exits DEF HandleFailure, Counted, Settled, Prelaunch, Control, ExitCodeSet,
      Position, InLoop, BelowLimit
  <2>2. consecutive <= longest /\ (window - consecutive) .. (window - 1) \subseteq failures
    BY <2>1 DEF Counted, RunsExact, Attempts, Prelaunch
  <2>3. /\ failures' = failures \cup {window} /\ window' = window /\ config' = config
        /\ longest' = IF longest > consecutive + 1 THEN longest ELSE consecutive + 1
    BY <1>3 DEF HandleFailure
  <2>4. EffectiveLimit' = EffectiveLimit
    BY <2>3 DEF EffectiveLimit
  <2>5. CASE pc' = "exited" /\ aborted' = aborted
    BY <2>1, <2>5 DEF BelowLimit
  <2>6. CASE LimitReached /\ aborted' = TRUE /\ pc' = "finalize"
    <3>1. consecutive + 1 = EffectiveLimit
      BY <1>0, <2>1, <2>2, <2>6, LimitType DEF LimitReached
    <3>2. (window - EffectiveLimit + 1) .. window \subseteq failures'
      BY <1>0, <2>1, <2>2, <2>3, <3>1
    <3>3. longest' >= EffectiveLimit
      BY <1>0, <2>3, <3>1
    <3> QED
      BY <2>3, <2>4, <2>6, <3>2, <3>3 DEF BelowLimit
  <2>7. CASE ~LimitReached /\ aborted' = aborted /\ pc' = "sleep"
    <3>1. longest' < EffectiveLimit
      BY <1>0, <2>1, <2>3, <2>7, LimitType DEF LimitReached
    <3> QED
      BY <2>1, <2>4, <2>7, <3>1 DEF BelowLimit
  <2> QED
    BY <1>3, <2>5, <2>6, <2>7 DEF HandleFailure, AfterFailure, Exit, Goto
<1>4. CASE Sleep
  <2>1. ~aborted /\ longest < EffectiveLimit /\ aborted' = aborted /\ longest' = longest
        /\ config' = config
    BY <1>4 DEF Sleep, BelowLimit, counters
  <2> QED
    BY <2>1 DEF BelowLimit, EffectiveLimit
<1>5. CASE EnterLoop
  <2>1. ~aborted /\ longest < EffectiveLimit /\ aborted' = aborted /\ longest' = longest
        /\ config' = config
    BY <1>5 DEF EnterLoop, BelowLimit, counters
  <2> QED
    BY <2>1 DEF BelowLimit, EffectiveLimit
<1>6. CASE Kill
  BY <1>6 DEF Kill, Exit, BelowLimit, EffectiveLimit, counters, history
<1> QED
  BY <1>1, <1>2, <1>3, <1>4, <1>5, <1>6, StepKinds

LEMMA BelowLimitInvariant == Spec => [](TypeOK /\ Control /\ Counted /\ BelowLimit)
<1>1. TypeOK /\ Control /\ Counted /\ BelowLimit /\ [Next]_vars => BelowLimit'
  BY BelowLimitStep
<1> QED
  BY <1>1, BelowLimitInit, CountedInvariant, PTL DEF Spec

(* The loop aborts exactly when the last max(1, limit) windows raised.     *)
THEOREM AbortCorrect == Spec => []AbortIffLimitReached
<1>1. ASSUME TypeOK, Control, Counted, BelowLimit PROVE AbortIffLimitReached
  <2>1. ASSUME pc = "check", NEW s \in 0 .. window,
               s .. (s + EffectiveLimit - 1) \subseteq failures
        PROVE  FALSE
    <3>1. window \notin failures /\ exitCode # Killed /\ longest < EffectiveLimit
      BY <1>1, <2>1, Exits DEF Counted, Settled, Control, ExitCodeSet, BelowLimit, Over
    <3>2. window \in Nat /\ Attempts = window
      BY <1>1, <2>1, <3>1, AttemptsType DEF Attempts, Prelaunch, Control, Position, InLoop
    <3>3. ~(s .. (s + longest) \subseteq failures)
      BY <1>1, <2>1, <3>1, <3>2 DEF Counted, RunsExact
    <3>4. longest \in Nat /\ EffectiveLimit \in Nat
      BY <1>1, LimitType DEF TypeOK
    <3> QED
      BY <2>1, <3>1, <3>2, <3>3, <3>4
  <2> QED
    BY <1>1, <2>1 DEF BelowLimit, AbortIffLimitReached
<1> QED
  BY <1>1, BelowLimitInvariant, PTL

-----------------------------------------------------------------------------
(* Clocks set after the end.  Once it happened the loop never gets to a    *)
(* decision again: the next check stops it.                                *)
BeforeApply == {"main", "announce", "initial_decision", "build_window", "on_window",
                "validate", "apply"}

Late ==
    /\ lateApplies <= 1
    /\ lateApplies = 1 => Ended /\ pc \notin BeforeApply

LEMMA LateStep ==
    ASSUME TypeOK, Late, [Next]_vars
    PROVE  Late'
<1>0. lateApplies \in Nat
  BY DEF TypeOK
<1>1. CASE RejectArguments
  BY <1>1 DEF RejectArguments, Exit, Late, Ended, BeforeApply, counters, gpu, outside, history
<1>2. CASE Initialize
  BY <1>2 DEF Initialize, Exit, Goto, Late, Ended, BeforeApply, counters, gpu, outside, history
<1>3. CASE Announce
  BY <1>3 DEF Announce, Exit, Goto, Late, Ended, BeforeApply, counters, gpu, outside, history
<1>4. CASE InitialDecision
  BY <1>4 DEF InitialDecision, AfterInitial, Exit, Goto, Late, Ended, BeforeApply, counters,
      gpu, outside, history
<1>5. CASE FinishPrerun
  BY <1>5 DEF FinishPrerun, Exit, Late, Ended, BeforeApply, counters, gpu, outside, history
<1>6. CASE EnterLoop
  BY <1>6 DEF EnterLoop, Goto, Late, Ended, BeforeApply, counters, gpu, outside, history
<1>7. CASE Check
  BY <1>7 DEF Check, _should_stop, Exit, Goto, Late, Ended, BeforeApply, counters, gpu, outside, history
<1>8. CASE BuildWindow
  BY <1>8 DEF BuildWindow, Raise, Exit, Goto, Late, Ended, BeforeApply, counters, gpu,
      outside, history
<1>9. CASE OnWindow
  BY <1>9 DEF OnWindow, Raise, Exit, Goto, Late, Ended, BeforeApply, counters, gpu, outside,
      history
<1>10. CASE Validate
  BY <1>10 DEF Validate, Raise, Exit, Goto, Late, Ended, BeforeApply, counters, gpu,
      outside, history
<1>11. CASE ApplyNothing
  BY <1>11 DEF ApplyNothing, Goto, Late, Ended, BeforeApply, counters, gpu, outside, history
<1>12. CASE ApplyClock
  <2>1. lateApplies = 0 /\ (Ended' <=> Ended)
    BY <1>0, <1>12 DEF ApplyClock, Late, BeforeApply, Ended, outside
  <2>2. lateApplies' = 0 \/ (lateApplies' = 1 /\ Ended)
    BY <2>1, <1>12 DEF ApplyClock, CommandFailed
  <2>3. pc' \notin BeforeApply
    BY <1>12 DEF ApplyClock, CommandFailed, Raise, Exit, Goto, BeforeApply
  <2> QED
    BY <2>1, <2>2, <2>3 DEF Late
<1>13. CASE PersistState
  BY <1>13 DEF PersistState, Raise, Exit, Goto, Late, Ended, BeforeApply, counters, gpu,
      outside, history
<1>14. CASE AppendDecisionRow
  BY <1>14 DEF AppendDecisionRow, Raise, Exit, Goto, Late, Ended, BeforeApply, counters,
      gpu, outside, history
<1>15. CASE WriteLastDecision
  BY <1>15 DEF WriteLastDecision, Raise, Exit, Goto, Late, Ended, BeforeApply, counters,
      gpu, outside, history
<1>16. CASE LogDecision
  BY <1>16 DEF LogDecision, ResetFailures, AfterInitial, Raise, Exit, Goto, Late, Ended,
      BeforeApply, counters, gpu, outside, history
<1>17. CASE HandleFailure
  BY <1>17 DEF HandleFailure, AfterFailure, Exit, Goto, Late, Ended, BeforeApply, counters,
      gpu, outside, history
<1>18. CASE Sleep
  BY <1>18 DEF Sleep, Exit, Goto, Late, Ended, BeforeApply, counters, gpu, outside, history
<1>19. CASE Finalize
  BY <1>19 DEF Finalize, Exit, Goto, Late, Ended, BeforeApply, counters, gpu, outside, history
<1>20. CASE FinishLoop
  BY <1>20 DEF FinishLoop, Exit, Late, Ended, BeforeApply, counters, gpu, outside, history
<1>21. CASE BenchmarkEnds
  BY <1>21 DEF BenchmarkEnds, Late, Ended, BeforeApply, counters, gpu, outside, history
<1>22. CASE StopRequested
  BY <1>22 DEF StopRequested, Late, Ended, BeforeApply, counters, gpu, outside, history
<1>23. CASE Kill
  BY <1>23 DEF Kill, Exit, Late, Ended, BeforeApply, counters, gpu, outside, history
<1>24. CASE UNCHANGED vars
  BY <1>24 DEF vars, Late, Ended, BeforeApply, counters, gpu, outside, history
<1> QED
  BY <1>1, <1>2, <1>3, <1>4, <1>5, <1>6, <1>7, <1>8, <1>9, <1>10, <1>11, <1>12, <1>13,
      <1>14, <1>15, <1>16, <1>17, <1>18, <1>19, <1>20, <1>21, <1>22, <1>23, <1>24 DEF Next,
      RunnerStep, Done

(* At most one clock is set after STOP or the end of the benchmark.        *)
THEOREM LateApplyBounded == Spec => []AtMostOneLateApply
<1>1. Init => Late
  BY DEF Init, Late
<1>2. TypeOK /\ Late /\ [Next]_vars => Late'
  BY LateStep
<1>3. Late => AtMostOneLateApply
  BY DEF Late, AtMostOneLateApply
<1> QED
  BY <1>1, <1>2, <1>3, TypeCorrect, PTL DEF Spec

-----------------------------------------------------------------------------
(* The snapshot.  It is the current state from persist_state() to the end  *)
(* of a window that did not fail, and nothing touches either after that.   *)
GoodSoFar == window > 0 /\ window \notin failures /\ window - 1 \notin failures

SnapshotFollows ==
    /\ pc \in {"append_row", "write_last", "log_decision"} => snapshot = counted
    /\ pc = "sleep" /\ window \notin failures => snapshot = counted
    /\ pc \in {"check", "finalize"} /\ GoodSoFar => snapshot = counted
    /\ summary.status # "none" =>
          /\ pc \in {"finish_loop", "exited"}
          /\ summary.windows = counted
          /\ GoodSoFar => snapshot = counted

LEMMA SnapshotStep ==
    ASSUME TypeOK, Control, SnapshotFollows, [Next]_vars
    PROVE  SnapshotFollows'
<1>0. window \in Nat \cup {-1}
  BY DEF TypeOK, Prelaunch
<1>1. CASE RejectArguments
  BY <1>1 DEF RejectArguments, Exit, SnapshotFollows, GoodSoFar, counters, artifacts, gpu,
      outside, history
<1>2. CASE Initialize
  BY <1>2 DEF Initialize, Exit, Goto, SnapshotFollows, GoodSoFar, counters, artifacts, gpu,
      outside, history
<1>3. CASE Announce
  BY <1>3 DEF Announce, Exit, Goto, SnapshotFollows, GoodSoFar, counters, artifacts, gpu,
      outside, history
<1>4. CASE InitialDecision
  BY <1>4 DEF InitialDecision, AfterInitial, Exit, Goto, SnapshotFollows, GoodSoFar,
      counters, artifacts, gpu, outside, history
<1>5. CASE FinishPrerun
  BY <1>5 DEF FinishPrerun, Exit, SnapshotFollows, GoodSoFar, counters, artifacts, gpu,
      outside, history
<1>6. CASE EnterLoop
  BY <1>6 DEF EnterLoop, Goto, SnapshotFollows, GoodSoFar, counters, artifacts, gpu,
      outside, history
<1>7. CASE Check
  BY <1>7 DEF Check, _should_stop, Exit, Goto, SnapshotFollows, GoodSoFar, counters, artifacts,
      gpu, outside, history
<1>8. CASE BuildWindow
  BY <1>8 DEF BuildWindow, Raise, Exit, Goto, SnapshotFollows, GoodSoFar, counters,
      artifacts, gpu, outside, history
<1>9. CASE OnWindow
  BY <1>9 DEF OnWindow, Raise, Exit, Goto, SnapshotFollows, GoodSoFar, counters, artifacts,
      gpu, outside, history
<1>10. CASE Validate
  BY <1>10 DEF Validate, Raise, Exit, Goto, SnapshotFollows, GoodSoFar, counters, artifacts,
      gpu, outside, history
<1>11. CASE ApplyNothing
  BY <1>11 DEF ApplyNothing, Goto, SnapshotFollows, GoodSoFar, counters, artifacts, gpu,
      outside, history
<1>12. CASE ApplyClock
  BY <1>12 DEF ApplyClock, CommandFailed, Raise, Exit, Goto, SnapshotFollows, GoodSoFar,
      counters, artifacts, gpu, outside, history
<1>13. CASE PersistState
  BY <1>13 DEF PersistState, Raise, Exit, Goto, SnapshotFollows, GoodSoFar, counters,
      artifacts, gpu, outside, history
<1>14. CASE AppendDecisionRow
  BY <1>14 DEF AppendDecisionRow, Raise, Exit, Goto, SnapshotFollows, GoodSoFar, counters,
      artifacts, gpu, outside, history
<1>15. CASE WriteLastDecision
  BY <1>15 DEF WriteLastDecision, Raise, Exit, Goto, SnapshotFollows, GoodSoFar, counters,
      artifacts, gpu, outside, history
<1>16. CASE LogDecision
  BY <1>16 DEF LogDecision, ResetFailures, AfterInitial, Raise, Exit, Goto, SnapshotFollows,
      GoodSoFar, counters, artifacts, gpu, outside, history
<1>17. CASE HandleFailure
  BY <1>17 DEF HandleFailure, AfterFailure, Exit, Goto, SnapshotFollows, GoodSoFar,
      counters, artifacts, gpu, outside, history
<1>18. CASE Sleep
  <2>1. window \in Nat
    BY <1>18 DEF TypeOK, Prelaunch, Sleep, Control, Position, InLoop
  <2> QED
    BY <1>18, <2>1 DEF Sleep, Exit, Goto, SnapshotFollows, GoodSoFar, counters, artifacts, gpu,
        outside, history
<1>19. CASE Finalize
  BY <1>19 DEF Finalize, Exit, Goto, SnapshotFollows, GoodSoFar, counters, artifacts, gpu,
      outside, history
<1>20. CASE FinishLoop
  BY <1>20 DEF FinishLoop, Exit, SnapshotFollows, GoodSoFar, counters, artifacts, gpu,
      outside, history
<1>21. CASE BenchmarkEnds
  BY <1>21 DEF BenchmarkEnds, SnapshotFollows, GoodSoFar, counters, artifacts, gpu, outside,
      history
<1>22. CASE StopRequested
  BY <1>22 DEF StopRequested, SnapshotFollows, GoodSoFar, counters, artifacts, gpu, outside,
      history
<1>23. CASE Kill
  BY <1>23 DEF Kill, Exit, SnapshotFollows, GoodSoFar, counters, artifacts, gpu, outside, history
<1>24. CASE UNCHANGED vars
  BY <1>24 DEF vars, SnapshotFollows, GoodSoFar, counters, artifacts, gpu, outside, history
<1> QED
  BY <1>1, <1>2, <1>3, <1>4, <1>5, <1>6, <1>7, <1>8, <1>9, <1>10, <1>11, <1>12, <1>13,
      <1>14, <1>15, <1>16, <1>17, <1>18, <1>19, <1>20, <1>21, <1>22, <1>23, <1>24 DEF Next,
      RunnerStep, Done

(* After a last window that succeeded, policy_state.json is the state of   *)
(* the summary.                                                            *)
THEOREM SnapshotCorrect == Spec => []SnapshotCurrent
<1>1. Init => SnapshotFollows
  BY DEF Init, SnapshotFollows, NoSummary
<1>2. TypeOK /\ Control /\ SnapshotFollows /\ [Next]_vars => SnapshotFollows'
  BY SnapshotStep
<1>3. ASSUME TypeOK, SnapshotFollows PROVE SnapshotCurrent
  <2>1. SUFFICES ASSUME summary.status # "none", Attempts > 0, Attempts - 1 \notin failures
                 PROVE  snapshot = summary.windows
    BY DEF SnapshotCurrent
  <2>2. pc \in {"finish_loop", "exited"} /\ window \in Nat \cup {-1}
    BY <1>3, <2>1 DEF SnapshotFollows, TypeOK, Prelaunch
  <2>3. window # -1
    BY <2>1 DEF Attempts, Prelaunch
  <2>4. window \notin failures /\ Attempts = window
    BY <2>1, <2>2, <2>3 DEF Attempts, Prelaunch
  <2> QED
    BY <1>3, <2>1, <2>2, <2>3, <2>4 DEF SnapshotFollows, GoodSoFar
<1> QED
  BY <1>1, <1>2, <1>3, ControlInvariant, PTL DEF Spec

-----------------------------------------------------------------------------
(* The summary.  A window in progress is counted by the policy when        *)
(* on_window() returns; from there to the end of the window it is one      *)
(* ahead of the windows attempted.                                         *)
Lead == IF window # Prelaunch /\ pc \in WithDecision THEN 1 ELSE 0

Balance ==
    /\ counted <= Attempts + 1
    /\ window = Prelaunch \/ pc \in {"check", "build_window", "on_window", "sleep", "finalize"}
         => counted <= Attempts
    /\ Attempts + Lead <= counted + failed

Actuations == actuated \ {Prelaunch}

Carried ==
    /\ IsFiniteSet(Actuations)
    /\ Cardinality(Actuations) <= counted
    /\ pc \in {"validate", "apply"} /\ window # Prelaunch
         => Cardinality(Actuations) + 1 <= counted

Told ==
    summary.status # "none" => pc \in {"finish_loop", "exited"} /\ SummaryAccounts

Accounts == (pc # "exited" => Balance) /\ Carried /\ Told

LEMMA CarriedStep ==
    ASSUME TypeOK, Control, Carried, [Next]_vars
    PROVE  Carried'
<1>0. counted \in Nat /\ counted' \in {counted, counted + 1} /\ Cardinality(Actuations) \in Nat
  <2>1. counted' \in {counted, counted + 1}
    BY DEF Next, RunnerStep, Done, vars, counters, RejectArguments, Initialize, Announce,
      InitialDecision, FinishPrerun, EnterLoop, Check, BuildWindow, OnWindow, Validate,
      ApplyNothing, ApplyClock, PersistState, AppendDecisionRow, WriteLastDecision,
      LogDecision, HandleFailure, Sleep, Finalize, FinishLoop, BenchmarkEnds,
      StopRequested, Kill
  <2> QED
    BY <2>1, FS_CardinalityType DEF TypeOK, Carried
<1>1. CASE pc = "apply" /\ actuated' = actuated \cup {window} /\ pc' = "persist"
           /\ counted' = counted
  <2>1. CASE window = Prelaunch
    BY <1>1, <2>1 DEF Carried, Actuations
  <2>2. CASE window # Prelaunch
    <3>1. Actuations' = Actuations \cup {window}
      BY <1>1, <2>2 DEF Actuations
    <3>2. IsFiniteSet(Actuations') /\ Cardinality(Actuations') <= Cardinality(Actuations) + 1
      BY <1>0, <3>1, FS_AddElement DEF Carried
    <3> QED
      BY <1>0, <1>1, <2>2, <3>2, FS_CardinalityType DEF Carried
  <2> QED
    BY <2>1, <2>2
<1>2. CASE OnWindow
  <2>1. Actuations' = Actuations
    BY <1>2 DEF OnWindow, Actuations, history
  <2>2. counted' = counted + 1 \/ pc' \notin {"validate", "apply"}
    BY <1>2 DEF OnWindow, Raise, Exit, Goto
  <2> QED
    BY <1>0, <2>1, <2>2 DEF Carried
<1>3. CASE /\ actuated' = actuated /\ counted' = counted
           /\ \/ pc' \notin {"validate", "apply"}
              \/ pc' = pc /\ window' = window
              \/ pc' = "apply" /\ pc = "validate" /\ window' = window
              \/ window' = Prelaunch
  BY <1>3 DEF Carried, Actuations
<1> QED
  BY <1>1, <1>2, <1>3
    DEF Next, RunnerStep, Done, vars, counters, history, RejectArguments, Initialize, Announce,
      InitialDecision, AfterInitial, FinishPrerun, EnterLoop, Check, BuildWindow, Validate,
      ApplyNothing, ApplyClock, CommandFailed, PersistState, AppendDecisionRow,
      WriteLastDecision, LogDecision, HandleFailure, AfterFailure, Sleep, Finalize,
      FinishLoop, BenchmarkEnds, StopRequested, Kill, Raise, Exit, Goto, Control, Position,
      BeforeLoop

LEMMA BalanceStep ==
    ASSUME TypeOK, Control, Counted, Balance, [Next]_vars, pc' # "exited"
    PROVE  Balance'
<1>0. /\ window \in Nat \cup {-1} /\ counted \in Nat /\ failed \in Nat /\ Attempts \in Nat
      /\ pc \in Labels
  BY AttemptsType DEF TypeOK
<1>1. CASE GoodWindow
  <2>1. window \in Nat /\ window \notin failures /\ pc = "log_decision"
    BY <1>0, <1>1 DEF GoodWindow, Counted, Settled, Prelaunch
  <2>2. Attempts = window /\ Attempts' = window + 1
    BY <1>1, <2>1 DEF GoodWindow, Attempts, Prelaunch
  <2>3. counted' = counted /\ failed' = failed /\ pc' = "sleep" /\ window' = window
    BY <1>1 DEF GoodWindow, Next, RunnerStep, Done, vars, counters, history,
        RejectArguments, Initialize, Announce, InitialDecision, AfterInitial, FinishPrerun,
        EnterLoop, Check, BuildWindow, OnWindow, Validate, ApplyNothing, ApplyClock,
        CommandFailed, PersistState, AppendDecisionRow, WriteLastDecision, LogDecision,
        HandleFailure, AfterFailure, Sleep, Finalize, FinishLoop, BenchmarkEnds,
        StopRequested, Kill, Raise, Exit, Goto
  <2>4. Lead = 1 /\ Lead' = 0
    BY <1>1, <2>1, <2>3 DEF GoodWindow, Lead, WithDecision
  <2> QED
    BY <1>0, <2>1, <2>2, <2>3, <2>4 DEF Balance
<1>2. CASE HandleFailure
  <2>1. window \in Nat /\ window \notin failures
    BY <1>0, <1>2 DEF HandleFailure, Counted, Settled, Prelaunch, Control, Position, InLoop
  <2>2. /\ pc = "handle_failure" /\ failures' = failures \cup {window} /\ window' = window
        /\ failed' = failed + 1 /\ counted' = counted /\ pc' \in {"sleep", "finalize"}
    BY <1>2, pc' # "exited" DEF HandleFailure, AfterFailure, Exit, Goto
  <2>3. Attempts = window /\ Attempts' = window + 1
    BY <2>1, <2>2 DEF Attempts, Prelaunch
  <2>4. Lead = 0 /\ Lead' = 0
    BY <2>2 DEF Lead, WithDecision
  <2> QED
    BY <1>0, <2>1, <2>2, <2>3, <2>4 DEF Balance
<1>3. CASE Quiet \/ Sleep \/ EnterLoop
  <2>1. Attempts' = Attempts
    BY <1>3, AttemptsKept
  <2>2. failed' = failed
    BY <1>3 DEF Quiet, Sleep, EnterLoop, counters
  <2>3. CASE OnWindow
    <3>1. pc = "on_window" /\ window' = window /\ Lead = 0 /\ window # Prelaunch
      BY <2>3 DEF OnWindow, Lead, WithDecision, Control, Position, InLoop
    <3>2. \/ counted' = counted + 1 /\ pc' = "validate"
          \/ counted' \in {counted, counted + 1} /\ pc' = "handle_failure"
      BY <2>3, pc' # "exited" DEF OnWindow, Raise, Exit, Goto
    <3>3. Lead' = 0 \/ (Lead' = 1 /\ counted' = counted + 1)
      BY <3>2 DEF Lead, WithDecision
    <3> QED
      BY <1>0, <2>1, <2>2, <3>1, <3>2, <3>3 DEF Balance, BeforeLoop
  <2>4. CASE ~OnWindow
    <3>1. counted' = counted
      BY <2>4 DEF Next, RunnerStep, Done, vars, counters, history, RejectArguments,
          Initialize, Announce, InitialDecision, AfterInitial, FinishPrerun, EnterLoop,
          Check, BuildWindow, OnWindow, Validate, ApplyNothing, ApplyClock, CommandFailed,
          PersistState, AppendDecisionRow, WriteLastDecision, LogDecision, HandleFailure,
          AfterFailure, Sleep, Finalize, FinishLoop, BenchmarkEnds, StopRequested, Kill,
          Raise, Exit, Goto
    <3>2. window' = Prelaunch \/ pc' \in {"check", "build_window", "on_window", "sleep", "finalize"}
          => window = Prelaunch \/ pc \in {"check", "build_window", "on_window", "sleep", "finalize"}
      BY <1>0, <1>3, <2>4 DEF Quiet, Next, RunnerStep, Done, vars, counters, history,
          RejectArguments, Initialize, Announce, InitialDecision, AfterInitial,
          FinishPrerun, EnterLoop, Check, BuildWindow, OnWindow, Validate, ApplyNothing,
          ApplyClock, CommandFailed, PersistState, AppendDecisionRow, WriteLastDecision,
          LogDecision, HandleFailure, AfterFailure, Sleep, Finalize, FinishLoop,
          BenchmarkEnds, StopRequested, Kill, Raise, Exit, Goto, BeforeLoop, Control,
          Position
    <3>3. window' # Prelaunch /\ pc' \in WithDecision => window # Prelaunch /\ pc \in WithDecision
      BY <1>0, <1>3, <2>4 DEF Quiet, Next, RunnerStep, Done, vars, counters, history,
          RejectArguments, Initialize, Announce, InitialDecision, AfterInitial,
          FinishPrerun, EnterLoop, Check, BuildWindow, OnWindow, Validate, ApplyNothing,
          ApplyClock, CommandFailed, PersistState, AppendDecisionRow, WriteLastDecision,
          LogDecision, HandleFailure, AfterFailure, Sleep, Finalize, FinishLoop,
          BenchmarkEnds, StopRequested, Kill, Raise, Exit, Goto, BeforeLoop, WithDecision,
          Control, Position
    <3>4. Lead \in Nat /\ Lead' \in Nat /\ Lead' <= Lead
      BY <3>3 DEF Lead
    <3>5. counted' <= Attempts' + 1
      BY <2>1, <3>1 DEF Balance
    <3>6. Attempts' + Lead' <= counted' + failed'
      <4>1. Attempts + Lead <= counted + failed
        BY DEF Balance
      <4>2. ASSUME NEW l \in Nat, NEW k \in Nat, k <= l, Attempts + l <= counted + failed
            PROVE  Attempts + k <= counted + failed
        BY <1>0, <4>2
      <4>3. Attempts + Lead' <= counted + failed
        BY <3>4, <4>1, <4>2
      <4> QED
        BY <2>1, <2>2, <3>1, <4>3
    <3> QED
      BY <2>1, <3>1, <3>2, <3>5, <3>6 DEF Balance
  <2> QED
    BY <2>3, <2>4
<1> QED
  BY <1>1, <1>2, <1>3, StepKinds DEF Kill, Exit

LEMMA AccountsInit == Init => Accounts
<1> SUFFICES ASSUME Init PROVE Accounts
  OBVIOUS
<1>1. /\ pc = "main" /\ window = Prelaunch /\ counted = 0 /\ failed = 0 /\ Attempts = 0
      /\ summary.status = "none" /\ Actuations = {}
  BY DEF Init, Attempts, NoSummary, Actuations
<1>2. IsFiniteSet({}) /\ Cardinality({}) = 0
  BY FS_EmptySet
<1>3. Lead = 0
  BY <1>1 DEF Lead
<1> QED
  BY <1>1, <1>2, <1>3 DEF Accounts, Balance, Carried, Told, Prelaunch

LEMMA ToldStep ==
    ASSUME TypeOK, Control, Counted, BelowLimit, Accounts, [Next]_vars
    PROVE  Told'
<1>1. CASE Finalize
  <2>0. /\ pc = "finalize" /\ exitCode # Killed
        /\ counted \in Nat /\ failed \in Nat /\ Attempts \in Nat
    BY <1>1, Exits, AttemptsType DEF Finalize, Control, ExitCodeSet, TypeOK
  <2>1. CASE pc' = "exited" /\ summary' = summary
    BY <2>0, <2>1 DEF Accounts, Told
  <2>2. CASE /\ pc' = "finish_loop"
             /\ summary' = [status |-> IF aborted THEN "aborted" ELSE "completed",
                            windows |-> counted, failures |-> failed, longest |-> longest]
    <3>1. /\ failures' = failures /\ actuated' = actuated /\ window' = window
          /\ config' = config
      BY <1>1 DEF Finalize
    <3>2. Attempts' = Attempts /\ EffectiveLimit' = EffectiveLimit
      BY <2>0, <2>2, <3>1 DEF Attempts, EffectiveLimit
    <3>3. summary'.failures = Cardinality(failures')
      BY <2>2, <3>1 DEF Counted
    <3>4. counted <= Attempts /\ Attempts <= counted + failed
      <4>1. Lead = 0
        BY <2>0 DEF Lead, WithDecision
      <4> QED
        BY <2>0, <4>1 DEF Accounts, Balance
    <3>5. Cardinality(actuated' \ {Prelaunch}) <= summary'.windows
      BY <2>2, <3>1 DEF Accounts, Carried, Actuations
    <3>6. summary'.status = "aborted" => summary'.longest >= EffectiveLimit'
      BY <2>2, <3>2 DEF BelowLimit
    <3> QED
      BY <2>2, <3>2, <3>3, <3>4, <3>5, <3>6 DEF Told, SummaryAccounts
  <2> QED
    BY <1>1, <2>1, <2>2 DEF Finalize, Exit, Goto
<1>2. CASE ~Finalize
  <2>1. summary' = summary
    BY <1>2 DEF artifacts, Next, RunnerStep, Done, vars, counters, history, RejectArguments,
        Initialize, Announce, InitialDecision, AfterInitial, FinishPrerun, EnterLoop, Check,
        BuildWindow, OnWindow, Validate, ApplyNothing, ApplyClock, CommandFailed,
        PersistState, AppendDecisionRow, WriteLastDecision, LogDecision, HandleFailure,
        AfterFailure, Sleep, FinishLoop, BenchmarkEnds, StopRequested, Kill, Raise, Exit,
        Goto
  <2>2. CASE summary.status = "none"
    BY <2>1, <2>2 DEF Told
  <2>3. CASE summary.status # "none"
    <3>1. pc \in {"finish_loop", "exited"} /\ SummaryAccounts
      BY <2>3 DEF Accounts, Told
    <3>2. /\ pc' \in {"finish_loop", "exited"} /\ window' = window /\ failures' = failures
          /\ actuated' = actuated /\ config' = config
      BY <3>1 DEF Next, RunnerStep, Done, vars, counters, history, RejectArguments,
          Initialize, Announce, InitialDecision, AfterInitial, FinishPrerun, EnterLoop,
          Check, BuildWindow, OnWindow, Validate, ApplyNothing, ApplyClock, CommandFailed,
          PersistState, AppendDecisionRow, WriteLastDecision, LogDecision, HandleFailure,
          AfterFailure, Sleep, Finalize, FinishLoop, BenchmarkEnds, StopRequested, Kill,
          Raise, Exit, Goto
    <3>3. Attempts' = Attempts /\ EffectiveLimit' = EffectiveLimit
      BY <3>1, <3>2 DEF Attempts, EffectiveLimit
    <3> QED
      BY <2>1, <3>1, <3>2, <3>3 DEF Told, SummaryAccounts
  <2> QED
    BY <2>2, <2>3
<1> QED
  BY <1>1, <1>2

LEMMA AccountsStep ==
    ASSUME TypeOK, Control, Counted, BelowLimit, Accounts, [Next]_vars
    PROVE  Accounts'
<1>1. pc' # "exited" => pc # "exited"
  BY DEF Next, RunnerStep, Done, vars, counters, history, RejectArguments, Initialize,
      Announce, InitialDecision, AfterInitial, FinishPrerun, EnterLoop, Check, BuildWindow,
      OnWindow, Validate, ApplyNothing, ApplyClock, CommandFailed, PersistState,
      AppendDecisionRow, WriteLastDecision, LogDecision, HandleFailure, AfterFailure, Sleep,
      Finalize, FinishLoop, BenchmarkEnds, StopRequested, Kill, Raise, Exit, Goto
<1>2. pc' # "exited" => Balance'
  BY <1>1, BalanceStep DEF Accounts
<1>3. Carried'
  BY CarriedStep DEF Accounts
<1> QED
  BY <1>2, <1>3, ToldStep DEF Accounts

(* What final_summary.json says of windows, failures and clocks fits       *)
(* together.                                                               *)
THEOREM SummaryCorrect == Spec => []SummaryAccounts
<1>1. TypeOK /\ Control /\ Counted /\ BelowLimit /\ Accounts /\ [Next]_vars => Accounts'
  BY AccountsStep
<1>2. Accounts => SummaryAccounts
  BY DEF Accounts, Told, SummaryAccounts
<1> QED
  BY <1>1, <1>2, AccountsInit, BelowLimitInvariant, PTL DEF Spec

-----------------------------------------------------------------------------
(* finalize().  Three calls can raise past it: the check of what stops the *)
(* loop, the log of the except clause, and the sleep.  Wherever one does,  *)
(* the windows attempted by then have a row or a counted failure.          *)
Traced == 0 .. (Attempts - 1) \subseteq Recorded \cup failures

Unfinished ==
    /\ pc = "finish_loop" => finalized
    /\ summary.status # "none" => finalized
    /\ pc = "exited" /\ exitCode # Killed /\ window # Prelaunch => finalized \/ exitCode = 1

LEMMA RowsGrow ==
    ASSUME TypeOK, [Next]_vars
    PROVE  Recorded \subseteq Recorded'
<1>1. CASE rows' = rows
  BY <1>1 DEF Recorded
<1>2. CASE rows' = Append(rows, window)
  <2>1. rows \in Seq(Nat \cup {Prelaunch}) /\ window \in Nat \cup {Prelaunch}
    BY DEF TypeOK
  <2>2. /\ DOMAIN rows \subseteq DOMAIN rows'
        /\ \A i \in DOMAIN rows : rows'[i] = rows[i]
    BY <1>2, <2>1
  <2> QED
    BY <2>2 DEF Recorded
<1> QED
  BY <1>1, <1>2 DEF artifacts, Next, RunnerStep, Done, vars, RejectArguments, Initialize,
      Announce, InitialDecision, FinishPrerun, EnterLoop, Check, BuildWindow, OnWindow,
      Validate, ApplyNothing, ApplyClock, PersistState, AppendDecisionRow,
      WriteLastDecision, LogDecision, HandleFailure, Sleep, Finalize, FinishLoop,
      BenchmarkEnds, StopRequested, Kill

LEMMA Below ==
    ASSUME NEW a \in Nat, NEW b \in Nat, b <= a
    PROVE  0 .. (b - 1) \subseteq 0 .. (a - 1)
OBVIOUS

LEMMA TracedStep ==
    ASSUME TypeOK, Control, Counted, Artifacts, Traced, [Next]_vars
    PROVE  Traced'
<1>0. /\ window \in Nat \cup {-1} /\ Attempts \in Nat /\ pc \in Labels
      /\ Recorded \subseteq Recorded'
  BY AttemptsType, RowsGrow DEF TypeOK
<1>1. CASE Quiet \/ Sleep \/ EnterLoop
  <2>1. failures' = failures
    BY <1>1 DEF Quiet, Sleep, EnterLoop, history
  <2>2. Attempts' = Attempts
    BY <1>1, AttemptsKept
  <2> QED
    BY <1>0, <2>1, <2>2 DEF Traced
<1>2. CASE GoodWindow
  <2>1. window \in Nat /\ window \notin failures /\ window \in Recorded
    BY <1>0, <1>2 DEF GoodWindow, Counted, Settled, Prelaunch, Artifacts, Progress
  <2>2. Attempts = window /\ Attempts' = window + 1 /\ failures' = failures
    BY <1>2, <2>1 DEF GoodWindow, Attempts, Prelaunch
  <2> QED
    BY <1>0, <2>1, <2>2 DEF Traced
<1>3. CASE HandleFailure
  <2>1. window \in Nat /\ window \notin failures
    BY <1>0, <1>3 DEF HandleFailure, Counted, Settled, Prelaunch, Control, Position, InLoop
  <2>2. failures' = failures \cup {window} /\ window' = window /\ pc = "handle_failure"
    BY <1>3 DEF HandleFailure
  <2>3. Attempts = window /\ Attempts' = window + 1
    BY <2>1, <2>2 DEF Attempts, Prelaunch
  <2> QED
    BY <1>0, <2>1, <2>2, <2>3 DEF Traced
<1>4. CASE Kill
  <2>1. failures' = failures /\ window' = window /\ pc' # "sleep"
    BY <1>4 DEF Kill, Exit, history
  <2>2. Attempts' \in Nat /\ Attempts' <= Attempts
    BY <1>0, <2>1 DEF Attempts, Prelaunch
  <2>3. 0 .. (Attempts' - 1) \subseteq 0 .. (Attempts - 1)
    BY <1>0, <2>2, Below
  <2> QED
    BY <1>0, <2>1, <2>3 DEF Traced
<1> QED
  BY <1>1, <1>2, <1>3, <1>4, StepKinds

LEMMA UnfinishedStep ==
    ASSUME TypeOK, Control, Unfinished, [Next]_vars
    PROVE  Unfinished'
<1>0. pc \in BeforeLoop => window = Prelaunch
  BY DEF Control, Position
<1> USE Exits DEF Unfinished, BeforeLoop
<1>1. CASE RejectArguments
  BY <1>0, <1>1 DEF RejectArguments, Exit, artifacts, history
<1>2. CASE Initialize
  BY <1>0, <1>2 DEF Initialize, Exit, Goto, artifacts, history
<1>3. CASE Announce
  BY <1>0, <1>3 DEF Announce, Exit, Goto, artifacts, history
<1>4. CASE InitialDecision
  BY <1>0, <1>4 DEF InitialDecision, AfterInitial, Exit, Goto, artifacts, history
<1>5. CASE FinishPrerun
  BY <1>0, <1>5 DEF FinishPrerun, Exit, artifacts, history
<1>6. CASE EnterLoop
  BY <1>0, <1>6 DEF EnterLoop, Goto, artifacts, history
<1>7. CASE Check
  BY <1>0, <1>7 DEF Check, Exit, Goto, artifacts, history
<1>8. CASE BuildWindow
  BY <1>0, <1>8 DEF BuildWindow, Raise, Exit, Goto, artifacts, history
<1>9. CASE OnWindow
  BY <1>0, <1>9 DEF OnWindow, Raise, Exit, Goto, artifacts, history
<1>10. CASE Validate
  BY <1>0, <1>10 DEF Validate, Raise, Exit, Goto, artifacts, history
<1>11. CASE ApplyNothing
  BY <1>0, <1>11 DEF ApplyNothing, Goto, artifacts, history
<1>12. CASE ApplyClock
  BY <1>0, <1>12 DEF ApplyClock, CommandFailed, Raise, Exit, Goto, artifacts, history
<1>13. CASE PersistState
  BY <1>0, <1>13 DEF PersistState, Raise, Exit, Goto, artifacts, history
<1>14. CASE AppendDecisionRow
  BY <1>0, <1>14 DEF AppendDecisionRow, Raise, Exit, Goto, artifacts, history
<1>15. CASE WriteLastDecision
  BY <1>0, <1>15 DEF WriteLastDecision, Raise, Exit, Goto, artifacts, history
<1>16. CASE LogDecision
  BY <1>0, <1>16 DEF LogDecision, AfterInitial, Raise, Exit, Goto, artifacts, history
<1>17. CASE HandleFailure
  BY <1>0, <1>17 DEF HandleFailure, AfterFailure, Exit, Goto, artifacts, history
<1>18. CASE Sleep
  BY <1>0, <1>18 DEF Sleep, Exit, Goto, artifacts, history
<1>19. CASE Finalize
  BY <1>0, <1>19 DEF Finalize, Exit, Goto, artifacts, history
<1>20. CASE FinishLoop
  BY <1>0, <1>20 DEF FinishLoop, Exit, artifacts, history
<1>21. CASE BenchmarkEnds
  BY <1>0, <1>21 DEF BenchmarkEnds, artifacts, history
<1>22. CASE StopRequested
  BY <1>0, <1>22 DEF StopRequested, artifacts, history
<1>23. CASE Kill
  BY <1>0, <1>23 DEF Kill, Exit, artifacts, history
<1>24. CASE UNCHANGED vars
  BY <1>0, <1>24 DEF vars, artifacts, history
<1> QED
  BY <1>1, <1>2, <1>3, <1>4, <1>5, <1>6, <1>7, <1>8, <1>9, <1>10, <1>11, <1>12, <1>13,
     <1>14, <1>15, <1>16, <1>17, <1>18, <1>19, <1>20, <1>21, <1>22, <1>23, <1>24 DEF Next,
     RunnerStep, Done

(* A process of the loop that lost finalize() ends with status 1, has      *)
(* written no final_summary.json, and has a row or a counted failure of    *)
(* every window it attempted.                                              *)
THEOREM UnfinalizedVisibleCorrect == Spec => []UnfinalizedIsVisible
<1>1. Init => Traced /\ Unfinished
  <2>1. Init => Attempts = 0
    BY DEF Init, Attempts
  <2> QED
    BY <2>1 DEF Init, Traced, Unfinished, NoSummary
<1>2. TypeOK /\ Control /\ Counted /\ Artifacts /\ Traced /\ Unfinished /\ [Next]_vars
        => (Traced /\ Unfinished)'
  BY TracedStep, UnfinishedStep
<1>3. Traced /\ Unfinished => UnfinalizedIsVisible
  BY DEF Traced, Unfinished, UnfinalizedIsVisible
<1> QED
  BY <1>1, <1>2, <1>3, CountedInvariant, ArtifactsInvariant, PTL DEF Spec
=============================================================================
