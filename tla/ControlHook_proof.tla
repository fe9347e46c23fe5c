-------------------------- MODULE ControlHook_proof --------------------------
(***************************************************************************)
(* Proofs about ControlHook, for every platform, policy, number of windows *)
(* and state left by an earlier run.  The inductive invariant says what is *)
(* in hand at each call, and what of it is already in the files.           *)
(***************************************************************************)
EXTENDS ControlHook, FiniteSetTheorems, TLAPS

Working == Labels \ {"idle"}
WithDecision == {"validate", "apply", "persist", "append_row", "write_last", "log_decision"}

(* A process has a window, has read a state before it decides, and holds a *)
(* decision the runner validated when it applies it; a static policy's is  *)
(* a clock change in window 0 only.                                        *)
InHand ==
    /\ pc \in Working => window \in Nat
    /\ pc \in Working \ {"load"} => file # Torn
    /\ pc = "apply" => validate_decision(decision, Platform)
    /\ pc \in WithDecision /\ static /\ window > 0 => ~RequiresClockChange(decision)

-----------------------------------------------------------------------------
(* A validated clock change asks for a clock the GPU can have.             *)
LEMMA ValidatedClock ==
    ASSUME TypeOK, validate_decision(decision, Platform),
           RequiresClockChange(decision), decision.target # NoClock
    PROVE  decision.target \in ClockValues
<1>1. decision.target \in Targets
  BY DEF TypeOK, Decisions
<1>2. CASE decision.action = "set_clock"
  BY <1>1, <1>2, ControlHookAssumption DEF validate_decision
<1>3. CASE decision.action = "reset_to_max"
  BY <1>3, ControlHookAssumption DEF validate_decision
<1> QED
  BY <1>2, <1>3 DEF RequiresClockChange

LEMMA WindowDecisionsTyped ==
    ASSUME NEW s \in BOOLEAN, NEW d \in WindowDecisions(s)
    PROVE  d \in Decisions(Targets) /\ (s => ~RequiresClockChange(d))
BY DEF WindowDecisions, Decisions, Hold, Actions, RequiresClockChange

LEMMA TypeInit == Init => TypeOK
<1> SUFFICES ASSUME Init PROVE TypeOK
  OBVIOUS
<1>1. decision \in Decisions(Targets)
  BY DEF Init, Hold, Decisions, Actions
<1>2. earlier \in EarlierRuns
  BY DEF Init
<1>3. /\ file \in Nat \cup {Absent, Torn}
      /\ rows \in Seq(Nat \cup {Prelaunch})
      /\ lastDecision \in Nat \cup {Prelaunch, NoClock}
  BY <1>2, ControlHookAssumption DEF Init
<1> QED
  BY <1>1, <1>2, <1>3 DEF Init, TypeOK, Labels

LEMMA TypeStep ==
    ASSUME TypeOK, InHand, [Next]_vars
    PROVE  TypeOK'
<1> USE DEF Labels, Working
<1>1. CASE Call
  <2>1. Hold \in Decisions(Targets)
    BY DEF Hold, Decisions, Actions
  <2> QED
    BY <1>1, <2>1 DEF Call, Prelaunch, InHand, TypeOK, fixed, files, past
<1>2. CASE Load
  <2>1. window \in Nat
    BY <1>2 DEF Load, InHand
  <2>2. file' \in Nat \cup {Absent, Torn} /\ counted' \in Nat
    BY <1>2 DEF Load, Missing, Loaded, TypeOK
  <2>3. pc' \in Labels /\ exitCode' \in {0, 1, Killed} /\ failed' \subseteq Nat
    BY <1>2, <2>1 DEF Load, Raise, Failure, Ends, Goto, TypeOK
  <2> QED
    BY <1>2, <2>2, <2>3 DEF Load, TypeOK, fixed, files
<1>3. CASE DecideInitial
  BY <1>3 DEF DecideInitial, TakesInitial, Goto, TypeOK, fixed, files, past
<1>4. CASE DecideWindow
  <2>1. decision' \in Decisions(Targets)
    BY <1>4, WindowDecisionsTyped DEF DecideWindow, TypeOK
  <2> QED
    BY <1>4, <2>1 DEF DecideWindow, TakesInitial, Goto, TypeOK, fixed, files, past
<1>5. CASE DecideRaises
  BY <1>5
     DEF DecideRaises, Raise, Ends, Failure, InHand, TypeOK, fixed, files, hand, past
<1>6. CASE Validate
  BY <1>6
     DEF Validate, Raise, Ends, Goto, Failure, InHand, TypeOK, fixed, files, hand, past
<1>7. CASE ApplyNothing
  BY <1>7
     DEF ApplyNothing, Goto, Failure, InHand, TypeOK, fixed, files, hand, past
<1>8. CASE ApplyClock
  <2>1. decision.target \in ClockValues
    BY <1>8, ValidatedClock DEF ApplyClock, InHand
  <2>2. clock' \in ClockValues
    BY <1>8, <2>1 DEF ApplyClock, CommandFailed, TypeOK
  <2>3. window \in Nat
    BY <1>8 DEF ApplyClock, InHand, Working
  <2>4. actuated' \subseteq Nat \cup {Prelaunch} /\ failed' \subseteq Nat
    BY <1>8, <2>3 DEF ApplyClock, CommandFailed, Raise, Ends, Goto, TypeOK
  <2>5. pc' \in Labels /\ exitCode' \in {0, 1, Killed}
    BY <1>8 DEF ApplyClock, CommandFailed, Raise, Failure, Ends, Goto, TypeOK
  <2> QED
    BY <1>8, <2>2, <2>4, <2>5 DEF ApplyClock, TypeOK, fixed, files, hand
<1>9. CASE PersistState
  BY <1>9
     DEF PersistState, Raise, Ends, Goto, Failure, InHand, TypeOK, fixed, files, hand, past
<1>10. CASE AppendDecisionRow
  <2>1. rows' \in Seq(Nat \cup {Prelaunch})
    BY <1>10 DEF AppendDecisionRow, TypeOK
  <2> QED
    BY <1>10, <2>1 DEF AppendDecisionRow, Raise, Failure, Ends, Goto, InHand, Working,
         TypeOK, fixed, hand
<1>11. CASE WriteLastDecision
  BY <1>11
     DEF WriteLastDecision, Raise, Ends, Goto, Failure, InHand, TypeOK, fixed, files,
         hand, past
<1>12. CASE LogDecision
  BY <1>12
     DEF LogDecision, Raise, Ends, Failure, InHand, TypeOK, fixed, files, hand, past
<1>13. CASE Kill
  <2>1. clock' \in ClockValues
    <3>1. CASE pc = "apply" /\ RequiresClockChange(decision) /\ decision.target # NoClock
      <4>1. decision.target \in ClockValues
        BY <3>1, ValidatedClock DEF InHand
      <4> QED
        BY <1>13, <3>1, <4>1 DEF Kill, TypeOK
    <3>2. CASE ~(pc = "apply" /\ RequiresClockChange(decision) /\ decision.target # NoClock)
      BY <1>13, <3>2 DEF Kill, TypeOK
    <3> QED
      BY <3>1, <3>2
  <2> QED
    BY <1>13, <2>1 DEF Kill, Ends, Missing, InHand, Working, TypeOK, fixed, hand
<1>14. CASE UNCHANGED vars
  BY <1>14
     DEF vars, Failure, InHand, TypeOK, fixed, files, hand, past
<1> QED
  BY <1>1, <1>2, <1>3, <1>4, <1>5, <1>6, <1>7, <1>8, <1>9, <1>10, <1>11, <1>12, <1>13,
         <1>14 DEF Next, HookStep

LEMMA InHandStep ==
    ASSUME TypeOK, InHand, [Next]_vars
    PROVE  InHand'
<1> USE DEF Labels, Working, WithDecision, Absent, Torn, Prelaunch
<1>1. CASE Call
  BY <1>1
     DEF Call, InHand, TypeOK, fixed, files, hand, past
<1>2. CASE Load
  BY <1>2
     DEF Load, Raise, Ends, Goto, Missing, Loaded, InHand, TypeOK, fixed, files, hand, past
<1>3. CASE DecideInitial
  BY <1>3 DEF DecideInitial, TakesInitial, Goto, InHand, TypeOK, fixed
<1>4. CASE DecideWindow
  <2>1. static => ~RequiresClockChange(decision')
    BY <1>4, WindowDecisionsTyped DEF DecideWindow, TypeOK
  <2> QED
    BY <1>4, <2>1 DEF DecideWindow, Goto, InHand, TypeOK, fixed
<1>5. CASE DecideRaises
  BY <1>5
     DEF DecideRaises, Raise, Ends, InHand, TypeOK, fixed, files, hand, past
<1>6. CASE Validate
  BY <1>6
     DEF Validate, Raise, Ends, Goto, InHand, TypeOK, fixed, files, hand, past
<1>7. CASE ApplyNothing
  BY <1>7
     DEF ApplyNothing, Goto, InHand, TypeOK, fixed, files, hand, past
<1>8. CASE ApplyClock
  BY <1>8
     DEF ApplyClock, CommandFailed, Raise, Ends, Goto, InHand, TypeOK, fixed, files,
         hand, past
<1>9. CASE PersistState
  BY <1>9
     DEF PersistState, Raise, Ends, Goto, InHand, TypeOK, fixed, files, hand, past
<1>10. CASE AppendDecisionRow
  BY <1>10
     DEF AppendDecisionRow, Raise, Ends, Goto, InHand, TypeOK, fixed, files, hand, past
<1>11. CASE WriteLastDecision
  BY <1>11
     DEF WriteLastDecision, Raise, Ends, Goto, InHand, TypeOK, fixed, files, hand, past
<1>12. CASE LogDecision
  BY <1>12
     DEF LogDecision, Raise, Ends, InHand, TypeOK, fixed, files, hand, past
<1>13. CASE Kill
  BY <1>13
     DEF Kill, Ends, Missing, InHand, TypeOK, fixed, files, hand, past
<1>14. CASE UNCHANGED vars
  BY <1>14
     DEF vars, InHand, TypeOK, fixed, files, hand, past
<1> QED
  BY <1>1, <1>2, <1>3, <1>4, <1>5, <1>6, <1>7, <1>8, <1>9, <1>10, <1>11, <1>12, <1>13,
         <1>14 DEF Next, HookStep

LEMMA Invariant == Spec => [](TypeOK /\ InHand)
<1>1. Init => TypeOK /\ InHand
  BY TypeInit DEF Init, InHand, Working, WithDecision
<1>2. TypeOK /\ InHand /\ [Next]_vars => (TypeOK /\ InHand)'
  BY TypeStep, InHandStep
<1> QED
  BY <1>1, <1>2, PTL DEF Spec

(* Every variable of the hook keeps its type; for the clock this needs     *)
(* that only validated decisions are commanded.                            *)
THEOREM HookTypeCorrect == Spec => []TypeOK
BY Invariant, PTL

-----------------------------------------------------------------------------
(* A torn state is never acted on and never replaced: control_hook.py      *)
(* reads the state before it decides, and an unreadable one ends it.       *)
THEOREM TornStopsCorrect == Spec => TornStops
<1>1. TypeOK /\ InHand /\ [Next]_vars => [file = Torn => UNCHANGED <<file, files, clock>>]_vars
  <2> SUFFICES ASSUME TypeOK, InHand, Next, file = Torn
               PROVE  UNCHANGED <<file, files, clock>>
    OBVIOUS
  <2>1. pc \in {"idle", "load"}
    BY DEF InHand, Working, TypeOK
  <2>2. CASE Call
    BY <2>2 DEF Call
  <2>3. CASE HookStep
    BY <2>1, <2>3 DEF HookStep, Load, Missing, Absent, Torn, DecideInitial, DecideWindow,
       DecideRaises, Validate, ApplyNothing, ApplyClock, PersistState, AppendDecisionRow,
       WriteLastDecision, LogDecision
  <2>4. CASE Kill
    BY <2>1, <2>4 DEF Kill, Missing, Absent, Torn, files
  <2> QED
    BY <2>2, <2>3, <2>4 DEF Next
<1> QED
  BY <1>1, Invariant, PTL DEF Spec, TornStops

(* A static policy's clock is set by the processes of window 0 only, which *)
(* are the ones that take its initial decision.                            *)
THEOREM StaticClockHeldCorrect == Spec => StaticClockHeld
<1>1. TypeOK /\ InHand /\ [Next]_vars => [static /\ window > 0 => UNCHANGED clock]_vars
  <2> SUFFICES ASSUME TypeOK, InHand, Next, static, window > 0
               PROVE  UNCHANGED clock
    OBVIOUS
  <2>1. pc = "apply" => ~RequiresClockChange(decision)
    BY DEF InHand, WithDecision
  <2> QED
    BY <2>1 DEF Next, HookStep, Call, Load, DecideInitial, DecideWindow, DecideRaises,
       Validate, ApplyNothing, ApplyClock, PersistState, AppendDecisionRow,
       WriteLastDecision, LogDecision, Kill
<1> QED
  BY <1>1, Invariant, PTL DEF Spec, StaticClockHeld

-----------------------------------------------------------------------------
(* How much of the decision in hand is in the files.                       *)
Recorded ==
    /\ pc \in {"persist", "append_row", "write_last", "log_decision"} => label \in actuated
    /\ pc \in {"append_row", "write_last", "log_decision"} => file = counted
    /\ pc \in {"write_last", "log_decision"} => Len(rows) \in NewRows /\ rows[Len(rows)] = label
    /\ Len(rows) >= Len(earlier.rows)
    /\ pc = "log_decision" => lastDecision = label

LEMMA NothingNew ==
    ASSUME Init
    PROVE  NewRows = {} /\ Len(rows) >= Len(earlier.rows)
<1>1. rows \in Seq(Nat \cup {Prelaunch}) /\ rows = earlier.rows
  BY ControlHookAssumption DEF Init
<1> QED
  BY <1>1 DEF NewRows

LEMMA SuccessStep ==
    ASSUME TypeOK, Recorded, SuccessRecorded, [Next]_vars
    PROVE  (Recorded /\ SuccessRecorded)'
<1>0. Killed # 0
  BY ControlHookAssumption
<1>1. CASE Call
  BY <1>1, <1>0
     DEF Call, Failure, NewRows, Recorded, SuccessRecorded, fixed, files, hand, past
<1>2. CASE Load
  BY <1>2, <1>0
     DEF Load, Raise, Ends, Goto, Missing, Loaded, Failure, Recorded, SuccessRecorded,
         fixed, files, hand, past
<1>3. CASE DecideInitial
  BY <1>3, <1>0
     DEF DecideInitial, Goto, TakesInitial, Failure, Recorded, SuccessRecorded, fixed,
         files, hand, past
<1>4. CASE DecideWindow
  BY <1>4, <1>0
     DEF DecideWindow, Goto, TakesInitial, Failure, Recorded, SuccessRecorded, fixed,
         files, hand, past
<1>5. CASE DecideRaises
  BY <1>5, <1>0
     DEF DecideRaises, Raise, Ends, Failure, Recorded, SuccessRecorded, fixed, files,
         hand, past
<1>6. CASE Validate
  BY <1>6, <1>0
     DEF Validate, Raise, Ends, Goto, Failure, Recorded, SuccessRecorded, fixed, files,
         hand, past
<1>7. CASE ApplyNothing
  BY <1>7, <1>0
     DEF ApplyNothing, Goto, Failure, Recorded, SuccessRecorded, fixed, files, hand, past
<1>8. CASE ApplyClock
  BY <1>8, <1>0
     DEF ApplyClock, CommandFailed, Raise, Ends, Goto, Failure, Recorded,
         SuccessRecorded, fixed, files, hand, past
<1>9. CASE PersistState
  BY <1>9, <1>0
     DEF PersistState, Raise, Ends, Goto, Failure, Recorded, SuccessRecorded, fixed,
         files, hand, past
<1>10. CASE AppendDecisionRow
  <2>1. CASE rows' = Append(rows, label) /\ pc' = "write_last"
    <3>1. /\ rows'[Len(rows')] = label
          /\ Len(rows') = Len(rows) + 1 /\ Len(rows') \in DOMAIN rows' /\ Len(rows) \in Nat
      BY <2>1 DEF TypeOK
    <3>2. earlier' = earlier /\ Len(earlier.rows) \in Nat
      BY <1>10, ControlHookAssumption DEF AppendDecisionRow, fixed, TypeOK
    <3>3. Len(rows') \in NewRows' /\ Len(rows') >= Len(earlier'.rows)
      BY <3>1, <3>2 DEF Recorded, NewRows
    <3> QED
      BY <1>10, <2>1, <3>1, <3>3 DEF AppendDecisionRow, Recorded, SuccessRecorded, hand
  <2>2. CASE pc' = "idle" /\ exitCode' = 1
    BY <1>10, <2>2, <1>0 DEF AppendDecisionRow, NewRows, Recorded, SuccessRecorded, fixed
  <2> QED
    BY <1>10, <2>1, <2>2 DEF AppendDecisionRow, Raise, Failure, Ends, Goto
<1>11. CASE WriteLastDecision
  BY <1>11, <1>0
     DEF WriteLastDecision, NewRows, Raise, Ends, Goto, Failure, Recorded, SuccessRecorded, fixed,
         files, hand, past
<1>12. CASE LogDecision
  BY <1>12, <1>0
     DEF LogDecision, NewRows, Raise, Ends, Failure, Recorded, SuccessRecorded, fixed, files,
         hand, past
<1>13. CASE Kill
  BY <1>13, <1>0
     DEF Kill, Ends, Missing, Failure, Recorded, SuccessRecorded, fixed, files, hand, past
<1>14. CASE UNCHANGED vars
  BY <1>14, <1>0
     DEF vars, NewRows, Failure, Recorded, SuccessRecorded, fixed, files, hand, past
<1> QED
  BY <1>1, <1>2, <1>3, <1>4, <1>5, <1>6, <1>7, <1>8, <1>9, <1>10, <1>11, <1>12, <1>13,
         <1>14 DEF Next, HookStep

(* Status 0 is given only when the decision was carried out, and recorded  *)
(* in policy_state.json, decisions.csv and last_decision.json.             *)
THEOREM SuccessRecordedCorrect == Spec => []SuccessRecorded
<1>1. Init => Recorded /\ SuccessRecorded
  BY NothingNew DEF Init, Recorded, SuccessRecorded
<1>2. TypeOK /\ Recorded /\ SuccessRecorded /\ [Next]_vars => (Recorded /\ SuccessRecorded)'
  BY SuccessStep
<1> QED
  BY <1>1, <1>2, Invariant, PTL DEF Spec

-----------------------------------------------------------------------------
(* The rows appended to decisions.csv are of windows up to the current     *)
(* one; before its row is appended they are of earlier windows, or of an   *)
(* earlier process for this window, which failed.                          *)
BeforeRow == {"load", "decide", "validate", "apply", "persist", "append_row"}

Earlier(i) == \/ WindowOf(rows[i]) < window
              \/ WindowOf(rows[i]) = window /\ window \in failed

RowsSoFar ==
    /\ \A i \in NewRows : WindowOf(rows[i]) \in Nat /\ WindowOf(rows[i]) <= window
    /\ pc \in BeforeRow => \A i \in NewRows : Earlier(i)
    /\ pc \in WithDecision => WindowOf(label) = window

LEMMA RowsAppended ==
    ASSUME TypeOK, InHand, Recorded, RowsSoFar, RowsTellRetries, pc = "append_row",
           rows' = Append(rows, label), UNCHANGED <<window, label, failed, actuated, earlier>>,
           pc' = "write_last"
    PROVE  (RowsSoFar /\ RowsTellRetries)'
<1> DEFINE n == Len(rows)
           k == Len(earlier.rows)
<1>1. rows \in Seq(Nat \cup {Prelaunch}) /\ label \in Nat \cup {Prelaunch}
  BY DEF TypeOK
<1>2. /\ n \in Nat /\ DOMAIN rows = 1 .. n /\ DOMAIN rows' = 1 .. (n + 1)
      /\ \A i \in 1 .. n : rows'[i] = rows[i]
      /\ rows'[n + 1] = label
  BY <1>1
<1>3. NewRows = {i \in 1 .. n : i > k} /\ NewRows' = {i \in 1 .. (n + 1) : i > k}
  BY <1>2 DEF NewRows
<1> HIDE DEF n, k
<1>4. /\ \A i \in NewRows : rows'[i] = rows[i]
      /\ \A i \in NewRows' : i \in NewRows \/ i = n + 1
      /\ \A i, j \in NewRows' : i < j => i \in NewRows
  BY <1>2, <1>3
<1>5. window \in Nat /\ WindowOf(label) = window /\ label \in actuated
  BY DEF InHand, Working, Labels, RowsSoFar, WithDecision, Recorded
<1>6. \A i \in NewRows : /\ WindowOf(rows[i]) \in Nat /\ WindowOf(rows[i]) <= window
                         /\ Earlier(i) /\ rows[i] \in actuated
  BY DEF RowsSoFar, BeforeRow, RowsTellRetries
<1>7. RowsSoFar'
  <2>1. \A i \in NewRows' : WindowOf(rows'[i]) \in Nat /\ WindowOf(rows'[i]) <= window
    <3> SUFFICES ASSUME NEW i \in NewRows'
                 PROVE  WindowOf(rows'[i]) \in Nat /\ WindowOf(rows'[i]) <= window
      OBVIOUS
    <3>1. CASE i = n + 1
      BY <1>2, <1>5, <3>1
    <3>2. CASE i \in NewRows
      BY <1>4, <1>6, <3>2
    <3> QED
      BY <1>4, <3>1, <3>2
  <2> QED
    BY <1>5, <2>1 DEF RowsSoFar, BeforeRow, WindowOf
<1>8. RowsTellRetries'
  <2>1. \A i \in NewRows' : rows'[i] \in actuated'
    BY <1>2, <1>4, <1>5, <1>6
  <2>2. ASSUME NEW i \in NewRows', NEW j \in NewRows', i < j
        PROVE  \/ WindowOf(rows'[i]) < WindowOf(rows'[j])
               \/ WindowOf(rows'[i]) = WindowOf(rows'[j]) /\ WindowOf(rows'[i]) \in failed
    <3>1. i \in NewRows
      BY <1>4, <2>2
    <3>2. CASE j = n + 1
      BY <1>2, <1>4, <1>5, <1>6, <3>1, <3>2 DEF Earlier
    <3>3. CASE j \in NewRows
      BY <1>4, <2>2, <3>1, <3>3 DEF RowsTellRetries
    <3> QED
      BY <1>4, <3>2, <3>3
  <2> QED
    BY <2>1, <2>2 DEF RowsTellRetries, WindowOf
<1> QED
  BY <1>7, <1>8

LEMMA RowsKept ==
    ASSUME RowsSoFar, RowsTellRetries, UNCHANGED <<rows, window, earlier>>,
           failed \subseteq failed', actuated \subseteq actuated',
           pc' \in BeforeRow => pc \in BeforeRow,
           pc' \in WithDecision => WindowOf(label') = window
    PROVE  (RowsSoFar /\ RowsTellRetries)'
<1>1. RowsSoFar'
  BY DEF RowsSoFar, NewRows, Earlier, WindowOf
<1>2. RowsTellRetries'
  BY DEF RowsTellRetries, NewRows, WindowOf
<1> QED
  BY <1>1, <1>2

LEMMA RowsStep ==
    ASSUME TypeOK, InHand, Recorded, RowsSoFar, RowsTellRetries, [Next]_vars
    PROVE  (RowsSoFar /\ RowsTellRetries)'
<1>1. CASE Call
  <2>1. /\ UNCHANGED <<rows, failed, actuated, earlier>> /\ pc' = "load"
        /\ window' = window + 1 \/ (window' = window /\ window \in failed)
    BY <1>1 DEF Call, files, past, fixed
  <2>2. window \in Int
    BY DEF TypeOK, Prelaunch
  <2>3. \A i \in NewRows : Earlier(i)'
    BY <2>1, <2>2 DEF RowsSoFar, Earlier, WindowOf
  <2>4. \A i \in NewRows : WindowOf(rows[i]) <= window'
    BY <2>1, <2>2 DEF RowsSoFar
  <2>5. RowsSoFar'
    BY <2>1, <2>3, <2>4 DEF RowsSoFar, NewRows, WithDecision, WindowOf
  <2> QED
    BY <2>1, <2>5 DEF RowsTellRetries, NewRows, WindowOf
<1>2. CASE AppendDecisionRow
  <2>1. CASE rows' = Append(rows, label) /\ pc' = "write_last"
    BY <1>2, <2>1, RowsAppended DEF AppendDecisionRow, Goto, Raise, Ends, hand, fixed
  <2>2. CASE UNCHANGED rows /\ Raise
    BY <1>2, <2>2, RowsKept DEF AppendDecisionRow, Raise, Ends, hand, fixed, BeforeRow,
         WithDecision
  <2> QED
    BY <1>2, <2>1, <2>2 DEF AppendDecisionRow, Goto
<1>3. CASE DecideInitial
  <2>1. WindowOf(label') = window
    BY <1>3 DEF DecideInitial, TakesInitial, WindowOf
  <2> QED
    BY <1>3, <2>1, RowsKept DEF DecideInitial, Goto, files, fixed, BeforeRow
<1>4. CASE DecideWindow
  <2>1. window \in Nat
    BY <1>4 DEF DecideWindow, InHand, Working, Labels
  <2>2. WindowOf(label') = window
    BY <1>4, <2>1 DEF DecideWindow, TakesInitial, WindowOf, Prelaunch
  <2> QED
    BY <1>4, <2>2, RowsKept DEF DecideWindow, Goto, files, fixed, BeforeRow
<1>5. CASE Load \/ DecideRaises \/ Validate \/ ApplyNothing \/ ApplyClock
           \/ PersistState \/ WriteLastDecision \/ LogDecision \/ Kill \/ UNCHANGED vars
  <2>1. UNCHANGED <<rows, window, label, earlier>>
    BY <1>5 DEF Load, DecideRaises, Validate, ApplyNothing, ApplyClock, PersistState,
       WriteLastDecision, LogDecision, Kill, vars, files, hand, fixed
  <2>2. failed \subseteq failed' /\ actuated \subseteq actuated'
    BY <1>5 DEF Load, DecideRaises, Validate, ApplyNothing, ApplyClock, CommandFailed,
       PersistState, WriteLastDecision, LogDecision, Kill, Raise, Ends, Goto, vars, past
  <2>3. /\ pc' \in BeforeRow => pc \in BeforeRow
        /\ pc' \in WithDecision => pc \in WithDecision
    BY <1>5 DEF Load, DecideRaises, Validate, ApplyNothing, ApplyClock, CommandFailed,
       PersistState, WriteLastDecision, LogDecision, Kill, Raise, Ends, Goto, vars,
       BeforeRow, WithDecision
  <2>4. pc' \in WithDecision => WindowOf(label') = window
    BY <2>1, <2>3 DEF RowsSoFar, WindowOf
  <2> QED
    BY <2>1, <2>2, <2>3, <2>4, RowsKept
<1> QED
  BY <1>1, <1>2, <1>3, <1>4, <1>5 DEF Next, HookStep

(* What a run appends to decisions.csv keeps the order of the windows and  *)
(* repeats one only after a process for it failed, for any number of       *)
(* processes and whatever an earlier run left in the file.                 *)
THEOREM RowsTellRetriesCorrect == Spec => []RowsTellRetries
<1>1. Init => Recorded /\ SuccessRecorded /\ RowsSoFar /\ RowsTellRetries
  <2> SUFFICES ASSUME Init
               PROVE  Recorded /\ SuccessRecorded /\ RowsSoFar /\ RowsTellRetries
    OBVIOUS
  <2>1. NewRows = {} /\ Len(rows) >= Len(earlier.rows)
    BY NothingNew
  <2> QED
    BY <2>1 DEF Init, Recorded, SuccessRecorded, RowsSoFar, RowsTellRetries, BeforeRow,
       WithDecision
<1>2. TypeOK /\ InHand /\ Recorded /\ SuccessRecorded /\ RowsSoFar /\ RowsTellRetries /\ [Next]_vars
      => (Recorded /\ SuccessRecorded /\ RowsSoFar /\ RowsTellRetries)'
  BY SuccessStep, RowsStep
<1> QED
  BY <1>1, <1>2, Invariant, PTL DEF Spec

-----------------------------------------------------------------------------
(* The count in the file.  A process that is to decide has counted one     *)
(* window less than there were processes; from its decision on, the state  *)
(* in memory is ahead of the rows, and the file holds that state before    *)
(* the row is appended.  Both bounds start from the count of an earlier    *)
(* run.                                                                    *)
Written == EarlierCount + Cardinality(WindowRows)
Ran == EarlierCount + calls

Cover ==
    /\ file \in Nat => Written <= file /\ file <= Ran
    /\ file = Absent => Written = 0
    /\ pc = "load" => Ran > 0 /\ (file \in Nat => file < Ran)
    /\ pc = "decide" => file \in Nat /\ counted = file /\ file < Ran
    /\ pc \in {"validate", "apply", "persist"}
         => /\ file \in Nat /\ Written <= counted /\ counted <= Ran
            /\ label # Prelaunch => Written < counted
    /\ pc = "append_row" => file = counted /\ (label # Prelaunch => Written < counted)
    /\ Len(rows) >= Len(earlier.rows)

LEMMA WrittenType ==
    ASSUME TypeOK
    PROVE  IsFiniteSet(WindowRows) /\ Written \in Nat /\ EarlierCount \in Nat /\ Ran \in Nat
<1>1. IsFiniteSet(1 .. Len(rows)) /\ DOMAIN rows = 1 .. Len(rows)
  BY FS_Interval DEF TypeOK
<1>2. WindowRows \subseteq 1 .. Len(rows)
  BY <1>1 DEF WindowRows, NewRows
<1>3. Cardinality(WindowRows) \in Nat /\ IsFiniteSet(WindowRows)
  BY <1>1, <1>2, FS_Subset, FS_CardinalityType
<1> QED
  BY <1>3 DEF Written, EarlierCount, Ran, TypeOK

LEMMA RowWritten ==
    ASSUME TypeOK, Cover, rows' = Append(rows, label), earlier' = earlier
    PROVE  /\ Written' = IF label = Prelaunch THEN Written ELSE Written + 1
           /\ Len(rows') >= Len(earlier'.rows)
<1> DEFINE n == Len(rows)
           k == Len(earlier.rows)
<1>1. rows \in Seq(Nat \cup {Prelaunch}) /\ k \in Nat
  BY ControlHookAssumption DEF TypeOK
<1>2. /\ n \in Nat /\ DOMAIN rows = 1 .. n /\ DOMAIN rows' = 1 .. (n + 1)
      /\ \A i \in 1 .. n : rows'[i] = rows[i]
      /\ rows'[n + 1] = label
      /\ Len(rows') = n + 1 /\ n >= k
  BY <1>1 DEF Cover
<1>3. /\ WindowRows = {i \in 1 .. n : i > k /\ rows[i] # Prelaunch}
      /\ WindowRows' = {i \in 1 .. (n + 1) : i > k /\ rows'[i] # Prelaunch}
  BY <1>2 DEF WindowRows, NewRows
<1>4. EarlierCount' = EarlierCount
  BY DEF EarlierCount
<1>5. Len(rows') >= Len(earlier'.rows)
  BY <1>1, <1>2
<1> HIDE DEF n, k
<1>6. CASE label = Prelaunch
  <2>1. WindowRows' = WindowRows
    BY <1>2, <1>3, <1>6 DEF Prelaunch
  <2> QED
    BY <1>4, <1>5, <1>6, <2>1 DEF Written
<1>7. CASE label # Prelaunch
  <2>1. WindowRows' = WindowRows \cup {n + 1} /\ n + 1 \notin WindowRows
    BY <1>1, <1>2, <1>3, <1>7 DEF Prelaunch
  <2>2. Cardinality(WindowRows') = Cardinality(WindowRows) + 1
    BY <2>1, WrittenType, FS_AddElement
  <2>3. Cardinality(WindowRows) \in Nat
    BY WrittenType, FS_CardinalityType
  <2> QED
    BY <1>4, <1>5, <1>7, <2>2, <2>3, WrittenType DEF Written
<1> QED
  BY <1>6, <1>7

LEMMA CoverStep ==
    ASSUME TypeOK, InHand, Cover, [Next]_vars
    PROVE  Cover'
<1>0. Written \in Nat /\ Ran \in Nat /\ counted \in Nat /\ file \in Nat \cup {Absent, Torn}
  BY WrittenType DEF TypeOK
<1>1. CASE AppendDecisionRow
  <2>1. CASE rows' = Append(rows, label) /\ pc' = "write_last"
    <3>1. /\ UNCHANGED <<file, earlier, Ran>> /\ file = counted
          /\ label # Prelaunch => Written < counted
      BY <1>1 DEF AppendDecisionRow, Cover, fixed, Ran, EarlierCount
    <3>2. Written <= file /\ file <= Ran
      BY <1>0, <3>1 DEF Cover
    <3>3. Written' <= file /\ Len(rows') >= Len(earlier'.rows)
      BY <1>0, <2>1, <3>1, <3>2, RowWritten
    <3> QED
      BY <1>0, <2>1, <3>1, <3>2, <3>3 DEF Cover, Absent
  <2>2. CASE UNCHANGED rows /\ pc' = "idle"
    BY <1>1, <2>2 DEF AppendDecisionRow, Cover, Written, WindowRows, NewRows, EarlierCount, Ran,
         fixed
  <2> QED
    BY <1>1, <2>1, <2>2 DEF AppendDecisionRow, Goto, Raise, Ends
<1>2. CASE ~AppendDecisionRow
  <2>1. UNCHANGED <<rows, earlier>>
    BY <1>2 DEF Next, HookStep, Call, Load, DecideInitial, DecideWindow, DecideRaises, Validate,
      ApplyNothing, ApplyClock, PersistState, WriteLastDecision, LogDecision, Kill, vars, files,
      fixed
  <2>2. UNCHANGED <<Written, EarlierCount>> /\ (calls' = calls => Ran' = Ran)
    BY <2>1 DEF Written, WindowRows, NewRows, EarlierCount, Ran
  <2>3. CASE Call
    <3>1. Ran' = Ran + 1
      BY <2>2, <2>3 DEF Call, Ran, TypeOK, EarlierCount
    <3> QED
      BY <1>0, <2>1, <2>2, <2>3, <3>1 DEF Call, Cover, Absent
  <2>4. CASE Load
    BY <1>0, <2>1, <2>2, <2>4 DEF Load, Missing, Loaded, Raise, Ends, Goto, Cover, Absent, Torn
  <2>5. CASE DecideInitial
    BY <1>0, <2>1, <2>2, <2>5 DEF DecideInitial, Goto, Cover
  <2>6. CASE DecideWindow
    BY <1>0, <2>1, <2>2, <2>6 DEF DecideWindow, Goto, Cover
  <2>7. CASE DecideRaises
    BY <1>0, <2>1, <2>2, <2>7 DEF DecideRaises, Raise, Ends, Cover, hand
  <2>8. CASE Validate
    BY <1>0, <2>1, <2>2, <2>8 DEF Validate, Raise, Ends, Goto, Cover, hand
  <2>9. CASE ApplyNothing
    BY <1>0, <2>1, <2>2, <2>9 DEF ApplyNothing, Goto, Cover, hand
  <2>10. CASE ApplyClock
    BY <1>0, <2>1, <2>2, <2>10 DEF ApplyClock, CommandFailed, Raise, Ends, Goto, Cover, hand
  <2>11. CASE PersistState
    BY <1>0, <2>1, <2>2, <2>11 DEF PersistState, Raise, Ends, Goto, Cover, hand, Absent, Torn
  <2>12. CASE WriteLastDecision
    BY <1>0, <2>1, <2>2, <2>12 DEF WriteLastDecision, Raise, Ends, Goto, Cover, hand
  <2>13. CASE LogDecision
    BY <1>0, <2>1, <2>2, <2>13 DEF LogDecision, Raise, Ends, Cover, hand
  <2>14. CASE Kill
    BY <1>0, <2>1, <2>2, <2>14 DEF Kill, Ends, Cover, hand, Absent, Torn
  <2>15. CASE UNCHANGED vars
    BY <2>1, <2>2, <2>15 DEF Cover, vars, hand
  <2> QED
    BY <1>2, <2>3, <2>4, <2>5, <2>6, <2>7, <2>8, <2>9, <2>10, <2>11, <2>12, <2>13, <2>14, <2>15
      DEF Next, HookStep
<1> QED
  BY <1>1, <1>2

(* The state file is never behind the windows a run recorded and never     *)
(* ahead of its processes, from the count an earlier run left, for any     *)
(* number of failures, kills and retries.                                  *)
THEOREM StateCoversRowsCorrect == Spec => []StateCoversRows
<1>1. Init => Cover
  <2>1. SUFFICES ASSUME Init PROVE Cover
    OBVIOUS
  <2>2. WindowRows = {} /\ Len(rows) >= Len(earlier.rows) /\ Cardinality({}) = 0
    BY <2>1, NothingNew, FS_EmptySet DEF WindowRows
  <2>3. /\ pc = "idle" /\ calls = 0 /\ file = earlier.file
        /\ earlier.file \in Nat \cup {Absent, Torn}
    BY <2>1, ControlHookAssumption DEF Init
  <2> QED
    BY <2>2, <2>3 DEF Cover, Written, Ran, EarlierCount, Absent, Torn
<1>2. TypeOK /\ InHand /\ Cover /\ [Next]_vars => Cover'
  BY CoverStep
<1>3. Cover => StateCoversRows
  BY DEF Cover, Written, Ran, StateCoversRows
<1> QED
  BY <1>1, <1>2, <1>3, Invariant, PTL DEF Spec
=============================================================================
