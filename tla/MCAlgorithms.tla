----------------------------- MODULE MCAlgorithms -----------------------------
(***************************************************************************)
(* A behaviour is a computation of EVeREST's clocks, or a session of       *)
(* EnergyUCB's core: neither knows of the other.  Clocks and rewards are   *)
(* small numbers of units.                                                 *)
(***************************************************************************)
EXTENDS EverestClocks, EnergyUcb

MCPlatforms == {p \in [min : {1, 2}, max : 3 .. 9, step : {2, 3}] : p.min <= p.max}
MCSensitivities == {<<0, 1>>, <<1, 3>>, <<1, 1>>}
MCLosses == {<<0, 1>>, <<1, 20>>, <<1, 2>>}
MCClockInputs == [platform : MCPlatforms, high : {0, 4, 7, 12}, low : {2, 5, 20},
                  floor : {0, 3, 6}, fs : MCSensitivities, loss : MCLosses]

MCOrders == {<<1, 2, 3>>, <<3, 1, 2>>}
MCMeans == {<<0, 1>>, <<-2, 1>>}
MCObservations == {[energy |-> 3, core |-> 1, uncore |-> 1],
                   [energy |-> 1, core |-> 1, uncore |-> 2],
                   [energy |-> 2, core |-> 1, uncore |-> 0]}
MCProgresses == {<<10, 10, 10>>, <<8, 9, 10>>, <<7, 12, 10>>, <<0, 10, 0>>}
MCBudgets == {<<1, 10>>}
MCBonus(t, n) == IF t = 1 THEN 0 ELSE IF n = 1 THEN 3 ELSE 2

Init == InitClocks /\ InitSession

Next ==
    \/ arms = OptimisticArms(initial) /\ choice = {} /\ ComputeClocks /\ UNCHANGED session
    \/ clocks = {} /\ NextCall /\ UNCHANGED clocks

Spec == Init /\ [][Next]_<<clocks, session>>
=============================================================================
