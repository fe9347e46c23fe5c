-------------------------- MODULE MCPhaseIdentifier --------------------------
(***************************************************************************)
(* The phase identifier alone, fed with any telemetry windows for ever:    *)
(* its state is finite, so that no bound on the number of windows is       *)
(* needed.  Three windows make one phase window.                           *)
(***************************************************************************)
EXTENDS PhaseIdentifier

MCLevels == {0, 1, 2}

Next == ObserveAny(MCLevels)

Spec == InitIdentifier /\ [][Next]_identifier
=============================================================================
