--------------------------- MODULE MCControlledMode ---------------------------
(***************************************************************************)
(* Finite instances of ControlledMode: three clocks, and the points of the *)
(* script where the one signal of a run may arrive.                        *)
(***************************************************************************)
EXTENDS ControlledMode

MCClocks == {1, 2, 3}
LateSignals == {"loop", "wait_bench", "decide", "exiting"}
PrerunSignals == {"prerun"}
=============================================================================
