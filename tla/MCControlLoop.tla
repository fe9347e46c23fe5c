---------------------------- MODULE MCControlLoop ----------------------------
(***************************************************************************)
(* Finite instances of ControlLoop.  The clock 2 is off the grid of the    *)
(* platform and 3 is on it, so a policy can ask for valid and invalid      *)
(* clocks.                                                                 *)
(***************************************************************************)
EXTENDS ControlLoop

MCPlatform == [min |-> 1, max |-> 4, step |-> 2]
MCTargets == {2, 3}
MCClockValues == {3, 4}
MCLimits == {0, 2}
MCMaxWindows == {NoClock, 2}
=============================================================================
