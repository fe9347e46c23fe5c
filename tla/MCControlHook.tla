---------------------------- MODULE MCControlHook ----------------------------
(***************************************************************************)
(* A finite instance of ControlHook: four processes, the clock 2 off the   *)
(* grid and 3 on it.  RUN_DIR is new, or an earlier run left it: a state   *)
(* whose window has no row, a complete window 0, an initial decision, a    *)
(* second window of which only the state was written, or a torn state.     *)
(***************************************************************************)
EXTENDS ControlHook

MCPlatform == [min |-> 1, max |-> 4, step |-> 2]
MCTargets == {2, 3}
MCClockValues == {3, 4}

Left(f, r, l) == [file |-> f, rows |-> r, last |-> l]

MCEarlierRuns == { Left(Absent, <<>>, NoClock),
                   Left(1, <<>>, NoClock),
                   Left(1, <<0>>, 0),
                   Left(0, <<Prelaunch>>, Prelaunch),
                   Left(2, <<0>>, 0),
                   Left(Torn, <<0>>, NoClock) }
=============================================================================
