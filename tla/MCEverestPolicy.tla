--------------------------- MODULE MCEverestPolicy ---------------------------
(***************************************************************************)
(* Finite instances of EverestPolicy.  Clocks are in units of 100 MHz and  *)
(* utilizations in units of 5 points, so that the default threshold is 2.  *)
(***************************************************************************)
EXTENDS EverestPolicy

MCPlatform == [min |-> 6, max |-> 15, step |-> 2]
MCLoss == <<1, 20>>
MCUtilizations == {0, 1, 2} \X {0, 1, 2}
MCObserved == {10, 12, 15}
=============================================================================
