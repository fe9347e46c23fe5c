-------------------------- MODULE MCEverestDeployed --------------------------
(***************************************************************************)
(* A finite instance of EverestDeployed, in the units of MCEverestPolicy.  *)
(***************************************************************************)
EXTENDS EverestDeployed

MCPlatform == [min |-> 6, max |-> 15, step |-> 2]
MCLoss == <<1, 20>>
MCUtilizations == {<<0, 0>>, <<1, 1>>, <<1, 2>>, <<3, 1>>}
MCObserved == {10, 12, 15}
=============================================================================
