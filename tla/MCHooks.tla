-------------------------------- MODULE MCHooks --------------------------------
(***************************************************************************)
(* Model checking of HookedSimulation: the instances are given by the cfgs. *)
(***************************************************************************)
EXTENDS HookProperties, MCRunners
==============================================================================
