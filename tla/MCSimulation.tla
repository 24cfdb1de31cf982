----------------------------- MODULE MCSimulation -----------------------------
(***************************************************************************)
(* Model checking of Simulation: the instances are given by the cfg files. *)
(***************************************************************************)
EXTENDS SimulationProperties, MCRunners
==============================================================================
