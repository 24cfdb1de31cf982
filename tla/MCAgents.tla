------------------------------- MODULE MCAgents -------------------------------
(***************************************************************************)
(* Model checking of AgentSimulation: the instances are given by the cfgs. *)
(***************************************************************************)
EXTENDS AgentProperties, MCRunners
==============================================================================
