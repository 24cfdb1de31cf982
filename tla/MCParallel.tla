------------------------------ MODULE MCParallel ------------------------------
(***************************************************************************)
(* Model checking of ParallelRunner: the instances are given by the cfgs.  *)
(***************************************************************************)
EXTENDS ParallelProperties, MCRunners
==============================================================================
