------------------------------- MODULE MCRealtime -------------------------------
(***************************************************************************)
(* Model checking of RealtimeRunner: the instances are given by the cfgs.  *)
(***************************************************************************)
EXTENDS RealtimeProperties, MCRunners
==============================================================================
