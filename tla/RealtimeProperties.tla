--------------------------- MODULE RealtimeProperties ---------------------------
(***************************************************************************)
(* What a run of the RealtimeRunner promises.                              *)
(***************************************************************************)
EXTENDS RealtimeRunner, SimulationProperties

InATick == phase \in Phases \ {"configure", "registering", "peek", "stopped", "panicked"}

(* Every variable has the type of the Rust value it stands for. *)
RealtimeTypeOK ==
    /\ TypeOK
    /\ wall \in 0 .. MaxWall
    /\ wait \in {"none", "sleeping", "over"}
    /\ sleep_until \in 0 .. MaxElapsed

(* The doc of RealtimeRunner: the simulation progresses at the correct       *)
(* wall-clock speed.  No tick is worked on before its time has come.        *)
NeverEarly == InATick => wall >= TickUnit * now

(* A tick that came late does not move the later ones: the wait is for a     *)
(* time counted from the start of the run, so that the runner catches up.    *)
NoDrift == wait = "sleeping" => sleep_until <= TickUnit * now

(* A wait ends, and its tick begins. *)
WaitEnds == wait = "sleeping" ~> InATick
==============================================================================
