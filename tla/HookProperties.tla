----------------------------- MODULE HookProperties -----------------------------
(***************************************************************************)
(* What a run promises to the hooks that observe it.                       *)
(***************************************************************************)
EXTENDS HookedSimulation, SimulationProperties

(* Every variable has the type of the Rust value it stands for. *)
HookTypeOK ==
    /\ TypeOK
    /\ open \in Seq((1 .. HookCount) \X Scopes)
    /\ mismatched \in BOOLEAN
    /\ handled_event \in SUBSET ScheduledEvents
    /\ ran_micro_step \in MicroSteps /\ told_micro_step \in MicroSteps

(* The doc of HookDelegate: before-hooks in registration order and after-   *)
(* hooks in reverse.  Over all hooks together the calls nest: what ends is   *)
(* always what began last, with the tick, the micro-step and the source or  *)
(* event it began with.                                                     *)
HooksNest == ~mismatched

(* When `run` returns, every hook has seen the end of all it saw begin, also *)
(* when the strategy's error cut the last tick short: `after_tick` is called *)
(* then too.  Of the test of that case one comment wants this, and another   *)
(* says that AfterTick "is not executed" (standard.rs:421 and :428, the same *)
(* in parallel.rs); the code does what the first says.                       *)
EveryScopeIsClosed == phase = "stopped" => open = <<>>

(* `after_tick` tells the last micro-step of the tick, the one that the last *)
(* after_micro_step was about, unless the strategy ended the tick.           *)
LastMicroStepIsTold ==
    phase \in {"peek", "stopped"} /\ ~runner_error => told_micro_step = ran_micro_step
==============================================================================
