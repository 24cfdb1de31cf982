---------------------------- MODULE HookedSimulation ----------------------------
(***************************************************************************)
(* The calls of hooks in a run of Simulation: which method is called at     *)
(* which step of the engine, the executor contexts and the phases, with     *)
(* which arguments.                                                        *)
(*                                                                         *)
(* Each action is one of Simulation with the calls its code makes.  After a *)
(* panic no hook is called.                                                *)
(***************************************************************************)
EXTENDS Simulation, HookDelegate

VARIABLES handled_event,    \* the argument of the open `handle_event`, an Option
          ran_micro_step,   \* history: the argument of the last after_micro_step
          told_micro_step   \* history: last_micro_step, the argument of after_tick

toldVars == <<ran_micro_step, told_micro_step>>
hookedVars == <<vars, hookVars, handled_event, toldVars>>

SimulationScope == Scope("simulation", <<>>)
RegisterScope(slot) == Scope("register", <<slot>>)
TickScope == Scope("tick", <<now>>)
MicroStepScope == Scope("micro_step", <<now, micro_step>>)
SourcePhaseScope == Scope("source_phase", <<now, micro_step>>)
EventPhaseScope == Scope("event_phase", <<now, micro_step>>)
SourceScope(source) == Scope("source", <<now, micro_step, source.source_id>>)
EventScope(event) == Scope("event", <<now, micro_step, event.event_id>>)

HookedInit ==
    /\ Init
    /\ HookInit
    /\ handled_event = {}
    /\ ran_micro_step = 0 /\ told_micro_step = 0

(* A step and the calls it makes, unless it panics. *)
Calling(left, entered) ==
    /\ IF phase' = "panicked" THEN UNCHANGED hookVars ELSE Call(left, entered)
    /\ UNCHANGED <<handled_event, toldVars>>
Silently == UNCHANGED <<hookVars, handled_event, toldVars>>

(* `before_register_source` of the source at slot, if there is one. *)
Registering(slot) == IF slot < source_registry THEN <<RegisterScope(slot)>> ELSE <<>>

HookedBeginSimulation ==
    BeginSimulation /\ Calling(<<>>, <<SimulationScope>> \o Registering(0))

HookedRegisterSource(delay) ==
    RegisterSource(delay)
    /\ Calling(<<RegisterScope(reg_slot)>>, Registering(reg_slot + 1))

(* `on_registered` runs inside the handler that adds the source, which is still *)
(* the innermost event.                                                         *)
HookedAddSource == ContextAddSource /\ Calling(<<>>, <<RegisterScope(source_registry)>>)
HookedFinishAddSource(delay) ==
    FinishAddSource(delay) /\ Calling(<<RegisterScope(source_registry)>>, <<>>)

HookedBeginTick == BeginTick /\ Calling(<<>>, <<TickScope>>)

HookedStopRun == StopRun /\ Calling(<<SimulationScope>>, <<>>)

(* `begin_micro_step` and `start_source_phase`. *)
HookedStartSourcePhase ==
    StartSourcePhase /\ Calling(<<>>, <<MicroStepScope, SourcePhaseScope>>)

HookedFireSource(source) ==
    FireSource(source) /\ Calling(<<>>, <<SourceScope(source)>>)
HookedFinishFire(delay) ==
    /\ FinishFire(delay)
    /\ \E source \in firing_source : Calling(<<SourceScope(source)>>, <<>>)

(* `complete_source_phase` and `to_event_phase`. *)
HookedStartEventPhase ==
    StartEventPhase /\ Calling(<<SourcePhaseScope>>, <<EventPhaseScope>>)

HookedHandleEvent(event) ==
    /\ HandleEvent(event)
    /\ Call(<<>>, <<EventScope(event)>>)
    /\ handled_event' = {event}
    /\ UNCHANGED toldVars
HookedFinishHandleEvent(event) ==
    /\ FinishHandleEvent
    /\ Call(<<EventScope(event)>>, <<>>)
    /\ handled_event' = {}
    /\ UNCHANGED toldVars

MicroStepOver_NextOne == Scope("micro_step", <<now, micro_step'>>)

(* What `end_micro_step` passes to `after_micro_step`: the one that ends, *)
(* though the next one is already computed.                               *)
MicroStepOver == MicroStepScope

(* `complete_event_phase` and `end_micro_step`. *)
HookedEndMicroStep ==
    /\ EndMicroStep
    /\ IF phase' = "panicked"
       THEN Silently
       ELSE /\ Call(<<EventPhaseScope, MicroStepOver>>, <<>>)
            /\ ran_micro_step' = micro_step
            /\ UNCHANGED <<handled_event, told_micro_step>>

EndingScopes_ErrorReturnsAtOnce == IF runner_error THEN <<SimulationScope>> ELSE <<TickScope>>

(* `end_tick_with_*` calls `after_tick`, whether there was an error or not; *)
(* with one, `end_simulation_as_error` follows.                             *)
EndingScopes == <<TickScope>> \o (IF runner_error THEN <<SimulationScope>> ELSE <<>>)

LastMicroStep_AlwaysAdvanced == micro_step + 1

(* The last_micro_step of `after_tick`: next_micro_step_status, which *)
(* `end_micro_step` does not advance when the tick is complete.       *)
LastMicroStep == micro_step

HookedEndTick ==
    /\ EndTickWithIncrementTick \/ EndTickWithJumpToNextTick
    /\ IF phase' = "panicked"
       THEN Silently
       ELSE /\ Call(EndingScopes, <<>>)
            /\ told_micro_step' = LastMicroStep
            /\ UNCHANGED <<handled_event, ran_micro_step>>

HookedUserReturn ==
    \/ \E delay \in Options(Delays) :
          HookedRegisterSource(delay) \/ HookedFinishAddSource(delay) \/ HookedFinishFire(delay)
    \/ \E event \in handled_event : HookedFinishHandleEvent(event)

(* `cancel_event` and `cancel_source` open no scope, ... *)
SilentUserOperation ==
    /\ \/ Configure
       \/ \E d \in Delays, p \in Priorities : ContextScheduleEvent(d, p)
       \/ \E cancelled \in SUBSET (event_ready \cup event_pending) :
             CancelScheduledEvents(cancelled)
       \/ \E cancelled \in SUBSET (source_ready \cup source_pending) :
             CancelScheduledSources(cancelled)
    /\ Silently

(* ... nor does `on_discard_remain_micro_step`. *)
SilentRunnerStep ==
    /\ \/ FinishRegistration
       \/ ContinueMicroSteps
       \/ DiscardAtLimit
    /\ Silently

HookedRunnerStep ==
    \/ HookedBeginSimulation
    \/ HookedStopRun
    \/ HookedBeginTick
    \/ HookedStartSourcePhase
    \/ \E source \in source_batch : HookedFireSource(source)
    \/ HookedStartEventPhase
    \/ \E event \in event_batch : HookedHandleEvent(event)
    \/ HookedEndMicroStep
    \/ HookedEndTick

HookedNext ==
    \/ SilentUserOperation
    \/ HookedAddSource
    \/ HookedUserReturn
    \/ SilentRunnerStep
    \/ HookedRunnerStep

HookedSpec == HookedInit /\ [][HookedNext]_hookedVars

(* The runner's thread is never held up, and user code returns. *)
FairHookedSpec ==
    /\ HookedSpec
    /\ WF_hookedVars(SilentRunnerStep \/ HookedRunnerStep)
    /\ WF_hookedVars(HookedUserReturn)
==============================================================================
