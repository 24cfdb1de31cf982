------------------------------ MODULE Simulation ------------------------------
(***************************************************************************)
(* A run of `StandardRunner` (execution/runner/instance/standard.rs) over  *)
(* an `Engine`: the executor contexts, the micro-step phases, the contexts *)
(* handed to user code and the continue strategies, composed with the two  *)
(* schedulers.                                                             *)
(*                                                                         *)
(* The program is one thread.  Its nondeterminism is the user's code: what *)
(* the model's handlers and the sources schedule, register and cancel, and *)
(* when `should_stop` says so.  User code is a callback that stays open    *)
(* over any number of steps: one action per context method it may call,    *)
(* and one for its return.  phase says where the run is:                   *)
(*                                                                         *)
(*   configure      the Engine is being set up                             *)
(*   registering    `begin_simulation` is inside `initialize_sources`      *)
(*   peek           between ticks, `ExecutorContext`                       *)
(*   micro_step     `ActiveExecutorContext`, before `begin_micro_step`     *)
(*   source_phase   `SourcePhase`, between two sources                     *)
(*   firing         inside `Source::fire`                                  *)
(*   event_phase    `EventPhase`, between two events                       *)
(*   handling       inside `Model::handle_event`                           *)
(*   adding         inside the `on_registered` of a source being added      *)
(*   continue       `MicroStepResult::Continue`, before the strategy       *)
(*   end_tick       the micro-step loop is left                            *)
(*   stopped        `run` has returned                                     *)
(*   panicked       the thread panicked                                    *)
(***************************************************************************)
EXTENDS EventScheduler, SourceHandler

CONSTANTS Delays,    \* the durations user code passes or returns
          Runners    \* the runners `run` may be called on, and how

(* A runner, its strategy, and which should_stop closure `run` gets, with the *)
(* arguments of `run_do_ticks`.                                               *)
RunnerSettings ==
    [skippable : BOOLEAN,
     strategy : {"always", "limit_discard", "limit_abort"},
     limit : Nat,            \* limit_micro_step_count
     allow_errors : Nat,     \* allow_error_count
     stop_rule : {"any", "idle", "do_ticks"},
     include_zero_tick : BOOLEAN, tick_count : Nat]

ASSUME DelaysAssumption == Delays \subseteq Time
ASSUME RunnersAssumption == Runners \subseteq RunnerSettings

VARIABLES phase,
          tick_status,     \* next_tick_status at peek, else current_tick_status
          current_tick,    \* ExecutorContext::current_tick
          micro_step,      \* current or next_micro_step_status, as phase says
          reg_slot,        \* the registry index `initialize_sources` is at
          source_batch,    \* SourcePhase::ready_sources
          event_batch,     \* EventPhase::ready_events
          firing_source,   \* the entry `fire_and_schedule` is at, an Option
          runner,          \* the runner in use; no step changes it
          error_count,     \* LimitAbortStrategy::error_count
          runner_error,    \* runner_error.is_some()
          panic            \* what the thread panicked with

(* History variables: they record, and nothing in a guard reads them. *)
VARIABLES handled,         \* ids of the events a model was given
          dropped,         \* ids of the events cancelled or discarded
          tick_first_id,   \* next_event_id when the current tick began
          step_first_id    \* next_event_id when the current micro-step began

executorVars == <<tick_status, current_tick, micro_step>>
batchVars == <<source_batch, event_batch, firing_source>>
runnerVars == <<runner, error_count, runner_error, panic>>
historyVars == <<handled, dropped, tick_first_id, step_first_id>>
vars == <<schedulerVars, sourceVars, phase, executorVars, reg_slot, batchVars,
          runnerVars, historyVars>>

Phases == {"configure", "registering", "peek", "micro_step", "source_phase", "firing",
           "event_phase", "handling", "adding", "continue", "end_tick", "stopped",
           "panicked"}
Panics == {"none", "time overflow", "micro-step overflow", "time underflow",
           "event overdue", "source overdue"}

now == tick_status.current
Skippable == runner.skippable
Strategy == runner.strategy
Limit == runner.limit
AllowErrors == runner.allow_errors
StopRule == runner.stop_rule
IncludeZeroTick == runner.include_zero_tick
TickCount == runner.tick_count

InCallback == phase \in {"registering", "firing", "handling", "adding"}
IdsOf(events) == {e.event_id : e \in events}

Init ==
    /\ SchedulerInit
    /\ SourceInit
    /\ phase = "configure"
    /\ tick_status = InitialTickStatus
    /\ current_tick = 0
    /\ micro_step = 0
    /\ reg_slot = 0
    /\ source_batch = {} /\ event_batch = {} /\ firing_source = {}
    /\ runner \in Runners
    /\ error_count = 0 /\ runner_error = FALSE /\ panic = "none"
    /\ handled = {} /\ dropped = {} /\ tick_first_id = 0 /\ step_first_id = 0

(* The thread unwinds: the run is over, and nothing else happens. *)
Panic(reason) ==
    /\ phase' = "panicked"
    /\ panic' = reason
    /\ UNCHANGED <<schedulerVars, sourceVars, executorVars, reg_slot, batchVars,
                   runner, error_count, runner_error, historyVars>>

(***************************************************************************)
(* Setting up the Engine.                                                  *)
(***************************************************************************)

(* `Engine::schedule_event_at`: schedules with delay zero from sim_time. *)
ScheduleEventAt(sim_time, priority) ==
    /\ phase = "configure"
    /\ next_event_id < MaxEvents
    /\ Schedule(sim_time, 0, priority)
    /\ UNCHANGED <<sourceVars, phase, executorVars, reg_slot, batchVars, runnerVars,
                   historyVars>>

(* `Engine::add_source`. *)
AddEngineSource ==
    /\ phase = "configure"
    /\ source_registry < MaxSources
    /\ AddSourceForBeforeSimulation
    /\ UNCHANGED <<schedulerVars, phase, executorVars, reg_slot, batchVars, runnerVars,
                   historyVars>>

(* `Engine::begin_simulation` up to `initialize_sources`. *)
BeginSimulation ==
    /\ phase = "configure"
    /\ FlushPendingSources
    /\ phase' = "registering"
    /\ reg_slot' = 0
    /\ UNCHANGED <<schedulerVars, executorVars, batchVars, runnerVars, historyVars>>

(* The `on_registered` of the source at reg_slot returns. *)
RegisterSource(delay) ==
    /\ phase = "registering"
    /\ reg_slot < source_registry
    /\ InitializeSource(reg_slot, delay)
    /\ reg_slot' = reg_slot + 1
    /\ UNCHANGED <<schedulerVars, phase, executorVars, batchVars, runnerVars, historyVars>>

(* The end of `begin_simulation`: the events are flushed, the sources are not. *)
FinishRegistration ==
    /\ phase = "registering"
    /\ reg_slot = source_registry
    /\ FlushPendingEvents
    /\ phase' = "peek"
    /\ tick_status' = InitialTickStatus
    /\ current_tick' = 0
    /\ UNCHANGED <<sourceVars, micro_step, reg_slot, batchVars, runnerVars, historyVars>>

(***************************************************************************)
(* What user code may do through its context while a callback is open.     *)
(***************************************************************************)

(* `schedule_event` of SourceContext and of EventContext. *)
ContextScheduleEvent(delay, priority) ==
    /\ InCallback
    /\ phase = "registering" => reg_slot < source_registry
    /\ next_event_id < MaxEvents
    /\ IF AddOverflows(now, delay)
       THEN Panic("time overflow")
       ELSE /\ Schedule(now, delay, priority)
            /\ UNCHANGED <<sourceVars, phase, executorVars, reg_slot, batchVars, runnerVars,
                           historyVars>>

(* `EventContext::add_source`, up to the call of `on_registered`. *)
ContextAddSource ==
    /\ phase = "handling"
    /\ source_registry < MaxSources
    /\ phase' = "adding"
    /\ UNCHANGED <<schedulerVars, sourceVars, executorVars, reg_slot, batchVars, runnerVars,
                   historyVars>>

(* The rest of `EventContext::add_source`, once `on_registered` returned. *)
FinishAddSource(delay) ==
    /\ phase = "adding"
    /\ IF \E d \in delay : AddOverflows(now, d)
       THEN Panic("time overflow")
       ELSE /\ AddSourceAfterRegisteredAction(now, delay)
            /\ phase' = "handling"
            /\ UNCHANGED <<schedulerVars, executorVars, reg_slot, batchVars, runnerVars,
                           historyVars>>

(* `EventContext::cancel_scheduled_events`. *)
CancelScheduledEvents(cancelled) ==
    /\ phase = "handling"
    /\ DrainCancelScheduledEvents(cancelled)
    /\ dropped' = dropped \cup IdsOf(cancelled)
    /\ UNCHANGED <<sourceVars, phase, executorVars, reg_slot, batchVars, runnerVars,
                   handled, tick_first_id, step_first_id>>

(* `EventContext::cancel_scheduled_sources`. *)
CancelScheduledSources(cancelled) ==
    /\ phase = "handling"
    /\ DrainCancelScheduledSources(cancelled)
    /\ UNCHANGED <<schedulerVars, phase, executorVars, reg_slot, batchVars, runnerVars,
                   historyVars>>

(***************************************************************************)
(* The tick loop of `run`.                                                 *)
(***************************************************************************)

(* The ExecutorStatus of `peek_next_tick`: it looks at events only. *)
NoMoreEvent == PeekNextTime(event_ready) = {}

(* What the closures of `run_until_idle` and `run_do_ticks` answer; the one *)
(* a caller passes to `run` itself may answer either way.                   *)
ShouldStop ==
    CASE StopRule = "any"      -> BOOLEAN
      [] StopRule = "idle"     -> {NoMoreEvent}
      [] StopRule = "do_ticks" -> {IsDoneTicks(tick_status, IncludeZeroTick, TickCount)}

(* `should_stop` says yes: `run` leaves its loop and ends as Ok. *)
StopRun ==
    /\ phase = "peek"
    /\ TRUE \in ShouldStop
    /\ phase' = "stopped"
    /\ UNCHANGED <<schedulerVars, sourceVars, executorVars, reg_slot, batchVars, runnerVars,
                   historyVars>>

BeginTick_KeepsMicroStep ==
    /\ phase = "peek"
    /\ FALSE \in ShouldStop
    /\ phase' = "micro_step"
    /\ tick_first_id' = next_event_id
    /\ UNCHANGED <<schedulerVars, sourceVars, executorVars, reg_slot, batchVars, runnerVars,
                   handled, dropped, step_first_id>>

(* `should_stop` says no: `begin_tick`. *)
BeginTick ==
    /\ phase = "peek"
    /\ FALSE \in ShouldStop
    /\ phase' = "micro_step"
    /\ micro_step' = 0
    /\ tick_first_id' = next_event_id
    /\ UNCHANGED <<schedulerVars, sourceVars, tick_status, current_tick, reg_slot, batchVars,
                   runnerVars, handled, dropped, step_first_id>>

(***************************************************************************)
(* One micro-step.                                                         *)
(***************************************************************************)

(* `begin_micro_step` and `start_source_phase`. *)
StartSourcePhase ==
    /\ phase = "micro_step"
    /\ IF Overdue(source_ready, now)
       THEN Panic("source overdue")
       ELSE /\ DrainReadySources(now)
            /\ source_batch' = DueAt(source_ready, now)
            /\ phase' = "source_phase"
            /\ step_first_id' = next_event_id
            /\ UNCHANGED <<schedulerVars, executorVars, reg_slot, event_batch, firing_source,
                           runnerVars, handled, dropped, tick_first_id>>

(* `take_one`, and `fire_and_schedule` up to the call of `fire`. *)
FireSource(source) ==
    /\ phase = "source_phase"
    /\ IsFrontSource(source, source_batch)
    /\ source_batch' = source_batch \ {source}
    /\ firing_source' = {source}
    /\ phase' = "firing"
    /\ UNCHANGED <<schedulerVars, sourceVars, executorVars, reg_slot, event_batch, runnerVars,
                   historyVars>>

(* The rest of `fire_and_schedule`, once `fire` returned. *)
FinishFire(delay) ==
    /\ phase = "firing"
    /\ IF \E d \in delay : AddOverflows(now, d)
       THEN Panic("time overflow")
       ELSE /\ \E source \in firing_source : ScheduleNextSource(now, delay, source.source_id)
            /\ firing_source' = {}
            /\ phase' = "source_phase"
            /\ UNCHANGED <<schedulerVars, executorVars, reg_slot, source_batch, event_batch,
                           runnerVars, historyVars>>

(* `complete_source_phase` and `to_event_phase`. *)
StartEventPhase ==
    /\ phase = "source_phase"
    /\ source_batch = {}
    /\ IF Overdue(event_ready, now)
       THEN Panic("event overdue")
       ELSE /\ DrainReadyEvents(now)
            /\ event_batch' = DueAt(event_ready, now)
            /\ phase' = "event_phase"
            /\ UNCHANGED <<sourceVars, executorVars, reg_slot, source_batch, firing_source,
                           runnerVars, historyVars>>

(* `take_one`, and `handle_event` up to the call of `Model::handle_event`. *)
HandleEvent(event) ==
    /\ phase = "event_phase"
    /\ IsFront(event, event_batch)
    /\ event_batch' = event_batch \ {event}
    /\ handled' = handled \cup {event.event_id}
    /\ phase' = "handling"
    /\ UNCHANGED <<schedulerVars, sourceVars, executorVars, reg_slot, source_batch,
                   firing_source, runnerVars, dropped, tick_first_id, step_first_id>>

(* `Model::handle_event` returns. *)
FinishHandleEvent ==
    /\ phase = "handling"
    /\ phase' = "event_phase"
    /\ UNCHANGED <<schedulerVars, sourceVars, executorVars, reg_slot, batchVars, runnerVars,
                   historyVars>>

HasNextInCurrentTick_EventsOnly(sources, events) == now \in PeekNextTime(events)

(* The test of `end_micro_step`, on the queues it has just flushed. *)
HasNextInCurrentTick(sources, events) ==
    now \in PeekNextTime(sources) \cup PeekNextTime(events)

(* `complete_event_phase` and `end_micro_step`.  `MicroStep::next` panics on *)
(* overflow.                                                                 *)
EndMicroStep ==
    /\ phase = "event_phase"
    /\ event_batch = {}
    /\ IF HasNextInCurrentTick(source_ready \cup source_pending, event_ready \cup event_pending)
       THEN IF micro_step = MaxMicroStep
            THEN Panic("micro-step overflow")
            ELSE /\ FlushPendingSources
                 /\ FlushPendingEvents
                 /\ phase' = "continue"
                 /\ micro_step' = micro_step + 1
                 /\ UNCHANGED <<tick_status, current_tick, reg_slot, batchVars, runnerVars,
                                historyVars>>
       ELSE /\ FlushPendingSources
            /\ FlushPendingEvents
            /\ phase' = "end_tick"
            /\ UNCHANGED <<executorVars, reg_slot, batchVars, runnerVars, historyVars>>

(***************************************************************************)
(* `handle_micro_step_continue` of the three strategies.  micro_step is    *)
(* already the next one; the strategies compare the one that just ended.   *)
(***************************************************************************)
LimitReached_OneTooLate == Strategy # "always" /\ micro_step - 1 > Limit

LimitReached == Strategy # "always" /\ micro_step - 1 >= Limit

ContinueMicroSteps ==
    /\ phase = "continue"
    /\ ~LimitReached
    /\ phase' = "micro_step"
    /\ UNCHANGED <<schedulerVars, sourceVars, executorVars, reg_slot, batchVars, runnerVars,
                   historyVars>>

DiscardRemainMicroStep_EventsOnly ==
    /\ UNCHANGED sourceVars
    /\ DrainReadyEvents(now)
    /\ dropped' = dropped \cup IdsOf(DueAt(event_ready, now))

(* `discard_remain_micro_step`: what is still due in this tick is thrown away. *)
DiscardRemainMicroStep ==
    /\ DrainReadySources(now)
    /\ DrainReadyEvents(now)
    /\ dropped' = dropped \cup IdsOf(DueAt(event_ready, now))

TooManyErrors_OneTooEarly(count) == count >= AllowErrors

TooManyErrors(count) == count > AllowErrors

(* LimitDiscardStrategy goes on; LimitAbortStrategy does so AllowErrors times *)
(* and then returns an error, having discarded as well.                       *)
DiscardAtLimit ==
    /\ phase = "continue"
    /\ LimitReached
    /\ IF Overdue(source_ready, now)
       THEN Panic("source overdue")
       ELSE IF Overdue(event_ready, now)
       THEN Panic("event overdue")
       ELSE /\ DiscardRemainMicroStep
            /\ error_count' = IF Strategy = "limit_abort" THEN error_count + 1 ELSE error_count
            /\ runner_error' = (Strategy = "limit_abort" /\ TooManyErrors(error_count'))
            /\ phase' = IF runner_error' THEN "end_tick" ELSE "micro_step"
            /\ UNCHANGED <<executorVars, reg_slot, batchVars, runner, panic, handled,
                           tick_first_id, step_first_id>>

(***************************************************************************)
(* The end of a tick.                                                      *)
(***************************************************************************)

(* The ExecutorContext either `end_tick_with_*` returns, and the test of *)
(* runner_error after it.                                                *)
EndTickWith(next_tick_status) ==
    /\ tick_status' = next_tick_status
    /\ current_tick' = now
    /\ phase' = IF runner_error THEN "stopped" ELSE "peek"
    /\ UNCHANGED <<schedulerVars, sourceVars, micro_step, reg_slot, batchVars, runnerVars,
                   historyVars>>

(* `end_tick_with_increment_tick`. *)
EndTickWithIncrementTick ==
    /\ phase = "end_tick"
    /\ ~Skippable
    /\ IF AddOverflows(now, 1)
       THEN Panic("time overflow")
       ELSE EndTickWith(TickStatus(now + 1, 0))

JumpTo_CountsTheArrival(next) == EndTickWith(TickStatus(next, next - now))

JumpTo(next) == EndTickWith(TickStatus(next, next - now - 1))

(* `end_tick_with_jump_to_next_tick`: to the earlier of the two heads, which *)
(* is the head of the two heaps together, or by one tick when both are empty. *)
EndTickWithJumpToNextTick ==
    LET heads == PeekNextTime(source_ready \cup event_ready)
    IN  /\ phase = "end_tick"
        /\ Skippable
        /\ IF heads = {}
           THEN IF AddOverflows(now, 1)
                THEN Panic("time overflow")
                ELSE EndTickWith(TickStatus(now + 1, 0))
           ELSE \E next \in heads :
                   IF SubOverflows(next, now) \/ SubOverflows(next - now, 1)
                   THEN Panic("time underflow")
                   ELSE JumpTo(next)

(***************************************************************************)
(* The specification.                                                      *)
(***************************************************************************)
Configure ==
    \/ \E t \in Time, p \in Priorities : ScheduleEventAt(t, p)
    \/ AddEngineSource

UserOperation ==
    \/ \E d \in Delays, p \in Priorities : ContextScheduleEvent(d, p)
    \/ ContextAddSource
    \/ \E cancelled \in SUBSET (event_ready \cup event_pending) : CancelScheduledEvents(cancelled)
    \/ \E cancelled \in SUBSET (source_ready \cup source_pending) :
          CancelScheduledSources(cancelled)

UserReturn ==
    \/ \E delay \in Options(Delays) :
          RegisterSource(delay) \/ FinishAddSource(delay) \/ FinishFire(delay)
    \/ FinishHandleEvent

RunnerStep ==
    \/ BeginSimulation
    \/ FinishRegistration
    \/ StopRun
    \/ BeginTick
    \/ StartSourcePhase
    \/ \E source \in source_batch : FireSource(source)
    \/ StartEventPhase
    \/ \E event \in event_batch : HandleEvent(event)
    \/ EndMicroStep
    \/ ContinueMicroSteps
    \/ DiscardAtLimit
    \/ EndTickWithIncrementTick
    \/ EndTickWithJumpToNextTick

Next == Configure \/ UserOperation \/ UserReturn \/ RunnerStep

Spec == Init /\ [][Next]_vars

(* The runner's thread is never held up, and user code returns. *)
FairSpec == Spec /\ WF_vars(RunnerStep) /\ WF_vars(UserReturn)
==============================================================================
