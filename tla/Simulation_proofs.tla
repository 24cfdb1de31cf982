--------------------------- MODULE Simulation_proofs ---------------------------
(***************************************************************************)
(* Proofs about Simulation, for every value of its constants: types and     *)
(* time, the events of a run, and the refinement of EventList.             *)
(***************************************************************************)
EXTENDS SimulationProperties, TLAPS

USE DEF vars, schedulerVars, sourceVars, executorVars, batchVars, runnerVars, historyVars

(***************************************************************************)
(* Type correctness.                                                       *)
(***************************************************************************)

(* A panic leaves every variable but phase and panic alone. *)
LEMMA PanicType ==
    ASSUME TypeOK, NEW reason \in Panics, Panic(reason)
    PROVE  TypeOK'
BY DEF TypeOK, SchedulerTypeOK, SourceTypeOK, Panic, Phases

(* An entry scheduled by user code that did not overflow is well typed. *)
LEMMA ScheduleType ==
    ASSUME SchedulerTypeOK, NEW t \in Time, NEW d \in Nat, ~AddOverflows(t, d),
           NEW p \in Priorities, Schedule(t, d, p)
    PROVE  SchedulerTypeOK'
<1>1. t + d \in Time
    BY MaxTimeAssumption DEF Time, AddOverflows
<1>2. QED
    BY <1>1 DEF SchedulerTypeOK, Schedule, ScheduledEvents

(* The same for the first firing of a source ... *)
LEMMA PushInitialType ==
    ASSUME SourceTypeOK, NEW slot \in Nat, NEW t \in Time, NEW delay,
           \A d \in delay : d \in Nat /\ ~AddOverflows(t, d),
           PushInitial(slot, t, delay)
    PROVE  /\ source_pending' \in SUBSET ScheduledSources
           /\ next_source_id' \in Nat
<1>1. \A d \in delay : t + d \in Time
    BY MaxTimeAssumption DEF Time, AddOverflows
<1>2. QED
    BY <1>1 DEF SourceTypeOK, PushInitial, ScheduledSources

(* ... and for the next one. *)
LEMMA ScheduleNextType ==
    ASSUME SourceTypeOK, NEW t \in Time, NEW delay, NEW id \in Nat,
           \A d \in delay : d \in Nat /\ ~AddOverflows(t, d),
           ScheduleNextSource(t, delay, id)
    PROVE  SourceTypeOK'
<1>1. \A d \in delay : t + d \in Time
    BY MaxTimeAssumption DEF Time, AddOverflows
<1>2. QED
    BY <1>1 DEF SourceTypeOK, ScheduleNextSource, ScheduledSources

(* A new engine is well typed. *)
LEMMA InitType == Init => TypeOK
<1> SUFFICES ASSUME Init PROVE TypeOK
    OBVIOUS
<1>1. SchedulerTypeOK /\ SourceTypeOK
    BY DEF Init, SchedulerInit, SourceInit, SchedulerTypeOK, SourceTypeOK
<1>2. tick_status \in TickStatuses /\ current_tick \in Time /\ micro_step \in MicroSteps
    BY MaxTimeAssumption, MaxMicroStepAssumption
       DEF Init, InitialTickStatus, TickStatus, TickStatuses, Time, MicroSteps
<1>3. QED
    BY <1>1, <1>2 DEF Init, TypeOK, Phases, Panics

(* The delays an operation of user code may pass. *)
LEMMA DelayType ==
    /\ \A d \in Delays : d \in Nat
    /\ \A delay \in Options(Delays) : \A d \in delay : d \in Nat
BY DelaysAssumption, MaxTimeAssumption DEF Options, Time

(* The current tick is a time. *)
LEMMA NowType == TypeOK => now \in Time
BY DEF TypeOK, TickStatuses, now

(* Setting up the engine keeps the types. *)
LEMMA ConfigureType ==
    ASSUME TypeOK, Configure
    PROVE  TypeOK'
<1>1. ASSUME NEW t \in Time, NEW p \in Priorities, ScheduleEventAt(t, p)
      PROVE  TypeOK'
    <2>1. ~AddOverflows(t, 0)
        BY MaxTimeAssumption DEF AddOverflows, Time
    <2>2. SchedulerTypeOK'
        BY <1>1, <2>1, ScheduleType DEF TypeOK, ScheduleEventAt
    <2>3. QED
        BY <1>1, <2>2 DEF TypeOK, SourceTypeOK, ScheduleEventAt
<1>2. ASSUME AddEngineSource
      PROVE  TypeOK'
    BY <1>2 DEF TypeOK, SchedulerTypeOK, SourceTypeOK, AddEngineSource,
                AddSourceForBeforeSimulation
<1>3. QED
    BY <1>1, <1>2 DEF Configure

(* What user code calls keeps the types. *)
LEMMA UserOperationType ==
    ASSUME TypeOK, UserOperation
    PROVE  TypeOK'
<1>1. ASSUME NEW d \in Delays, NEW p \in Priorities, ContextScheduleEvent(d, p)
      PROVE  TypeOK'
    <2>1. CASE AddOverflows(now, d)
        BY <1>1, <2>1, PanicType DEF ContextScheduleEvent, Panics
    <2>2. CASE ~AddOverflows(now, d)
        <3>1. SchedulerTypeOK'
            BY <1>1, <2>2, ScheduleType, NowType, DelayType DEF TypeOK, ContextScheduleEvent
        <3>2. QED
            BY <1>1, <2>2, <3>1 DEF TypeOK, SourceTypeOK, ContextScheduleEvent
    <2>3. QED
        BY <2>1, <2>2
<1>2. ASSUME ContextAddSource
      PROVE  TypeOK'
    BY <1>2 DEF TypeOK, SchedulerTypeOK, SourceTypeOK, ContextAddSource, Phases
<1>3. ASSUME NEW cancelled \in SUBSET (event_ready \cup event_pending),
             CancelScheduledEvents(cancelled)
      PROVE  TypeOK'
    <2>1. IdsOf(cancelled) \subseteq Nat
        BY <1>3 DEF IdsOf, TypeOK, SchedulerTypeOK, ScheduledEvents
    <2>2. QED
        BY <1>3, <2>1 DEF TypeOK, SchedulerTypeOK, SourceTypeOK, CancelScheduledEvents,
                          DrainCancelScheduledEvents
<1>4. ASSUME NEW cancelled \in SUBSET (source_ready \cup source_pending),
             CancelScheduledSources(cancelled)
      PROVE  TypeOK'
    BY <1>4 DEF TypeOK, SchedulerTypeOK, SourceTypeOK, CancelScheduledSources,
                DrainCancelScheduledSources
<1>5. QED
    BY <1>1, <1>2, <1>3, <1>4 DEF UserOperation

(* What user code returns keeps the types. *)
LEMMA UserReturnType ==
    ASSUME TypeOK, UserReturn
    PROVE  TypeOK'
<1>1. ASSUME NEW delay \in Options(Delays), RegisterSource(delay)
      PROVE  TypeOK'
    <2>1. \A d \in delay : d \in Nat /\ ~AddOverflows(0, d)
        BY DelaysAssumption, MaxTimeAssumption DEF Options, Time, AddOverflows
    <2>2. 0 \in Time
        BY MaxTimeAssumption DEF Time
    <2>3. source_pending' \in SUBSET ScheduledSources /\ next_source_id' \in Nat
        BY <1>1, <2>1, <2>2, PushInitialType DEF TypeOK, RegisterSource, InitializeSource
    <2>4. QED
        BY <1>1, <2>3 DEF TypeOK, SchedulerTypeOK, SourceTypeOK, RegisterSource,
                          InitializeSource
<1>2. ASSUME NEW delay \in Options(Delays), FinishAddSource(delay)
      PROVE  TypeOK'
    <2>1. CASE \E d \in delay : AddOverflows(now, d)
        BY <1>2, <2>1, PanicType DEF FinishAddSource, Panics
    <2>2. CASE ~ \E d \in delay : AddOverflows(now, d)
        <3>1. source_pending' \in SUBSET ScheduledSources /\ next_source_id' \in Nat
            BY <1>2, <2>2, PushInitialType, NowType, DelayType
               DEF TypeOK, SourceTypeOK, FinishAddSource, AddSourceAfterRegisteredAction
        <3>2. SourceTypeOK'
            BY <1>2, <2>2, <3>1
               DEF TypeOK, SourceTypeOK, FinishAddSource, AddSourceAfterRegisteredAction
        <3>3. SchedulerTypeOK' /\ phase' \in Phases
            BY <1>2, <2>2 DEF TypeOK, SchedulerTypeOK, FinishAddSource, Phases
        <3>4. QED
            BY <1>2, <2>2, <3>2, <3>3 DEF TypeOK, FinishAddSource
    <2>3. QED
        BY <2>1, <2>2
<1>3. ASSUME NEW delay \in Options(Delays), FinishFire(delay)
      PROVE  TypeOK'
    <2>1. CASE \E d \in delay : AddOverflows(now, d)
        BY <1>3, <2>1, PanicType DEF FinishFire, Panics
    <2>2. CASE ~ \E d \in delay : AddOverflows(now, d)
        <3>1. PICK source \in firing_source : ScheduleNextSource(now, delay, source.source_id)
            BY <1>3, <2>2 DEF FinishFire
        <3>2. source.source_id \in Nat
            BY DEF TypeOK, ScheduledSources
        <3>3. SourceTypeOK'
            BY <2>2, <3>1, <3>2, ScheduleNextType, NowType, DelayType DEF TypeOK
        <3>4. QED
            BY <1>3, <2>2, <3>3 DEF TypeOK, SchedulerTypeOK, FinishFire, Phases
    <2>3. QED
        BY <2>1, <2>2
<1>4. ASSUME FinishHandleEvent
      PROVE  TypeOK'
    BY <1>4 DEF TypeOK, SchedulerTypeOK, SourceTypeOK, FinishHandleEvent, Phases
<1>5. QED
    BY <1>1, <1>2, <1>3, <1>4 DEF UserReturn

(* What the drains and the flushes do to the types. *)
LEMMA QueueType ==
    ASSUME SchedulerTypeOK, SourceTypeOK
    PROVE  /\ FlushPendingEvents => SchedulerTypeOK'
           /\ FlushPendingSources => SourceTypeOK'
           /\ \A t : DrainReadyEvents(t) => SchedulerTypeOK'
           /\ \A t : DrainReadySources(t) => SourceTypeOK'
           /\ \A t : DueAt(event_ready, t) \in SUBSET ScheduledEvents
           /\ \A t : DueAt(source_ready, t) \in SUBSET ScheduledSources
BY DEF SchedulerTypeOK, SourceTypeOK, FlushPendingEvents, FlushPendingSources,
       DrainReadyEvents, DrainReadySources, DueAt

(* Every time peek_next_time returns is the time of an entry, and no entry is *)
(* due before it.                                                            *)
LEMMA HeadIsLeast ==
    ASSUME NEW queue, NEW t \in PeekNextTime(queue)
    PROVE  /\ \E x \in queue : x.scheduled_at = t
           /\ \A x \in queue : t <= x.scheduled_at
BY DEF PeekNextTime

(* What is queued is scheduled at a time. *)
LEMMA QueuedTimes ==
    ASSUME TypeOK
    PROVE  \A x \in event_ready \cup event_pending \cup source_ready \cup source_pending :
              x.scheduled_at \in Time
BY DEF TypeOK, SchedulerTypeOK, SourceTypeOK, ScheduledEvents, ScheduledSources

(* Beginning and ending runs and ticks keeps the types. *)
LEMMA TickLoopType ==
    ASSUME TypeOK,
           \/ BeginSimulation \/ FinishRegistration \/ StopRun \/ BeginTick
           \/ EndTickWithIncrementTick \/ EndTickWithJumpToNextTick
    PROVE  TypeOK'
<1>1. CASE BeginSimulation
    BY <1>1, QueueType DEF TypeOK, SchedulerTypeOK, BeginSimulation, Phases
<1>2. CASE FinishRegistration
    <2>1. InitialTickStatus \in TickStatuses /\ 0 \in Time
        BY MaxTimeAssumption DEF InitialTickStatus, TickStatus, TickStatuses, Time
    <2>2. QED
        BY <1>2, <2>1, QueueType DEF TypeOK, SourceTypeOK, FinishRegistration, Phases
<1>3. CASE StopRun
    BY <1>3 DEF TypeOK, SchedulerTypeOK, SourceTypeOK, StopRun, Phases
<1>4. CASE BeginTick
    <2>1. 0 \in MicroSteps
        BY MaxMicroStepAssumption DEF MicroSteps
    <2>2. next_event_id \in Nat
        BY DEF TypeOK, SchedulerTypeOK
    <2>3. QED
        BY <1>4, <2>1, <2>2 DEF TypeOK, SchedulerTypeOK, SourceTypeOK, BeginTick, Phases
<1>5. ASSUME NEW status \in TickStatuses, EndTickWith(status)
      PROVE  TypeOK'
    BY <1>5, NowType DEF TypeOK, SchedulerTypeOK, SourceTypeOK, EndTickWith, Phases
<1>6. ASSUME ~AddOverflows(now, 1)
      PROVE  TickStatus(now + 1, 0) \in TickStatuses
    BY <1>6, NowType, MaxTimeAssumption DEF AddOverflows, TickStatus, TickStatuses, Time
<1>7. CASE EndTickWithIncrementTick
    BY <1>5, <1>6, <1>7, PanicType DEF EndTickWithIncrementTick, Panics
<1>8. CASE EndTickWithJumpToNextTick
    <2> DEFINE heads == PeekNextTime(source_ready \cup event_ready)
    <2>1. CASE heads = {}
        BY <1>5, <1>6, <1>8, <2>1, PanicType DEF EndTickWithJumpToNextTick, Panics
    <2>2. CASE heads # {}
        <3>1. PICK next \in heads :
                 IF SubOverflows(next, now) \/ SubOverflows(next - now, 1)
                 THEN Panic("time underflow")
                 ELSE JumpTo(next)
            BY <1>8, <2>2 DEF EndTickWithJumpToNextTick
        <3>2. next \in Time
            BY HeadIsLeast, QueuedTimes
        <3>3. CASE SubOverflows(next, now) \/ SubOverflows(next - now, 1)
            BY <3>1, <3>3, PanicType DEF Panics
        <3>4. CASE ~(SubOverflows(next, now) \/ SubOverflows(next - now, 1))
            <4>1. TickStatus(next, next - now - 1) \in TickStatuses
                BY <3>2, <3>4, NowType, MaxTimeAssumption
                   DEF SubOverflows, TickStatus, TickStatuses, Time
            <4>2. QED
                BY <1>5, <3>1, <3>4, <4>1 DEF JumpTo
        <3>5. QED
            BY <3>3, <3>4
    <2>3. QED
        BY <2>1, <2>2
<1>9. QED
    BY <1>1, <1>2, <1>3, <1>4, <1>7, <1>8

(* The phases of a micro-step keep the types. *)
LEMMA MicroStepType ==
    ASSUME TypeOK,
           \/ StartSourcePhase
           \/ \E source \in source_batch : FireSource(source)
           \/ StartEventPhase
           \/ \E event \in event_batch : HandleEvent(event)
           \/ EndMicroStep
    PROVE  TypeOK'
<1>1. CASE StartSourcePhase
    <2>1. CASE Overdue(source_ready, now)
        BY <1>1, <2>1, PanicType DEF StartSourcePhase, Panics
    <2>2. CASE ~Overdue(source_ready, now)
        BY <1>1, <2>2, QueueType DEF TypeOK, SchedulerTypeOK, StartSourcePhase, Phases
    <2>3. QED
        BY <2>1, <2>2
<1>2. ASSUME NEW source \in source_batch, FireSource(source)
      PROVE  TypeOK'
    BY <1>2 DEF TypeOK, SchedulerTypeOK, SourceTypeOK, FireSource, Phases
<1>3. CASE StartEventPhase
    <2>1. CASE Overdue(event_ready, now)
        BY <1>3, <2>1, PanicType DEF StartEventPhase, Panics
    <2>2. CASE ~Overdue(event_ready, now)
        BY <1>3, <2>2, QueueType DEF TypeOK, SourceTypeOK, StartEventPhase, Phases
    <2>3. QED
        BY <2>1, <2>2
<1>4. ASSUME NEW event \in event_batch, HandleEvent(event)
      PROVE  TypeOK'
    <2>1. event.event_id \in Nat
        BY DEF TypeOK, ScheduledEvents
    <2>2. QED
        BY <1>4, <2>1 DEF TypeOK, SchedulerTypeOK, SourceTypeOK, HandleEvent, Phases
<1>5. CASE EndMicroStep
    <2>1. CASE Panic("micro-step overflow")
        BY <2>1, PanicType DEF Panics
    <2>2. CASE ~Panic("micro-step overflow")
        <3>0. \/ micro_step' = micro_step
              \/ micro_step # MaxMicroStep /\ micro_step' = micro_step + 1
            BY <1>5, <2>2 DEF EndMicroStep
        <3>1. micro_step' \in MicroSteps
            BY <3>0, MaxMicroStepAssumption DEF TypeOK, MicroSteps
        <3>2. FlushPendingSources /\ FlushPendingEvents /\ phase' \in Phases
            BY <1>5, <2>2 DEF EndMicroStep, Phases
        <3>3. UNCHANGED <<tick_status, current_tick, reg_slot, batchVars, runnerVars,
                          historyVars>>
            BY <1>5, <2>2 DEF EndMicroStep
        <3>4. QED
            BY <3>1, <3>2, <3>3, QueueType DEF TypeOK
    <2>3. QED
        BY <2>1, <2>2
<1>6. QED
    BY <1>1, <1>2, <1>3, <1>4, <1>5

(* The continue strategies keep the types. *)
LEMMA StrategyType ==
    ASSUME TypeOK, ContinueMicroSteps \/ DiscardAtLimit
    PROVE  TypeOK'
<1>1. CASE ContinueMicroSteps
    BY <1>1 DEF TypeOK, SchedulerTypeOK, SourceTypeOK, ContinueMicroSteps, Phases
<1>2. CASE DiscardAtLimit
    <2>1. CASE Overdue(source_ready, now) \/ Overdue(event_ready, now)
        BY <1>2, <2>1, PanicType DEF DiscardAtLimit, Panics
    <2>2. CASE ~(Overdue(source_ready, now) \/ Overdue(event_ready, now))
        <3>1. DiscardRemainMicroStep
            BY <1>2, <2>2 DEF DiscardAtLimit
        <3>2. SchedulerTypeOK' /\ SourceTypeOK'
            BY <3>1, QueueType DEF TypeOK, DiscardRemainMicroStep
        <3>3. dropped' \in SUBSET Nat
            BY <3>1 DEF TypeOK, SchedulerTypeOK, ScheduledEvents, DiscardRemainMicroStep, DueAt,
                        IdsOf
        <3>4. runner_error' \in BOOLEAN
            BY <1>2, <2>2, Zenon DEF DiscardAtLimit
        <3>5. error_count' \in Nat
            <4>1. error_count' = error_count + 1 \/ error_count' = error_count
                BY <1>2, <2>2, Zenon DEF DiscardAtLimit
            <4>2. QED
                BY <4>1 DEF TypeOK
        <3>6. phase' \in {"end_tick", "micro_step"}
            BY <1>2, <2>2, Zenon DEF DiscardAtLimit
        <3>7. UNCHANGED <<executorVars, reg_slot, batchVars, runner, panic, handled, tick_first_id,
                          step_first_id>>
            BY <1>2, <2>2, Zenon DEF DiscardAtLimit
        <3>8. QED
            BY <3>2, <3>3, <3>4, <3>5, <3>6, <3>7 DEF TypeOK, Phases
    <2>3. QED
        BY <2>1, <2>2
<1>3. QED
    BY <1>1, <1>2

(* Every step keeps the types. *)
LEMMA StepType ==
    ASSUME TypeOK, [Next]_vars
    PROVE  TypeOK'
<1>1. CASE UNCHANGED vars
    BY <1>1 DEF TypeOK, SchedulerTypeOK, SourceTypeOK
<1>2. CASE RunnerStep
    BY <1>2, TickLoopType, MicroStepType, StrategyType DEF RunnerStep
<1>3. QED
    BY <1>1, <1>2, ConfigureType, UserOperationType, UserReturnType DEF Next

(* Every variable keeps its type, whatever the user code does and however   *)
(* many events, sources and ticks there are.                                *)
THEOREM TypeCorrect == Spec => []TypeOK
<1>1. Init => TypeOK
    BY InitType
<1>2. TypeOK /\ [Next]_vars => TypeOK'
    BY StepType
<1>3. QED
    BY <1>1, <1>2, PTL DEF Spec

(***************************************************************************)
(* Nothing is overdue, and no assertion or subtraction of the runner fails. *)
(*                                                                         *)
(* Alone, NothingIsOverdue is not inductive: a tick may end only when what *)
(* is still queued is due later, and that is known because the heaps were  *)
(* flushed before their heads were compared with the clock.                *)
(***************************************************************************)
Queued == event_ready \cup event_pending \cup source_ready \cup source_pending

PendingIsFlushed ==
    phase \in {"continue", "end_tick"} => event_pending = {} /\ source_pending = {}
TickIsDone ==
    phase = "end_tick" => \A x \in event_ready \cup source_ready : x.scheduled_at > now
StartsAtZero == phase \in {"configure", "registering"} => now = 0

Timely == NothingIsOverdue /\ PendingIsFlushed /\ TickIsDone /\ StartsAtZero
              /\ OnlyOverflowPanics

(* Most steps leave the clock alone and only add entries that are not overdue. *)
LEMMA StillTimely ==
    ASSUME Timely, tick_status' = tick_status, panic' = panic,
           \A x \in Queued' : x \in Queued \/ x.scheduled_at >= now,
           \/ phase' \notin {"configure", "registering", "continue", "end_tick"}
           \/ phase' \in {"configure", "registering"} /\ phase \in {"configure", "registering"}
    PROVE  Timely'
<1>1. NothingIsOverdue'
    BY DEF Timely, NothingIsOverdue, Queued, now
<1>2. QED
    BY <1>1 DEF Timely, PendingIsFlushed, TickIsDone, StartsAtZero, OnlyOverflowPanics, now

(* The panics user code may cause keep Timely. *)
LEMMA OverflowIsTimely ==
    ASSUME Timely, Panic("time overflow") \/ Panic("micro-step overflow")
    PROVE  Timely'
<1>1. NothingIsOverdue'
    BY DEF Timely, NothingIsOverdue, Panic, now
<1>2. phase' = "panicked" /\ panic' \in {"time overflow", "micro-step overflow"}
    BY DEF Panic
<1>3. QED
    BY <1>1, <1>2 DEF Timely, PendingIsFlushed, TickIsDone, StartsAtZero, OnlyOverflowPanics

(* Adding a delay to the current tick gives no earlier one. *)
LEMMA DueOnTime ==
    ASSUME TypeOK, NEW d \in Nat
    PROVE  now + d >= now
BY NowType DEF Time

(* Setting up the engine keeps Timely: the clock is at zero. *)
LEMMA ConfigureTimely ==
    ASSUME TypeOK, Timely, Configure
    PROVE  Timely'
<1>1. ASSUME NEW t \in Time, NEW p \in Priorities, ScheduleEventAt(t, p)
      PROVE  Timely'
    <2>1. now = 0
        BY <1>1 DEF Timely, StartsAtZero, ScheduleEventAt
    <2>2. t + 0 >= now
        BY <2>1 DEF Time
    <2>3. \A x \in Queued' : x \in Queued \/ x.scheduled_at >= now
        BY <1>1, <2>2 DEF Queued, ScheduleEventAt, Schedule
    <2>4. QED
        BY <1>1, <2>3, StillTimely DEF ScheduleEventAt
<1>2. ASSUME AddEngineSource
      PROVE  Timely'
    BY <1>2, StillTimely DEF AddEngineSource, AddSourceForBeforeSimulation, Queued
<1>3. QED
    BY <1>1, <1>2 DEF Configure

(* What user code calls keeps Timely. *)
LEMMA UserOperationTimely ==
    ASSUME TypeOK, Timely, UserOperation
    PROVE  Timely'
<1>1. ASSUME NEW d \in Delays, NEW p \in Priorities, ContextScheduleEvent(d, p)
      PROVE  Timely'
    <2>1. CASE AddOverflows(now, d)
        BY <1>1, <2>1, OverflowIsTimely DEF ContextScheduleEvent
    <2>2. CASE ~AddOverflows(now, d)
        <3>1. \A x \in Queued' : x \in Queued \/ x.scheduled_at >= now
            BY <1>1, <2>2, DueOnTime, DelayType DEF Queued, ContextScheduleEvent, Schedule
        <3>2. QED
            BY <1>1, <2>2, <3>1, StillTimely DEF ContextScheduleEvent, InCallback
    <2>3. QED
        BY <2>1, <2>2
<1>2. ASSUME ContextAddSource
      PROVE  Timely'
    BY <1>2, StillTimely DEF ContextAddSource, Queued
<1>3. ASSUME NEW cancelled, CancelScheduledEvents(cancelled)
      PROVE  Timely'
    BY <1>3, StillTimely DEF CancelScheduledEvents, DrainCancelScheduledEvents, Queued
<1>4. ASSUME NEW cancelled, CancelScheduledSources(cancelled)
      PROVE  Timely'
    BY <1>4, StillTimely DEF CancelScheduledSources, DrainCancelScheduledSources, Queued
<1>5. QED
    BY <1>1, <1>2, <1>3, <1>4 DEF UserOperation

(* What user code returns keeps Timely. *)
LEMMA UserReturnTimely ==
    ASSUME TypeOK, Timely, UserReturn
    PROVE  Timely'
<1>1. ASSUME NEW delay \in Options(Delays), RegisterSource(delay)
      PROVE  Timely'
    <2>1. now = 0
        BY <1>1 DEF Timely, StartsAtZero, RegisterSource
    <2>2. \A x \in Queued' : x \in Queued \/ x.scheduled_at >= now
        BY <1>1, <2>1, DelayType DEF Queued, RegisterSource, InitializeSource, PushInitial
    <2>3. QED
        BY <1>1, <2>2, StillTimely DEF RegisterSource
<1>2. ASSUME NEW delay \in Options(Delays), FinishAddSource(delay)
      PROVE  Timely'
    <2>1. CASE \E d \in delay : AddOverflows(now, d)
        BY <1>2, <2>1, OverflowIsTimely DEF FinishAddSource
    <2>2. CASE ~ \E d \in delay : AddOverflows(now, d)
        <3>1. \A x \in Queued' : x \in Queued \/ x.scheduled_at >= now
            BY <1>2, <2>2, DueOnTime, DelayType
               DEF Queued, FinishAddSource, AddSourceAfterRegisteredAction, PushInitial
        <3>2. QED
            BY <1>2, <2>2, <3>1, StillTimely DEF FinishAddSource
    <2>3. QED
        BY <2>1, <2>2
<1>3. ASSUME NEW delay \in Options(Delays), FinishFire(delay)
      PROVE  Timely'
    <2>1. CASE \E d \in delay : AddOverflows(now, d)
        BY <1>3, <2>1, OverflowIsTimely DEF FinishFire
    <2>2. CASE ~ \E d \in delay : AddOverflows(now, d)
        <3>1. PICK source \in firing_source : ScheduleNextSource(now, delay, source.source_id)
            BY <1>3, <2>2 DEF FinishFire
        <3>2. \A x \in Queued' : x \in Queued \/ x.scheduled_at >= now
            BY <1>3, <2>2, <3>1, DueOnTime, DelayType
               DEF Queued, FinishFire, ScheduleNextSource
        <3>3. QED
            BY <1>3, <2>2, <3>2, StillTimely DEF FinishFire
    <2>3. QED
        BY <2>1, <2>2
<1>4. ASSUME FinishHandleEvent
      PROVE  Timely'
    BY <1>4, StillTimely DEF FinishHandleEvent, Queued
<1>5. QED
    BY <1>1, <1>2, <1>3, <1>4 DEF UserReturn

(* Nothing is overdue and the head is not due now: everything is due later. *)
LEMMA NoHeadNow ==
    ASSUME NEW queue, NEW t \in Nat,
           \A x \in queue : x.scheduled_at \in Nat /\ x.scheduled_at >= t,
           t \notin PeekNextTime(queue)
    PROVE  \A x \in queue : x.scheduled_at > t
<1>1. SUFFICES ASSUME NEW x \in queue, x.scheduled_at = t
               PROVE  FALSE
    OBVIOUS
<1>2. \A z \in queue : x.scheduled_at <= z.scheduled_at
    BY <1>1
<1>3. QED
    BY <1>1, <1>2 DEF PeekNextTime

(* Beginning a run or a tick keeps Timely. *)
LEMMA TickLoopTimely ==
    ASSUME TypeOK, Timely, BeginSimulation \/ FinishRegistration \/ StopRun \/ BeginTick
    PROVE  Timely'
<1>1. CASE BeginSimulation
    BY <1>1, StillTimely DEF BeginSimulation, FlushPendingSources, Queued
<1>2. CASE FinishRegistration
    <2>1. now = 0 /\ now' = 0
        BY <1>2 DEF Timely, StartsAtZero, FinishRegistration, InitialTickStatus, TickStatus, now
    <2>2. NothingIsOverdue'
        BY <1>2, <2>1 DEF Timely, NothingIsOverdue, FinishRegistration, FlushPendingEvents
    <2>3. QED
        BY <1>2, <2>1, <2>2 DEF Timely, PendingIsFlushed, TickIsDone, StartsAtZero,
                                OnlyOverflowPanics, FinishRegistration
<1>3. CASE StopRun
    BY <1>3, StillTimely DEF StopRun, Queued
<1>4. CASE BeginTick
    BY <1>4, StillTimely DEF BeginTick, Queued
<1>5. QED
    BY <1>1, <1>2, <1>3, <1>4

(* The assertions of the two `drain_ready` hold. *)
LEMMA NotOverdue ==
    ASSUME TypeOK, Timely
    PROVE  ~Overdue(source_ready, now) /\ ~Overdue(event_ready, now)
<1>1. \A x \in source_ready \cup event_ready : x.scheduled_at \in Nat /\ now \in Nat
    BY QueuedTimes, NowType DEF Time
<1>2. QED
    BY <1>1 DEF Timely, NothingIsOverdue, Overdue

(* The phases of a micro-step keep Timely. *)
LEMMA MicroStepTimely ==
    ASSUME TypeOK, Timely,
           \/ StartSourcePhase
           \/ \E source \in source_batch : FireSource(source)
           \/ StartEventPhase
           \/ \E event \in event_batch : HandleEvent(event)
           \/ EndMicroStep
    PROVE  Timely'
<1>1. CASE StartSourcePhase
    BY <1>1, NotOverdue, StillTimely DEF StartSourcePhase, DrainReadySources, Queued
<1>2. ASSUME NEW source, FireSource(source)
      PROVE  Timely'
    BY <1>2, StillTimely DEF FireSource, Queued
<1>3. CASE StartEventPhase
    BY <1>3, NotOverdue, StillTimely DEF StartEventPhase, DrainReadyEvents, Queued
<1>4. ASSUME NEW event, HandleEvent(event)
      PROVE  Timely'
    BY <1>4, StillTimely DEF HandleEvent, Queued
<1>5. CASE EndMicroStep
    <2>1. CASE Panic("micro-step overflow")
        BY <2>1, OverflowIsTimely
    <2>2. CASE ~Panic("micro-step overflow")
        <3>1. /\ FlushPendingSources /\ FlushPendingEvents
              /\ tick_status' = tick_status /\ panic' = panic
              /\ phase' \in {"continue", "end_tick"}
            BY <1>5, <2>2 DEF EndMicroStep
        <3>2. NothingIsOverdue'
            BY <3>1 DEF Timely, NothingIsOverdue, FlushPendingSources, FlushPendingEvents, now
        <3>3. PendingIsFlushed'
            BY <3>1 DEF PendingIsFlushed, FlushPendingSources, FlushPendingEvents
        <3>4. ASSUME phase' = "end_tick"
              PROVE  \A x \in source_ready' \cup event_ready' : x.scheduled_at > now
            <4>1. ~HasNextInCurrentTick(source_ready', event_ready')
                BY <1>5, <2>2, <3>1, <3>4
                   DEF EndMicroStep, FlushPendingSources, FlushPendingEvents
            <4>2. \A x \in source_ready' \cup event_ready' :
                     x.scheduled_at \in Nat /\ x.scheduled_at >= now
                BY <3>1, QueuedTimes
                   DEF Time, Timely, NothingIsOverdue, FlushPendingSources, FlushPendingEvents
            <4>3. now \in Nat
                BY NowType DEF Time
            <4>4. QED
                BY <4>1, <4>2, <4>3, NoHeadNow DEF HasNextInCurrentTick
        <3>5. QED
            BY <3>1, <3>2, <3>3, <3>4 DEF Timely, TickIsDone, StartsAtZero, OnlyOverflowPanics, now
    <2>3. QED
        BY <2>1, <2>2
<1>6. QED
    BY <1>1, <1>2, <1>3, <1>4, <1>5

(* The strategies keep Timely: a discard leaves nothing due now. *)
LEMMA StrategyTimely ==
    ASSUME TypeOK, Timely, ContinueMicroSteps \/ DiscardAtLimit
    PROVE  Timely'
<1>1. CASE ContinueMicroSteps
    BY <1>1, StillTimely DEF ContinueMicroSteps, Queued
<1>2. CASE DiscardAtLimit
    <2>1. /\ DiscardRemainMicroStep
          /\ tick_status' = tick_status /\ panic' = panic
          /\ phase = "continue" /\ phase' \in {"end_tick", "micro_step"}
        BY <1>2, NotOverdue, Zenon DEF DiscardAtLimit
    <2>2. event_pending' = {} /\ source_pending' = {}
        BY <2>1 DEF Timely, PendingIsFlushed, DiscardRemainMicroStep, DrainReadySources,
                    DrainReadyEvents
    <2>3. \A x \in source_ready' \cup event_ready' : x.scheduled_at > now
        <3>1. \A x \in source_ready' \cup event_ready' :
                 x \in source_ready \cup event_ready /\ x.scheduled_at # now
            BY <2>1 DEF DiscardRemainMicroStep, DrainReadySources, DrainReadyEvents, DueAt
        <3>2. \A x \in source_ready \cup event_ready : x.scheduled_at \in Nat /\ now \in Nat
            BY QueuedTimes, NowType DEF Time
        <3>3. QED
            BY <3>1, <3>2 DEF Timely, NothingIsOverdue
    <2>4. \A x \in source_ready' \cup event_ready' : x.scheduled_at >= now
        BY <2>1 DEF Timely, NothingIsOverdue, DiscardRemainMicroStep, DrainReadySources,
                    DrainReadyEvents
    <2>5. now' = now
        BY <2>1 DEF now
    <2>6. QED
        BY <2>1, <2>2, <2>3, <2>4, <2>5
           DEF Timely, NothingIsOverdue, PendingIsFlushed, TickIsDone, StartsAtZero,
               OnlyOverflowPanics
<1>3. QED
    BY <1>1, <1>2

(* The clock moves to a tick that nothing queued precedes. *)
LEMMA NextTickTimely ==
    ASSUME TypeOK, Timely, phase = "end_tick",
           NEW status, EndTickWith(status),
           \A x \in source_ready \cup event_ready : x.scheduled_at >= status.current
    PROVE  Timely'
<1>1. NothingIsOverdue'
    BY DEF Timely, PendingIsFlushed, NothingIsOverdue, EndTickWith, now
<1>2. phase' \in {"stopped", "peek"} /\ panic' = panic
    BY DEF EndTickWith
<1>3. QED
    BY <1>1, <1>2 DEF Timely, PendingIsFlushed, TickIsDone, StartsAtZero, OnlyOverflowPanics

(* Incrementing or jumping, the clock passes nothing, and no subtraction underflows. *)
LEMMA EndTickTimely ==
    ASSUME TypeOK, Timely, EndTickWithIncrementTick \/ EndTickWithJumpToNextTick
    PROVE  Timely'
<1>1. phase = "end_tick"
    BY DEF EndTickWithIncrementTick, EndTickWithJumpToNextTick
<1>2. \A x \in source_ready \cup event_ready : x.scheduled_at \in Nat /\ x.scheduled_at > now
    BY <1>1, QueuedTimes DEF Timely, TickIsDone, Time
<1>3. now \in Nat
    BY NowType DEF Time
<1>4. ASSUME EndTickWith(TickStatus(now + 1, 0))
      PROVE  Timely'
    <2>1. \A x \in source_ready \cup event_ready : x.scheduled_at >= TickStatus(now + 1, 0).current
        BY <1>2, <1>3 DEF TickStatus
    <2>2. QED
        BY <1>1, <1>4, <2>1, NextTickTimely
<1>5. CASE EndTickWithIncrementTick
    BY <1>4, <1>5, OverflowIsTimely DEF EndTickWithIncrementTick
<1>6. CASE EndTickWithJumpToNextTick
    <2> DEFINE heads == PeekNextTime(source_ready \cup event_ready)
    <2>1. CASE heads = {}
        BY <1>4, <1>6, <2>1, OverflowIsTimely DEF EndTickWithJumpToNextTick
    <2>2. CASE heads # {}
        <3>1. PICK next \in heads :
                 IF SubOverflows(next, now) \/ SubOverflows(next - now, 1)
                 THEN Panic("time underflow")
                 ELSE JumpTo(next)
            BY <1>6, <2>2 DEF EndTickWithJumpToNextTick
        <3>2. /\ \E x \in source_ready \cup event_ready : x.scheduled_at = next
              /\ \A x \in source_ready \cup event_ready : next <= x.scheduled_at
            BY HeadIsLeast
        <3>3. next \in Nat /\ next > now
            BY <1>2, <3>2
        <3>4. JumpTo(next)
            <4>1. ~SubOverflows(next, now) /\ ~SubOverflows(next - now, 1)
                BY <1>3, <3>3 DEF SubOverflows
            <4>2. QED
                BY <3>1, <4>1
        <3>5. \A x \in source_ready \cup event_ready :
                 x.scheduled_at >= TickStatus(next, next - now - 1).current
            <4>1. TickStatus(next, next - now - 1).current = next
                BY DEF TickStatus
            <4>2. QED
                BY <1>2, <3>2, <3>3, <4>1
        <3>6. QED
            BY <1>1, <3>4, <3>5, NextTickTimely DEF JumpTo
    <2>3. QED
        BY <2>1, <2>2
<1>7. QED
    BY <1>5, <1>6

(* A new engine has nothing to be late with. *)
LEMMA InitTimely == Init => Timely
BY DEF Init, SchedulerInit, SourceInit, Timely, NothingIsOverdue, PendingIsFlushed, TickIsDone,
       StartsAtZero, OnlyOverflowPanics, InitialTickStatus, TickStatus, now

(* Every step keeps Timely. *)
LEMMA StepTimely ==
    ASSUME TypeOK, Timely, [Next]_vars
    PROVE  Timely'
<1>1. CASE UNCHANGED vars
    BY <1>1 DEF Timely, NothingIsOverdue, PendingIsFlushed, TickIsDone, StartsAtZero,
                OnlyOverflowPanics, now
<1>2. CASE RunnerStep
    BY <1>2, TickLoopTimely, MicroStepTimely, StrategyTimely, EndTickTimely DEF RunnerStep
<1>3. QED
    BY <1>1, <1>2, ConfigureTimely, UserOperationTimely, UserReturnTimely DEF Next

(* Timely is an inductive invariant of a run. *)
THEOREM AlwaysTimely == Spec => []Timely
<1>1. Init => Timely
    BY InitTimely
<1>2. TypeOK /\ Timely /\ [Next]_vars => Timely'
    BY StepTimely
<1>3. QED
    BY <1>1, <1>2, TypeCorrect, PTL DEF Spec

(* Whatever the strategy, with or without skipping, the clock never passes an *)
(* entry of the two schedulers.                                              *)
THEOREM NothingIsEverOverdue == Spec => []NothingIsOverdue
BY AlwaysTimely, PTL DEF Timely

(* The assertions of `drain_ready` and the subtractions of                   *)
(* `end_tick_with_jump_to_next_tick` never panic: a run panics only when the *)
(* user asks for a time, or reaches a micro-step, that is out of range.      *)
THEOREM RunsPanicOnlyOnOverflow == Spec => []OnlyOverflowPanics
BY AlwaysTimely, PTL DEF Timely

--------------------------------------------------------------------------------
(***************************************************************************)
(* Proofs about the events of a run: none is lost, none is handled twice,  *)
(* and new ones wait behind old ones.                                      *)
(***************************************************************************)

(***************************************************************************)
(* Conservation, as a fact about three sets of entries, two sets of ids    *)
(* and a counter.  The operations of the scheduler and of the phases only  *)
(* move entries between them.                                              *)
(***************************************************************************)
Conserves(ready, pending, batch, done, gone, count) ==
    LET all == ready \cup pending \cup batch
    IN  /\ IdsOf(all) \cup done \cup gone = 0 .. count - 1
        /\ IdsOf(all) \cap (done \cup gone) = {}
        /\ done \cap gone = {}
        /\ \A e, f \in all : e.event_id = f.event_id => e = f
        /\ ready \cap pending = {}
        /\ batch \cap (ready \cup pending) = {}

(* EventsAreConserved is Conserves of the current queues ... *)
LEMMA ConservesNow ==
    EventsAreConserved <=>
        Conserves(event_ready, event_pending, event_batch, handled, dropped, next_event_id)
BY DEF EventsAreConserved, Conserves, AllEvents

(* ... and its next value is Conserves of their next values. *)
LEMMA ConservesNext ==
    EventsAreConserved' <=>
        Conserves(event_ready', event_pending', event_batch', handled', dropped', next_event_id')
BY DEF EventsAreConserved, Conserves, AllEvents, IdsOf

(* `flush_pending` *)
LEMMA FlushConserves ==
    ASSUME NEW R, NEW P, NEW B, NEW H, NEW D, NEW n, Conserves(R, P, B, H, D, n)
    PROVE  Conserves(R \cup P, {}, B, H, D, n)
<1>1. (R \cup P) \cup {} \cup B = R \cup P \cup B
    OBVIOUS
<1>2. QED
    BY <1>1 DEF Conserves

(* `schedule` *)
LEMMA ScheduleConserves ==
    ASSUME NEW R, NEW P, NEW B, NEW H, NEW D, NEW n \in Nat, Conserves(R, P, B, H, D, n),
           NEW e, e.event_id = n
    PROVE  Conserves(R, P \cup {e}, B, H, D, n + 1)
<1> DEFINE all == R \cup P \cup B
<1>1. /\ IdsOf(all) \cup H \cup D = 0 .. n - 1
      /\ IdsOf(all) \cap (H \cup D) = {}
      /\ \A f, g \in all : f.event_id = g.event_id => f = g
    BY DEF Conserves
<1>2. /\ n \notin IdsOf(all) \cup H \cup D
      /\ (0 .. n - 1) \cup {n} = 0 .. (n + 1) - 1
    <2>1. n \notin 0 .. n - 1
        OBVIOUS
    <2>2. \A k : k \in (0 .. n - 1) \cup {n} <=> k \in 0 .. (n + 1) - 1
        OBVIOUS
    <2>3. QED
        BY <1>1, <2>1, <2>2
<1>3. IdsOf(R \cup (P \cup {e}) \cup B) = IdsOf(all) \cup {n}
    BY DEF IdsOf
<1>4. \A f \in all : f.event_id # n /\ f # e
    BY <1>2 DEF IdsOf
<1>5. IdsOf(R \cup (P \cup {e}) \cup B) \cup H \cup D = 0 .. (n + 1) - 1
    BY <1>1, <1>2, <1>3
<1>6. IdsOf(R \cup (P \cup {e}) \cup B) \cap (H \cup D) = {}
    BY <1>1, <1>2, <1>3, ZenonT(60)
<1>7. \A f, g \in R \cup (P \cup {e}) \cup B : f.event_id = g.event_id => f = g
    BY <1>1, <1>4
<1>8. R \cap (P \cup {e}) = {} /\ B \cap (R \cup (P \cup {e})) = {} /\ H \cap D = {}
    BY <1>4 DEF Conserves
<1>9. QED
    BY <1>5, <1>6, <1>7, <1>8 DEF Conserves

(* `drain_ready` at the start of an event phase *)
LEMMA DrainConserves ==
    ASSUME NEW R, NEW P, NEW H, NEW D, NEW n, Conserves(R, P, {}, H, D, n),
           NEW X \in SUBSET R
    PROVE  Conserves(R \ X, P, X, H, D, n)
<1>1. (R \ X) \cup P \cup X = R \cup P \cup {}
    OBVIOUS
<1>2. QED
    BY <1>1 DEF Conserves

(* `drain_cancel_scheduled` and `discard_remain_micro_step` *)
LEMMA DropConserves ==
    ASSUME NEW R, NEW P, NEW B, NEW H, NEW D, NEW n, Conserves(R, P, B, H, D, n),
           NEW X \in SUBSET (R \cup P)
    PROVE  Conserves(R \ X, P \ X, B, H, D \cup IdsOf(X), n)
<1> DEFINE all == R \cup P \cup B
           rest == (R \ X) \cup (P \ X) \cup B
<1>1. rest = all \ X /\ X \subseteq all
    BY DEF Conserves
<1>2. /\ IdsOf(rest) \cup IdsOf(X) = IdsOf(all)
      /\ IdsOf(rest) \cap IdsOf(X) = {}
    BY <1>1 DEF Conserves, IdsOf
<1>3. IdsOf(rest) \cup H \cup (D \cup IdsOf(X)) = 0 .. n - 1
    BY <1>2 DEF Conserves
<1>4. IdsOf(rest) \cap (H \cup (D \cup IdsOf(X))) = {} /\ H \cap (D \cup IdsOf(X)) = {}
    BY <1>2 DEF Conserves
<1>5. QED
    BY <1>1, <1>3, <1>4 DEF Conserves

(* `handle_event` *)
LEMMA HandleConserves ==
    ASSUME NEW R, NEW P, NEW B, NEW H, NEW D, NEW n, Conserves(R, P, B, H, D, n),
           NEW e \in B
    PROVE  Conserves(R, P, B \ {e}, H \cup {e.event_id}, D, n)
<1> DEFINE all == R \cup P \cup B
           rest == R \cup P \cup (B \ {e})
<1>1. rest = all \ {e} /\ e \in all
    BY DEF Conserves
<1>2. /\ IdsOf(rest) \cup {e.event_id} = IdsOf(all)
      /\ e.event_id \notin IdsOf(rest)
    BY <1>1 DEF Conserves, IdsOf
<1>3. IdsOf(rest) \cup (H \cup {e.event_id}) \cup D = 0 .. n - 1
    BY <1>2 DEF Conserves
<1>4. IdsOf(rest) \cap (H \cup {e.event_id} \cup D) = {} /\ (H \cup {e.event_id}) \cap D = {}
    BY <1>2, ZenonT(60) DEF Conserves
<1>5. QED
    BY <1>1, <1>3, <1>4 DEF Conserves

(***************************************************************************)
(* The invariant.  An event phase replaces the batch, so conservation      *)
(* needs that the last one was used up.                                    *)
(***************************************************************************)
InEventPhase == phase \in {"event_phase", "handling", "adding", "panicked"}
BatchIsUsedUp == ~InEventPhase => event_batch = {}
Conserved == EventsAreConserved /\ BatchIsUsedUp

eventVars == <<event_ready, event_pending, next_event_id, event_batch, handled, dropped>>

(* Most steps move no event. *)
LEMMA StillConserved ==
    ASSUME Conserved, UNCHANGED eventVars,
           InEventPhase => InEventPhase' \/ event_batch = {}
    PROVE  Conserved'
<1>1. EventsAreConserved'
    BY ConservesNow, ConservesNext DEF Conserved, eventVars
<1>2. QED
    BY <1>1 DEF Conserved, BatchIsUsedUp, eventVars

(* A panic loses no event: the queues stay as they are. *)
LEMMA PanicConserved ==
    ASSUME Conserved, NEW reason, Panic(reason)
    PROVE  Conserved'
BY StillConserved DEF Panic, InEventPhase, eventVars

(* An event scheduled by user code takes the next id. *)
LEMMA ScheduleConserved ==
    ASSUME TypeOK, Conserved, NEW t, NEW d, NEW p, Schedule(t, d, p),
           UNCHANGED <<phase, event_batch, handled, dropped>>
    PROVE  Conserved'
<1> DEFINE e == [event_id |-> next_event_id, scheduled_at |-> t + d, priority |-> p]
<1>1. e.event_id = next_event_id /\ next_event_id \in Nat
    BY DEF TypeOK, SchedulerTypeOK
<1>2. Conserves(event_ready, event_pending, event_batch, handled, dropped, next_event_id)
    BY ConservesNow DEF Conserved
<1> HIDE DEF e
<1>3. Conserves(event_ready, event_pending \cup {e}, event_batch, handled, dropped,
                next_event_id + 1)
    BY <1>1, <1>2, ScheduleConserves
<1>4. EventsAreConserved'
    BY <1>3, ConservesNext DEF Schedule, e
<1>5. QED
    BY <1>4 DEF Conserved, BatchIsUsedUp, InEventPhase

(* A flush between two event phases loses no event. *)
LEMMA FlushConserved ==
    ASSUME Conserved, FlushPendingEvents, UNCHANGED <<event_batch, handled, dropped>>,
           InEventPhase => event_batch = {}
    PROVE  Conserved'
<1>1. Conserves(event_ready, event_pending, event_batch, handled, dropped, next_event_id)
    BY ConservesNow DEF Conserved
<1>2. EventsAreConserved'
    BY <1>1, FlushConserves, ConservesNext DEF FlushPendingEvents
<1>3. QED
    BY <1>2 DEF Conserved, BatchIsUsedUp

(* Cancelling and discarding account for what they take away. *)
LEMMA DropConserved ==
    ASSUME Conserved, NEW events \in SUBSET (event_ready \cup event_pending),
           event_ready' = event_ready \ events, event_pending' = event_pending \ events,
           dropped' = dropped \cup IdsOf(events),
           UNCHANGED <<next_event_id, event_batch, handled>>,
           InEventPhase => InEventPhase'
    PROVE  Conserved'
<1>1. Conserves(event_ready, event_pending, event_batch, handled, dropped, next_event_id)
    BY ConservesNow DEF Conserved
<1>2. EventsAreConserved'
    BY <1>1, DropConserves, ConservesNext
<1>3. QED
    BY <1>2 DEF Conserved, BatchIsUsedUp

(* User code conserves events. *)
LEMMA UserConserved ==
    ASSUME TypeOK, Conserved, Configure \/ UserOperation \/ UserReturn
    PROVE  Conserved'
<1>1. ASSUME NEW t, NEW p, ScheduleEventAt(t, p)
      PROVE  Conserved'
    BY <1>1, ScheduleConserved DEF ScheduleEventAt
<1>2. CASE AddEngineSource
    BY <1>2, StillConserved DEF AddEngineSource, eventVars, InEventPhase
<1>3. ASSUME NEW d, NEW p, ContextScheduleEvent(d, p)
      PROVE  Conserved'
    BY <1>3, ScheduleConserved, PanicConserved DEF ContextScheduleEvent
<1>4. CASE ContextAddSource
    BY <1>4, StillConserved DEF ContextAddSource, eventVars, InEventPhase
<1>5. ASSUME NEW cancelled \in SUBSET (event_ready \cup event_pending),
             CancelScheduledEvents(cancelled)
      PROVE  Conserved'
    BY <1>5, DropConserved DEF CancelScheduledEvents, DrainCancelScheduledEvents, InEventPhase
<1>6. ASSUME NEW cancelled, CancelScheduledSources(cancelled)
      PROVE  Conserved'
    BY <1>6, StillConserved DEF CancelScheduledSources, eventVars, InEventPhase
<1>7. ASSUME NEW delay, RegisterSource(delay)
      PROVE  Conserved'
    BY <1>7, StillConserved DEF RegisterSource, eventVars, InEventPhase
<1>8. ASSUME NEW delay, FinishAddSource(delay)
      PROVE  Conserved'
    BY <1>8, StillConserved, PanicConserved DEF FinishAddSource, eventVars, InEventPhase
<1>9. ASSUME NEW delay, FinishFire(delay)
      PROVE  Conserved'
    BY <1>9, StillConserved, PanicConserved DEF FinishFire, eventVars, InEventPhase
<1>10. CASE FinishHandleEvent
    BY <1>10, StillConserved DEF FinishHandleEvent, eventVars, InEventPhase
<1>11. QED
    BY <1>1, <1>2, <1>3, <1>4, <1>5, <1>6, <1>7, <1>8, <1>9, <1>10
       DEF Configure, UserOperation, UserReturn

(* The runner conserves events. *)
LEMMA RunnerConserved ==
    ASSUME TypeOK, Conserved, RunnerStep
    PROVE  Conserved'
<1>1. CASE BeginSimulation
    BY <1>1, StillConserved DEF BeginSimulation, eventVars, InEventPhase
<1>2. CASE FinishRegistration
    BY <1>2, FlushConserved DEF FinishRegistration, InEventPhase
<1>3. CASE StopRun
    BY <1>3, StillConserved DEF StopRun, eventVars, InEventPhase
<1>4. CASE BeginTick
    BY <1>4, StillConserved DEF BeginTick, eventVars, InEventPhase
<1>5. CASE StartSourcePhase
    BY <1>5, StillConserved, PanicConserved DEF StartSourcePhase, eventVars, InEventPhase
<1>6. ASSUME NEW source, FireSource(source)
      PROVE  Conserved'
    BY <1>6, StillConserved DEF FireSource, eventVars, InEventPhase
<1>7. CASE StartEventPhase
    <2>1. CASE Overdue(event_ready, now)
        BY <1>7, <2>1, PanicConserved DEF StartEventPhase
    <2>2. CASE ~Overdue(event_ready, now)
        <3> DEFINE due == DueAt(event_ready, now)
        <3>1. due \in SUBSET event_ready
            BY DEF DueAt
        <3>2. Conserves(event_ready, event_pending, {}, handled, dropped, next_event_id)
            BY <1>7, ConservesNow DEF Conserved, BatchIsUsedUp, InEventPhase, StartEventPhase
        <3>3. Conserves(event_ready \ due, event_pending, due, handled, dropped, next_event_id)
            BY <3>1, <3>2, DrainConserves
        <3>4. EventsAreConserved'
            BY <1>7, <2>2, <3>3, ConservesNext DEF StartEventPhase, DrainReadyEvents
        <3>5. QED
            BY <1>7, <2>2, <3>4 DEF Conserved, BatchIsUsedUp, InEventPhase, StartEventPhase
    <2>3. QED
        BY <2>1, <2>2
<1>8. ASSUME NEW event \in event_batch, HandleEvent(event)
      PROVE  Conserved'
    <2>1. Conserves(event_ready, event_pending, event_batch, handled, dropped, next_event_id)
        BY ConservesNow DEF Conserved
    <2>2. EventsAreConserved'
        BY <1>8, <2>1, HandleConserves, ConservesNext DEF HandleEvent
    <2>3. QED
        BY <1>8, <2>2 DEF Conserved, BatchIsUsedUp, InEventPhase, HandleEvent
<1>9. CASE EndMicroStep
    BY <1>9, FlushConserved, PanicConserved DEF EndMicroStep
<1>10. CASE ContinueMicroSteps
    BY <1>10, StillConserved DEF ContinueMicroSteps, eventVars, InEventPhase
<1>11. CASE DiscardAtLimit
    <2>1. CASE Overdue(source_ready, now) \/ Overdue(event_ready, now)
        BY <1>11, <2>1, PanicConserved, Zenon DEF DiscardAtLimit
    <2>2. CASE ~(Overdue(source_ready, now) \/ Overdue(event_ready, now))
        <3>1. /\ DiscardRemainMicroStep
              /\ UNCHANGED event_batch /\ UNCHANGED handled
              /\ phase = "continue"
            BY <1>11, <2>2, Zenon DEF DiscardAtLimit
        <3>2. DueAt(event_ready, now) \in SUBSET event_ready
            BY DEF DueAt
        <3>3. event_pending \ DueAt(event_ready, now) = event_pending
            BY <3>2 DEF Conserved, EventsAreConserved
        <3>4. QED
            BY <3>1, <3>2, <3>3, DropConserved
               DEF DiscardRemainMicroStep, DrainReadyEvents, InEventPhase
    <2>3. QED
        BY <2>1, <2>2
<1>12. ASSUME NEW status, EndTickWith(status), phase = "end_tick"
       PROVE  Conserved'
    BY <1>12, StillConserved DEF EndTickWith, eventVars, InEventPhase
<1>13. CASE EndTickWithIncrementTick
    BY <1>12, <1>13, PanicConserved DEF EndTickWithIncrementTick
<1>14. CASE EndTickWithJumpToNextTick
    BY <1>12, <1>14, PanicConserved DEF EndTickWithJumpToNextTick, JumpTo
<1>15. QED
    BY <1>1, <1>2, <1>3, <1>4, <1>5, <1>6, <1>7, <1>8, <1>9, <1>10, <1>11, <1>13, <1>14
       DEF RunnerStep

(* A new engine has no events and has issued no id. *)
LEMMA InitConserved == Init => Conserved
BY DEF Init, SchedulerInit, Conserved, EventsAreConserved, BatchIsUsedUp, AllEvents, IdsOf

(* Conserved is an inductive invariant of a run. *)
THEOREM AlwaysConserved == Spec => []Conserved
<1>1. Init => Conserved
    BY InitConserved
<1>2. TypeOK /\ Conserved /\ [Next]_vars => Conserved'
    <2>1. CASE UNCHANGED vars
        BY <2>1, StillConserved DEF eventVars, InEventPhase
    <2>2. QED
        BY <2>1, UserConserved, RunnerConserved DEF Next
<1>3. QED
    BY <1>1, <1>2, TypeCorrect, PTL DEF Spec

(* However events are scheduled, cancelled, discarded and handled, each is in *)
(* one place: no event is lost and none is handled twice.                    *)
THEOREM EventsAreAlwaysConserved == Spec => []EventsAreConserved
BY AlwaysConserved, PTL DEF Conserved

(***************************************************************************)
(* Ordering.  Ids tell old events from new ones: while a micro-step runs,  *)
(* what it scheduled is pending and has an id from step_first_id on, and   *)
(* everything else is older.  The event phase holds all that is due now.   *)
(***************************************************************************)
Quiet == phase \in {"peek", "micro_step", "continue", "end_tick", "stopped"}
Stepping == phase \in {"source_phase", "firing", "event_phase", "handling", "adding"}
Handling == phase \in {"event_phase", "handling", "adding"}

Ordered ==
    /\ step_first_id <= next_event_id
    /\ ZeroDelayIsDeferred
    /\ Quiet => event_pending = {}
    /\ Stepping => /\ \A e \in event_ready : e.event_id < step_first_id
                   /\ \A e \in event_pending : e.event_id >= step_first_id
    /\ Handling => /\ \A e \in event_batch : e.scheduled_at = now
                   /\ \A e \in event_ready : e.scheduled_at # now

(* Most steps take events away or schedule the next one. *)
LEMMA StillOrdered ==
    ASSUME TypeOK, Ordered,
           UNCHANGED <<tick_status, step_first_id>>,
           next_event_id' \in {next_event_id, next_event_id + 1},
           event_ready' \subseteq event_ready, event_batch' \subseteq event_batch,
           \A e \in event_pending' : e \in event_pending \/ e.event_id = next_event_id,
           Quiet' => Quiet /\ event_pending' \subseteq event_pending,
           Stepping' => Stepping,
           Handling' => Handling
    PROVE  Ordered'
<1>1. step_first_id' <= next_event_id'
    BY DEF Ordered, TypeOK, SchedulerTypeOK
<1>2. ZeroDelayIsDeferred'
    BY DEF Ordered, ZeroDelayIsDeferred
<1>3. Quiet' => event_pending' = {}
    BY DEF Ordered
<1>4. Stepping' => /\ \A e \in event_ready' : e.event_id < step_first_id'
                   /\ \A e \in event_pending' : e.event_id >= step_first_id'
    BY DEF Ordered
<1>5. Handling' => /\ \A e \in event_batch' : e.scheduled_at = now'
                   /\ \A e \in event_ready' : e.scheduled_at # now'
    BY DEF Ordered, now
<1>6. QED
    BY <1>1, <1>2, <1>3, <1>4, <1>5 DEF Ordered

(* Steps that move no event and stay in their part of the loop keep the order. *)
LEMMA QuietOrdered ==
    ASSUME TypeOK, Ordered, UNCHANGED <<tick_status, step_first_id, eventVars>>,
           Quiet' => Quiet, Stepping' => Stepping, Handling' => Handling
    PROVE  Ordered'
BY StillOrdered DEF eventVars

(* A panic keeps the order. *)
LEMMA PanicOrdered ==
    ASSUME TypeOK, Ordered, NEW reason, Panic(reason)
    PROVE  Ordered'
BY QuietOrdered DEF Panic, eventVars, Quiet, Stepping, Handling

(* User code schedules with an id that is newer than the micro-step. *)
LEMMA ScheduleOrdered ==
    ASSUME TypeOK, Ordered, ~Quiet, NEW t, NEW d, NEW p, Schedule(t, d, p),
           UNCHANGED <<phase, tick_status, step_first_id, event_batch>>
    PROVE  Ordered'
<1>1. ~Quiet' /\ (Stepping' => Stepping) /\ (Handling' => Handling)
    BY DEF Quiet, Stepping, Handling
<1>2. \A e \in event_pending' : e \in event_pending \/ e.event_id = next_event_id
    BY DEF Schedule
<1>3. event_ready' = event_ready /\ next_event_id' = next_event_id + 1
    BY DEF Schedule
<1>4. QED
    BY <1>1, <1>2, <1>3, StillOrdered

(* User code keeps the order. *)
LEMMA UserOrdered ==
    ASSUME TypeOK, Ordered, Configure \/ UserOperation \/ UserReturn
    PROVE  Ordered'
<1>1. ASSUME NEW t, NEW p, ScheduleEventAt(t, p)
      PROVE  Ordered'
    BY <1>1, ScheduleOrdered DEF ScheduleEventAt, Quiet
<1>2. CASE AddEngineSource
    BY <1>2, QuietOrdered DEF AddEngineSource, eventVars, Quiet, Stepping, Handling
<1>3. ASSUME NEW d, NEW p, ContextScheduleEvent(d, p)
      PROVE  Ordered'
    BY <1>3, ScheduleOrdered, PanicOrdered DEF ContextScheduleEvent, InCallback, Quiet
<1>4. CASE ContextAddSource
    BY <1>4, QuietOrdered DEF ContextAddSource, eventVars, Quiet, Stepping, Handling
<1>5. ASSUME NEW cancelled, CancelScheduledEvents(cancelled)
      PROVE  Ordered'
    BY <1>5, StillOrdered
       DEF CancelScheduledEvents, DrainCancelScheduledEvents, Quiet, Stepping, Handling
<1>6. ASSUME NEW cancelled, CancelScheduledSources(cancelled)
      PROVE  Ordered'
    BY <1>6, QuietOrdered DEF CancelScheduledSources, eventVars, Quiet, Stepping, Handling
<1>7. ASSUME NEW delay, RegisterSource(delay)
      PROVE  Ordered'
    BY <1>7, QuietOrdered DEF RegisterSource, eventVars, Quiet, Stepping, Handling
<1>8. ASSUME NEW delay, FinishAddSource(delay)
      PROVE  Ordered'
    BY <1>8, QuietOrdered, PanicOrdered
       DEF FinishAddSource, eventVars, Quiet, Stepping, Handling
<1>9. ASSUME NEW delay, FinishFire(delay)
      PROVE  Ordered'
    BY <1>9, QuietOrdered, PanicOrdered DEF FinishFire, eventVars, Quiet, Stepping, Handling
<1>10. CASE FinishHandleEvent
    BY <1>10, QuietOrdered DEF FinishHandleEvent, eventVars, Quiet, Stepping, Handling
<1>11. QED
    BY <1>1, <1>2, <1>3, <1>4, <1>5, <1>6, <1>7, <1>8, <1>9, <1>10
       DEF Configure, UserOperation, UserReturn

(* Ids are issued in order: every event still queued has an older one. *)
LEMMA IdsAreIssued ==
    ASSUME TypeOK, Conserved
    PROVE  \A e \in AllEvents : e.event_id \in Nat /\ e.event_id < next_event_id
<1>1. \A e \in AllEvents : e.event_id \in 0 .. next_event_id - 1
    BY DEF Conserved, EventsAreConserved, IdsOf
<1>2. QED
    BY <1>1 DEF TypeOK, SchedulerTypeOK

(* The runner keeps the order: a micro-step begins with nothing pending. *)
LEMMA RunnerOrdered ==
    ASSUME TypeOK, Conserved, Ordered, RunnerStep
    PROVE  Ordered'
<1>1. CASE BeginSimulation
    BY <1>1, QuietOrdered DEF BeginSimulation, eventVars, Quiet, Stepping, Handling
<1>2. CASE FinishRegistration
    <2>1. event_pending' = {} /\ phase' = "peek"
        BY <1>2 DEF FinishRegistration, FlushPendingEvents
    <2>2. UNCHANGED <<step_first_id, next_event_id, event_batch>>
        BY <1>2 DEF FinishRegistration, FlushPendingEvents
    <2>3. QED
        BY <2>1, <2>2 DEF Ordered, ZeroDelayIsDeferred, Quiet, Stepping, Handling
<1>3. CASE StopRun
    BY <1>3, QuietOrdered DEF StopRun, eventVars, Quiet, Stepping, Handling
<1>4. CASE BeginTick
    BY <1>4, QuietOrdered DEF BeginTick, eventVars, Quiet, Stepping, Handling
<1>5. CASE StartSourcePhase
    <2>1. CASE Overdue(source_ready, now)
        BY <1>5, <2>1, PanicOrdered DEF StartSourcePhase
    <2>2. CASE ~Overdue(source_ready, now)
        <3>1. /\ UNCHANGED <<event_ready, event_pending, next_event_id, event_batch>>
              /\ step_first_id' = next_event_id /\ phase' = "source_phase"
              /\ phase = "micro_step"
            BY <1>5, <2>2 DEF StartSourcePhase
        <3>2. event_pending = {} /\ event_batch = {}
            BY <3>1 DEF Ordered, Quiet, Conserved, BatchIsUsedUp, InEventPhase
        <3>3. \A e \in event_ready : e.event_id < next_event_id
            BY IdsAreIssued DEF AllEvents
        <3>4. next_event_id \in Nat
            BY DEF TypeOK, SchedulerTypeOK
        <3>5. QED
            BY <3>1, <3>2, <3>3, <3>4
               DEF Ordered, ZeroDelayIsDeferred, Quiet, Stepping, Handling
    <2>3. QED
        BY <2>1, <2>2
<1>6. ASSUME NEW source, FireSource(source)
      PROVE  Ordered'
    BY <1>6, QuietOrdered DEF FireSource, eventVars, Quiet, Stepping, Handling
<1>7. CASE StartEventPhase
    <2>1. CASE Overdue(event_ready, now)
        BY <1>7, <2>1, PanicOrdered DEF StartEventPhase
    <2>2. CASE ~Overdue(event_ready, now)
        <3>1. /\ event_ready' = event_ready \ DueAt(event_ready, now)
              /\ event_batch' = DueAt(event_ready, now)
              /\ UNCHANGED <<event_pending, next_event_id, step_first_id, tick_status>>
              /\ phase = "source_phase" /\ phase' = "event_phase"
            BY <1>7, <2>2 DEF StartEventPhase, DrainReadyEvents
        <3>2. /\ \A e \in event_batch' : e \in event_ready /\ e.scheduled_at = now
              /\ \A e \in event_ready' : e \in event_ready /\ e.scheduled_at # now
            BY <3>1 DEF DueAt
        <3>3. now' = now
            BY <3>1 DEF now
        <3>4. QED
            BY <3>1, <3>2, <3>3 DEF Ordered, ZeroDelayIsDeferred, Quiet, Stepping, Handling
    <2>3. QED
        BY <2>1, <2>2
<1>8. ASSUME NEW event, HandleEvent(event)
      PROVE  Ordered'
    BY <1>8, StillOrdered DEF HandleEvent, Quiet, Stepping, Handling
<1>9. CASE EndMicroStep
    <2>1. CASE Panic("micro-step overflow")
        BY <2>1, PanicOrdered
    <2>2. CASE ~Panic("micro-step overflow")
        <3>1. /\ event_pending' = {} /\ event_batch = {} /\ event_batch' = {}
              /\ UNCHANGED <<next_event_id, step_first_id>>
              /\ phase' \in {"continue", "end_tick"}
            BY <1>9, <2>2 DEF EndMicroStep, FlushPendingEvents
        <3>2. QED
            BY <3>1 DEF Ordered, ZeroDelayIsDeferred, Quiet, Stepping, Handling
    <2>3. QED
        BY <2>1, <2>2
<1>10. CASE ContinueMicroSteps
    BY <1>10, QuietOrdered DEF ContinueMicroSteps, eventVars, Quiet, Stepping, Handling
<1>11. CASE DiscardAtLimit
    <2>1. CASE Overdue(source_ready, now) \/ Overdue(event_ready, now)
        BY <1>11, <2>1, PanicOrdered, Zenon DEF DiscardAtLimit
    <2>2. CASE ~(Overdue(source_ready, now) \/ Overdue(event_ready, now))
        <3>1. /\ DiscardRemainMicroStep
              /\ UNCHANGED event_batch /\ UNCHANGED step_first_id /\ UNCHANGED tick_status
              /\ phase = "continue" /\ phase' \in {"end_tick", "micro_step"}
            BY <1>11, <2>2, Zenon DEF DiscardAtLimit
        <3>2. QED
            BY <3>1, StillOrdered
               DEF DiscardRemainMicroStep, DrainReadyEvents, Quiet, Stepping, Handling
    <2>3. QED
        BY <2>1, <2>2
<1>12. ASSUME NEW status, EndTickWith(status), phase = "end_tick"
       PROVE  Ordered'
    <2>1. phase' \in {"stopped", "peek"} /\ UNCHANGED <<eventVars, step_first_id>>
        BY <1>12 DEF EndTickWith, eventVars
    <2>2. QED
        BY <1>12, <2>1 DEF eventVars, Ordered, ZeroDelayIsDeferred, Quiet, Stepping, Handling
<1>13. CASE EndTickWithIncrementTick
    BY <1>12, <1>13, PanicOrdered DEF EndTickWithIncrementTick
<1>14. CASE EndTickWithJumpToNextTick
    BY <1>12, <1>14, PanicOrdered DEF EndTickWithJumpToNextTick, JumpTo
<1>15. QED
    BY <1>1, <1>2, <1>3, <1>4, <1>5, <1>6, <1>7, <1>8, <1>9, <1>10, <1>11, <1>13, <1>14
       DEF RunnerStep

(* A new engine has nothing to order. *)
LEMMA InitOrdered == Init => Ordered
BY DEF Init, SchedulerInit, Ordered, ZeroDelayIsDeferred, Quiet, Stepping, Handling

(* Ordered is an inductive invariant of a run. *)
THEOREM AlwaysOrdered == Spec => []Ordered
<1>1. Init => Ordered
    BY InitOrdered
<1>2. TypeOK /\ Conserved /\ Ordered /\ [Next]_vars => Ordered'
    <2>1. CASE UNCHANGED vars
        BY <2>1, QuietOrdered DEF eventVars, Quiet, Stepping, Handling
    <2>2. QED
        BY <2>1, UserOrdered, RunnerOrdered DEF Next
<1>3. QED
    BY <1>1, <1>2, TypeCorrect, AlwaysConserved, PTL DEF Spec

(* No event is handled in the micro-step that scheduled it: zero delay means *)
(* a later micro-step.                                                      *)
THEOREM ZeroDelayIsAlwaysDeferred == Spec => []ZeroDelayIsDeferred
BY AlwaysOrdered, PTL DEF Ordered

--------------------------------------------------------------------------------
(***************************************************************************)
(* Every run of the StandardRunner is a run of EventList.                  *)
(***************************************************************************)

(***************************************************************************)
(* The front of the batch is what EventList may execute: older events that *)
(* are due now are in the batch as well, so the heap order decides; what   *)
(* is pending is newer.                                                    *)
(***************************************************************************)
LEMMA FrontMayBeExecuted ==
    ASSUME TypeOK, Ordered, phase = "event_phase",
           NEW event, IsFront(event, event_batch)
    PROVE  List!MayBeExecuted(event)
<1>1. event \in event_batch /\ event \in ScheduledEvents /\ event.scheduled_at = now
    BY DEF IsFront, TypeOK, Ordered, Handling
<1>2. SUFFICES ASSUME NEW f \in AllEvents, f.scheduled_at = now, f.event_id < event.event_id
               PROVE  f.priority < event.priority
    BY <1>1 DEF List!MayBeExecuted
<1>3. f \in ScheduledEvents /\ step_first_id \in Nat
    BY DEF AllEvents, TypeOK, SchedulerTypeOK
<1>4. f \notin event_ready
    BY <1>2 DEF Ordered, Handling
<1>5. f \notin event_pending
    <2>1. event.event_id < step_first_id
        BY <1>1 DEF Ordered, ZeroDelayIsDeferred
    <2>2. f \in event_pending => f.event_id >= step_first_id
        BY DEF Ordered, Stepping
    <2>3. QED
        BY <1>1, <1>2, <1>3, <2>1, <2>2 DEF ScheduledEvents
<1>6. f \in event_batch \ {event}
    BY <1>1, <1>2, <1>3, <1>4, <1>5 DEF AllEvents, ScheduledEvents
<1>7. Before(event, f)
    BY <1>6 DEF IsFront
<1>8. QED
    BY <1>1, <1>2, <1>3, <1>7, PrioritiesAssumption DEF Before, ScheduledEvents, Time

(* Only `handle_event` leads from the event phase into a handler. *)
LEMMA OnlyHandleEvent ==
    ASSUME Next, phase = "event_phase", phase' = "handling"
    PROVE  \E event \in event_batch : HandleEvent(event)
<1>1. ~Configure
    BY DEF Configure, ScheduleEventAt, AddEngineSource
<1>2. ~UserOperation
    BY DEF UserOperation, ContextScheduleEvent, InCallback, ContextAddSource,
           CancelScheduledEvents, CancelScheduledSources
<1>3. ~UserReturn
    BY DEF UserReturn, RegisterSource, FinishAddSource, FinishFire, FinishHandleEvent
<1>4. /\ ~BeginSimulation /\ ~FinishRegistration /\ ~StopRun /\ ~BeginTick
      /\ ~StartSourcePhase /\ ~(\E source \in source_batch : FireSource(source))
      /\ ~StartEventPhase /\ ~ContinueMicroSteps
      /\ ~EndTickWithIncrementTick /\ ~EndTickWithJumpToNextTick
    BY DEF BeginSimulation, FinishRegistration, StopRun, BeginTick, StartSourcePhase, FireSource,
           StartEventPhase, ContinueMicroSteps, EndTickWithIncrementTick,
           EndTickWithJumpToNextTick
<1>5. ~EndMicroStep
    BY DEF EndMicroStep, Panic
<1>6. ~DiscardAtLimit
    BY Zenon DEF DiscardAtLimit
<1>7. QED
    BY <1>1, <1>2, <1>3, <1>4, <1>5, <1>6 DEF Next, RunnerStep

(* A step that hands an event to its model overtakes nothing. *)
LEMMA StepDoesNotOvertake ==
    ASSUME TypeOK, Ordered, Next, NEW e \in event_batch, Handled(e)
    PROVE  /\ e.scheduled_at = now
           /\ \A f \in AllEvents : f.scheduled_at = now /\ f.event_id < e.event_id
                                      => f.priority < e.priority
<1>1. PICK event \in event_batch : HandleEvent(event)
    BY OnlyHandleEvent DEF Handled
<1>2. e = event
    BY <1>1 DEF Handled, HandleEvent
<1>3. List!MayBeExecuted(e)
    BY <1>1, <1>2, FrontMayBeExecuted DEF HandleEvent
<1>4. \A f \in AllEvents : f.priority \in Priorities
    BY DEF AllEvents, TypeOK, SchedulerTypeOK, ScheduledEvents
<1>5. QED
    BY <1>3, <1>4 DEF List!MayBeExecuted

(* An event is handled at its own tick, and never before an older event of   *)
(* that tick whose priority is not lower.                                    *)
THEOREM NoneOvertakes == Spec => NoOvertaking
<1>1. TypeOK /\ Ordered /\ [Next]_vars
        => [\A e \in event_batch : Handled(e) =>
              /\ e.scheduled_at = now
              /\ \A f \in AllEvents : f.scheduled_at = now /\ f.event_id < e.event_id
                                         => f.priority < e.priority]_vars
    BY StepDoesNotOvertake
<1>2. QED
    BY <1>1, TypeCorrect, AlwaysOrdered, PTL DEF Spec, NoOvertaking

(***************************************************************************)
(* Refinement.  A step of the runner issues one event, executes one, drops *)
(* some or advances the clock; or it only moves events between the heaps   *)
(* and the batch, which the list does not see.                             *)
(***************************************************************************)
LEMMA Unseen ==
    ASSUME now' = now, AllEvents' = AllEvents, UNCHANGED <<next_event_id, handled, dropped>>
    PROVE  UNCHANGED List!listVars
BY DEF List!listVars

(* A step that moves neither the clock nor an event is invisible. *)
LEMMA Silent ==
    ASSUME UNCHANGED <<tick_status, eventVars>>
    PROVE  UNCHANGED List!listVars
BY Unseen DEF eventVars, AllEvents, now

(* A panic moves no event. *)
LEMMA PanicUnseen ==
    ASSUME NEW reason, Panic(reason)
    PROVE  UNCHANGED List!listVars
BY Silent DEF Panic, eventVars

(* `schedule` *)
LEMMA ScheduleIssues ==
    ASSUME TypeOK, NEW t \in Time, NEW d \in Nat, NEW p \in Priorities, Schedule(t, d, p),
           ~AddOverflows(t, d), t >= now,
           UNCHANGED <<tick_status, event_batch, handled, dropped>>
    PROVE  List!ListNext
<1>1. t + d \in Time /\ t + d >= now
    BY MaxTimeAssumption, NowType DEF Time, AddOverflows
<1>2. AllEvents' = AllEvents \cup
         {[event_id |-> next_event_id, scheduled_at |-> t + d, priority |-> p]}
    BY DEF AllEvents, Schedule
<1>3. List!Issue(t + d, p)
    BY <1>1, <1>2 DEF List!Issue, Schedule, now
<1>4. QED
    BY <1>1, <1>3 DEF List!ListNext

(* `drain_cancel_scheduled` and `discard_remain_micro_step` *)
LEMMA DropDrops ==
    ASSUME Conserved, NEW events \in SUBSET (event_ready \cup event_pending),
           event_ready' = event_ready \ events, event_pending' = event_pending \ events,
           dropped' = dropped \cup IdsOf(events),
           UNCHANGED <<tick_status, next_event_id, event_batch, handled>>
    PROVE  List!ListNext
<1>1. events \in SUBSET AllEvents
    BY DEF AllEvents
<1>2. AllEvents' = AllEvents \ events
    BY DEF AllEvents, Conserved, EventsAreConserved
<1>3. \A e \in events : e.event_id \notin handled \cup dropped
    BY <1>1 DEF Conserved, EventsAreConserved, IdsOf
<1>4. List!Drop(events)
    BY <1>2, <1>3 DEF List!Drop, IdsOf, now
<1>5. QED
    BY <1>1, <1>4 DEF List!ListNext

(* `handle_event` *)
LEMMA HandleExecutes ==
    ASSUME TypeOK, Conserved, Ordered, NEW event \in event_batch, HandleEvent(event)
    PROVE  List!ListNext
<1>1. event \in AllEvents
    BY DEF AllEvents
<1>2. AllEvents' = AllEvents \ {event}
    BY DEF AllEvents, HandleEvent, Conserved, EventsAreConserved
<1>3. event.event_id \notin handled \cup dropped
    BY <1>1 DEF Conserved, EventsAreConserved, IdsOf
<1>4. List!MayBeExecuted(event)
    BY FrontMayBeExecuted DEF HandleEvent
<1>5. List!Execute(event)
    BY <1>2, <1>3, <1>4 DEF List!Execute, HandleEvent, now
<1>6. QED
    BY <1>1, <1>5 DEF List!ListNext

(* `end_tick_with_increment_tick` and `end_tick_with_jump_to_next_tick` *)
LEMMA EndTickAdvances ==
    ASSUME Conserved, Ordered, phase = "end_tick",
           NEW status, EndTickWith(status), status.current \in Time, status.current > now,
           \A e \in event_ready : e.scheduled_at >= status.current
    PROVE  List!ListNext
<1>1. AllEvents = event_ready
    BY DEF AllEvents, Conserved, BatchIsUsedUp, InEventPhase, Ordered, Quiet
<1>2. AllEvents' = AllEvents /\ now' = status.current
    BY DEF AllEvents, EndTickWith, now
<1>3. List!Advance(status.current)
    BY <1>1, <1>2 DEF List!Advance, EndTickWith
<1>4. QED
    BY <1>3 DEF List!ListNext

ListStep == List!ListNext \/ UNCHANGED List!listVars

(* What user code does is a step of the list or none. *)
LEMMA UserListed ==
    ASSUME TypeOK, Timely, Conserved, Configure \/ UserOperation \/ UserReturn
    PROVE  ListStep
<1>1. ASSUME NEW t \in Time, NEW p \in Priorities, ScheduleEventAt(t, p)
      PROVE  ListStep
    <2>1. now = 0
        BY <1>1 DEF Timely, StartsAtZero, ScheduleEventAt
    <2>2. t \in Nat /\ ~AddOverflows(t, 0) /\ t >= now
        BY <2>1, MaxTimeAssumption DEF Time, AddOverflows
    <2>3. QED
        BY <1>1, <2>2, ScheduleIssues DEF ScheduleEventAt, ListStep
<1>2. CASE AddEngineSource
    BY <1>2, Silent DEF AddEngineSource, eventVars, ListStep
<1>3. ASSUME NEW d \in Delays, NEW p \in Priorities, ContextScheduleEvent(d, p)
      PROVE  ListStep
    <2>1. d \in Nat /\ now \in Time /\ now >= now
        BY DelaysAssumption, NowType DEF Time
    <2>2. CASE AddOverflows(now, d)
        BY <1>3, <2>2, PanicUnseen DEF ContextScheduleEvent, ListStep
    <2>3. CASE ~AddOverflows(now, d)
        BY <1>3, <2>1, <2>3, ScheduleIssues DEF ContextScheduleEvent, ListStep
    <2>4. QED
        BY <2>2, <2>3
<1>4. CASE ContextAddSource
    BY <1>4, Silent DEF ContextAddSource, eventVars, ListStep
<1>5. ASSUME NEW cancelled \in SUBSET (event_ready \cup event_pending),
             CancelScheduledEvents(cancelled)
      PROVE  ListStep
    BY <1>5, DropDrops DEF CancelScheduledEvents, DrainCancelScheduledEvents, ListStep
<1>6. ASSUME NEW cancelled, CancelScheduledSources(cancelled)
      PROVE  ListStep
    BY <1>6, Silent DEF CancelScheduledSources, eventVars, ListStep
<1>7. ASSUME NEW delay, RegisterSource(delay)
      PROVE  ListStep
    BY <1>7, Silent DEF RegisterSource, eventVars, ListStep
<1>8. ASSUME NEW delay, FinishAddSource(delay)
      PROVE  ListStep
    BY <1>8, Silent, PanicUnseen DEF FinishAddSource, eventVars, ListStep
<1>9. ASSUME NEW delay, FinishFire(delay)
      PROVE  ListStep
    BY <1>9, Silent, PanicUnseen DEF FinishFire, eventVars, ListStep
<1>10. CASE FinishHandleEvent
    BY <1>10, Silent DEF FinishHandleEvent, eventVars, ListStep
<1>11. QED
    BY <1>1, <1>2, <1>3, <1>4, <1>5, <1>6, <1>7, <1>8, <1>9, <1>10
       DEF Configure, UserOperation, UserReturn

(* What the runner does is a step of the list or none. *)
LEMMA RunnerListed ==
    ASSUME TypeOK, Timely, Conserved, Ordered, RunnerStep
    PROVE  ListStep
<1>1. CASE BeginSimulation
    BY <1>1, Silent DEF BeginSimulation, eventVars, ListStep
<1>2. CASE FinishRegistration
    <2>1. now = 0 /\ now' = 0
        BY <1>2 DEF Timely, StartsAtZero, FinishRegistration, InitialTickStatus, TickStatus, now
    <2>2. AllEvents' = AllEvents
        BY <1>2 DEF FinishRegistration, FlushPendingEvents, AllEvents
    <2>3. QED
        BY <1>2, <2>1, <2>2, Unseen DEF FinishRegistration, FlushPendingEvents, ListStep
<1>3. CASE StopRun
    BY <1>3, Silent DEF StopRun, eventVars, ListStep
<1>4. CASE BeginTick
    BY <1>4, Silent DEF BeginTick, eventVars, ListStep
<1>5. CASE StartSourcePhase
    BY <1>5, Silent, PanicUnseen DEF StartSourcePhase, eventVars, ListStep
<1>6. ASSUME NEW source, FireSource(source)
      PROVE  ListStep
    BY <1>6, Silent DEF FireSource, eventVars, ListStep
<1>7. CASE StartEventPhase
    <2>1. CASE Overdue(event_ready, now)
        BY <1>7, <2>1, PanicUnseen DEF StartEventPhase, ListStep
    <2>2. CASE ~Overdue(event_ready, now)
        <3>1. event_batch = {}
            BY <1>7 DEF Conserved, BatchIsUsedUp, InEventPhase, StartEventPhase
        <3>2. AllEvents' = AllEvents
            BY <1>7, <2>2, <3>1 DEF StartEventPhase, DrainReadyEvents, DueAt, AllEvents
        <3>3. QED
            BY <1>7, <2>2, <3>2, Unseen DEF StartEventPhase, DrainReadyEvents, now, ListStep
    <2>3. QED
        BY <2>1, <2>2
<1>8. ASSUME NEW event \in event_batch, HandleEvent(event)
      PROVE  ListStep
    BY <1>8, HandleExecutes DEF ListStep
<1>9. CASE EndMicroStep
    <2>1. CASE Panic("micro-step overflow")
        BY <2>1, PanicUnseen DEF ListStep
    <2>2. CASE ~Panic("micro-step overflow")
        <3>1. FlushPendingEvents /\ UNCHANGED <<tick_status, event_batch, handled, dropped>>
            BY <1>9, <2>2 DEF EndMicroStep
        <3>2. AllEvents' = AllEvents /\ now' = now
            BY <3>1 DEF FlushPendingEvents, AllEvents, now
        <3>3. QED
            BY <3>1, <3>2, Unseen DEF FlushPendingEvents, ListStep
    <2>3. QED
        BY <2>1, <2>2
<1>10. CASE ContinueMicroSteps
    BY <1>10, Silent DEF ContinueMicroSteps, eventVars, ListStep
<1>11. CASE DiscardAtLimit
    <2>1. CASE Overdue(source_ready, now) \/ Overdue(event_ready, now)
        <3>1. \E reason : Panic(reason)
            BY <1>11, <2>1, Zenon DEF DiscardAtLimit
        <3>2. QED
            BY <3>1, PanicUnseen DEF ListStep
    <2>2. CASE ~(Overdue(source_ready, now) \/ Overdue(event_ready, now))
        <3>1. /\ DiscardRemainMicroStep
              /\ UNCHANGED event_batch /\ UNCHANGED handled /\ UNCHANGED tick_status
            BY <1>11, <2>2, Zenon DEF DiscardAtLimit
        <3>2. DueAt(event_ready, now) \in SUBSET (event_ready \cup event_pending)
            BY DEF DueAt
        <3>3. event_pending \ DueAt(event_ready, now) = event_pending
            BY DEF Conserved, EventsAreConserved, DueAt
        <3>4. QED
            BY <3>1, <3>2, <3>3, DropDrops DEF DiscardRemainMicroStep, DrainReadyEvents, ListStep
    <2>3. QED
        BY <2>1, <2>2
<1>12. ASSUME phase = "end_tick",
              NEW next \in Time, NEW skipped, EndTickWith(TickStatus(next, skipped)),
              next > now, \A e \in event_ready : e.scheduled_at >= next
       PROVE  ListStep
    <2> DEFINE status == TickStatus(next, skipped)
    <2>1. status.current = next
        BY DEF TickStatus
    <2> HIDE DEF status
    <2>2. EndTickWith(status)
        BY <1>12 DEF status
    <2>3. QED
        BY <1>12, <2>1, <2>2, EndTickAdvances DEF ListStep
<1>13. ASSUME phase = "end_tick", EndTickWith(TickStatus(now + 1, 0)), ~AddOverflows(now, 1)
       PROVE  ListStep
    <2>1. now \in Time /\ now + 1 \in Time
        BY <1>13, NowType, MaxTimeAssumption DEF Time, AddOverflows
    <2>2. \A e \in event_ready : e.scheduled_at \in Time /\ e.scheduled_at > now
        BY <1>13, QueuedTimes DEF Timely, TickIsDone
    <2>3. now + 1 > now /\ \A e \in event_ready : e.scheduled_at >= now + 1
        BY <2>1, <2>2 DEF Time
    <2>4. QED
        BY <1>12, <1>13, <2>1, <2>3
<1>14. CASE EndTickWithIncrementTick
    BY <1>13, <1>14, PanicUnseen DEF EndTickWithIncrementTick, ListStep
<1>15. CASE EndTickWithJumpToNextTick
    <2> DEFINE heads == PeekNextTime(source_ready \cup event_ready)
    <2>1. CASE heads = {}
        BY <1>13, <1>15, <2>1, PanicUnseen DEF EndTickWithJumpToNextTick, ListStep
    <2>2. CASE heads # {}
        <3>1. PICK next \in heads :
                 IF SubOverflows(next, now) \/ SubOverflows(next - now, 1)
                 THEN Panic("time underflow")
                 ELSE JumpTo(next)
            BY <1>15, <2>2 DEF EndTickWithJumpToNextTick
        <3>2. /\ \E x \in source_ready \cup event_ready : x.scheduled_at = next
              /\ \A x \in source_ready \cup event_ready : next <= x.scheduled_at
            BY HeadIsLeast
        <3>3. phase = "end_tick"
            BY <1>15 DEF EndTickWithJumpToNextTick
        <3>4. next \in Time /\ next > now
            BY <3>2, <3>3, QueuedTimes DEF Timely, TickIsDone
        <3>5. \A e \in event_ready : e.scheduled_at \in Time /\ e.scheduled_at >= next
            BY <3>2, <3>4, QueuedTimes DEF Time
        <3>6. CASE SubOverflows(next, now) \/ SubOverflows(next - now, 1)
            BY <3>1, <3>6, PanicUnseen DEF ListStep
        <3>7. CASE ~(SubOverflows(next, now) \/ SubOverflows(next - now, 1))
            BY <1>12, <3>1, <3>3, <3>4, <3>5, <3>7 DEF JumpTo
        <3>8. QED
            BY <3>6, <3>7
    <2>3. QED
        BY <2>1, <2>2
<1>16. QED
    BY <1>1, <1>2, <1>3, <1>4, <1>5, <1>6, <1>7, <1>8, <1>9, <1>10, <1>11, <1>14, <1>15
       DEF RunnerStep

(* A new engine is an empty list at time zero. *)
LEMMA InitListed == Init => List!ListInit
BY DEF Init, SchedulerInit, List!ListInit, AllEvents, InitialTickStatus, TickStatus, now

(* To its user the runner is an event list: heaps, flushes, micro-steps,     *)
(* phases, strategies and jumps add nothing to what EventList allows.        *)
THEOREM RunnerImplementsEventList == Spec => ImplementsEventList
<1>1. Init => List!ListInit
    BY InitListed
<1>2. TypeOK /\ Timely /\ Conserved /\ Ordered /\ [Next]_vars => [List!ListNext]_List!listVars
    <2>1. CASE UNCHANGED vars
        BY <2>1, Silent DEF eventVars
    <2>2. QED
        BY <2>1, UserListed, RunnerListed DEF Next, ListStep
<1>3. QED
    BY <1>1, <1>2, TypeCorrect, AlwaysTimely, AlwaysConserved, AlwaysOrdered, PTL
       DEF Spec, ImplementsEventList, List!ListSpec
================================================================================
