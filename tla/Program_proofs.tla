----------------------------- MODULE Program_proofs -----------------------------
(***************************************************************************)
(* Proofs about whole programs: what the examples do with the crate, for    *)
(* every initial schedule, every set of job generators and all bounds.      *)
(***************************************************************************)
EXTENDS ProgramProperties, Samplers_proofs, SequenceTheorems

USE DEF vars, schedulerVars, sourceVars, executorVars, batchVars, runnerVars, historyVars

(* A program keeps its user code, its kind and its runner. *)
LEMMA ProgramStays ==
    ASSUME [ProgramNext]_programVars
    PROVE  program' = program
BY DEF ProgramNext, ProgramUserStep, ProgramRunnerStep, ProgramIsOver, programVars, SameProgram,
       SetUpEvent, SetUpSource, UserSchedules, UserAddsSource, UserCancelsEvents,
       UserCancelsSources, RegistrationReturns, AddedSourceReturns, FireReturns,
       HandlerReturns, StartSimulation, SilentStep, ProgramStops, TickBegins, RealtimeWaits,
       RealtimeSleeps, RealtimeTickBegins, SourcePhaseStarts, SourceFires, EventPhaseStarts,
       EventIsHandled, SequentialStepEnds, PoolWorks, CommandIsApplied, ParallelStepEnds,
       RestIsDiscarded, TickEnds

(* A run that has panicked is over. *)
LEMMA PanickedStays ==
    ASSUME [ProgramNext]_programVars, phase = "panicked"
    PROVE  phase' = "panicked"
<1>1. CASE ProgramUserStep
    BY <1>1 DEF ProgramUserStep, SetUpEvent, ScheduleEventAt, SetUpSource, AddEngineSource,
           UserSchedules, ContextScheduleEvent, InCallback, UserAddsSource, HookedAddSource,
           ContextAddSource, UserCancelsEvents, CancelScheduledEvents, UserCancelsSources,
           CancelScheduledSources, RegistrationReturns, HookedRegisterSource, RegisterSource,
           AddedSourceReturns, HookedFinishAddSource, FinishAddSource, FireReturns,
           HookedFinishFire, FinishFire, HandlerReturns, HookedFinishHandleEvent,
           FinishHandleEvent
<1>2. CASE StartSimulation \/ SilentStep \/ ProgramStops \/ TickBegins \/ RealtimeTickBegins
           \/ TickEnds
    BY <1>2 DEF StartSimulation, HookedBeginSimulation, BeginSimulation, SilentStep,
           FinishRegistration, ContinueMicroSteps, ProgramStops, HookedStopRun, StopRun,
           TickBegins, RealtimeTickBegins, HookedBeginTick, BeginTick, TickEnds, HookedEndTick,
           EndTickWithIncrementTick, EndTickWithJumpToNextTick
<1>3. CASE RealtimeWaits \/ RealtimeSleeps
    BY <1>3 DEF RealtimeWaits, RealtimeSleeps, Realtime!Wait, Realtime!Elapse, Realtime!WakeUp,
           Realtime!vars
<1>4. CASE SourcePhaseStarts \/ (\E source \in source_batch : SourceFires(source))
           \/ EventPhaseStarts \/ (\E event \in event_batch : EventIsHandled(event))
           \/ SequentialStepEnds \/ CommandIsApplied \/ ParallelStepEnds \/ RestIsDiscarded
    BY <1>4 DEF SourcePhaseStarts, HookedStartSourcePhase, StartSourcePhase, SourceFires,
           HookedFireSource, FireSource, EventPhaseStarts, HookedStartEventPhase,
           StartEventPhase, EventIsHandled, HookedHandleEvent, HandleEvent, SequentialStepEnds,
           HookedEndMicroStep, EndMicroStep, CommandIsApplied, ApplyCommand, ParallelStepEnds,
           CompleteEventPhase, RestIsDiscarded, DiscardAtLimit
<1>5. CASE PoolWorks
    BY <1>5 DEF PoolWorks, StartWorkers, BeginWork, SendCommand, FinishWork, JoinWorkers
<1>6. QED
    BY <1>1, <1>2, <1>3, <1>4, <1>5
       DEF ProgramNext, ProgramRunnerStep, ProgramIsOver, programVars, hookedVars

(***************************************************************************)
(* Programs are runs.                                                      *)
(***************************************************************************)

(* The arguments of a call are the times, durations and priorities there are. *)
IsLegal(call) ==
    /\ call.call = "schedule_event" =>
          /\ call.delay \in IF phase = "configure" THEN Time ELSE Delays
          /\ call.priority \in Priorities
    /\ call.call = "return" => call.delay \in Options(Delays)
CallsAreLegal == phase # "panicked" /\ todo # <<>> => IsLegal(NextCall)

(* What a callback calls is what Simulation lets user code do; what it returns is, too. *)
LEMMA CallsAreUserSteps ==
    ASSUME ProgramUserStep, CallsAreLegal, HandlerReturns => handled_event # {}
    PROVE  SilentUserOperation \/ HookedAddSource \/ HookedUserReturn
<1>1. CASE SetUpEvent
    BY <1>1 DEF CallsAreLegal, IsLegal, SetUpEvent, Makes, ScheduleEventAt, SilentUserOperation,
                Configure
<1>2. CASE SetUpSource
    BY <1>2 DEF SetUpSource, SilentUserOperation, Configure
<1>3. CASE UserSchedules
    <2>1. NextCall.delay \in Delays /\ NextCall.priority \in Priorities
        BY <1>3 DEF CallsAreLegal, IsLegal, UserSchedules, Makes, ContextScheduleEvent, InCallback
    <2>2. QED
        BY <1>3, <2>1 DEF UserSchedules, SilentUserOperation
<1>4. CASE UserAddsSource
    BY <1>4 DEF UserAddsSource
<1>5. CASE UserCancelsEvents
    BY <1>5 DEF UserCancelsEvents, ScheduledIn, SilentUserOperation
<1>6. CASE UserCancelsSources
    BY <1>6 DEF UserCancelsSources, ScheduledIn, SilentUserOperation
<1>7. CASE RegistrationReturns \/ AddedSourceReturns \/ FireReturns
    <2>1. NextCall.delay \in Options(Delays)
        BY <1>7 DEF CallsAreLegal, IsLegal, RegistrationReturns, AddedSourceReturns, FireReturns,
                    Makes, HookedRegisterSource, RegisterSource, HookedFinishAddSource,
                    FinishAddSource, HookedFinishFire, FinishFire
    <2>2. QED
        BY <1>7, <2>1 DEF RegistrationReturns, AddedSourceReturns, FireReturns, HookedUserReturn
<1>8. CASE HandlerReturns
    BY <1>8 DEF HandlerReturns, FinishHandleEvent, HookedUserReturn
<1>9. QED
    BY <1>1, <1>2, <1>3, <1>4, <1>5, <1>6, <1>7, <1>8 DEF ProgramUserStep

(* A program under the StandardRunner: no worker is ever about, and the handler that is *)
(* open is that of an event.                                                            *)
StandardRun ==
    /\ program.kind = "standard"
    /\ stage = "sync"
    /\ phase \in {"handling", "adding"} => handled_event # {}

LEMMA StandardStep ==
    ASSUME StandardRun, CallsAreLegal, [ProgramNext]_programVars
    PROVE  StandardRun' /\ [HookedNext]_hookedVars
<1> USE DEF StandardRun, SameProgram, parallelVars, Silently, Calling, HookedNext
<1>0. program' = program
    BY ProgramStays
<1>1. CASE ProgramUserStep
    <2>1. SilentUserOperation \/ HookedAddSource \/ HookedUserReturn
        BY <1>1, CallsAreUserSteps DEF HandlerReturns, HookedFinishHandleEvent, FinishHandleEvent
    <2>2. stage' = stage
        BY <1>1 DEF ProgramUserStep, SetUpEvent, SetUpSource, UserSchedules, UserAddsSource,
                    UserCancelsEvents, UserCancelsSources, RegistrationReturns,
                    AddedSourceReturns, FireReturns, HandlerReturns
    <2>3. phase' \in {"handling", "adding"} => handled_event' # {}
        BY <2>1 DEF SilentUserOperation, Configure, ScheduleEventAt, AddEngineSource,
                    ContextScheduleEvent, CancelScheduledEvents, CancelScheduledSources,
                    HookedAddSource, ContextAddSource, HookedUserReturn, HookedRegisterSource,
                    RegisterSource, HookedFinishAddSource, FinishAddSource, HookedFinishFire,
                    FinishFire, HookedFinishHandleEvent, FinishHandleEvent, Panic
    <2>4. QED
        BY <1>0, <2>1, <2>2, <2>3
<1>2. CASE StartSimulation \/ SilentStep \/ ProgramStops \/ TickBegins \/ RealtimeTickBegins
           \/ SourcePhaseStarts \/ (\E source \in source_batch : SourceFires(source))
           \/ EventPhaseStarts \/ SequentialStepEnds \/ RestIsDiscarded \/ TickEnds
    <2>1. /\ SilentRunnerStep \/ HookedRunnerStep
          /\ stage' = stage
        BY <1>2 DEF StartSimulation, SilentStep, ProgramStops, TickBegins, RealtimeTickBegins,
                    SourcePhaseStarts, SourceFires, EventPhaseStarts, SequentialStepEnds,
                    RestIsDiscarded, TickEnds, SilentRunnerStep, HookedRunnerStep
    <2>2. phase' \notin {"handling", "adding"}
        BY <1>2 DEF StartSimulation, SilentStep, ProgramStops, TickBegins, RealtimeTickBegins,
                    SourcePhaseStarts, SourceFires, EventPhaseStarts, SequentialStepEnds,
                    RestIsDiscarded, TickEnds, HookedBeginSimulation, BeginSimulation,
                    FinishRegistration, ContinueMicroSteps, HookedStopRun, StopRun,
                    HookedBeginTick, BeginTick, HookedStartSourcePhase, StartSourcePhase,
                    HookedFireSource, FireSource, HookedStartEventPhase, StartEventPhase,
                    HookedEndMicroStep, EndMicroStep, DiscardAtLimit, HookedEndTick,
                    EndTickWithIncrementTick, EndTickWithJumpToNextTick, EndTickWith, JumpTo,
                    Panic
    <2>3. QED
        BY <1>0, <2>1, <2>2
<1>3. CASE RealtimeWaits
    BY <1>3 DEF RealtimeWaits, IsRealtime
<1>4. CASE RealtimeSleeps
    <2>1. UNCHANGED <<vars, hookVars, handled_event, toldVars, stage>>
        BY <1>4 DEF RealtimeSleeps, Realtime!Elapse, Realtime!WakeUp, Realtime!vars,
                    Realtime!schedulerVars, Realtime!sourceVars, Realtime!executorVars,
                    Realtime!batchVars, Realtime!runnerVars, Realtime!historyVars
    <2>2. QED
        BY <1>0, <2>1 DEF hookedVars
<1>5. CASE \E event \in event_batch : EventIsHandled(event)
    BY <1>0, <1>5 DEF EventIsHandled, IsParallel, HookedHandleEvent, HookedRunnerStep
<1>6. CASE PoolWorks \/ CommandIsApplied \/ ParallelStepEnds
    BY <1>6 DEF PoolWorks, IsParallel, CommandIsApplied, ApplyCommand, ParallelStepEnds,
                CompleteEventPhase
<1>7. CASE UNCHANGED programVars
    BY <1>0, <1>7 DEF programVars, hookedVars
<1>8. QED
    BY <1>1, <1>2, <1>3, <1>4, <1>5, <1>6, <1>7 DEF ProgramNext, ProgramRunnerStep, ProgramIsOver

(* A program under the StandardRunner, be it a test or an example, is a run of Simulation  *)
(* with its hooks: what is shown of all those runs is true of it.                           *)
THEOREM StandardProgramsAreRuns ==
    ProgramSpec /\ program.kind = "standard" /\ []CallsAreLegal => HookedSpec
<1>1. ProgramInit /\ program.kind = "standard" => StandardRun /\ HookedInit
    BY DEF ProgramInit, StandardRun, HookedInit, Init
<1>2. StandardRun /\ CallsAreLegal /\ [ProgramNext]_programVars
      => StandardRun' /\ [HookedNext]_hookedVars
    BY StandardStep
<1>3. QED
    BY <1>1, <1>2, PTL DEF ProgramSpec, HookedSpec

(* Without the hooks, a handler is no different from a command that is applied. *)
LEMMA CallsAreCalls ==
    ASSUME ProgramUserStep, CallsAreLegal
    PROVE  Configure \/ UserOperation \/ UserReturn
<1>1. CASE HandlerReturns
    BY <1>1 DEF HandlerReturns, HookedFinishHandleEvent, UserReturn
<1>2. CASE ~HandlerReturns
    <2>1. SilentUserOperation \/ HookedAddSource \/ HookedUserReturn
        BY <1>2, CallsAreUserSteps
    <2>2. QED
        BY <2>1 DEF SilentUserOperation, HookedAddSource, HookedUserReturn, UserOperation,
                    UserReturn, HookedRegisterSource, HookedFinishAddSource, HookedFinishFire,
                    HookedFinishHandleEvent
<1>3. QED
    BY <1>1, <1>2

(* A program under the ParallelRunner is one of its runs. *)
LEMMA ParallelStep ==
    ASSUME program.kind = "parallel", CallsAreLegal, [ProgramNext]_programVars
    PROVE  program'.kind = "parallel" /\ [ParallelNext]_<<vars, parallelVars>>
<1> USE DEF SameProgram, ParallelNext
<1>0. program' = program
    BY ProgramStays
<1>1. CASE ProgramUserStep
    <2>1. UNCHANGED parallelVars
        BY <1>1 DEF ProgramUserStep, SetUpEvent, SetUpSource, UserSchedules, UserAddsSource,
                    UserCancelsEvents, UserCancelsSources, RegistrationReturns,
                    AddedSourceReturns, FireReturns, HandlerReturns
    <2>2. Configure \/ UserOperation \/ UserReturn
        BY <1>1, CallsAreCalls
    <2>3. QED
        BY <1>0, <2>1, <2>2 DEF UserStep, UserReturnStep
<1>2. CASE StartSimulation \/ SilentStep \/ ProgramStops \/ TickBegins \/ SourcePhaseStarts
           \/ (\E source \in source_batch : SourceFires(source)) \/ EventPhaseStarts
           \/ RestIsDiscarded \/ TickEnds
    <2>1. UNCHANGED parallelVars
        BY <1>2 DEF StartSimulation, SilentStep, ProgramStops, TickBegins, SourcePhaseStarts,
                    SourceFires, EventPhaseStarts, RestIsDiscarded, TickEnds
    <2>2. RunnerStep
        BY <1>2 DEF StartSimulation, HookedBeginSimulation, SilentStep, ProgramStops,
                    HookedStopRun, TickBegins, HookedBeginTick, SourcePhaseStarts,
                    HookedStartSourcePhase, SourceFires, HookedFireSource, EventPhaseStarts,
                    HookedStartEventPhase, RestIsDiscarded, TickEnds, HookedEndTick, RunnerStep
    <2>3. phase # "event_phase"
        BY <1>2 DEF StartSimulation, HookedBeginSimulation, BeginSimulation, SilentStep,
                    FinishRegistration, ContinueMicroSteps, ProgramStops, HookedStopRun, StopRun,
                    TickBegins, HookedBeginTick, BeginTick, SourcePhaseStarts,
                    HookedStartSourcePhase, StartSourcePhase, SourceFires, HookedFireSource,
                    FireSource, EventPhaseStarts, HookedStartEventPhase, StartEventPhase,
                    RestIsDiscarded, DiscardAtLimit, TickEnds, HookedEndTick,
                    EndTickWithIncrementTick, EndTickWithJumpToNextTick
    <2>4. QED
        BY <1>0, <2>1, <2>2, <2>3 DEF SharedStep, MainThreadStep
<1>3. CASE RealtimeWaits \/ RealtimeTickBegins
    <2>1. CASE RealtimeWaits
        BY <2>1 DEF RealtimeWaits, IsRealtime
    <2>2. CASE RealtimeTickBegins
        <3>1. phase = "peek" /\ RunnerStep /\ UNCHANGED parallelVars
            BY <2>2 DEF RealtimeTickBegins, HookedBeginTick, BeginTick, RunnerStep
        <3>2. QED
            BY <1>0, <3>1 DEF SharedStep, MainThreadStep
    <2>3. QED
        BY <1>3, <2>1, <2>2
<1>4. CASE RealtimeSleeps
    <2>1. UNCHANGED <<vars, parallelVars>>
        BY <1>4 DEF RealtimeSleeps, Realtime!Elapse, Realtime!WakeUp, Realtime!vars,
                    Realtime!schedulerVars, Realtime!sourceVars, Realtime!executorVars,
                    Realtime!batchVars, Realtime!runnerVars, Realtime!historyVars
    <2>2. QED
        BY <1>0, <2>1
<1>5. CASE \E event \in event_batch : EventIsHandled(event)
    BY <1>0, <1>5 DEF EventIsHandled, IsParallel, MainThreadStep
<1>6. CASE SequentialStepEnds
    BY <1>6 DEF SequentialStepEnds, IsParallel
<1>7. CASE PoolWorks \/ CommandIsApplied \/ ParallelStepEnds
    BY <1>0, <1>7 DEF PoolWorks, CommandIsApplied, ParallelStepEnds, MainThreadStep, PoolStep
<1>8. CASE UNCHANGED programVars
    BY <1>0, <1>8 DEF programVars, hookedVars
<1>9. QED
    BY <1>1, <1>2, <1>3, <1>4, <1>5, <1>6, <1>7, <1>8
       DEF ProgramNext, ProgramRunnerStep, ProgramIsOver

(* A program under the ParallelRunner is one of its runs, with the workers it models. *)
THEOREM ParallelProgramsAreRuns ==
    ProgramSpec /\ program.kind = "parallel" /\ []CallsAreLegal => ParallelSpec
<1>1. ProgramInit => ParallelInit
    BY DEF ProgramInit, HookedInit, ParallelInit
<1>2. program.kind = "parallel" /\ CallsAreLegal /\ [ProgramNext]_programVars
      => (program.kind = "parallel")' /\ [ParallelNext]_<<vars, parallelVars>>
    BY ParallelStep
<1>3. QED
    BY <1>1, <1>2, PTL DEF ProgramSpec, ParallelSpec

(***************************************************************************)
(* Programs under the RealtimeRunner.  Its actions are stated over an      *)
(* instance of Simulation, with the same constants and variables.          *)
(***************************************************************************)
LEMMA SameActions ==
    /\ RunnerStep <=> Realtime!RunnerStep
    /\ StopRun <=> Realtime!StopRun
    /\ UserOperation <=> Realtime!UserOperation
    /\ UserReturn <=> Realtime!UserReturn
    /\ Configure <=> Realtime!Configure
    /\ vars = Realtime!vars
<1> USE DEF Realtime!vars, Realtime!schedulerVars, Realtime!sourceVars, Realtime!executorVars,
            Realtime!batchVars, Realtime!runnerVars, Realtime!historyVars
<1> USE DEF now, Realtime!now, DueAt, Realtime!DueAt, PeekNextTime, Realtime!PeekNextTime,
            Overdue, Realtime!Overdue, AddOverflows, Realtime!AddOverflows, Panic, Realtime!Panic
<1>1. StopRun <=> Realtime!StopRun
    BY DEF StopRun, Realtime!StopRun, ShouldStop, Realtime!ShouldStop, NoMoreEvent,
           Realtime!NoMoreEvent, IsDoneTicks, Realtime!IsDoneTicks, StopRule,
           Realtime!StopRule, IncludeZeroTick, Realtime!IncludeZeroTick, TickCount,
           Realtime!TickCount
<1>2. BeginTick <=> Realtime!BeginTick
    BY DEF BeginTick, Realtime!BeginTick, ShouldStop, Realtime!ShouldStop, NoMoreEvent,
           Realtime!NoMoreEvent, IsDoneTicks, Realtime!IsDoneTicks, StopRule,
           Realtime!StopRule, IncludeZeroTick, Realtime!IncludeZeroTick, TickCount,
           Realtime!TickCount
<1>3. BeginSimulation <=> Realtime!BeginSimulation
    BY DEF BeginSimulation, Realtime!BeginSimulation, FlushPendingSources,
           Realtime!FlushPendingSources
<1>4. FinishRegistration <=> Realtime!FinishRegistration
    BY DEF FinishRegistration, Realtime!FinishRegistration, FlushPendingEvents,
           Realtime!FlushPendingEvents, InitialTickStatus, Realtime!InitialTickStatus,
           TickStatus, Realtime!TickStatus
<1>5. StartSourcePhase <=> Realtime!StartSourcePhase
    BY DEF StartSourcePhase, Realtime!StartSourcePhase, DrainReadySources,
           Realtime!DrainReadySources
<1>6. \A source : FireSource(source) <=> Realtime!FireSource(source)
    BY DEF FireSource, Realtime!FireSource, IsFrontSource, Realtime!IsFrontSource, SourceBefore,
           Realtime!SourceBefore
<1>7. StartEventPhase <=> Realtime!StartEventPhase
    BY DEF StartEventPhase, Realtime!StartEventPhase, DrainReadyEvents,
           Realtime!DrainReadyEvents
<1>8. \A event : HandleEvent(event) <=> Realtime!HandleEvent(event)
    BY DEF HandleEvent, Realtime!HandleEvent, IsFront, Realtime!IsFront, Before, Realtime!Before
<1>9. EndMicroStep <=> Realtime!EndMicroStep
    BY DEF EndMicroStep, Realtime!EndMicroStep, HasNextInCurrentTick,
           Realtime!HasNextInCurrentTick, FlushPendingSources, Realtime!FlushPendingSources,
           FlushPendingEvents, Realtime!FlushPendingEvents
<1>10. ContinueMicroSteps <=> Realtime!ContinueMicroSteps
    BY DEF ContinueMicroSteps, Realtime!ContinueMicroSteps, LimitReached, Realtime!LimitReached,
           Strategy, Realtime!Strategy, Limit, Realtime!Limit
<1>11. DiscardAtLimit <=> Realtime!DiscardAtLimit
    BY DEF DiscardAtLimit, Realtime!DiscardAtLimit, LimitReached, Realtime!LimitReached,
           Strategy, Realtime!Strategy, Limit, Realtime!Limit, DiscardRemainMicroStep,
           Realtime!DiscardRemainMicroStep, DrainReadySources, Realtime!DrainReadySources,
           DrainReadyEvents, Realtime!DrainReadyEvents, IdsOf, Realtime!IdsOf, TooManyErrors,
           Realtime!TooManyErrors, AllowErrors, Realtime!AllowErrors
<1>12. EndTickWithIncrementTick <=> Realtime!EndTickWithIncrementTick
    BY DEF EndTickWithIncrementTick, Realtime!EndTickWithIncrementTick, EndTickWith,
           Realtime!EndTickWith, TickStatus, Realtime!TickStatus, Skippable, Realtime!Skippable
<1>13. EndTickWithJumpToNextTick <=> Realtime!EndTickWithJumpToNextTick
    BY DEF EndTickWithJumpToNextTick, Realtime!EndTickWithJumpToNextTick, JumpTo,
           Realtime!JumpTo, EndTickWith, Realtime!EndTickWith, TickStatus, Realtime!TickStatus,
           Skippable, Realtime!Skippable, SubOverflows, Realtime!SubOverflows
<1>14. RunnerStep <=> Realtime!RunnerStep
    BY <1>1, <1>2, <1>3, <1>4, <1>5, <1>6, <1>7, <1>8, <1>9, <1>10, <1>11, <1>12, <1>13
       DEF RunnerStep, Realtime!RunnerStep
<1>15. \A d, p : ContextScheduleEvent(d, p) <=> Realtime!ContextScheduleEvent(d, p)
    BY DEF ContextScheduleEvent, Realtime!ContextScheduleEvent, InCallback, Realtime!InCallback,
           Schedule, Realtime!Schedule
<1>16. ContextAddSource <=> Realtime!ContextAddSource
    BY DEF ContextAddSource, Realtime!ContextAddSource
<1>17. /\ \A cancelled : CancelScheduledEvents(cancelled) <=> Realtime!CancelScheduledEvents(cancelled)
       /\ \A cancelled : CancelScheduledSources(cancelled) <=> Realtime!CancelScheduledSources(cancelled)
    BY DEF CancelScheduledEvents, Realtime!CancelScheduledEvents, DrainCancelScheduledEvents,
           Realtime!DrainCancelScheduledEvents, CancelScheduledSources,
           Realtime!CancelScheduledSources, DrainCancelScheduledSources,
           Realtime!DrainCancelScheduledSources, IdsOf, Realtime!IdsOf
<1>18. UserOperation <=> Realtime!UserOperation
    BY <1>15, <1>16, <1>17 DEF UserOperation, Realtime!UserOperation
<1>19. /\ \A delay : RegisterSource(delay) <=> Realtime!RegisterSource(delay)
       /\ \A delay : FinishAddSource(delay) <=> Realtime!FinishAddSource(delay)
       /\ \A delay : FinishFire(delay) <=> Realtime!FinishFire(delay)
    BY DEF RegisterSource, Realtime!RegisterSource, InitializeSource, Realtime!InitializeSource,
           PushInitial, Realtime!PushInitial, FinishAddSource, Realtime!FinishAddSource,
           AddSourceAfterRegisteredAction, Realtime!AddSourceAfterRegisteredAction, FinishFire,
           Realtime!FinishFire, ScheduleNextSource, Realtime!ScheduleNextSource
<1>20. UserReturn <=> Realtime!UserReturn
    BY <1>19 DEF UserReturn, Realtime!UserReturn, FinishHandleEvent, Realtime!FinishHandleEvent,
                 Options, Realtime!Options
<1>21. Configure <=> Realtime!Configure
    BY DEF Configure, Realtime!Configure, ScheduleEventAt, Realtime!ScheduleEventAt, Schedule,
           Realtime!Schedule, AddEngineSource, Realtime!AddEngineSource,
           AddSourceForBeforeSimulation, Realtime!AddSourceForBeforeSimulation, Time,
           Realtime!Time
<1>22. QED
    BY <1>1, <1>14, <1>18, <1>20, <1>21

(* No worker is about, and only between ticks does the thread wait. *)
RealtimeRun ==
    /\ program.kind = "realtime"
    /\ stage = "sync"
    /\ wait # "none" => phase = "peek"

RealtimeGoesOn ==
    RealtimeRun' /\ [Realtime!RealtimeNext]_<<Realtime!vars, Realtime!realtimeVars>>

LEMMA RealtimeProgramStep ==
    ASSUME RealtimeRun, CallsAreLegal, [ProgramNext]_programVars
    PROVE  RealtimeGoesOn
<1> USE DEF RealtimeGoesOn, RealtimeRun, SameProgram, Realtime!RealtimeNext, Realtime!RealtimeStep
<1>0. program' = program /\ vars = Realtime!vars
    BY ProgramStays, SameActions
<1>1. CASE ProgramUserStep
    <2>1. UNCHANGED <<parallelVars, realtimeVars>>
        BY <1>1 DEF ProgramUserStep, SetUpEvent, SetUpSource, UserSchedules, UserAddsSource,
                    UserCancelsEvents, UserCancelsSources, RegistrationReturns,
                    AddedSourceReturns, FireReturns, HandlerReturns
    <2>2. phase # "peek"
        BY <1>1 DEF ProgramUserStep, SetUpEvent, ScheduleEventAt, SetUpSource, AddEngineSource,
                    UserSchedules, ContextScheduleEvent, InCallback, UserAddsSource,
                    HookedAddSource, ContextAddSource, UserCancelsEvents, CancelScheduledEvents,
                    UserCancelsSources, CancelScheduledSources, RegistrationReturns,
                    HookedRegisterSource, RegisterSource, AddedSourceReturns,
                    HookedFinishAddSource, FinishAddSource, FireReturns, HookedFinishFire,
                    FinishFire, HandlerReturns, HookedFinishHandleEvent, FinishHandleEvent
    <2>3. Configure \/ UserOperation \/ UserReturn
        BY <1>1, CallsAreCalls
    <2>4. UNCHANGED Realtime!realtimeVars
        BY <2>1 DEF realtimeVars, Realtime!realtimeVars, Realtime!waitVars
    <2>5. Realtime!UserStep \/ Realtime!UserReturnStep
        BY <2>3, <2>4, SameActions DEF Realtime!UserStep, Realtime!UserReturnStep
    <2>6. QED
        BY <1>0, <2>1, <2>2, <2>5 DEF parallelVars, realtimeVars
<1>2. CASE StartSimulation \/ SilentStep \/ SourcePhaseStarts
           \/ (\E source \in source_batch : SourceFires(source)) \/ EventPhaseStarts
           \/ (\E event \in event_batch : EventIsHandled(event)) \/ SequentialStepEnds
           \/ RestIsDiscarded \/ TickEnds
    <2>1. UNCHANGED <<parallelVars, realtimeVars>>
        BY <1>2 DEF StartSimulation, SilentStep, SourcePhaseStarts, SourceFires,
                    EventPhaseStarts, EventIsHandled, IsParallel, SequentialStepEnds,
                    RestIsDiscarded, TickEnds
    <2>2. RunnerStep
        BY <1>2 DEF StartSimulation, HookedBeginSimulation, SilentStep, SourcePhaseStarts,
                    HookedStartSourcePhase, SourceFires, HookedFireSource, EventPhaseStarts,
                    HookedStartEventPhase, EventIsHandled, HookedHandleEvent,
                    SequentialStepEnds, HookedEndMicroStep, RestIsDiscarded, TickEnds,
                    HookedEndTick, RunnerStep
    <2>3. phase # "peek"
        BY <1>2 DEF StartSimulation, HookedBeginSimulation, BeginSimulation, SilentStep,
                    FinishRegistration, ContinueMicroSteps, SourcePhaseStarts,
                    HookedStartSourcePhase, StartSourcePhase, SourceFires, HookedFireSource,
                    FireSource, EventPhaseStarts, HookedStartEventPhase, StartEventPhase,
                    EventIsHandled, HookedHandleEvent, HandleEvent, SequentialStepEnds,
                    HookedEndMicroStep, EndMicroStep, RestIsDiscarded, DiscardAtLimit, TickEnds,
                    HookedEndTick, EndTickWithIncrementTick, EndTickWithJumpToNextTick
    <2>4. UNCHANGED Realtime!realtimeVars
        BY <2>1 DEF realtimeVars, Realtime!realtimeVars, Realtime!waitVars
    <2>5. Realtime!SharedStep
        BY <2>2, <2>3, <2>4, SameActions DEF Realtime!SharedStep
    <2>6. QED
        BY <1>0, <2>1, <2>3, <2>5 DEF parallelVars, realtimeVars
<1>3. CASE ProgramStops
    <2>1. /\ StopRun /\ wait = "none" /\ UNCHANGED <<parallelVars, realtimeVars>>
        BY <1>3 DEF ProgramStops, HookedStopRun
    <2>2. Realtime!SharedStep
        BY <2>1, SameActions DEF Realtime!SharedStep, realtimeVars, Realtime!realtimeVars,
                               Realtime!waitVars
    <2>3. QED
        BY <1>0, <2>1, <2>2 DEF parallelVars, realtimeVars
<1>4. CASE TickBegins
    BY <1>4 DEF TickBegins, IsRealtime
<1>5. CASE RealtimeWaits
    <2>1. Realtime!Wait /\ stage' = stage
        BY <1>5 DEF RealtimeWaits, parallelVars
    <2>2. wait' # "none" => phase' = "peek"
        BY <2>1 DEF Realtime!Wait, Realtime!vars, Realtime!realtimeVars, Realtime!waitVars
    <2>3. QED
        BY <1>0, <2>1, <2>2
<1>6. CASE RealtimeSleeps
    <2>1. Realtime!Elapse \/ Realtime!WakeUp
        BY <1>6 DEF RealtimeSleeps
    <2>2. stage' = stage /\ phase' = phase
        BY <1>6, <2>1 DEF RealtimeSleeps, parallelVars, Realtime!Elapse, Realtime!WakeUp,
                          Realtime!vars
    <2>3. wait' # "none" => wait # "none"
        BY <2>1 DEF Realtime!Elapse, Realtime!WakeUp, Realtime!waitVars
    <2>4. QED
        BY <1>0, <2>1, <2>2, <2>3
<1>7. CASE RealtimeTickBegins
    BY <1>0, <1>7 DEF RealtimeTickBegins, Realtime!BeginTickInTime, parallelVars
<1>8. CASE PoolWorks \/ CommandIsApplied \/ ParallelStepEnds
    BY <1>8 DEF PoolWorks, IsParallel, CommandIsApplied, ApplyCommand, ParallelStepEnds,
                CompleteEventPhase
<1>9. CASE UNCHANGED programVars
    <2>1. UNCHANGED <<vars, wall, wait, sleep_until, program, stage>>
        BY <1>9 DEF programVars, hookedVars, parallelVars, realtimeVars
    <2>2. UNCHANGED Realtime!vars
        BY <2>1 DEF Realtime!vars, Realtime!schedulerVars, Realtime!sourceVars,
                    Realtime!executorVars, Realtime!batchVars, Realtime!runnerVars,
                    Realtime!historyVars
    <2>3. UNCHANGED Realtime!realtimeVars
        BY <2>1 DEF Realtime!realtimeVars, Realtime!waitVars
    <2>4. QED
        BY <2>1, <2>2, <2>3
<1> HIDE DEF RealtimeGoesOn
<1>10. QED
    BY <1>1, <1>2, <1>3, <1>4, <1>5, <1>6, <1>7, <1>8, <1>9
       DEF ProgramNext, ProgramRunnerStep, ProgramIsOver

(* A program under the RealtimeRunner is one of its runs, on a thread that works in no time. *)
THEOREM RealtimeProgramsAreRuns ==
    ProgramSpec /\ program.kind = "realtime" /\ []CallsAreLegal => Realtime!RealtimeSpec
<1>1. ProgramInit /\ program.kind = "realtime" => RealtimeRun /\ Realtime!RealtimeInit
    BY DEF ProgramInit, HookedInit, RealtimeRun, Realtime!RealtimeInit, Init, Realtime!Init,
           SchedulerInit, Realtime!SchedulerInit, SourceInit, Realtime!SourceInit,
           InitialTickStatus, Realtime!InitialTickStatus, TickStatus, Realtime!TickStatus
<1>2. RealtimeRun /\ CallsAreLegal /\ [ProgramNext]_programVars
      => RealtimeRun' /\ [Realtime!RealtimeNext]_<<Realtime!vars, Realtime!realtimeVars>>
    BY RealtimeProgramStep DEF RealtimeGoesOn
<1>3. QED
    BY <1>1, <1>2, PTL DEF ProgramSpec, Realtime!RealtimeSpec

(***************************************************************************)
(* Little's law.                                                           *)
(***************************************************************************)

LittleModels ==
    [queue : Seq(Nat), total_stay_duration : Int, total_served_customers : Nat,
     time_weighted_queue_length : Int, last_event_time : Nat]

(* The run: one thread, no sources, and user code that schedules. *)
LittleRun ==
    /\ stage = "sync"
    /\ source_registry = 0 /\ source_ready = {} /\ source_pending = {} /\ source_batch = {}
    /\ todo \in Seq(LittleCalls)
    /\ tick_status.current \in Nat
    /\ \A e \in event_ready \cup event_pending : e.scheduled_at \in Nat

(* The model: what it has counted is what its customers have stayed. *)
LittleCounts ==
    /\ model \in LittleModels
    /\ model.last_event_time <= EndTicks
    /\ model.last_event_time <= tick_status.current
    /\ phase \in {"configure", "registering"} => model.last_event_time = 0
    /\ model.time_weighted_queue_length = TotalStayTicks(model, model.last_event_time)

Little == IsLittleProgram(program) /\ program.user = "little" /\ LittleRun /\ LittleCounts

(* How long each customer has stayed at a time. *)
Stays(queue, end_time) == [k \in DOMAIN queue |-> end_time - queue[k]]

LEMMA StaysType ==
    ASSUME NEW queue \in Seq(Nat), NEW t \in Int
    PROVE  /\ Len(queue) \in Nat
           /\ \A k \in 1 .. Len(queue) : queue[k] \in Int
           /\ Stays(queue, t) \in Seq(Int)
           /\ Len(Stays(queue, t)) = Len(queue)
           /\ \A k \in 1 .. Len(queue) : Stays(queue, t)[k] = t - queue[k]
<1> DEFINE L == Len(queue)
<1>1. L \in Nat /\ DOMAIN queue = 1 .. L /\ \A k \in 1 .. L : queue[k] \in Nat
    OBVIOUS
<1>2. Stays(queue, t) = [k \in 1 .. L |-> t - queue[k]]
    BY <1>1 DEF Stays
<1> HIDE DEF L
<1>3. [k \in 1 .. L |-> t - queue[k]] \in Seq(Int)
    BY <1>1
<1>4. QED
    BY <1>1, <1>2, <1>3 DEF L

(* It grows by what time passes, *)
LEMMA StaysGrow ==
    ASSUME NEW queue \in Seq(Nat), NEW t \in Int, NEW u \in Int
    PROVE  Total(Stays(queue, u)) = Total(Stays(queue, t)) + Len(queue) * (u - t)
<1>1. /\ Stays(queue, t) \in Seq(Int) /\ Stays(queue, u) \in Seq(Int)
      /\ Len(Stays(queue, t)) = Len(queue) /\ Len(Stays(queue, u)) = Len(queue)
    BY StaysType
<1>2. ASSUME NEW k \in 1 .. Len(queue) PROVE Stays(queue, u)[k] = Stays(queue, t)[k] + (u - t)
    <2>1. /\ queue[k] \in Int /\ Stays(queue, t)[k] = t - queue[k]
          /\ Stays(queue, u)[k] = u - queue[k]
        BY StaysType
    <2>2. QED
        BY <2>1
<1>3. u - t \in Int
    OBVIOUS
<1> DEFINE d == u - t
           before == Stays(queue, t)
           after == Stays(queue, u)
<1>4. before \in Seq(Int) /\ after \in Seq(Int) /\ d \in Int /\ Len(after) = Len(before)
      /\ \A k \in 1 .. Len(before) : after[k] = before[k] + d
    BY <1>1, <1>2, <1>3
<1> HIDE DEF d, before, after
<1>5. Total(after) = Total(before) + Len(before) * d
    BY <1>4, TotalShift
<1>6. QED
    BY <1>1, <1>5 DEF d, before, after

(* one who comes now has not stayed yet, *)
LEMMA StaysOfNext ==
    ASSUME NEW queue \in Seq(Nat), NEW t \in Nat
    PROVE  Total(Stays(Append(queue, t), t)) = Total(Stays(queue, t))
<1> DEFINE next == Append(queue, t)
<1>1. next \in Seq(Nat) /\ Len(next) = Len(queue) + 1 /\ next[Len(queue) + 1] = t
      /\ \A k \in 1 .. Len(queue) : next[k] = queue[k]
    OBVIOUS
<1> HIDE DEF next
<1>2. /\ Stays(next, t) \in Seq(Int) /\ Len(Stays(next, t)) = Len(queue) + 1
      /\ \A k \in 1 .. Len(queue) + 1 : Stays(next, t)[k] = t - next[k]
    BY <1>1, StaysType
<1>3. /\ Stays(queue, t) \in Seq(Int) /\ Len(Stays(queue, t)) = Len(queue)
      /\ Len(queue) \in Nat
      /\ \A k \in 1 .. Len(queue) : Stays(queue, t)[k] = t - queue[k]
    BY StaysType
<1>4. Stays(next, t) = Append(Stays(queue, t), 0)
    <2> DEFINE stays == Stays(queue, t)
               later == Stays(next, t)
               n == Len(queue)
    <2>1. /\ later \in Seq(Int) /\ Len(later) = n + 1 /\ later[n + 1] = 0
          /\ \A k \in 1 .. n : later[k] = stays[k]
        <3>1. n + 1 \in 1 .. n + 1 /\ \A k \in 1 .. n : k \in 1 .. n + 1
            BY <1>3
        <3>2. t - t = 0
            OBVIOUS
        <3>3. QED
            BY <1>1, <1>2, <1>3, <3>1, <3>2
    <2>2. stays \in Seq(Int) /\ Len(stays) = n /\ n \in Nat
        BY <1>3
    <2> HIDE DEF stays, later, n
    <2>3. /\ Append(stays, 0) \in Seq(Int) /\ Len(Append(stays, 0)) = n + 1
          /\ \A k \in 1 .. n : Append(stays, 0)[k] = stays[k]
          /\ Append(stays, 0)[n + 1] = 0
        BY <2>2, AppendProperties
    <2>4. \A k \in 1 .. Len(later) : k \in 1 .. n \/ k = n + 1
        BY <2>1, <2>2
    <2>5. \A k \in 1 .. Len(later) : later[k] = Append(stays, 0)[k]
        BY <2>1, <2>3, <2>4
    <2>6. later = Append(stays, 0)
        BY <2>1, <2>3, <2>5, SeqEqual
    <2>7. QED
        BY <2>6 DEF stays, later
<1>5. Total(Append(Stays(queue, t), 0)) = Total(Stays(queue, t)) + 0
    BY <1>3, TotalAppend
<1>6. Total(Stays(queue, t)) \in Int
    BY <1>3, TotalType
<1>7. QED
    BY <1>4, <1>5, <1>6 DEF next

(* and one who leaves takes his stay along. *)
LEMMA StaysOfRest ==
    ASSUME NEW queue \in Seq(Nat), queue # <<>>, NEW t \in Nat
    PROVE  /\ Head(queue) \in Nat /\ Tail(queue) \in Seq(Nat)
           /\ Total(Stays(queue, t)) = (t - Head(queue)) + Total(Stays(Tail(queue), t))
<1> DEFINE rest == Tail(queue)
<1>1. /\ rest \in Seq(Nat) /\ Len(rest) = Len(queue) - 1 /\ Len(queue) \in Nat \ {0}
      /\ Head(queue) = queue[1] /\ Head(queue) \in Nat
      /\ \A k \in 1 .. Len(rest) : rest[k] = queue[k + 1]
    OBVIOUS
<1> HIDE DEF rest
<1>2. /\ Stays(rest, t) \in Seq(Int) /\ Len(Stays(rest, t)) = Len(rest)
      /\ \A k \in 1 .. Len(rest) : Stays(rest, t)[k] = t - rest[k]
    BY <1>1, StaysType
<1> DEFINE stays == Stays(queue, t)
<1>3. /\ stays \in Seq(Int) /\ Len(stays) = Len(queue)
      /\ \A k \in 1 .. Len(queue) : stays[k] = t - queue[k]
    BY StaysType
<1> HIDE DEF stays
<1>4. stays # <<>> /\ Head(stays) = t - Head(queue)
    BY <1>1, <1>3
<1>5. Tail(stays) = Stays(rest, t)
    <2>1. /\ Tail(stays) \in Seq(Int) /\ Len(Tail(stays)) = Len(rest)
          /\ \A k \in 1 .. Len(rest) : Tail(stays)[k] = stays[k + 1]
        BY <1>1, <1>3, <1>4
    <2>2. ASSUME NEW k \in 1 .. Len(rest) PROVE Tail(stays)[k] = Stays(rest, t)[k]
        <3>1. k + 1 \in 1 .. Len(queue)
            BY <1>1
        <3>2. stays[k + 1] = t - queue[k + 1]
            BY <1>3, <3>1
        <3>3. QED
            BY <1>1, <1>2, <2>1, <3>2
    <2>3. QED
        <3> DEFINE a == Tail(stays)
                   b == Stays(rest, t)
        <3>1. /\ a \in Seq(Int) /\ b \in Seq(Int) /\ Len(a) = Len(rest) /\ Len(b) = Len(rest)
              /\ \A k \in 1 .. Len(rest) : a[k] = b[k]
            BY <1>2, <2>1, <2>2
        <3> HIDE DEF a, b
        <3>2. a = b
            BY <3>1, SeqEqual
        <3>3. QED
            BY <3>2 DEF a, b
<1>6. Total(stays) = Head(stays) + Total(Tail(stays))
    BY <1>3, <1>4, TotalTail
<1>7. QED
    BY <1>1, <1>4, <1>5, <1>6 DEF stays, rest

LEMMA StayTicksType ==
    ASSUME NEW m, m.queue \in Seq(Nat), NEW t \in Int
    PROVE  /\ TotalStayTicks(m, t) = m.total_stay_duration + Total(Stays(m.queue, t))
           /\ Total(Stays(m.queue, t)) \in Int
<1> DEFINE queue == m.queue
<1>1. queue \in Seq(Nat)
    OBVIOUS
<1> HIDE DEF queue
<1>2. Total(Stays(queue, t)) \in Int
    BY <1>1, StaysType, TotalType
<1>3. QED
    BY <1>2 DEF queue, TotalStayTicks, Stays

(* `update_statistics` at a later time. *)
LEMMA StatisticsCount ==
    ASSUME NEW m \in LittleModels, NEW t \in Nat, m.last_event_time <= t,
           m.time_weighted_queue_length = TotalStayTicks(m, m.last_event_time)
    PROVE  LET counted == UpdateStatistics(m, t)
           IN  /\ counted \in LittleModels
               /\ counted.last_event_time = t
               /\ counted.time_weighted_queue_length = TotalStayTicks(counted, t)
<1> DEFINE counted == UpdateStatistics(m, t)
           last == m.last_event_time
           waited == Len(m.queue) * (t - last)
<1>1. /\ m.queue \in Seq(Nat) /\ m.total_stay_duration \in Int
      /\ m.time_weighted_queue_length \in Int /\ last \in Nat /\ Len(m.queue) \in Nat
    BY DEF LittleModels
<1>2. last \in Int /\ t \in Int /\ last <= t
    BY <1>1
<1>3. waited \in Int
    BY <1>1, <1>2
<1>4. counted = [m EXCEPT !.time_weighted_queue_length = @ + waited, !.last_event_time = t]
    BY <1>1 DEF UpdateStatistics
<1>5. Total(Stays(m.queue, t)) = Total(Stays(m.queue, last)) + waited
    BY ONLY <1>1, <1>2, StaysGrow
<1>6. TotalStayTicks(m, last) = m.total_stay_duration + Total(Stays(m.queue, last))
      /\ Total(Stays(m.queue, last)) \in Int
    BY ONLY <1>1, <1>2, StayTicksType
<1> HIDE DEF counted, waited, last
<1>7. /\ counted \in LittleModels /\ counted.last_event_time = t /\ counted.queue = m.queue
      /\ counted.total_stay_duration = m.total_stay_duration
      /\ counted.time_weighted_queue_length = m.time_weighted_queue_length + waited
    <2> DEFINE first == [m EXCEPT !.time_weighted_queue_length = @ + waited]
    <2>1. counted = [first EXCEPT !.last_event_time = t]
        BY <1>1, <1>4 DEF LittleModels
    <2>2. /\ first \in LittleModels /\ first.queue = m.queue
          /\ first.total_stay_duration = m.total_stay_duration
          /\ first.time_weighted_queue_length = m.time_weighted_queue_length + waited
        <3>1. m.time_weighted_queue_length + waited \in Int
            BY <1>1, <1>3
        <3>2. first = [queue |-> m.queue, total_stay_duration |-> m.total_stay_duration,
                       total_served_customers |-> m.total_served_customers,
                       time_weighted_queue_length |-> m.time_weighted_queue_length + waited,
                       last_event_time |-> m.last_event_time]
            BY DEF LittleModels
        <3>3. m.total_served_customers \in Nat /\ m.last_event_time \in Nat
            BY DEF LittleModels
        <3> HIDE DEF first
        <3>4. QED
            BY <1>1, <3>1, <3>2, <3>3 DEF LittleModels
    <2> HIDE DEF first
    <2>3. QED
        BY <2>1, <2>2 DEF LittleModels
<1>8. TotalStayTicks(counted, t) = counted.total_stay_duration + Total(Stays(counted.queue, t))
    BY <1>1, <1>2, <1>7, StayTicksType
<1>9. counted.time_weighted_queue_length = TotalStayTicks(counted, t)
    BY <1>1, <1>3, <1>5, <1>6, <1>7, <1>8 DEF last
<1>10. QED
    BY <1>7, <1>9 DEF counted

LEMMA OneCall ==
    <<>> \in Seq(LittleCalls) /\ \A call \in LittleCalls : <<call>> \in Seq(LittleCalls)
OBVIOUS

(* A customer comes. *)
LEMMA ArrivalCounts ==
    ASSUME NEW m \in LittleModels, NEW t \in Nat, m.last_event_time = t,
           m.time_weighted_queue_length = TotalStayTicks(m, t),
           NEW reaction \in CustomerArrives(m, t)
    PROVE  /\ reaction.model \in LittleModels
           /\ reaction.model.last_event_time = t
           /\ reaction.model.time_weighted_queue_length = TotalStayTicks(reaction.model, t)
           /\ reaction.calls \in Seq(LittleCalls)
<1> DEFINE next == [m EXCEPT !.queue = Append(@, t)]
<1>1. m.queue \in Seq(Nat) /\ Append(m.queue, t) \in Seq(Nat) /\ t \in Int
      /\ m.total_stay_duration \in Int
    BY DEF LittleModels
<1>2. \A service \in ServiceDurations : ServesFor(service) \in LittleCalls
    BY DurationsAssumption DEF ServesFor, Schedules, LittleCalls
<1>3. \A arrival \in ArrivalDurations : ArrivesAfter(arrival) \in LittleCalls
    BY DurationsAssumption DEF ArrivesAfter, Schedules, LittleCalls
<1>4. PICK calls \in Seq(LittleCalls), arrival \in ArrivalDurations :
          reaction = Reaction(next, calls \o <<ArrivesAfter(arrival)>>)
    <2> DEFINE starts == IF m.queue = <<>>
                         THEN {<<ServesFor(service)>> : service \in ServiceDurations}
                         ELSE {<<>>}
    <2>1. \A calls \in starts : calls \in Seq(LittleCalls)
        BY <1>2, OneCall
    <2>2. reaction \in UNION {{Reaction(next, calls \o <<ArrivesAfter(arrival)>>) :
                                  arrival \in ArrivalDurations} : calls \in starts}
        BY DEF CustomerArrives
    <2> HIDE DEF starts, next
    <2>3. \E calls \in starts, arrival \in ArrivalDurations :
              reaction = Reaction(next, calls \o <<ArrivesAfter(arrival)>>)
        BY <2>2
    <2>4. QED
        BY <2>1, <2>3
<1>5. reaction.model = next /\ reaction.calls \in Seq(LittleCalls)
    <2>1. calls \o <<ArrivesAfter(arrival)>> \in Seq(LittleCalls)
        BY <1>3
    <2> HIDE DEF next
    <2>2. QED
        BY <1>4, <2>1 DEF Reaction
<1>6. /\ next \in LittleModels /\ next.last_event_time = t /\ next.queue = Append(m.queue, t)
      /\ next.total_stay_duration = m.total_stay_duration
      /\ next.time_weighted_queue_length = m.time_weighted_queue_length
    BY <1>1 DEF LittleModels
<1> HIDE DEF next
<1>7. Total(Stays(Append(m.queue, t), t)) = Total(Stays(m.queue, t))
    BY ONLY <1>1, t \in Nat, StaysOfNext
<1>8. TotalStayTicks(m, t) = m.total_stay_duration + Total(Stays(m.queue, t))
    BY ONLY <1>1, StayTicksType
<1>9. TotalStayTicks(next, t) = next.total_stay_duration + Total(Stays(next.queue, t))
    BY <1>1, <1>6, StayTicksType
<1>10. QED
    BY <1>5, <1>6, <1>7, <1>8, <1>9

(* The first customer leaves: its stay is counted among those that are over. *)
LEMMA DepartureCounts ==
    ASSUME NEW m \in LittleModels, NEW t \in Nat, m.last_event_time = t,
           m.time_weighted_queue_length = TotalStayTicks(m, t),
           NEW reaction \in CustomerDeparts(m, t)
    PROVE  /\ reaction.model \in LittleModels
           /\ reaction.model.last_event_time = t
           /\ reaction.model.time_weighted_queue_length = TotalStayTicks(reaction.model, t)
           /\ reaction.calls \in Seq(LittleCalls)
<1> DEFINE stay == t - Head(m.queue)
           gone == [m EXCEPT !.queue = Tail(@),
                             !.total_stay_duration = @ + stay,
                             !.total_served_customers = @ + 1]
           left == IF m.queue = <<>> THEN m ELSE gone
<1>1. m.queue \in Seq(Nat) /\ m.total_stay_duration \in Int /\ m.total_served_customers \in Nat
      /\ t \in Int
    BY DEF LittleModels
<1>2. \A service \in ServiceDurations : ServesFor(service) \in LittleCalls
    BY DurationsAssumption DEF ServesFor, Schedules, LittleCalls
<1>3. \E calls \in Seq(LittleCalls) : reaction = Reaction(left, calls)
    <2>1. reaction \in IF left.queue = <<>> THEN {Reaction(left, <<>>)}
                       ELSE {Reaction(left, <<ServesFor(service)>>) :
                                 service \in ServiceDurations}
        BY DEF CustomerDeparts
    <2> HIDE DEF left
    <2>2. CASE left.queue = <<>>
        <3>1. reaction = Reaction(left, <<>>)
            BY <2>1, <2>2
        <3>2. QED
            BY <3>1, OneCall
    <2>3. CASE left.queue # <<>>
        <3>1. PICK service \in ServiceDurations : reaction = Reaction(left, <<ServesFor(service)>>)
            BY <2>1, <2>3
        <3>2. <<ServesFor(service)>> \in Seq(LittleCalls)
            BY <1>2, OneCall
        <3>3. QED
            BY <3>1, <3>2
    <2>4. QED
        BY <2>2, <2>3
<1>4. reaction.model = left /\ reaction.calls \in Seq(LittleCalls)
    <2> HIDE DEF left
    <2>1. QED
        BY <1>3 DEF Reaction
<1>5. CASE m.queue = <<>>
    BY <1>4, <1>5
<1>6. CASE m.queue # <<>>
    <2>1. /\ Head(m.queue) \in Nat /\ Tail(m.queue) \in Seq(Nat)
          /\ Total(Stays(m.queue, t)) =
                stay + Total(Stays(Tail(m.queue), t))
        BY <1>1, <1>6, StaysOfRest
    <2>2. stay \in Int
        BY <1>1, <2>1
    <2>3. left = gone
        BY <1>6
    <2> HIDE DEF stay
    <2>4. /\ gone \in LittleModels /\ gone.last_event_time = t /\ gone.queue = Tail(m.queue)
          /\ gone.total_stay_duration = m.total_stay_duration + stay
          /\ gone.time_weighted_queue_length = m.time_weighted_queue_length
        <3> DEFINE total == m.total_stay_duration + stay
                   served == m.total_served_customers + 1
                   first == [m EXCEPT !.queue = Tail(@)]
                   second == [first EXCEPT !.total_stay_duration = total]
        <3>1. /\ gone = [second EXCEPT !.total_served_customers = served]
              /\ total \in Int /\ served \in Nat
            BY <1>1, <2>2 DEF LittleModels
        <3>2. /\ first \in LittleModels /\ first.last_event_time = t
              /\ first.queue = Tail(m.queue)
              /\ first.total_stay_duration = m.total_stay_duration
              /\ first.time_weighted_queue_length = m.time_weighted_queue_length
            BY <1>1, <2>1 DEF LittleModels
        <3> HIDE DEF first, total, served
        <3>3. /\ second \in LittleModels /\ second.last_event_time = t
              /\ second.queue = Tail(m.queue)
              /\ second.total_stay_duration = total
              /\ second.time_weighted_queue_length = m.time_weighted_queue_length
            BY <3>1, <3>2 DEF LittleModels
        <3> HIDE DEF second, gone
        <3>4. /\ gone \in LittleModels /\ gone.last_event_time = t
              /\ gone.queue = Tail(m.queue) /\ gone.total_stay_duration = total
              /\ gone.time_weighted_queue_length = m.time_weighted_queue_length
            BY <3>1, <3>3 DEF LittleModels
        <3>5. QED
            BY <3>4 DEF total
    <2> HIDE DEF gone, left
    <2>5. TotalStayTicks(m, t) = m.total_stay_duration + Total(Stays(m.queue, t))
        BY ONLY <1>1, StayTicksType
    <2>6. /\ TotalStayTicks(gone, t) = gone.total_stay_duration + Total(Stays(gone.queue, t))
          /\ Total(Stays(gone.queue, t)) \in Int
        BY <1>1, <2>1, <2>4, StayTicksType
    <2>7. TotalStayTicks(gone, t) = TotalStayTicks(m, t)
        BY <1>1, <2>1, <2>2, <2>4, <2>5, <2>6
    <2>8. QED
        BY <1>4, <2>3, <2>4, <2>7
<1>7. QED
    BY <1>5, <1>6

(***************************************************************************)
(* The steps of little_law.rs.                                             *)
(***************************************************************************)

(* One call fewer. *)
LEMMA OneCallFewer ==
    ASSUME NEW S, NEW calls \in Seq(S), calls # <<>>
    PROVE  Head(calls) \in S /\ Tail(calls) \in Seq(S)
OBVIOUS

(* A step that does not enter a handler: the model stays, and time does not go back *)
(* once the run has begun.                                                           *)
LittleGoesOn ==
    /\ LittleRun'
    /\ model' = model
    /\ phase = "registering" \/ tick_status.current <= tick_status.current'
    /\ phase' \in {"configure", "registering"} => phase \in {"configure", "registering"}

(* So does one that panics. *)
LEMMA LittlePanics ==
    ASSUME Little, NEW reason, Panic(reason), UNCHANGED <<model, stage>>,
           todo' \in Seq(LittleCalls)
    PROVE  LittleGoesOn
BY DEF Little, LittleRun, LittleGoesOn, Panic

(* The calls of the example. *)
LEMMA LittleUserStep ==
    ASSUME Little, ProgramUserStep
    PROVE  LittleGoesOn
<1>0. /\ todo # <<>> => /\ NextCall \in LittleCalls /\ NextCall.call = "schedule_event"
                        /\ NextCall.delay \in Nat /\ Tail(todo) \in Seq(LittleCalls)
      /\ tick_status.current \in Nat
    <2>1. todo \in Seq(LittleCalls) /\ tick_status.current \in Nat
        BY DEF Little, LittleRun
    <2>2. todo # <<>> => NextCall \in LittleCalls /\ Tail(todo) \in Seq(LittleCalls)
        BY <2>1, OneCallFewer DEF NextCall
    <2>3. Delays \subseteq Nat
        BY DelaysAssumption DEF Time
    <2>4. QED
        BY <2>1, <2>2, <2>3 DEF LittleCalls
<1>1. CASE SetUpEvent
    <2>1. NextCall.delay + 0 \in Nat
        BY <1>0, <1>1 DEF SetUpEvent, Makes
    <2>2. QED
        BY <1>0, <1>1, <2>1
           DEF Little, LittleRun, LittleGoesOn, SetUpEvent, Makes, ScheduleEventAt, Schedule,
               SameProgram, parallelVars
<1>2. CASE UserSchedules
    <2> DEFINE at == tick_status.current + NextCall.delay
               event == [event_id |-> next_event_id, scheduled_at |-> at,
                         priority |-> NextCall.priority]
               Scheduled == /\ event_pending' = event_pending \cup {event}
                            /\ UNCHANGED <<event_ready, sourceVars, phase, executorVars,
                                          batchVars>>
    <2>1. at \in Nat /\ Tail(todo) \in Seq(LittleCalls)
        BY <1>0, <1>2 DEF UserSchedules, Makes
    <2>2. todo' = Tail(todo) /\ model' = model /\ stage' = stage
        BY <1>2 DEF UserSchedules, SameProgram, parallelVars
    <2>3. Panic("time overflow") \/ Scheduled
        BY <1>2 DEF UserSchedules, ContextScheduleEvent, Schedule, now
    <2> HIDE DEF at
    <2>4. CASE Panic("time overflow")
        BY <2>1, <2>2, <2>4, LittlePanics
    <2>5. CASE Scheduled
        <3>1. event.scheduled_at \in Nat
            BY <2>1
        <3> HIDE DEF event
        <3>2. QED
            BY <2>1, <2>2, <2>5, <3>1 DEF Little, LittleRun, LittleGoesOn
    <2>6. QED
        BY <2>3, <2>4, <2>5
<1>3. CASE HandlerReturns
    <2>1. FinishHandleEvent
        BY <1>3 DEF HandlerReturns, HookedFinishHandleEvent
    <2>2. QED
        BY <1>0, <1>3, <2>1
           DEF Little, LittleRun, LittleGoesOn, HandlerReturns, FinishHandleEvent, userVars,
               SameProgram, parallelVars
<1>4. CASE SetUpSource \/ UserAddsSource
    BY <1>0, <1>4 DEF SetUpSource, UserAddsSource, Makes
<1>5. CASE UserCancelsEvents \/ UserCancelsSources
    BY <1>0, <1>5 DEF UserCancelsEvents, UserCancelsSources, Makes
<1>6. CASE RegistrationReturns \/ AddedSourceReturns \/ FireReturns
    BY <1>0, <1>6 DEF RegistrationReturns, AddedSourceReturns, FireReturns, Makes
<1>7. QED
    BY <1>1, <1>2, <1>3, <1>4, <1>5, <1>6 DEF ProgramUserStep

(* The head of a heap is the time of an entry. *)
LEMMA HeadIsNat ==
    ASSUME NEW queue, \A x \in queue : x.scheduled_at \in Nat
    PROVE  \A t \in PeekNextTime(queue) : t \in Nat
BY DEF PeekNextTime

(* The runner between ticks. *)
LEMMA LittleTickStep ==
    ASSUME Little,
           StartSimulation \/ SilentStep \/ ProgramStops \/ TickBegins \/ RealtimeWaits
           \/ RealtimeSleeps \/ RealtimeTickBegins \/ TickEnds
    PROVE  LittleGoesOn
<1> USE DEF Little, LittleRun, LittleGoesOn, userVars, SameProgram, parallelVars
<1>1. CASE StartSimulation
    BY <1>1 DEF StartSimulation, HookedBeginSimulation, BeginSimulation, FlushPendingSources,
                EnterRegistration
<1>2. CASE SilentStep
    <2>1. CASE FinishRegistration
        BY <1>2, <2>1 DEF SilentStep, FinishRegistration, FlushPendingEvents, InitialTickStatus,
                          TickStatus
    <2>2. CASE ContinueMicroSteps
        BY <1>2, <2>2 DEF SilentStep, ContinueMicroSteps
    <2>3. QED
        BY <1>2, <2>1, <2>2 DEF SilentStep
<1>3. CASE ProgramStops
    BY <1>3 DEF ProgramStops, HookedStopRun, StopRun
<1>4. CASE TickBegins
    BY <1>4 DEF TickBegins, HookedBeginTick, BeginTick
<1>5. CASE RealtimeWaits
    <2>1. /\ UNCHANGED <<schedulerVars, sourceVars, executorVars, batchVars, model, todo, stage>>
          /\ phase' \in {phase, "panicked"}
        BY <1>5 DEF RealtimeWaits, Realtime!Wait, Realtime!Panic, Realtime!vars,
                    Realtime!schedulerVars, Realtime!sourceVars, Realtime!executorVars,
                    Realtime!batchVars
    <2>2. QED
        BY <2>1
<1>6. CASE RealtimeSleeps
    BY <1>6 DEF RealtimeSleeps, Realtime!Elapse, Realtime!WakeUp, Realtime!vars,
                Realtime!schedulerVars, Realtime!sourceVars, Realtime!executorVars,
                Realtime!batchVars
<1>7. CASE RealtimeTickBegins
    BY <1>7 DEF RealtimeTickBegins, HookedBeginTick, BeginTick
<1>8. CASE TickEnds
    <2>1. ASSUME NEW reason, Panic(reason)
          PROVE  LittleGoesOn
        BY <1>8, <2>1 DEF TickEnds, Panic
    <2>2. ASSUME NEW t \in Nat, NEW skipped, tick_status.current <= t,
                 EndTickWith(TickStatus(t, skipped))
          PROVE  LittleGoesOn
        BY <1>8, <2>2 DEF TickEnds, EndTickWith, TickStatus
    <2>3. CASE EndTickWithIncrementTick
        <3>1. tick_status.current + 1 \in Nat /\ tick_status.current <= tick_status.current + 1
            OBVIOUS
        <3>2. Panic("time overflow") \/ EndTickWith(TickStatus(tick_status.current + 1, 0))
            BY <2>3 DEF EndTickWithIncrementTick, now
        <3> HIDE DEF LittleGoesOn
        <3>3. QED
            BY <2>1, <2>2, <3>1, <3>2
    <2>4. CASE EndTickWithJumpToNextTick
        <3> DEFINE heads == PeekNextTime(source_ready \cup event_ready)
        <3>1. \A t \in heads : t \in Nat
            BY HeadIsNat
        <3> HIDE DEF heads
        <3>2. CASE heads = {}
            <4>1. tick_status.current + 1 \in Nat /\ tick_status.current <= tick_status.current + 1
                OBVIOUS
            <4>2. Panic("time overflow") \/ EndTickWith(TickStatus(tick_status.current + 1, 0))
                BY <2>4, <3>2 DEF EndTickWithJumpToNextTick, heads, now
            <4> HIDE DEF LittleGoesOn
            <4>3. QED
                BY <2>1, <2>2, <4>1, <4>2
        <3>3. CASE heads # {}
            <4>1. PICK next \in heads :
                      IF SubOverflows(next, now) \/ SubOverflows(next - now, 1)
                      THEN Panic("time underflow")
                      ELSE JumpTo(next)
                BY <2>4, <3>3 DEF EndTickWithJumpToNextTick, heads
            <4>2. CASE SubOverflows(next, now)
                BY <2>1, <4>1, <4>2
            <4>3. CASE ~SubOverflows(next, now)
                <5>1. tick_status.current <= next /\ next \in Nat
                    BY <3>1, <4>3 DEF SubOverflows, now
                <5>2. QED
                    BY <2>1, <2>2, <4>1, <5>1 DEF JumpTo
            <4>4. QED
                BY <4>2, <4>3
        <3>4. QED
            BY <3>2, <3>3
    <2>5. QED
        BY <1>8, <2>3, <2>4 DEF TickEnds, HookedEndTick
<1>9. QED
    BY <1>1, <1>2, <1>3, <1>4, <1>5, <1>6, <1>7, <1>8

(* The runner inside a tick, but for the handlers.  Nothing is discarded: the limiting *)
(* strategies would not harm the law.                                                  *)
LEMMA LittleMicroStep ==
    ASSUME Little,
           SourcePhaseStarts \/ (\E source \in source_batch : SourceFires(source))
           \/ EventPhaseStarts \/ SequentialStepEnds \/ PoolWorks \/ CommandIsApplied
           \/ ParallelStepEnds \/ RestIsDiscarded
    PROVE  LittleGoesOn
<1> USE DEF Little, LittleRun, userVars, SameProgram, parallelVars
<1>1. ASSUME UNCHANGED <<source_registry, tick_status, todo, model, stage>>,
             source_ready' = {}, source_pending' = {}, source_batch' = {},
             event_ready' \subseteq event_ready \cup event_pending,
             event_pending' \subseteq event_pending,
             phase' \notin {"configure", "registering"}
      PROVE  LittleGoesOn
    BY <1>1 DEF LittleGoesOn
<1>2. CASE SourcePhaseStarts
    <2>1. StartSourcePhase /\ UNCHANGED <<todo, model, stage>>
        BY <1>2 DEF SourcePhaseStarts, HookedStartSourcePhase
    <2>2. CASE Panic("source overdue")
        BY <2>1, <2>2, LittlePanics
    <2>3. CASE ~Panic("source overdue")
        BY <1>1, <2>1, <2>3 DEF StartSourcePhase, DrainReadySources, DueAt
    <2>4. QED
        BY <2>2, <2>3
<1>3. CASE \E source \in source_batch : SourceFires(source)
    BY <1>3
<1>4. CASE EventPhaseStarts
    <2>1. StartEventPhase /\ UNCHANGED <<todo, model, stage>>
        BY <1>4 DEF EventPhaseStarts, HookedStartEventPhase
    <2>2. CASE Panic("event overdue")
        BY <2>1, <2>2, LittlePanics
    <2>3. CASE ~Panic("event overdue")
        BY <1>1, <2>1, <2>3 DEF StartEventPhase, DrainReadyEvents, DueAt
    <2>4. QED
        BY <2>2, <2>3
<1>5. CASE SequentialStepEnds
    <2>1. EndMicroStep /\ UNCHANGED <<todo, model, stage>>
        BY <1>5 DEF SequentialStepEnds, HookedEndMicroStep
    <2>2. CASE Panic("micro-step overflow")
        BY <2>1, <2>2, LittlePanics
    <2>3. CASE ~Panic("micro-step overflow")
        BY <1>1, <2>1, <2>3 DEF EndMicroStep, FlushPendingSources, FlushPendingEvents
    <2>4. QED
        BY <2>2, <2>3
<1>6. CASE PoolWorks \/ CommandIsApplied \/ ParallelStepEnds
    BY <1>6 DEF PoolWorks, CommandIsApplied, ApplyCommand, ParallelStepEnds,
                CompleteEventPhase, IsParallel, IsLittleProgram
<1>7. CASE RestIsDiscarded
    <2>1. DiscardAtLimit /\ UNCHANGED <<todo, model, stage>>
        BY <1>7 DEF RestIsDiscarded
    <2>2. CASE Panic("source overdue") \/ Panic("event overdue")
        BY <2>1, <2>2, LittlePanics
    <2>3. CASE ~(Panic("source overdue") \/ Panic("event overdue"))
        BY <1>1, <2>1, <2>3 DEF DiscardAtLimit, DiscardRemainMicroStep, DrainReadySources,
                                DrainReadyEvents, DueAt
    <2>4. QED
        BY <2>2, <2>3
<1>8. QED
    BY <1>2, <1>3, <1>4, <1>5, <1>6, <1>7

(* Where the model stays, time that passes does not change what it has counted. *)
LEMMA LittleRunGoesOn ==
    ASSUME Little, LittleGoesOn
    PROVE  LittleRun' /\ LittleCounts'
<1>1. LittleRun' /\ model' = model
    BY DEF LittleGoesOn
<1>2. model'.last_event_time <= tick_status'.current
    BY <1>1 DEF Little, LittleCounts, LittleRun, LittleModels, LittleGoesOn
<1>3. phase' \in {"configure", "registering"} => model'.last_event_time = 0
    BY <1>1 DEF Little, LittleCounts, LittleGoesOn
<1>4. QED
    BY <1>1, <1>2, <1>3 DEF Little, LittleCounts

(* A handler counts up to its time, and then the customer it is about. *)
LEMMA LittleHandles ==
    ASSUME Little, NEW event \in event_batch, EventIsHandled(event)
    PROVE  LittleRun' /\ LittleCounts'
<1> DEFINE p == payload[event.event_id + 1]
           t == tick_status.current
<1>1. /\ HandleEvent(event) /\ stage' = stage
      /\ \E reaction \in LittleHandleEvent(model, p, t) :
            model' = reaction.model /\ todo' = reaction.calls
    BY DEF EventIsHandled, HookedHandleEvent, Enters, HandleEventReactions, Little,
           IsLittleProgram, IsParallel, parallelVars, User, now
<1>2. PICK reaction \in LittleHandleEvent(model, p, t) :
          model' = reaction.model /\ todo' = reaction.calls
    BY <1>1
<1>3. t \in Nat /\ model \in LittleModels /\ model.last_event_time \in Nat
    BY DEF Little, LittleRun, LittleCounts, LittleModels
<1>4. /\ reaction.model \in LittleModels
      /\ reaction.model.last_event_time <= EndTicks
      /\ reaction.model.last_event_time <= t
      /\ reaction.model.time_weighted_queue_length =
            TotalStayTicks(reaction.model, reaction.model.last_event_time)
      /\ reaction.calls \in Seq(LittleCalls)
    <2>1. CASE t > EndTicks
        <3>1. reaction = Reaction(model, <<>>)
            BY <2>1 DEF LittleHandleEvent
        <3>2. QED
            BY <3>1, OneCall DEF Reaction, Little, LittleCounts
    <2>2. CASE t <= EndTicks
        <3> DEFINE counted == UpdateStatistics(model, t)
        <3>1. /\ counted \in LittleModels /\ counted.last_event_time = t
              /\ counted.time_weighted_queue_length = TotalStayTicks(counted, t)
            BY <1>3, StatisticsCount DEF Little, LittleCounts
        <3>2. reaction \in CustomerArrives(counted, t) \/ reaction \in CustomerDeparts(counted, t)
            BY <1>3, <2>2, LittleLawAssumption DEF LittleHandleEvent
        <3> HIDE DEF counted, t
        <3>3. /\ reaction.model \in LittleModels
              /\ reaction.model.last_event_time = t
              /\ reaction.model.time_weighted_queue_length = TotalStayTicks(reaction.model, t)
              /\ reaction.calls \in Seq(LittleCalls)
            BY <1>3, <3>1, <3>2, ArrivalCounts, DepartureCounts
        <3>4. t <= t
            BY <1>3
        <3>5. QED
            BY <2>2, <3>3, <3>4
    <2>3. QED
        BY <1>3, <2>1, <2>2, LittleLawAssumption
<1> HIDE DEF p
<1>5. LittleRun'
    BY <1>1, <1>2, <1>4 DEF Little, LittleRun, HandleEvent
<1>6. LittleCounts'
    BY <1>1, <1>2, <1>4 DEF LittleCounts, HandleEvent
<1>7. QED
    BY <1>5, <1>6

(* Every step of the example keeps the count. *)
LEMMA LittleStep ==
    ASSUME Little, [ProgramNext]_programVars
    PROVE  Little'
<1>1. program' = program
    BY ProgramStays
<1>2. LittleRun' /\ LittleCounts'
    <2>1. CASE ProgramUserStep
        BY <2>1, LittleUserStep, LittleRunGoesOn
    <2>2. CASE \E event \in event_batch : EventIsHandled(event)
        BY <2>2, LittleHandles
    <2>3. CASE UNCHANGED programVars
        BY <2>3 DEF Little, LittleRun, LittleCounts, programVars, hookedVars, parallelVars,
                    userVars
    <2>4. CASE ProgramRunnerStep
        BY <2>2, <2>4, LittleTickStep, LittleMicroStep, LittleRunGoesOn DEF ProgramRunnerStep
    <2>5. QED
        BY <2>1, <2>3, <2>4 DEF ProgramNext, ProgramIsOver
<1>3. QED
    BY <1>1, <1>2 DEF Little, IsLittleProgram

(* Nobody has come when the run begins. *)
LEMMA InitLittle ==
    ASSUME ProgramInit, User = "little"
    PROVE  Little
<1>1. IsLittleProgram(program) /\ program.user = "little"
    BY ExamplesAssumption DEF ProgramInit, User
<1>2. Init /\ stage = "sync" /\ todo = program.setup /\ model = EmptyQueue
    BY <1>1 DEF ProgramInit, HookedInit, IsLittleProgram
<1>3. LittleRun
    BY <1>1, <1>2 DEF LittleRun, Init, SchedulerInit, SourceInit, InitialTickStatus, TickStatus,
                      IsLittleProgram
<1>4. LittleCounts
    <2>1. model \in LittleModels /\ model.queue = <<>> /\ model.last_event_time = 0
          /\ model.time_weighted_queue_length = 0 /\ model.total_stay_duration = 0
        BY <1>2 DEF EmptyQueue, LittleModels
    <2>2. Stays(<<>>, 0) = <<>>
        BY DEF Stays
    <2>3. TotalStayTicks(model, 0) = 0
        <3>1. model.queue \in Seq(Nat)
            BY <2>1
        <3>2. TotalStayTicks(model, 0) = model.total_stay_duration + Total(Stays(model.queue, 0))
            BY <3>1, 0 \in Int, StayTicksType
        <3>3. QED
            BY <2>1, <2>2, <3>2, TotalEmpty
    <2>4. tick_status.current = 0
        BY <1>2 DEF Init, InitialTickStatus, TickStatus
    <2>5. QED
        BY <2>1, <2>3, <2>4, LittleLawAssumption DEF LittleCounts
<1>5. QED
    BY <1>1, <1>3, <1>4 DEF Little

(* What main asserts of the finished run follows from what holds at the last event. *)
LEMMA LittleIsLawful == Little => LittlesLaw
<1> SUFFICES ASSUME Little PROVE LittlesLaw
    OBVIOUS
<1>1. /\ model \in LittleModels /\ EndTicks \in Nat /\ model.last_event_time <= EndTicks
      /\ model.time_weighted_queue_length = TotalStayTicks(model, model.last_event_time)
      /\ model.last_event_time \in Nat
    BY LittleLawAssumption DEF Little, LittleCounts, LittleModels
<1>2. FinalModel(model, EndTicks).time_weighted_queue_length =
          TotalStayTicks(FinalModel(model, EndTicks), EndTicks)
    <2>1. CASE model.last_event_time < EndTicks
        BY <1>1, <2>1, StatisticsCount DEF FinalModel
    <2>2. CASE model.last_event_time = EndTicks
        BY <1>1, <2>2 DEF FinalModel
    <2>3. QED
        BY <1>1, <2>1, <2>2
<1>3. QED
    BY <1>1, <1>2 DEF LittlesLaw

(* Little's law holds of little_law.rs, for all arrival and service durations, all      *)
(* schedules main may set up, and every time at which it may end: at the last event of   *)
(* any moment, and, as main asserts, of the finished run.                                *)
THEOREM LittlesLawAlwaysHolds == ProgramSpec => []LittlesLaw
<1>1. ProgramInit => (User = "little" => Little)
    BY InitLittle
<1>2. (User = "little" => Little) /\ [ProgramNext]_programVars => (User = "little" => Little)'
    BY LittleStep, ProgramStays DEF User
<1>3. (User = "little" => Little) => LittlesLaw
    BY LittleIsLawful DEF LittlesLaw
<1>4. QED
    BY <1>1, <1>2, <1>3, PTL DEF ProgramSpec

(***************************************************************************)
(* The servers of the examples.                                            *)
(***************************************************************************)

(* What the callbacks of the examples are to do: register generators; schedule *)
(* arrivals and return; schedule what takes from the queue.                    *)
SourceCalls == {Arrives} \cup [call : {"return"}, delay : {{d} : d \in Delays}]
TakerCalls ==
    {Processes, Schedules(0, MinimumPriority, JobProcessNext),
     Schedules(ParallelProcessingTime, MinimumPriority, JobProcessed)}

ServerTodo ==
    /\ phase = "configure" => todo \in Seq(GeneratorCalls)
    /\ phase = "handling" => todo = <<>> \/ \E call \in TakerCalls : todo = <<call>>
    /\ phase \notin {"configure", "handling"} => todo \in Seq(SourceCalls)
    /\ phase # "adding"

(* The sources on their way are registered generators. *)
ServerSources ==
    /\ registered \in Seq(Generators)
    /\ Len(registered) = source_registry
    /\ next_source_id \in Nat /\ reg_slot \in Nat
    /\ next_source_id <= source_registry
    /\ phase = "configure" => next_source_id = 0
    /\ phase = "registering" => next_source_id <= reg_slot
    /\ \A source \in source_ready \cup source_pending \cup source_batch \cup firing_source :
          source.source_id \in 0 .. next_source_id - 1

(* The events on their way have a payload, and are in one place each. *)
JobEvents == {JobArrived, JobProcessed, JobProcessNext}
ServerEvents ==
    /\ payload \in Seq(JobEvents)
    /\ Len(payload) = next_event_id
    /\ \A e \in OnTheirWay :
          e.event_id \in 0 .. next_event_id - 1 /\ e.priority = MinimumPriority
    /\ event_batch # {} => phase \in {"event_phase", "handling"}
    /\ event_ready \cap event_pending = {}
    /\ event_batch \cap (event_ready \cup event_pending) = {}
    /\ stage # "working" => parallel_events = {} /\ working = {}

(* The sequential server: it is busy while one job is processed, from the handler that *)
(* is to schedule its JobProcessed to the one that is given it.                         *)
Processed == {e \in OnTheirWay : payload[e.event_id + 1] = JobProcessed}
ServerModels == [queue : Nat, is_busy : BOOLEAN]
SequentialServer ==
    /\ stage = "sync"
    /\ payload \in Seq({JobArrived, JobProcessed})
    /\ model \in ServerModels
    /\ model.queue > 0 => model.is_busy
    /\ phase = "handling" => todo \in {<<>>, <<Processes>>}
    /\ IF phase = "handling" /\ todo # <<>> THEN model.is_busy /\ Processed = {}
       ELSE IF model.is_busy THEN \E e \in Processed : Processed = {e} ELSE Processed = {}

(* The parallel server: a worker that is to return has sent its command, and while there *)
(* is a queue, something that takes from it is on its way.                                *)
Takers == {JobProcessed, JobProcessNext}
TakerOnItsWay ==
    \/ \E e \in OnTheirWay : payload[e.event_id + 1] \in Takers
    \/ \E k \in DOMAIN channel : payload[channel[k].event_id + 1] \in Takers
    \/ phase = "handling" /\ todo # <<>>
HasSent(call) == \E k \in DOMAIN channel : channel[k].event_id = call.event.event_id
ParallelServer ==
    /\ model \in ServerModels
    /\ channel \in Seq([event_id : 0 .. next_event_id - 1, nth : {0}])
    /\ \A call \in working :
          /\ call = [event |-> call.event, sends |-> call.sends]
          /\ call.sends \in {0, 1}
          /\ call.sends = 1 => HasSent(call)
    /\ model.queue > 0 => TakerOnItsWay

ServerWorks == IF IsParallel THEN ParallelServer ELSE SequentialServer

(* While the thread has not panicked. *)
Server ==
    /\ program.user = "server"
    /\ IsServerProgram(program)
    /\ runner = program.runner
    /\ ServerTodo /\ ServerSources /\ ServerEvents /\ ServerWorks

(***************************************************************************)
(* Steps that leave the events, or only move them.                         *)
(***************************************************************************)
PhaseMoves ==
    /\ phase' = "handling" => phase = "handling" /\ todo' = todo
    /\ phase = "handling" /\ phase' # "handling" => todo = <<>>
EventsMove ==
    /\ UNCHANGED <<program, next_event_id, payload, model, stage, parallel_events, working, channel>>
    /\ OnTheirWay' = OnTheirWay
    /\ PhaseMoves
EventsStay ==
    /\ UNCHANGED <<program, schedulerVars, event_batch, payload, model, stage, parallel_events,
                   working, channel>>
    /\ event_batch # {} => phase' \in {"event_phase", "handling"}
    /\ PhaseMoves

(* The servers' invariants are about which events are on their way, not where. *)
LEMMA WorkGoesOn ==
    ASSUME ServerTodo, ServerWorks, EventsMove
    PROVE  ServerWorks'
<1>1. IsParallel' <=> IsParallel
    BY DEF EventsMove, IsParallel
<1>2. CASE IsParallel
    <2>1. ParallelServer
        BY <1>2 DEF ServerWorks
    <2>3. \A call : HasSent(call)' <=> HasSent(call)
        BY DEF HasSent, EventsMove
    <2>4. TakerOnItsWay => TakerOnItsWay'
        BY DEF TakerOnItsWay, EventsMove, PhaseMoves
    <2>5. ParallelServer'
        BY <2>1, <2>3, <2>4 DEF ParallelServer, EventsMove
    <2>6. QED
        BY <1>1, <1>2, <2>5 DEF ServerWorks
<1>3. CASE ~IsParallel
    <2>1. SequentialServer
        BY <1>3 DEF ServerWorks
    <2>2. Processed' = Processed
        BY DEF Processed, EventsMove
    <2>3. (phase = "handling" /\ todo # <<>>)' <=> (phase = "handling" /\ todo # <<>>)
        BY DEF EventsMove, PhaseMoves
    <2>4. (phase = "handling" => todo \in {<<>>, <<Processes>>})'
        BY <2>1 DEF SequentialServer, EventsMove, PhaseMoves
    <2>5. SequentialServer'
        BY <2>1, <2>2, <2>3, <2>4 DEF SequentialServer, EventsMove
    <2>6. QED
        BY <1>1, <1>3, <2>5 DEF ServerWorks
<1>4. QED
    BY <1>2, <1>3

LEMMA EventsGoOn ==
    ASSUME ServerTodo, ServerEvents, ServerWorks, EventsStay
    PROVE  ServerEvents' /\ ServerWorks'
<1>1. OnTheirWay' = OnTheirWay
    BY DEF EventsStay, OnTheirWay
<1>2. ServerEvents'
    BY <1>1 DEF ServerEvents, EventsStay
<1>3. EventsMove
    BY <1>1 DEF EventsStay, EventsMove
<1>4. QED
    BY <1>2, <1>3, WorkGoesOn

LEMMA SourcesGoOn ==
    ASSUME ServerSources,
           UNCHANGED <<registered, source_registry, next_source_id, reg_slot>>,
           source_ready' \cup source_pending' \cup source_batch' \cup firing_source'
               \subseteq source_ready \cup source_pending \cup source_batch \cup firing_source,
           phase' \in {"configure", "registering"} => phase' = phase
    PROVE  ServerSources'
BY DEF ServerSources

(***************************************************************************)
(* The calls of the callbacks.                                             *)
(***************************************************************************)
LEMMA GeneratorCallsSources ==
    ASSUME NEW generator \in Generators
    PROVE  /\ GeneratorOnRegistered(generator) \in Seq(SourceCalls)
           /\ GeneratorFire(generator) \in Seq(SourceCalls)
<1>1. generator.interval \in Delays /\ generator.burst \in Nat
    BY DEF Generators
<1>2. Arrives \in SourceCalls /\ Returns({generator.interval}) \in SourceCalls
    <2>1. {generator.interval} \in {{d} : d \in Delays}
        BY <1>1
    <2>2. QED
        BY <2>1 DEF SourceCalls, Returns
<1> HIDE DEF SourceCalls
<1>3. [k \in 1 .. generator.burst |-> Arrives] \in Seq(SourceCalls)
    BY <1>1, <1>2
<1>4. QED
    BY <1>2, <1>3 DEF GeneratorOnRegistered, GeneratorFire

(* The source whose registration is entered is a generator. *)
LEMMA RegistrationIsEntered ==
    ASSUME Server, NEW slot \in Nat, EnterRegistration(slot)
    PROVE  todo' \in Seq(SourceCalls)
<1>1. CASE slot < source_registry
    <2>1. registered[slot + 1] \in Generators
        BY <1>1 DEF Server, ServerSources
    <2>2. todo' = GeneratorOnRegistered(registered[slot + 1])
        BY <1>1 DEF EnterRegistration, OnRegistered, User, Server
    <2>3. QED
        BY <2>1, <2>2, GeneratorCallsSources
<1>2. CASE ~(slot < source_registry)
    BY <1>2 DEF EnterRegistration
<1>3. QED
    BY <1>1, <1>2

(* What a callback calls next. *)
LEMMA NextCallIs ==
    ASSUME Server, todo # <<>>, phase # "configure"
    PROVE  /\ phase = "handling" => NextCall \in TakerCalls /\ Tail(todo) = <<>>
           /\ phase # "handling" => NextCall \in SourceCalls /\ Tail(todo) \in Seq(SourceCalls)
<1>1. ServerTodo
    BY DEF Server
<1>2. CASE phase = "handling"
    <2>1. PICK call \in TakerCalls : todo = <<call>>
        BY <1>1, <1>2 DEF ServerTodo
    <2>2. NextCall = call /\ Tail(todo) = <<>>
        BY <2>1 DEF NextCall
    <2>3. QED
        BY <1>2, <2>2
<1>3. CASE phase # "handling"
    <2>1. todo \in Seq(SourceCalls)
        BY <1>1, <1>3 DEF ServerTodo
    <2> HIDE DEF SourceCalls
    <2>2. QED
        BY <1>3, <2>1 DEF NextCall
<1>4. QED
    BY <1>2, <1>3

(* An event that is scheduled: the next one, an arrival unless a handler schedules it. *)
IsScheduled(event, call) ==
    /\ event.event_id = next_event_id /\ event.priority = call.priority
    /\ event_pending' = event_pending \cup {event}
    /\ next_event_id' = next_event_id + 1
    /\ payload' = Append(payload, call.payload)
    /\ UNCHANGED <<program, event_ready, event_batch, model, stage, parallel_events, working,
                   channel, phase>>
    /\ todo' = Tail(todo)

(* Its payload is kept under its id, and all others stay. *)
LEMMA PayloadGrows ==
    ASSUME ServerEvents, NEW event, NEW call, IsScheduled(event, call), call.payload \in JobEvents
    PROVE  /\ OnTheirWay' = OnTheirWay \cup {event}
           /\ payload'[event.event_id + 1] = call.payload
           /\ \A k \in 0 .. next_event_id - 1 : payload'[k + 1] = payload[k + 1]
           /\ payload' \in Seq(JobEvents) /\ Len(payload') = next_event_id'
           /\ event \notin OnTheirWay
           /\ next_event_id \in Nat
<1>1. OnTheirWay' = OnTheirWay \cup {event}
    BY DEF IsScheduled, OnTheirWay
<1>2. payload \in Seq(JobEvents) /\ Len(payload) = next_event_id /\ next_event_id \in Nat
    BY DEF ServerEvents
<1>3. event \notin OnTheirWay
    BY <1>2 DEF ServerEvents, IsScheduled
<1> HIDE DEF JobEvents
<1>4. QED
    BY <1>1, <1>2, <1>3 DEF IsScheduled

(* The sequential server's JobProcessed and the takers of the parallel one get on their *)
(* way; an arrival makes no difference.                                                 *)
LEMMA EventIsScheduled ==
    ASSUME Server, NEW event, NEW call, IsScheduled(event, call), call = Head(todo),
           todo # <<>>,
           IF phase = "handling" THEN call \in TakerCalls /\ Tail(todo) = <<>>
           ELSE call = Arrives
    PROVE  ServerEvents' /\ ServerWorks'
<1>0. ServerEvents /\ ServerWorks
    BY DEF Server
<1>1. call.payload \in JobEvents /\ call.priority = MinimumPriority
    BY DEF TakerCalls, Arrives, Processes, Schedules, JobEvents
<1>2. /\ OnTheirWay' = OnTheirWay \cup {event}
      /\ payload'[event.event_id + 1] = call.payload
      /\ \A k \in 0 .. next_event_id - 1 : payload'[k + 1] = payload[k + 1]
      /\ payload' \in Seq(JobEvents) /\ Len(payload') = next_event_id'
      /\ event \notin OnTheirWay
      /\ next_event_id \in Nat
    BY <1>0, <1>1, PayloadGrows
<1>3. ServerEvents'
    <2>1. event \notin event_ready \cup event_batch
        BY <1>2 DEF OnTheirWay
    <2>2. \A e \in OnTheirWay' :
              e.event_id \in 0 .. next_event_id' - 1 /\ e.priority = MinimumPriority
        BY <1>0, <1>1, <1>2 DEF ServerEvents, IsScheduled
    <2>3. QED
        BY <1>0, <1>2, <2>1, <2>2 DEF ServerEvents, IsScheduled
<1>4. \A e \in OnTheirWay : payload'[e.event_id + 1] = payload[e.event_id + 1]
    BY <1>0, <1>2 DEF ServerEvents
<1>5. IsParallel' <=> IsParallel
    BY DEF IsParallel, IsScheduled
<1>6. CASE IsParallel
    <2>1. ParallelServer
        BY <1>0, <1>6 DEF ServerWorks
    <2>2. channel' \in Seq([event_id : 0 .. next_event_id' - 1, nth : {0}])
        <3>1. next_event_id' = next_event_id + 1 /\ channel' = channel
            BY DEF IsScheduled
        <3> DEFINE S == [event_id : 0 .. next_event_id - 1, nth : {0}]
                   T == [event_id : 0 .. next_event_id' - 1, nth : {0}]
        <3>2. S \subseteq T
            BY <1>2, <3>1
        <3>3. channel \in Seq(S)
            BY <2>1 DEF ParallelServer
        <3> HIDE DEF S, T
        <3>4. channel \in Seq(T)
            BY <3>2, <3>3
        <3>5. QED
            BY <3>1, <3>4 DEF T
    <2>3. \A c : HasSent(c)' <=> HasSent(c)
        BY DEF HasSent, IsScheduled
    <2>4. TakerOnItsWay => TakerOnItsWay'
        <3>1. CASE \E e \in OnTheirWay : payload[e.event_id + 1] \in Takers
            BY <1>2, <1>4, <3>1 DEF TakerOnItsWay
        <3>2. CASE \E k \in DOMAIN channel : payload[channel[k].event_id + 1] \in Takers
            <4>1. PICK k \in DOMAIN channel : payload[channel[k].event_id + 1] \in Takers
                BY <3>2
            <4>2. channel[k].event_id \in 0 .. next_event_id - 1
                <5> DEFINE S == [event_id : 0 .. next_event_id - 1, nth : {0}]
                <5>1. channel \in Seq(S)
                    BY <2>1 DEF ParallelServer
                <5>2. \A command \in S : command.event_id \in 0 .. next_event_id - 1
                    OBVIOUS
                <5> HIDE DEF S
                <5>3. channel[k] \in S
                    BY <4>1, <5>1
                <5>4. QED
                    BY <5>2, <5>3
            <4>3. QED
                BY <1>2, <4>1, <4>2 DEF TakerOnItsWay, IsScheduled
        <3>3. CASE phase = "handling" /\ todo # <<>>
            <4>1. call.payload \in Takers
                BY <3>3 DEF TakerCalls, Processes, Schedules, Takers, JobProcessed, JobProcessNext
            <4>2. QED
                BY <1>2, <4>1 DEF TakerOnItsWay
        <3>4. QED
            BY <3>1, <3>2, <3>3 DEF TakerOnItsWay
    <2>5. ParallelServer'
        BY <2>1, <2>2, <2>3, <2>4 DEF ParallelServer, IsScheduled
    <2>6. QED
        BY <1>3, <1>5, <1>6, <2>5 DEF ServerWorks
<1>7. CASE ~IsParallel
    <2>1. SequentialServer
        BY <1>0, <1>7 DEF ServerWorks
    <2>2. Processed' = IF call.payload = JobProcessed THEN Processed \cup {event} ELSE Processed
        BY <1>2, <1>4 DEF Processed
    <2>3. CASE phase = "handling"
        <3>1. /\ todo = <<Processes>> /\ call = Processes /\ call.payload = JobProcessed
              /\ todo' = <<>>
            BY <2>1, <2>3 DEF SequentialServer, Processes, Schedules, IsScheduled
        <3>2. Processed' = {event} /\ model'.is_busy
            BY <2>1, <2>2, <2>3, <3>1 DEF SequentialServer, IsScheduled
        <3>3. payload' \in Seq({JobArrived, JobProcessed})
            BY <2>1, <3>1 DEF SequentialServer, IsScheduled
        <3>4. SequentialServer'
            BY <2>1, <2>3, <3>1, <3>2, <3>3 DEF SequentialServer, IsScheduled
        <3>5. QED
            BY <1>3, <1>5, <1>7, <3>4 DEF ServerWorks
    <2>4. CASE phase # "handling"
        <3>1. call.payload = JobArrived /\ JobArrived # JobProcessed
            BY <2>4 DEF Arrives, Schedules, JobArrived, JobProcessed
        <3>2. Processed' = Processed
            BY <2>2, <3>1
        <3>3. payload' \in Seq({JobArrived, JobProcessed})
            BY <2>1, <3>1 DEF SequentialServer, IsScheduled
        <3>4. SequentialServer'
            BY <2>1, <2>4, <3>2, <3>3 DEF SequentialServer, IsScheduled
        <3>5. QED
            BY <1>3, <1>5, <1>7, <3>4 DEF ServerWorks
    <2>5. QED
        BY <2>3, <2>4
<1>8. QED
    BY <1>6, <1>7

(***************************************************************************)
(* The steps of the servers.                                               *)
(***************************************************************************)

(* The calls on the Engine, and those of the callbacks. *)
LEMMA ServerUserStep ==
    ASSUME Server, ProgramUserStep, phase' # "panicked", program' = program
    PROVE  Server'
<1>0. /\ ServerTodo /\ ServerSources /\ ServerEvents /\ ServerWorks
      /\ runner = program.runner /\ IsServerProgram(program)
    BY DEF Server
<1>1. ASSUME ServerTodo', ServerSources', ServerEvents' /\ ServerWorks', runner' = runner
      PROVE  Server'
    BY <1>1, <1>0 DEF Server, IsServerProgram
<1>2. CASE SetUpEvent
    <2>1. todo \in Seq(GeneratorCalls)
        BY <1>0, <1>2 DEF SetUpEvent, ScheduleEventAt, ServerTodo
    <2>2. Head(todo) \in GeneratorCalls
        BY <1>2, <2>1 DEF SetUpEvent, Makes
    <2>3. QED
        BY <1>2, <2>2 DEF SetUpEvent, Makes, NextCall, GeneratorCalls
<1>3. CASE SetUpSource
    <2>1. /\ todo \in Seq(GeneratorCalls) /\ todo # <<>> /\ phase = "configure"
          /\ AddEngineSource /\ todo' = Tail(todo)
          /\ registered' = Append(registered, NextCall.source)
          /\ UNCHANGED <<model, payload>> /\ SameProgram
        BY <1>0, <1>3 DEF SetUpSource, AddEngineSource, ServerTodo, Makes
    <2>2. Head(todo) \in GeneratorCalls /\ Tail(todo) \in Seq(GeneratorCalls)
        BY <2>1
    <2>3. NextCall.source \in Generators
        BY <2>2 DEF NextCall, GeneratorCalls
    <2>4. ServerTodo'
        BY <2>1, <2>2 DEF ServerTodo, AddEngineSource
    <2>5. ServerSources'
        BY <1>0, <2>1, <2>3 DEF ServerSources, AddEngineSource, AddSourceForBeforeSimulation
    <2>6. EventsStay
        BY <1>0, <2>1 DEF EventsStay, PhaseMoves, AddEngineSource, SameProgram, parallelVars,
                          channelVars, ServerEvents
    <2>7. runner' = runner
        BY <2>1 DEF AddEngineSource
    <2>8. QED
        BY <1>0, <1>1, <2>4, <2>5, <2>6, <2>7, EventsGoOn
<1>4. CASE UserSchedules
    <2> DEFINE event == [event_id |-> next_event_id,
                         scheduled_at |-> tick_status.current + NextCall.delay,
                         priority |-> NextCall.priority]
    <2>1. /\ todo # <<>> /\ NextCall.call = "schedule_event"
          /\ phase \in {"registering", "firing", "handling", "adding"}
          /\ UNCHANGED <<event_ready, sourceVars, phase, reg_slot, batchVars, runner>>
          /\ event_pending' = event_pending \cup {event}
          /\ next_event_id' = next_event_id + 1
          /\ payload' = Append(payload, NextCall.payload) /\ todo' = Tail(todo)
          /\ UNCHANGED <<model, registered>> /\ SameProgram
        BY <1>4 DEF UserSchedules, ContextScheduleEvent, Panic, Schedule, Makes, InCallback, now
    <2>2. event.event_id = next_event_id /\ event.priority = NextCall.priority
        OBVIOUS
    <2> HIDE DEF event
    <2>3. IsScheduled(event, NextCall)
        BY <2>1, <2>2 DEF IsScheduled, SameProgram, parallelVars, channelVars
    <2>4. /\ phase = "handling" => NextCall \in TakerCalls /\ Tail(todo) = <<>>
          /\ phase # "handling" => NextCall = Arrives /\ Tail(todo) \in Seq(SourceCalls)
        BY <2>1, NextCallIs DEF SourceCalls
    <2>5. ServerEvents' /\ ServerWorks'
        <3>1. NextCall = Head(todo)
            BY DEF NextCall
        <3>2. QED
            BY <2>1, <2>3, <2>4, <3>1, EventIsScheduled
    <2>6. ServerTodo'
        BY <1>0, <2>1, <2>4 DEF ServerTodo
    <2>7. ServerSources'
        BY <1>0, <2>1, SourcesGoOn
    <2>8. QED
        BY <1>1, <2>1, <2>5, <2>6, <2>7
<1>5. CASE UserAddsSource \/ UserCancelsEvents \/ UserCancelsSources
    <2>1. /\ todo # <<>> /\ phase = "handling"
          /\ NextCall.call \in {"add_source", "cancel_scheduled_events",
                                "cancel_scheduled_sources"}
        BY <1>5 DEF UserAddsSource, UserCancelsEvents, UserCancelsSources, Makes,
                    HookedAddSource, ContextAddSource, CancelScheduledEvents,
                    CancelScheduledSources
    <2>2. NextCall \in TakerCalls
        BY <2>1, NextCallIs
    <2>3. QED
        BY <2>1, <2>2 DEF TakerCalls, Processes, Schedules
<1>6. CASE RegistrationReturns
    <2>1. /\ RegisterSource(NextCall.delay) /\ EnterRegistration(reg_slot + 1)
          /\ UNCHANGED userVars /\ SameProgram
        BY <1>6 DEF RegistrationReturns, HookedRegisterSource
    <2>2. reg_slot \in Nat /\ reg_slot + 1 \in Nat
        BY <1>0 DEF ServerSources
    <2>3. todo' \in Seq(SourceCalls)
        BY <2>1, <2>2, RegistrationIsEntered
    <2>4. ServerTodo'
        BY <2>1, <2>3 DEF ServerTodo, RegisterSource
    <2>5. ServerSources'
        BY <1>0, <2>1, <2>2 DEF ServerSources, RegisterSource, InitializeSource, PushInitial,
                                userVars
    <2>6. EventsStay
        BY <1>0, <2>1 DEF EventsStay, PhaseMoves, RegisterSource, SameProgram, parallelVars,
                          channelVars, ServerEvents, userVars
    <2>7. runner' = runner
        BY <2>1 DEF RegisterSource
    <2>8. QED
        BY <1>0, <1>1, <2>4, <2>5, <2>6, <2>7, EventsGoOn
<1>7. CASE AddedSourceReturns
    BY <1>0, <1>7 DEF AddedSourceReturns, HookedFinishAddSource, FinishAddSource, ServerTodo
<1>8. CASE FireReturns
    <2>1. /\ FinishFire(NextCall.delay) /\ todo' = Tail(todo) /\ todo # <<>>
          /\ UNCHANGED userVars /\ SameProgram
        BY <1>8 DEF FireReturns, HookedFinishFire, Makes
    <2>2. phase = "firing" /\ phase' = "source_phase"
        BY <2>1 DEF FinishFire, Panic
    <2>3. ServerTodo'
        BY <2>1, <2>2, NextCallIs DEF ServerTodo
    <2>4. /\ \E source \in firing_source :
                ScheduleNextSource(tick_status.current, NextCall.delay, source.source_id)
          /\ firing_source' = {}
          /\ UNCHANGED <<schedulerVars, reg_slot, source_batch, event_batch, runnerVars>>
        BY <2>1, <2>2 DEF FinishFire, Panic, now
    <2>5. ServerSources'
        BY <1>0, <2>1, <2>2, <2>4 DEF ServerSources, ScheduleNextSource, userVars
    <2>6. EventsStay
        BY <1>0, <2>1, <2>2, <2>4 DEF EventsStay, PhaseMoves, SameProgram, parallelVars,
                                      channelVars, ServerEvents, userVars
    <2>7. QED
        BY <1>0, <1>1, <2>3, <2>4, <2>5, <2>6, EventsGoOn
<1>9. CASE HandlerReturns
    <2>1. /\ FinishHandleEvent /\ todo = <<>> /\ todo' = todo
          /\ UNCHANGED userVars /\ SameProgram
        BY <1>9 DEF HandlerReturns, HookedFinishHandleEvent
    <2>2. ServerTodo'
        BY <2>1 DEF ServerTodo, FinishHandleEvent
    <2>3. ServerSources'
        BY <1>0, <2>1, SourcesGoOn DEF FinishHandleEvent, userVars
    <2>4. EventsStay
        BY <1>0, <2>1 DEF EventsStay, PhaseMoves, FinishHandleEvent, SameProgram, parallelVars,
                          channelVars, ServerEvents, userVars
    <2>5. QED
        BY <1>0, <1>1, <2>1, <2>2, <2>3, <2>4, EventsGoOn DEF FinishHandleEvent
<1>10. QED
    BY <1>2, <1>3, <1>4, <1>5, <1>6, <1>7, <1>8, <1>9 DEF ProgramUserStep

(* A step between ticks touches neither events nor sources. *)
LEMMA NothingMoves ==
    ASSUME Server, program' = program,
           UNCHANGED <<event_ready, event_pending, next_event_id, sourceVars, reg_slot,
                       source_batch, firing_source, event_batch, runner, stage,
                       parallel_events, working, channel, todo, model, payload, registered>>,
           phase \notin {"configure", "registering", "event_phase", "handling"},
           phase' \notin {"configure", "registering", "event_phase", "handling", "adding"}
    PROVE  Server'
<1>0. /\ ServerTodo /\ ServerSources /\ ServerEvents /\ ServerWorks
      /\ runner = program.runner /\ IsServerProgram(program)
    BY DEF Server
<1>1. ServerTodo'
    BY <1>0 DEF ServerTodo
<1>2. ServerSources'
    BY <1>0, SourcesGoOn
<1>3. EventsStay
    BY <1>0 DEF EventsStay, PhaseMoves, ServerEvents
<1>4. QED
    BY <1>0, <1>1, <1>2, <1>3, EventsGoOn DEF Server, IsServerProgram

(* Between ticks, but for the start of the run. *)
LEMMA ServerTickStep ==
    ASSUME Server, phase' # "panicked", program' = program,
           (ContinueMicroSteps /\ SilentStep) \/ ProgramStops \/ TickBegins \/ RealtimeWaits
           \/ RealtimeSleeps \/ RealtimeTickBegins \/ TickEnds
    PROVE  Server'
<1> USE DEF userVars, SameProgram, parallelVars, channelVars
<1>1. CASE ContinueMicroSteps /\ SilentStep
    BY <1>1, NothingMoves DEF ContinueMicroSteps, SilentStep
<1>2. CASE ProgramStops
    BY <1>2, NothingMoves DEF ProgramStops, HookedStopRun, StopRun
<1>3. CASE TickBegins
    BY <1>3, NothingMoves DEF TickBegins, HookedBeginTick, BeginTick
<1>4. CASE RealtimeWaits
    BY <1>4, NothingMoves
       DEF RealtimeWaits, Realtime!Wait, Realtime!Panic, Realtime!vars, Realtime!schedulerVars,
           Realtime!sourceVars, Realtime!executorVars, Realtime!batchVars, Realtime!runnerVars
<1>5. CASE RealtimeSleeps
    <2>1. UNCHANGED <<event_ready, event_pending, next_event_id, sourceVars, reg_slot,
                       source_batch, firing_source, event_batch, runner, stage,
                       parallel_events, working, channel, todo, model, payload, registered,
                       phase>>
        BY <1>5 DEF RealtimeSleeps, Realtime!Elapse, Realtime!WakeUp, Realtime!vars,
                Realtime!schedulerVars, Realtime!sourceVars, Realtime!executorVars,
                Realtime!batchVars, Realtime!runnerVars
    <2>2. /\ ServerTodo /\ ServerSources /\ ServerEvents /\ ServerWorks
          /\ runner = program.runner /\ IsServerProgram(program)
        BY DEF Server
    <2>3. ServerTodo'
        BY <2>1, <2>2 DEF ServerTodo
    <2>4. ServerSources'
        BY <2>1, <2>2, SourcesGoOn
    <2>5. EventsStay
        BY <2>1, <2>2 DEF EventsStay, PhaseMoves, ServerEvents
    <2>6. QED
        BY <2>1, <2>2, <2>3, <2>4, <2>5, EventsGoOn DEF Server, IsServerProgram
<1>6. CASE RealtimeTickBegins
    BY <1>6, NothingMoves DEF RealtimeTickBegins, HookedBeginTick, BeginTick
<1>7. CASE TickEnds
    <2>1. /\ EndTickWithIncrementTick \/ EndTickWithJumpToNextTick
          /\ UNCHANGED <<program, parallelVars, todo, userVars>>
        BY <1>7 DEF TickEnds, HookedEndTick
    <2>2. \A reason : ~Panic(reason)
        BY DEF Panic
    <2>3. /\ phase = "end_tick"
          /\ \E t, skipped : EndTickWith(TickStatus(t, skipped))
        BY <2>1, <2>2 DEF EndTickWithIncrementTick, EndTickWithJumpToNextTick, JumpTo
    <2>4. phase' \in {"stopped", "peek"}
          /\ UNCHANGED <<schedulerVars, sourceVars, reg_slot, batchVars, runnerVars>>
        BY <2>3 DEF EndTickWith
    <2>5. QED
        BY <2>1, <2>3, <2>4, NothingMoves
<1>8. QED
    BY <1>1, <1>2, <1>3, <1>4, <1>5, <1>6, <1>7

(* A flush moves the pending events. *)
LEMMA EventsAreFlushed ==
    ASSUME Server, program' = program, FlushPendingEvents, event_batch = {},
           UNCHANGED <<event_batch, payload, model, stage, parallel_events, working, channel>>,
           phase # "handling", phase' # "handling"
    PROVE  ServerEvents' /\ ServerWorks'
<1>0. ServerTodo /\ ServerEvents /\ ServerWorks
    BY DEF Server
<1>1. OnTheirWay' = OnTheirWay
    BY DEF OnTheirWay, FlushPendingEvents
<1>2. ServerEvents'
    BY <1>0, <1>1 DEF ServerEvents, FlushPendingEvents
<1>3. EventsMove
    BY <1>1 DEF EventsMove, PhaseMoves, FlushPendingEvents
<1>4. QED
    BY <1>0, <1>2, <1>3, WorkGoesOn

(* The start of the run. *)
LEMMA ServerStarts ==
    ASSUME Server, program' = program,
           StartSimulation \/ (FinishRegistration /\ SilentStep)
    PROVE  Server'
<1>0. /\ ServerTodo /\ ServerSources /\ ServerEvents /\ ServerWorks
      /\ runner = program.runner /\ IsServerProgram(program)
    BY DEF Server
<1> USE DEF userVars, SameProgram, parallelVars, channelVars
<1>1. CASE StartSimulation
    <2>1. BeginSimulation /\ EnterRegistration(0) /\ UNCHANGED userVars /\ SameProgram
        BY <1>1 DEF StartSimulation, HookedBeginSimulation
    <2>2. ServerTodo'
        BY <2>1, RegistrationIsEntered DEF ServerTodo, BeginSimulation
    <2>3. ServerSources'
        BY <1>0, <2>1 DEF ServerSources, BeginSimulation, FlushPendingSources
    <2>4. EventsStay
        BY <1>0, <2>1 DEF EventsStay, PhaseMoves, BeginSimulation, ServerEvents
    <2>5. QED
        BY <1>0, <2>1, <2>2, <2>3, <2>4, EventsGoOn DEF Server, IsServerProgram, BeginSimulation
<1>2. CASE FinishRegistration /\ SilentStep
    <2>1. /\ phase = "registering" /\ phase' = "peek" /\ FlushPendingEvents
          /\ UNCHANGED <<sourceVars, reg_slot, batchVars, runner, todo>>
          /\ UNCHANGED userVars /\ SameProgram
        BY <1>2 DEF FinishRegistration, SilentStep
    <2>2. ServerTodo'
        BY <1>0, <2>1 DEF ServerTodo
    <2>3. ServerSources'
        BY <1>0, <2>1, SourcesGoOn
    <2>4. ServerEvents' /\ ServerWorks'
        BY <1>0, <2>1, EventsAreFlushed DEF ServerEvents
    <2>5. QED
        BY <1>0, <2>1, <2>2, <2>3, <2>4 DEF Server, IsServerProgram
<1>3. QED
    BY <1>1, <1>2

(* The runner inside a tick, but for the handlers and the pool. *)
LEMMA ServerMicroStep ==
    ASSUME Server, phase' # "panicked", program' = program,
           SourcePhaseStarts \/ (\E source \in source_batch : SourceFires(source))
           \/ EventPhaseStarts \/ SequentialStepEnds \/ ParallelStepEnds \/ RestIsDiscarded
    PROVE  Server'
<1>0. /\ ServerTodo /\ ServerSources /\ ServerEvents /\ ServerWorks
      /\ runner = program.runner /\ IsServerProgram(program)
    BY DEF Server
<1> USE DEF userVars, SameProgram, parallelVars, channelVars
<1>1. ASSUME ServerTodo', ServerSources', ServerEvents' /\ ServerWorks', runner' = runner
      PROVE  Server'
    BY <1>1, <1>0 DEF Server, IsServerProgram
<1>2. \A reason : ~Panic(reason)
    BY DEF Panic
<1>3. CASE SourcePhaseStarts
    <2>1. /\ phase = "micro_step" /\ phase' = "source_phase"
          /\ source_ready' \cup source_batch' \subseteq source_ready
          /\ UNCHANGED <<schedulerVars, source_registry, next_source_id, source_pending,
                         reg_slot, event_batch, firing_source, runnerVars, todo>>
          /\ UNCHANGED userVars /\ SameProgram
        BY <1>2, <1>3 DEF SourcePhaseStarts, HookedStartSourcePhase, StartSourcePhase,
                          DrainReadySources, DueAt
    <2>2. ServerTodo'
        BY <1>0, <2>1 DEF ServerTodo
    <2>3. ServerSources'
        BY <1>0, <2>1, SourcesGoOn
    <2>4. EventsStay
        BY <1>0, <2>1 DEF EventsStay, PhaseMoves, ServerEvents
    <2>5. QED
        BY <1>0, <1>1, <2>1, <2>2, <2>3, <2>4, EventsGoOn
<1>4. CASE \E source \in source_batch : SourceFires(source)
    <2>1. PICK source \in source_batch : SourceFires(source)
        BY <1>4
    <2>2. /\ phase = "source_phase" /\ phase' = "firing"
          /\ source_batch' = source_batch \ {source} /\ firing_source' = {source}
          /\ UNCHANGED <<schedulerVars, sourceVars, reg_slot, event_batch, runnerVars>>
          /\ todo' = Fire(registered[source.source_id + 1])
          /\ UNCHANGED userVars /\ SameProgram
        BY <2>1 DEF SourceFires, HookedFireSource, FireSource
    <2>3. registered[source.source_id + 1] \in Generators
        BY <1>0, <2>1 DEF ServerSources
    <2>4. todo' \in Seq(SourceCalls)
        <3>1. todo' = GeneratorFire(registered[source.source_id + 1])
            BY <2>2 DEF Fire, User, Server
        <3>2. QED
            BY <2>3, <3>1, GeneratorCallsSources
    <2>5. ServerTodo'
        BY <2>2, <2>4 DEF ServerTodo
    <2>6. ServerSources'
        BY <1>0, <2>1, <2>2, SourcesGoOn
    <2>7. EventsStay
        BY <1>0, <2>2 DEF EventsStay, PhaseMoves, ServerEvents
    <2>8. QED
        BY <1>0, <1>1, <2>2, <2>5, <2>6, <2>7, EventsGoOn
<1>5. CASE EventPhaseStarts
    <2> DEFINE due == DueAt(event_ready, now)
    <2>1. /\ phase = "source_phase" /\ phase' = "event_phase"
          /\ event_ready' = event_ready \ due /\ event_batch' = due
          /\ UNCHANGED <<event_pending, next_event_id, sourceVars, reg_slot, source_batch,
                         firing_source, runnerVars, todo>>
          /\ UNCHANGED userVars /\ SameProgram
        BY <1>2, <1>5 DEF EventPhaseStarts, HookedStartEventPhase, StartEventPhase,
                          DrainReadyEvents
    <2>2. due \subseteq event_ready
        BY DEF DueAt
    <2> HIDE DEF due
    <2>3. ServerTodo'
        BY <1>0, <2>1 DEF ServerTodo
    <2>4. ServerSources'
        BY <1>0, <2>1, SourcesGoOn
    <2>5. event_batch = {}
        BY <1>0, <2>1 DEF ServerEvents
    <2>6. OnTheirWay' = OnTheirWay
        BY <2>1, <2>2, <2>5 DEF OnTheirWay
    <2>7. ServerEvents'
        BY <1>0, <2>1, <2>2, <2>6 DEF ServerEvents
    <2>8. EventsMove
        BY <2>1, <2>6 DEF EventsMove, PhaseMoves
    <2>9. QED
        BY <1>0, <1>1, <2>1, <2>3, <2>4, <2>7, <2>8, WorkGoesOn
<1>6. CASE SequentialStepEnds \/ ParallelStepEnds
    <2>1. /\ phase = "event_phase" /\ event_batch = {} /\ phase' \in {"continue", "end_tick"}
          /\ FlushPendingSources /\ FlushPendingEvents
          /\ UNCHANGED <<reg_slot, batchVars, runnerVars, todo, payload, registered, model>>
        BY <1>2, <1>6 DEF SequentialStepEnds, ParallelStepEnds, HookedEndMicroStep,
                          EndMicroStep
    <2>2. ServerTodo'
        BY <1>0, <2>1 DEF ServerTodo
    <2>3. ServerSources'
        BY <1>0, <2>1, SourcesGoOn DEF FlushPendingSources
    <2>4. CASE SequentialStepEnds
        <3>1. UNCHANGED <<stage, parallel_events, working, channel>>
            BY <2>4 DEF SequentialStepEnds
        <3>2. QED
            BY <1>0, <1>1, <2>1, <2>2, <2>3, <3>1, EventsAreFlushed
    <2>5. CASE ParallelStepEnds
        <3>1. /\ stage = "applying" /\ stage' = "sync" /\ channel = <<>> /\ channel' = channel
              /\ UNCHANGED <<parallel_events, working>>
            BY <2>5 DEF ParallelStepEnds, CompleteEventPhase, NothingReceived
        <3>2. IsParallel /\ IsParallel'
            BY <1>0, <3>1 DEF ServerWorks, SequentialServer, IsParallel
        <3>3. OnTheirWay' = OnTheirWay
            BY <2>1, <3>1 DEF OnTheirWay, FlushPendingEvents
        <3>4. ServerEvents'
            BY <1>0, <2>1, <3>1, <3>3 DEF ServerEvents, FlushPendingEvents
        <3>5. /\ \A call : HasSent(call)' <=> HasSent(call)
              /\ TakerOnItsWay => TakerOnItsWay'
            BY <2>1, <3>1, <3>3 DEF HasSent, TakerOnItsWay
        <3>6. ParallelServer'
            BY <1>0, <2>1, <3>1, <3>2, <3>5 DEF ServerWorks, ParallelServer, FlushPendingEvents
        <3>7. QED
            BY <1>1, <2>1, <2>2, <2>3, <3>2, <3>4, <3>6 DEF ServerWorks
    <2>6. QED
        BY <1>6, <2>4, <2>5
<1>7. CASE RestIsDiscarded
    BY <1>0, <1>7 DEF RestIsDiscarded, DiscardAtLimit, LimitReached, Strategy, IsServerProgram
<1>8. QED
    BY <1>3, <1>4, <1>5, <1>6, <1>7

(* The sequential server is given an event. *)
LEMMA ServerHandles ==
    ASSUME Server, NEW event \in event_batch, EventIsHandled(event), program' = program
    PROVE  Server'
<1>0. /\ ServerTodo /\ ServerSources /\ ServerEvents /\ ServerWorks
      /\ runner = program.runner /\ IsServerProgram(program) /\ program.user = "server"
    BY DEF Server
<1> DEFINE p == payload[event.event_id + 1]
<1>1. event \in OnTheirWay
    BY DEF OnTheirWay
<1>2. ~IsParallel
    <2>1. event.priority = 0
        BY <1>0, <1>1 DEF ServerEvents, MinimumPriority
    <2>2. IsParallel => 0 < SyncPriorityThreshold /\ 0 >= SyncPriorityThreshold
        BY <1>0, <2>1 DEF EventIsHandled, HandleSynchronously, IsSync, IsServerProgram,
                          IsParallel, MinimumPriority
    <2>3. QED
        BY <2>2, ParallelAssumption
<1>3. /\ phase = "event_phase" /\ phase' = "handling"
      /\ event_batch' = event_batch \ {event}
      /\ UNCHANGED <<schedulerVars, sourceVars, reg_slot, source_batch, firing_source,
                     runnerVars, stage, parallel_events, working, channel, payload,
                     registered>>
      /\ \E reaction \in ServerHandleEvent(model, p) :
            model' = reaction.model /\ todo' = reaction.calls
    BY <1>0, <1>2 DEF EventIsHandled, HookedHandleEvent, HandleEvent, Enters,
                      HandleEventReactions, User, parallelVars, channelVars
<1> HIDE DEF p
<1>4. SequentialServer
    BY <1>0, <1>2 DEF ServerWorks
<1>5. OnTheirWay' = OnTheirWay \ {event}
    <2>1. parallel_events = {} /\ working = {}
        BY <1>0, <1>4 DEF ServerEvents, SequentialServer
    <2>2. event \notin event_ready \cup event_pending
        BY <1>0 DEF ServerEvents
    <2>3. QED
        BY <1>3, <2>1, <2>2 DEF OnTheirWay
<1>6. ServerSources'
    BY <1>0, <1>3, SourcesGoOn
<1>7. ServerEvents'
    BY <1>0, <1>3, <1>5 DEF ServerEvents
<1>8. Processed' = IF p = JobProcessed THEN Processed \ {event} ELSE Processed
    BY <1>1, <1>3, <1>5 DEF Processed, p
<1>9. /\ model \in ServerModels /\ (model.queue > 0 => model.is_busy)
      /\ IF model.is_busy THEN \E e \in Processed : Processed = {e} ELSE Processed = {}
    BY <1>3, <1>4 DEF SequentialServer
<1>10. /\ todo' \in {<<>>, <<Processes>>}
       /\ model' \in ServerModels /\ (model'.queue > 0 => model'.is_busy)
       /\ IF todo' # <<>> THEN model'.is_busy /\ Processed' = {}
          ELSE IF model'.is_busy THEN \E e \in Processed' : Processed' = {e} ELSE Processed' = {}
    <2>1. CASE p = JobArrived
        <3>1. Processed' = Processed
            BY <1>8, <2>1 DEF JobArrived, JobProcessed
        <3>2. model' = ServeArrival(model).model /\ todo' = ServeArrival(model).calls
            BY <1>3, <2>1 DEF ServerHandleEvent
        <3>3. CASE model.is_busy
            <4>1. model' = [model EXCEPT !.queue = @ + 1] /\ todo' = <<>>
                BY <3>2, <3>3 DEF ServeArrival, Reaction
            <4>2. QED
                BY <1>9, <3>1, <3>3, <4>1 DEF ServerModels
        <3>4. CASE ~model.is_busy
            <4>1. model' = [model EXCEPT !.is_busy = TRUE] /\ todo' = <<Processes>>
                BY <3>2, <3>4 DEF ServeArrival, Reaction
            <4>2. QED
                BY <1>9, <3>1, <3>4, <4>1 DEF ServerModels
        <3>5. QED
            BY <3>3, <3>4
    <2>2. CASE p # JobArrived
        <3>1. p = JobProcessed
            <4>1. event.event_id + 1 \in 1 .. Len(payload)
                BY <1>0, <1>1 DEF ServerEvents
            <4>2. p \in {JobArrived, JobProcessed}
                BY <1>4, <4>1 DEF SequentialServer, p
            <4>3. QED
                BY <2>2, <4>2
        <3>2. event \in Processed
            BY <1>1, <3>1 DEF Processed, p
        <3>3. model.is_busy /\ Processed' = {}
            BY <1>8, <1>9, <3>1, <3>2
        <3>4. model' = ServeNext(model).model /\ todo' = ServeNext(model).calls
            BY <1>3, <2>2 DEF ServerHandleEvent
        <3>5. CASE model.queue > 0
            <4>1. model' = [model EXCEPT !.queue = @ - 1] /\ todo' = <<Processes>>
                BY <3>4, <3>5 DEF ServeNext, Reaction
            <4>2. QED
                BY <1>9, <3>3, <3>5, <4>1 DEF ServerModels
        <3>6. CASE ~(model.queue > 0)
            <4>1. model' = [model EXCEPT !.is_busy = FALSE] /\ todo' = <<>>
                BY <3>4, <3>6 DEF ServeNext, Reaction
            <4>2. QED
                BY <1>9, <3>3, <3>6, <4>1 DEF ServerModels
        <3>7. QED
            BY <3>5, <3>6
    <2>3. QED
        BY <2>1, <2>2
<1>11. ServerTodo'
    BY <1>3, <1>10 DEF ServerTodo, TakerCalls
<1>12. ServerWorks'
    BY <1>2, <1>3, <1>4, <1>10 DEF ServerWorks, SequentialServer, IsParallel
<1>13. QED
    BY <1>0, <1>3, <1>6, <1>7, <1>11, <1>12 DEF Server, IsServerProgram

(***************************************************************************)
(* The steps of the parallel server.                                       *)
(***************************************************************************)

(* A step of the pool leaves the sources, the model and the main thread's callbacks. *)
PoolStays ==
    /\ UNCHANGED <<program, sourceVars, reg_slot, source_batch, firing_source, runnerVars,
                   todo, phase, model, payload, registered, event_ready, event_pending,
                   next_event_id>>

(* Where no event comes or goes, the invariant stays. *)
LEMMA PoolKeeps ==
    ASSUME Server, PoolStays, IsParallel, ServerEvents',
           OnTheirWay' = OnTheirWay, working' = working, channel' = channel
    PROVE  Server'
<1>0. /\ ServerTodo /\ ServerSources /\ ServerEvents /\ ParallelServer
      /\ runner = program.runner /\ IsServerProgram(program)
    BY DEF Server, ServerWorks
<1>1. ServerTodo'
    BY <1>0 DEF ServerTodo, PoolStays
<1>2. ServerSources'
    BY <1>0, SourcesGoOn DEF PoolStays
<1>3. /\ \A call : HasSent(call)' <=> HasSent(call)
      /\ TakerOnItsWay => TakerOnItsWay'
    BY DEF HasSent, TakerOnItsWay, PoolStays
<1>4. ParallelServer'
    BY <1>0, <1>3 DEF ParallelServer, PoolStays
<1>5. QED
    BY <1>0, <1>1, <1>2, <1>4 DEF Server, ServerWorks, IsServerProgram, IsParallel, PoolStays

(* The rest of the queue goes to the pool; the workers are joined. *)
LEMMA WorkersStart ==
    ASSUME Server, IsParallel, PoolStays,
           StartWorkers \/ JoinWorkers
    PROVE  Server'
<1>0. ServerEvents
    BY DEF Server
<1>1. CASE StartWorkers
    <2>1. /\ phase = "event_phase" /\ stage = "sync" /\ stage' = "working"
          /\ event_batch' = {} /\ parallel_events' = event_batch
          /\ UNCHANGED <<working, channel>>
        BY <1>1 DEF StartWorkers, TakeAll, channelVars
    <2>2. OnTheirWay' = OnTheirWay
        BY <1>0, <2>1 DEF OnTheirWay, ServerEvents, PoolStays
    <2>3. ServerEvents'
        BY <1>0, <2>1, <2>2 DEF ServerEvents, PoolStays
    <2>4. QED
        BY <2>1, <2>2, <2>3, PoolKeeps
<1>2. CASE JoinWorkers
    <2>1. /\ parallel_events = {} /\ working = {} /\ stage' = "applying"
          /\ UNCHANGED <<event_batch, parallel_events, working, channel>>
        BY <1>2 DEF JoinWorkers, WorkIsDone, channelVars
    <2>2. OnTheirWay' = OnTheirWay
        BY <2>1 DEF OnTheirWay, PoolStays
    <2>3. ServerEvents'
        BY <1>0, <2>1, <2>2 DEF ServerEvents, PoolStays
    <2>4. QED
        BY <2>1, <2>2, <2>3, PoolKeeps
<1>3. QED
    BY <1>1, <1>2

(* A worker takes an event, sends its command, and returns. *)
LEMMA WorkerWorks ==
    ASSUME Server, IsParallel, PoolStays,
           \/ \E event \in parallel_events : BeginWork(event)
           \/ \E call \in working :
                 call.sends < CommandsOf(payload[call.event.event_id + 1]) /\ SendCommand(call)
           \/ \E call \in working :
                 call.sends = CommandsOf(payload[call.event.event_id + 1]) /\ FinishWork(call)
    PROVE  Server'
<1>0. /\ ServerTodo /\ ServerSources /\ ServerEvents /\ ParallelServer
      /\ runner = program.runner /\ IsServerProgram(program) /\ program.user = "server"
    BY DEF Server, ServerWorks
<1>1. ServerTodo' /\ ServerSources'
    BY <1>0, SourcesGoOn DEF ServerTodo, PoolStays
<1>2. ASSUME ServerEvents', ParallelServer'
      PROVE  Server'
    BY <1>0, <1>1, <1>2 DEF Server, ServerWorks, IsServerProgram, IsParallel, PoolStays
<1>3. \A p : CommandsOf(p) = 1
    BY <1>0 DEF CommandsOf, User
<1>4. CASE \E event \in parallel_events : BeginWork(event)
    <2>1. PICK event \in parallel_events : BeginWork(event)
        BY <1>4
    <2> DEFINE new == [event |-> event, sends |-> 0]
    <2>2. /\ stage = "working" /\ parallel_events' = parallel_events \ {event}
          /\ working' = working \cup {new}
          /\ UNCHANGED <<event_batch, stage, channel>>
        BY <2>1 DEF BeginWork, channelVars
    <2>3. new.event = event /\ new.sends = 0 /\ new = [event |-> new.event, sends |-> new.sends]
        OBVIOUS
    <2> HIDE DEF new
    <2>4. OnTheirWay' = OnTheirWay
        <3>1. {call.event : call \in working'} = {call.event : call \in working} \cup {event}
            BY <2>2, <2>3
        <3>2. QED
            BY <2>1, <2>2, <3>1 DEF OnTheirWay, PoolStays
    <2>5. ServerEvents'
        BY <1>0, <2>2, <2>4 DEF ServerEvents, PoolStays
    <2>6. /\ \A call : HasSent(call)' <=> HasSent(call)
          /\ TakerOnItsWay => TakerOnItsWay'
        BY <2>2, <2>4 DEF HasSent, TakerOnItsWay, PoolStays
    <2>7. ParallelServer'
        BY <1>0, <2>2, <2>3, <2>6 DEF ParallelServer, PoolStays
    <2>8. QED
        BY <1>2, <2>5, <2>7
<1>5. CASE \E call \in working : call.sends < 1 /\ SendCommand(call)
    <2>1. PICK call \in working : call.sends < 1 /\ SendCommand(call)
        BY <1>5
    <2> DEFINE command == [event_id |-> call.event.event_id, nth |-> call.sends]
               new == [call EXCEPT !.sends = @ + 1]
               Sendable == [event_id : 0 .. next_event_id - 1, nth : {0}]
    <2>2. call = [event |-> call.event, sends |-> call.sends] /\ call.sends = 0
        BY <1>0, <2>1 DEF ParallelServer
    <2>3. /\ stage = "working" /\ working' = (working \ {call}) \cup {new}
          /\ channel' = Append(channel, command)
          /\ UNCHANGED <<event_batch, stage, parallel_events>>
        BY <2>1 DEF SendCommand, Enqueue
    <2>4. new = [event |-> call.event, sends |-> 1]
        BY <2>2
    <2>5. new.event = call.event /\ new.sends = 1 /\ new = [event |-> new.event, sends |-> new.sends]
        BY <2>4
    <2>6. command.event_id = call.event.event_id /\ command \in Sendable
        <3>1. call.event \in OnTheirWay
            BY <2>1 DEF OnTheirWay
        <3>2. call.event.event_id \in 0 .. next_event_id - 1
            BY <1>0, <3>1 DEF ServerEvents
        <3>3. QED
            BY <2>2, <3>2
    <2>7. channel \in Seq(Sendable)
        BY <1>0 DEF ParallelServer
    <2> HIDE DEF new, command, Sendable
    <2>8. OnTheirWay' = OnTheirWay
        <3>1. {c.event : c \in working'} = {c.event : c \in working}
            BY <2>1, <2>3, <2>5
        <3>2. QED
            BY <2>3, <3>1 DEF OnTheirWay, PoolStays
    <2>9. ServerEvents'
        BY <1>0, <2>3, <2>8 DEF ServerEvents, PoolStays
    <2>10. /\ channel' \in Seq(Sendable)
           /\ \A k \in DOMAIN channel : k \in DOMAIN channel' /\ channel'[k] = channel[k]
           /\ Len(channel) + 1 \in DOMAIN channel' /\ channel'[Len(channel) + 1] = command
        BY <2>3, <2>6, <2>7
    <2>11. /\ \A c : HasSent(c) => HasSent(c)'
           /\ TakerOnItsWay => TakerOnItsWay'
        BY <2>8, <2>10 DEF HasSent, TakerOnItsWay, PoolStays
    <2>12. HasSent(new)'
        <3>1. channel'[Len(channel) + 1].event_id = new.event.event_id
            BY <2>5, <2>6, <2>10
        <3>2. QED
            BY <2>10, <3>1 DEF HasSent
    <2>13. channel' \in Seq([event_id : 0 .. next_event_id' - 1, nth : {0}])
        BY <2>10 DEF Sendable, PoolStays
    <2>14. \A c \in working' :
              /\ c = [event |-> c.event, sends |-> c.sends]
              /\ c.sends \in {0, 1}
              /\ c.sends = 1 => HasSent(c)'
        BY <1>0, <2>3, <2>5, <2>11, <2>12 DEF ParallelServer
    <2>15. ParallelServer'
        BY <1>0, <2>11, <2>13, <2>14 DEF ParallelServer, PoolStays, HasSent
    <2>16. QED
        BY <1>2, <2>9, <2>15
<1>6. CASE \E call \in working : call.sends = 1 /\ FinishWork(call)
    <2>1. PICK call \in working : call.sends = 1 /\ FinishWork(call)
        BY <1>6
    <2>2. /\ stage = "working" /\ working' = working \ {call}
          /\ UNCHANGED <<event_batch, stage, parallel_events, channel>>
        BY <2>1 DEF FinishWork, channelVars
    <2>3. OnTheirWay' \subseteq OnTheirWay /\ OnTheirWay \subseteq OnTheirWay' \cup {call.event}
        BY <2>2 DEF OnTheirWay, PoolStays
    <2>4. ServerEvents'
        BY <1>0, <2>2, <2>3 DEF ServerEvents, PoolStays
    <2>5. HasSent(call)
        BY <1>0, <2>1 DEF ParallelServer
    <2>6. TakerOnItsWay => TakerOnItsWay'
        BY <2>2, <2>3, <2>5 DEF HasSent, TakerOnItsWay, PoolStays
    <2>7. \A c : HasSent(c)' <=> HasSent(c)
        BY <2>2 DEF HasSent
    <2>8. ParallelServer'
        BY <1>0, <2>2, <2>6, <2>7 DEF ParallelServer, PoolStays
    <2>9. QED
        BY <1>2, <2>4, <2>8
<1>7. QED
    BY <1>3, <1>4, <1>5, <1>6

(* The pool, as a whole. *)
LEMMA ServerPoolStep ==
    ASSUME Server, PoolWorks
    PROVE  Server'
<1>1. IsParallel
    BY DEF PoolWorks
<1>2. PoolStays
    BY DEF PoolWorks, PoolStays, StartWorkers, BeginWork, SendCommand, FinishWork, JoinWorkers,
           userVars
<1>3. QED
    BY <1>1, <1>2, WorkersStart, WorkerWorks DEF PoolWorks

(* A command is applied: it enqueues a job, and the taker it schedules is on its way, or *)
(* it takes one, and schedules the next taker.                                            *)
LEMMA ServerApplies ==
    ASSUME Server, CommandIsApplied, program' = program
    PROVE  Server'
<1>0. /\ ServerTodo /\ ServerSources /\ ServerEvents /\ ServerWorks
      /\ runner = program.runner /\ IsServerProgram(program) /\ program.user = "server"
    BY DEF Server
<1> DEFINE p == payload[Head(channel).event_id + 1]
           Sendable == [event_id : 0 .. next_event_id - 1, nth : {0}]
<1>1. /\ phase = "event_phase" /\ phase' = "handling"
      /\ stage = "applying" /\ channel # <<>> /\ channel' = Tail(channel)
      /\ UNCHANGED <<schedulerVars, sourceVars, reg_slot, batchVars, runnerVars, stage,
                     parallel_events, working, payload, registered>>
      /\ \E reaction \in ServerApplyCommand(model, p) :
            model' = reaction.model /\ todo' = reaction.calls
    BY <1>0 DEF CommandIsApplied, ApplyCommand, Enters, ApplyCommandReactions, User
<1> HIDE DEF p
<1>2. IsParallel /\ ParallelServer
    BY <1>0, <1>1 DEF ServerWorks, SequentialServer
<1>3. OnTheirWay' = OnTheirWay
    BY <1>1 DEF OnTheirWay
<1>4. ServerSources'
    BY <1>0, <1>1, SourcesGoOn
<1>5. ServerEvents'
    BY <1>0, <1>1, <1>3 DEF ServerEvents
<1>6. channel \in Seq(Sendable)
    BY <1>2 DEF ParallelServer
<1>7. /\ todo' = <<>> \/ \E call \in TakerCalls : todo' = <<call>>
      /\ model' \in ServerModels
      /\ model'.queue > 0 =>
            todo' # <<>> \/ (p = JobArrived /\ model.queue > 0)
    <2>1. model \in ServerModels
        BY <1>2 DEF ParallelServer
    <2>2. CASE p = JobArrived
        <3>1. model' = EnqueueJob(model).model /\ todo' = EnqueueJob(model).calls
            BY <1>1, <2>2 DEF ServerApplyCommand
        <3>2. model' = [queue |-> model.queue + 1, is_busy |-> TRUE]
            BY <3>1 DEF EnqueueJob, Reaction
        <3>3. todo' = IF model.queue < WorkerCount
                      THEN <<Schedules(0, MinimumPriority, JobProcessNext)>> ELSE <<>>
            BY <3>1 DEF EnqueueJob, Reaction
        <3>4. todo' # <<>> \/ model.queue > 0
            BY <2>1, <3>3 DEF ServerModels, WorkerCount
        <3>5. QED
            BY <2>1, <2>2, <3>2, <3>3, <3>4 DEF ServerModels, TakerCalls
    <2>3. CASE p # JobArrived
        <3>1. model' = ProcessNextOrIdle(model).model /\ todo' = ProcessNextOrIdle(model).calls
            BY <1>1, <2>3 DEF ServerApplyCommand
        <3>2. CASE model.queue > 0
            <4>1. /\ model' = [queue |-> model.queue - 1, is_busy |-> TRUE]
                  /\ todo' = <<Schedules(ParallelProcessingTime, MinimumPriority, JobProcessed)>>
                BY <3>1, <3>2 DEF ProcessNextOrIdle, Reaction
            <4>2. QED
                BY <2>1, <3>2, <4>1 DEF ServerModels, TakerCalls
        <3>3. CASE ~(model.queue > 0)
            <4>1. model' = [model EXCEPT !.is_busy = FALSE] /\ todo' = <<>>
                BY <3>1, <3>3 DEF ProcessNextOrIdle, Reaction
            <4>2. QED
                BY <2>1, <3>3, <4>1 DEF ServerModels
        <3>4. QED
            BY <3>2, <3>3
    <2>4. QED
        BY <2>2, <2>3
<1>8. ServerTodo'
    BY <1>1, <1>7 DEF ServerTodo
<1>9. model'.queue > 0 => TakerOnItsWay'
    <2>1. CASE todo' # <<>>
        BY <1>1, <2>1 DEF TakerOnItsWay
    <2>2. CASE p = JobArrived /\ model.queue > 0
        <3>1. TakerOnItsWay
            BY <1>2, <2>2 DEF ParallelServer
        <3>2. CASE \E e \in OnTheirWay : payload[e.event_id + 1] \in Takers
            BY <1>1, <1>3, <3>2 DEF TakerOnItsWay
        <3>3. CASE \E k \in DOMAIN channel : payload[channel[k].event_id + 1] \in Takers
            <4>1. PICK k \in DOMAIN channel : payload[channel[k].event_id + 1] \in Takers
                BY <3>3
            <4>2. k # 1
                BY <1>1, <1>6, <2>2, <4>1 DEF p, Takers, JobArrived, JobProcessed, JobProcessNext
            <4> HIDE DEF Sendable
            <4>3. k - 1 \in DOMAIN channel' /\ channel'[k - 1] = channel[k]
                BY <1>1, <1>6, <4>1, <4>2
            <4>4. QED
                BY <1>1, <4>1, <4>3 DEF TakerOnItsWay
        <3>4. QED
            BY <1>1, <3>1, <3>2, <3>3 DEF TakerOnItsWay
    <2>3. QED
        BY <1>7, <2>1, <2>2
<1>10. working = {}
    BY <1>0, <1>1 DEF ServerEvents
<1>11. channel' \in Seq([event_id : 0 .. next_event_id' - 1, nth : {0}])
    <2>1. Sendable' = Sendable
        BY <1>1
    <2> HIDE DEF Sendable
    <2>2. channel' \in Seq(Sendable')
        BY <1>1, <1>6, <2>1
    <2>3. QED
        BY <2>2 DEF Sendable
<1>12. ParallelServer'
    BY <1>1, <1>7, <1>9, <1>10, <1>11 DEF ParallelServer
<1>13. QED
    BY <1>0, <1>1, <1>2, <1>4, <1>5, <1>8, <1>12 DEF Server, ServerWorks, IsServerProgram, IsParallel

(***************************************************************************)
(* No job is stranded.                                                     *)
(***************************************************************************)
ServerUnlessPanicked == program.user = "server" => phase = "panicked" \/ Server

(* Every step that does not panic keeps the invariant. *)
LEMMA ServerStep ==
    ASSUME Server, [ProgramNext]_programVars, phase' # "panicked"
    PROVE  Server'
<1>1. program' = program
    BY ProgramStays
<1>2. CASE ProgramUserStep
    BY <1>1, <1>2, ServerUserStep
<1>3. CASE ProgramRunnerStep
    <2>1. CASE SilentStep
        BY <1>1, <2>1, ServerTickStep, ServerStarts DEF SilentStep
    <2>2. QED
        BY <1>1, <1>3, <2>1, ServerTickStep, ServerStarts, ServerMicroStep, ServerHandles,
           ServerPoolStep, ServerApplies DEF ProgramRunnerStep
<1>4. CASE UNCHANGED programVars
    <2>1. UNCHANGED <<schedulerVars, sourceVars, executorVars, reg_slot, batchVars, runnerVars,
                       todo, phase, stage, parallel_events, working, channel, model, payload,
                       registered>>
        BY <1>4 DEF programVars, hookedVars, parallelVars, channelVars, userVars
    <2>2. OnTheirWay' = OnTheirWay
        BY <2>1 DEF OnTheirWay
    <2>3. ServerTodo' /\ ServerSources' /\ ServerEvents'
        BY <2>1, <2>2 DEF Server, ServerTodo, ServerSources, ServerEvents
    <2>4. (SequentialServer => SequentialServer') /\ (ParallelServer => ParallelServer')
        BY <2>1, <2>2 DEF SequentialServer, ParallelServer, Processed, TakerOnItsWay, HasSent
    <2>5. QED
        BY <1>1, <2>1, <2>3, <2>4 DEF Server, ServerWorks, IsServerProgram, IsParallel
<1>5. QED
    BY <1>2, <1>3, <1>4 DEF ProgramNext, ProgramIsOver

(* The engine is empty when it is made. *)
LEMMA InitServer ==
    ASSUME ProgramInit, program.user = "server"
    PROVE  Server
<1>1. IsServerProgram(program)
    BY ExamplesAssumption DEF ProgramInit
<1>2. /\ Init /\ stage = "sync" /\ parallel_events = {} /\ working = {} /\ channel = <<>>
      /\ todo = program.setup /\ model = Idle /\ payload = <<>> /\ registered = <<>>
      /\ runner = program.runner
    BY <1>1 DEF ProgramInit, HookedInit, IsServerProgram
<1>3. /\ event_ready = {} /\ event_pending = {} /\ event_batch = {} /\ next_event_id = 0
      /\ source_registry = 0 /\ next_source_id = 0 /\ source_ready = {} /\ source_pending = {}
      /\ source_batch = {} /\ firing_source = {} /\ phase = "configure" /\ reg_slot = 0
    BY <1>2 DEF Init, SchedulerInit, SourceInit
<1>4. OnTheirWay = {}
    BY <1>2, <1>3 DEF OnTheirWay
<1>5. ServerTodo
    BY <1>1, <1>2, <1>3 DEF ServerTodo, IsServerProgram
<1>6. ServerSources
    BY <1>2, <1>3 DEF ServerSources
<1>7. ServerEvents
    BY <1>2, <1>3, <1>4 DEF ServerEvents
<1>8. ServerWorks
    BY <1>2, <1>3, <1>4 DEF ServerWorks, ParallelServer, SequentialServer, Idle, ServerModels,
                            Processed
<1>9. QED
    BY <1>1, <1>2, <1>5, <1>6, <1>7, <1>8 DEF Server

(* The invariant says more than the property. *)
LEMMA ServerStrandsNoJob ==
    ASSUME Server
    PROVE  NoJobIsStranded
<1>1. CASE IsParallel /\ phase # "handling"
    <2>1. ParallelServer
        BY <1>1 DEF Server, ServerWorks
    <2>2. TakerOnItsWay => \/ PayloadsOnTheirWay \cap {JobProcessed, JobProcessNext} # {}
                           \/ \E k \in DOMAIN channel :
                                  payload[channel[k].event_id + 1] # JobArrived
        BY <1>1 DEF TakerOnItsWay, PayloadsOnTheirWay, Takers, JobArrived, JobProcessed,
                    JobProcessNext
    <2>3. QED
        BY <1>1, <2>1, <2>2 DEF ParallelServer, NoJobIsStranded
<1>2. CASE ~IsParallel /\ phase # "handling"
    <2>1. SequentialServer
        BY <1>2 DEF Server, ServerWorks
    <2>2. Jobs(JobProcessed) = Cardinality(Processed)
        BY DEF Jobs, Processed
    <2>3. Jobs(JobProcessed) = IF model.is_busy THEN 1 ELSE 0
        BY <1>2, <2>1, <2>2, FS_EmptySet, FS_Singleton DEF SequentialServer
    <2>4. QED
        BY <1>2, <2>1, <2>3 DEF SequentialServer, NoJobIsStranded
<1>3. QED
    BY <1>1, <1>2 DEF NoJobIsStranded

(* The servers of the examples strand no job, whatever generators main registers, with   *)
(* any number of workers and however these interleave: the sequential one is busy exactly *)
(* while one JobProcessed is on its way; where the parallel one has a queue, something    *)
(* that takes from it is on its way.                                                      *)
THEOREM NoJobIsEverStranded == ProgramSpec => []NoJobIsStranded
<1>1. ProgramInit => ServerUnlessPanicked
    BY InitServer DEF ServerUnlessPanicked
<1>2. ServerUnlessPanicked /\ [ProgramNext]_programVars => ServerUnlessPanicked'
    BY ProgramStays, PanickedStays, ServerStep DEF ServerUnlessPanicked
<1>3. ServerUnlessPanicked => NoJobIsStranded
    BY ServerStrandsNoJob DEF ServerUnlessPanicked, NoJobIsStranded, User
<1>4. QED
    BY <1>1, <1>2, <1>3, PTL DEF ProgramSpec

(***************************************************************************)
(* The ids that `retain` leaves, by induction over those it looks at.      *)
(***************************************************************************)
(* `retain` as a function that recurs on how many ids it has looked at. *)
IsRetaining(s, x, f) ==
    \A n \in 0 .. Len(s) :
        f[n] = IF n = 0 THEN <<>> ELSE IF s[n] = x THEN f[n - 1] ELSE Append(f[n - 1], s[n])

LEMMA RetainingExists ==
    ASSUME NEW S, NEW s \in Seq(S), NEW x
    PROVE  \E f \in [0 .. Len(s) -> Seq(S)] : IsRetaining(s, x, f)
<1> DEFINE After(f, n) == IF n = 0 THEN <<>>
                         ELSE IF s[n] = x THEN f[n - 1] ELSE Append(f[n - 1], s[n])
           Upto(k) == \E f \in [0 .. k -> Seq(S)] : \A n \in 0 .. k : f[n] = After(f, n)
           T == {k \in Nat : k <= Len(s) => Upto(k)}
<1>1. 0 \in T
    <2> DEFINE f == [n \in 0 .. 0 |-> <<>>]
    <2>1. f \in [0 .. 0 -> Seq(S)]
        OBVIOUS
    <2>2. \A n \in 0 .. 0 : f[n] = After(f, n)
        OBVIOUS
    <2>3. Upto(0)
        BY <2>1, <2>2
    <2> HIDE DEF Upto
    <2>4. QED
        BY <2>3
<1>2. ASSUME NEW k \in Nat, k \in T, k + 1 <= Len(s) PROVE Upto(k + 1)
    <2>1. k <= Len(s)
        BY <1>2
    <2>2. Upto(k)
        <3> HIDE DEF Upto
        <3>1. QED
            BY <1>2, <2>1
    <2>3. PICK f \in [0 .. k -> Seq(S)] : \A n \in 0 .. k : f[n] = After(f, n)
        BY <2>2
    <2> DEFINE last == IF s[k + 1] = x THEN f[k] ELSE Append(f[k], s[k + 1])
               g == [n \in 0 .. k + 1 |-> IF n = k + 1 THEN last ELSE f[n]]
    <2>4. s[k + 1] \in S /\ f[k] \in Seq(S)
        BY <1>2
    <2>5. last \in Seq(S)
        BY <2>4
    <2>6. g \in [0 .. k + 1 -> Seq(S)]
        <3> HIDE DEF last
        <3>1. QED
            BY <2>5
    <2>7. ASSUME NEW n \in 0 .. k + 1
          PROVE  g[n] = After(g, n)
        <3>1. CASE n = k + 1
            <4>1. g[n] = last /\ g[n - 1] = f[k] /\ n # 0
                BY <3>1
            <4>2. QED
                BY <3>1, <4>1
        <3>2. CASE n # k + 1
            <4>1. n \in 0 .. k /\ (n # 0 => n - 1 \in 0 .. k)
                BY <3>2
            <4>2. g[n] = f[n] /\ (n # 0 => g[n - 1] = f[n - 1])
                BY <3>2, <4>1
            <4>3. f[n] = After(f, n)
                BY <2>3, <4>1
            <4> HIDE DEF g, last
            <4>4. QED
                BY <4>2, <4>3
        <3>3. QED
            BY <3>1, <3>2
    <2>8. QED
        BY <2>6, <2>7
<1> HIDE DEF Upto
<1>3. \A k \in Nat : k \in T => k + 1 \in T
    BY <1>2
<1>4. T \in SUBSET Nat
    OBVIOUS
<1> HIDE DEF T
<1>5. T = Nat
    BY <1>1, <1>3, <1>4, Induction
<1>6. Len(s) \in T
    BY <1>5
<1>7. QED
    BY <1>6 DEF T, Upto, IsRetaining

(* What is in t when s has been looked at up to its n-th id. *)
HasRetained(s, x, n, t) ==
    /\ t \in Seq({s[j] : j \in 1 .. n} \ {x})
    /\ \A j \in 1 .. n : s[j] # x => \E i \in 1 .. Len(t) : t[i] = s[j]
    /\ \A i, j \in 1 .. Len(t) : t[i] = t[j] => i = j

LEMMA RetainsOneMore ==
    ASSUME NEW S, NEW s \in Seq(S), NEW x, NEW n \in Nat, n + 1 <= Len(s),
           \A i, j \in 1 .. Len(s) : s[i] = s[j] => i = j,
           NEW t, HasRetained(s, x, n, t)
    PROVE  HasRetained(s, x, n + 1, IF s[n + 1] = x THEN t ELSE Append(t, s[n + 1]))
<1> DEFINE A == {s[j] : j \in 1 .. n} \ {x}
           B == {s[j] : j \in 1 .. n + 1} \ {x}
<1>1. A \subseteq B /\ t \in Seq(A)
    BY DEF HasRetained
<1>2. s[n + 1] \notin A
    OBVIOUS
<1>3. s[n + 1] # x => s[n + 1] \in B
    OBVIOUS
<1> DEFINE y == s[n + 1]
<1>4. \A j \in 1 .. n + 1 : j \in 1 .. n \/ s[j] = y
    OBVIOUS
<1> HIDE DEF A, B, y
<1>5. t \in Seq(B)
    BY <1>1
<1>6. CASE y = x
    BY <1>4, <1>5, <1>6 DEF HasRetained, B, y
<1>7. CASE y # x
    <2> DEFINE u == Append(t, y)
    <2>1. /\ u \in Seq(B) /\ Len(u) = Len(t) + 1 /\ u[Len(t) + 1] = y
          /\ \A i \in 1 .. Len(t) : u[i] = t[i] /\ t[i] \in A
          /\ Len(t) \in Nat
        BY <1>1, <1>3, <1>5, <1>7 DEF y
    <2> HIDE DEF u
    <2>2. \A j \in 1 .. n + 1 : s[j] # x => \E i \in 1 .. Len(u) : u[i] = s[j]
        <3>1. \A j \in 1 .. n : s[j] # x => \E i \in 1 .. Len(t) : t[i] = s[j]
            BY DEF HasRetained
        <3>2. \A i \in 1 .. Len(t) : i \in 1 .. Len(u)
            BY <2>1
        <3>3. Len(t) + 1 \in 1 .. Len(u)
            BY <2>1
        <3>4. QED
            BY <1>4, <2>1, <3>1, <3>2, <3>3
    <2>3. \A i, j \in 1 .. Len(u) : u[i] = u[j] => i = j
        <3>1. y \notin A
            BY <1>2 DEF y
        <3>2. \A i \in 1 .. Len(u) : i \in 1 .. Len(t) \/ i = Len(t) + 1
            BY <2>1
        <3>3. \A i, j \in 1 .. Len(t) : t[i] = t[j] => i = j
            BY DEF HasRetained
        <3>4. QED
            BY <2>1, <3>1, <3>2, <3>3
    <2>4. QED
        BY <1>7, <2>1, <2>2, <2>3 DEF HasRetained, B, u, y
<1>8. QED
    BY <1>6, <1>7 DEF y

(* The ids that are retained are the others, each once. *)
LEMMA RetainedIds ==
    ASSUME NEW S, NEW s \in Seq(S), NEW x,
           \A i, j \in 1 .. Len(s) : s[i] = s[j] => i = j
    PROVE  HasRetained(s, x, Len(s), Retained(s, x))
<1> DEFINE g == CHOOSE f1 : f1 =
                   [n \in 0 .. Len(s) |-> IF n = 0 THEN <<>>
                                          ELSE IF s[n] = x THEN f1[n - 1]
                                          ELSE Append(f1[n - 1], s[n])]
<1>1. PICK f \in [0 .. Len(s) -> Seq(S)] : IsRetaining(s, x, f)
    BY RetainingExists
<1>2. f = [n \in 0 .. Len(s) |-> IF n = 0 THEN <<>>
                                 ELSE IF s[n] = x THEN f[n - 1] ELSE Append(f[n - 1], s[n])]
    BY <1>1 DEF IsRetaining
<1>3. g = [n \in 0 .. Len(s) |-> IF n = 0 THEN <<>>
                                 ELSE IF s[n] = x THEN g[n - 1] ELSE Append(g[n - 1], s[n])]
    BY <1>2
<1>4. Retained(s, x) = g[Len(s)]
    BY DEF Retained
<1> HIDE DEF g
<1>5. \A n \in 0 .. Len(s) :
          g[n] = IF n = 0 THEN <<>>
                 ELSE IF s[n] = x THEN g[n - 1] ELSE Append(g[n - 1], s[n])
    BY <1>3
<1> DEFINE T == {n \in Nat : n <= Len(s) => HasRetained(s, x, n, g[n])}
<1>6. 0 \in T
    <2>1. g[0] = <<>>
        BY <1>5
    <2>2. HasRetained(s, x, 0, <<>>)
        BY DEF HasRetained
    <2>3. QED
        BY <2>1, <2>2
<1>7. ASSUME NEW n \in Nat, n \in T, n + 1 <= Len(s) PROVE HasRetained(s, x, n + 1, g[n + 1])
    <2>1. HasRetained(s, x, n, g[n]) /\ n + 1 \in 0 .. Len(s) /\ n + 1 # 0 /\ (n + 1) - 1 = n
        BY <1>7
    <2>2. g[n + 1] = IF s[n + 1] = x THEN g[n] ELSE Append(g[n], s[n + 1])
        BY <1>5, <2>1
    <2>3. QED
        BY <1>7, <2>1, <2>2, RetainsOneMore
<1>8. \A n \in Nat : n \in T => n + 1 \in T
    BY <1>7
<1>9. T \in SUBSET Nat
    OBVIOUS
<1> HIDE DEF T
<1>10. T = Nat
    BY <1>6, <1>8, <1>9, Induction
<1>11. Len(s) \in T
    BY <1>10
<1>12. QED
    BY <1>4, <1>11 DEF T

(***************************************************************************)
(* The cars of agent_run.rs.                                               *)
(***************************************************************************)

(* What main calls, the signal source registers and schedules, and the agents schedule. *)
SetUpCalls ==
    {AddsSource(SignalSource)}
    \cup {Schedules(k - 1, MinimumPriority, SpawnCar(k)) : k \in Time \ {0}}
SignalCalls ==
    {Schedules(ToggleTickInterval, MinimumPriority, ToggleSignal), Returns({ToggleTickInterval})}
AgentDelays == {0, TickInterval, CrossingTime}
AgentCalls ==
    {Schedules(delay, MinimumPriority, Resume(car)) : delay \in AgentDelays, car \in Nat}

(* What is left of the set-up: a car per tick, whose event has the number of its tick, *)
(* and the source at last.                                                             *)
TrafficTodo ==
    /\ phase = "configure" =>
          /\ todo \in Seq(SetUpCalls)
          /\ \A k \in 1 .. Len(todo) :
                todo[k] = IF k = Len(todo) THEN AddsSource(SignalSource)
                          ELSE Schedules(next_event_id + k - 1, MinimumPriority,
                                         SpawnCar(next_event_id + k))
    /\ phase = "handling" => todo = <<>> \/ \E call \in AgentCalls : todo = <<call>>
    /\ phase \notin {"configure", "handling"} => todo \in Seq(SignalCalls)
    /\ phase # "adding"

(* Time does not pass what is to happen: at the end of a tick nothing is left of it. *)
TrafficTimes ==
    /\ tick_status.current \in Nat /\ tick_status.skipped \in Int
    /\ phase \in {"configure", "registering"} => tick_status = InitialTickStatus
    /\ \A source \in source_ready \cup source_pending : source.scheduled_at \in Nat
    /\ \A e \in event_ready \cup event_pending :
          e.scheduled_at \in Nat /\ tick_status.current <= e.scheduled_at
    /\ \A e \in event_batch : e.scheduled_at = tick_status.current
    /\ phase \in {"peek", "end_tick"} => event_pending = {}
    /\ phase = "end_tick" => \A e \in event_ready : tick_status.current < e.scheduled_at

(* The collector is behind by the ticks that were skipped, until the next one begins. *)
TrafficCollects ==
    /\ collected \in Nat /\ current_tick \in Nat /\ peeks \in Nat
    /\ phase \in {"configure", "registering"} => collected = 0 /\ peeks = 0
    /\ phase = "peek" => collected + tick_status.skipped = tick_status.current
    /\ phase \in {"peek", "stopped"} /\ peeks > 0 => collected = current_tick + 1
    /\ phase \notin {"configure", "registering", "peek", "stopped"} =>
          collected = tick_status.current

(* The events on their way have a payload, and are in one place each. *)
TrafficPayloads ==
    {ToggleSignal} \cup {SpawnCar(car) : car \in Nat} \cup {Resume(car) : car \in Nat}
TrafficEvents ==
    /\ payload \in Seq(TrafficPayloads)
    /\ Len(payload) = next_event_id
    /\ \A e \in OnTheirWay : e.event_id \in 0 .. next_event_id - 1
    /\ event_batch # {} => phase \in {"event_phase", "handling"}
    /\ event_ready \cap event_pending = {}
    /\ event_batch \cap (event_ready \cup event_pending) = {}
    /\ stage = "sync" /\ parallel_events = {} /\ working = {}

(* The cars that are to come do so in the order of their ids, one per tick. *)
ArrivesAt(tick) == [event_id |-> tick, scheduled_at |-> tick, priority |-> MinimumPriority]
Arriving == {e \in OnTheirWay : payload[e.event_id + 1].event = "SpawnCar"}
TrafficArrives ==
    /\ phase = "configure" => model = EmptyRoad
    /\ \E count \in Nat :
          /\ Arriving = {ArrivesAt(tick) : tick \in Len(model.cars) .. count - 1}
          /\ \A tick \in Len(model.cars) .. count - 1 : payload[tick + 1] = SpawnCar(tick + 1)
          /\ phase = "configure" => count = next_event_id

(* A car that has driven all its steps has left the lane; one that has but to leave it, *)
(* has passed the signal.                                                               *)
PassingExecutedStep == AgentStep("passing_executed", 1)
ApproachSteps ==
    {AgentStep("approach_loop", delay) : delay \in {0, TickInterval, 5}} \cup {SpendPhysicalTime}
Plans == {<<>>, <<PassingExecutedStep>>} \cup {<<step, PassingExecutedStep>> : step \in ApproachSteps}
InLane(car) == \E k \in 1 .. Len(model.lane) : model.lane[k] = car
TrafficCars ==
    /\ model = [signal |-> model.signal, cars |-> model.cars, lane |-> model.lane,
                steps |-> model.steps]
    /\ \E S : model.cars \in Seq(S)
    /\ model.steps \in Seq(Plans) /\ Len(model.steps) = Len(model.cars)
    /\ model.lane \in Seq(1 .. Len(model.cars))
    /\ \A j, k \in 1 .. Len(model.lane) : model.lane[j] = model.lane[k] => j = k
    /\ \A car \in 1 .. Len(model.cars) :
          /\ model.steps[car] = <<>> <=> ~InLane(car)
          /\ model.steps[car] \in {<<>>, <<PassingExecutedStep>>} => model.cars[car].position > 0

(* A car in the lane has one agent, from the handler that is to schedule it to the one *)
(* that is given it; the others have none.                                             *)
Agents(car) == {e \in OnTheirWay : payload[e.event_id + 1] = Resume(car)}
IsToResume(car) == phase = "handling" /\ todo # <<>> /\ NextCall.payload = Resume(car)
TrafficAgents ==
    \A car \in Nat :
        /\ IF InLane(car) /\ ~IsToResume(car) THEN \E e \in Agents(car) : Agents(car) = {e}
           ELSE Agents(car) = {}
        /\ IsToResume(car) => InLane(car)

(* While the thread has not panicked. *)
TrafficRuns ==
    /\ program.user = "traffic"
    /\ IsTrafficProgram(program)
    /\ runner = program.runner /\ runner_error = FALSE
    /\ TrafficTodo /\ TrafficTimes /\ TrafficCollects /\ TrafficEvents
    /\ TrafficArrives /\ TrafficCars /\ TrafficAgents
    /\ phase = "stopped" => model.lane = <<>>

(* The road is about which events are on their way, not where. *)
LEMMA RoadGoesOn ==
    ASSUME TrafficArrives, TrafficCars, TrafficAgents, PhaseMoves,
           OnTheirWay' = OnTheirWay, UNCHANGED <<payload, model, next_event_id>>,
           phase' = "configure" => phase = "configure"
    PROVE  TrafficArrives' /\ TrafficCars' /\ TrafficAgents'
<1>1. Arriving' = Arriving
    BY DEF Arriving
<1>2. TrafficArrives'
    BY <1>1 DEF TrafficArrives
<1>3. \A car : InLane(car)' <=> InLane(car)
    BY DEF InLane
<1>4. TrafficCars'
    BY <1>3 DEF TrafficCars
<1>5. \A car : (IsToResume(car)' <=> IsToResume(car)) /\ Agents(car)' = Agents(car)
    BY DEF IsToResume, Agents, PhaseMoves, NextCall
<1>6. TrafficAgents'
    BY <1>3, <1>5 DEF TrafficAgents
<1>7. QED
    BY <1>2, <1>4, <1>6

(* What a step has to keep, but for the road. *)
TrafficClock == TrafficTodo /\ TrafficTimes /\ TrafficCollects /\ TrafficEvents

(* A step that handles no event and schedules none. *)
LEMMA TrafficGoesOn ==
    ASSUME TrafficRuns, program' = program, UNCHANGED <<runner, runner_error>>,
           TrafficClock', OnTheirWay' = OnTheirWay, UNCHANGED <<payload, model, next_event_id>>,
           phase' # "handling" \/ (phase = "handling" /\ todo' = todo),
           phase = "handling" => phase' = "handling" \/ todo = <<>>,
           phase' = "configure" => phase = "configure",
           phase' = "stopped" => model.lane = <<>>
    PROVE  TrafficRuns'
<1>1. TrafficArrives' /\ TrafficCars' /\ TrafficAgents'
    BY RoadGoesOn DEF TrafficRuns, PhaseMoves
<1>2. QED
    BY <1>1 DEF TrafficRuns, TrafficClock, IsTrafficProgram

(* An event that is scheduled has the next id and is on its way. *)
IsAdded(event, p) ==
    /\ event.event_id = next_event_id
    /\ event_pending' = event_pending \cup {event}
    /\ next_event_id' = next_event_id + 1
    /\ payload' = Append(payload, p)
    /\ UNCHANGED <<event_ready, event_batch, stage, parallel_events, working, phase>>

LEMMA EventIsAdded ==
    ASSUME TrafficEvents, NEW event, NEW p \in TrafficPayloads, IsAdded(event, p)
    PROVE  /\ TrafficEvents'
           /\ OnTheirWay' = OnTheirWay \cup {event} /\ event \notin OnTheirWay
           /\ payload'[event.event_id + 1] = p
           /\ \A k \in 0 .. next_event_id - 1 : payload'[k + 1] = payload[k + 1]
           /\ next_event_id \in Nat
<1>1. payload \in Seq(TrafficPayloads) /\ Len(payload) = next_event_id /\ next_event_id \in Nat
    BY DEF TrafficEvents
<1>2. OnTheirWay' = OnTheirWay \cup {event}
    BY DEF IsAdded, OnTheirWay
<1>3. event \notin OnTheirWay
    BY <1>1 DEF TrafficEvents, IsAdded
<1> HIDE DEF TrafficPayloads
<1>4. /\ payload' \in Seq(TrafficPayloads) /\ Len(payload') = next_event_id'
      /\ payload'[event.event_id + 1] = p
      /\ \A k \in 0 .. next_event_id - 1 : payload'[k + 1] = payload[k + 1]
    BY <1>1 DEF IsAdded
<1>5. event \notin event_ready \cup event_batch
    BY <1>3 DEF OnTheirWay
<1>6. \A e \in OnTheirWay' : e.event_id \in 0 .. next_event_id' - 1
    BY <1>1, <1>2 DEF TrafficEvents, IsAdded
<1>7. TrafficEvents'
    BY <1>4, <1>5, <1>6 DEF TrafficEvents, IsAdded
<1>8. QED
    BY <1>1, <1>2, <1>3, <1>4, <1>7

(* It is the arrival or the agent its payload says. *)
LEMMA WhatIsAdded ==
    ASSUME TrafficEvents, NEW event, NEW p \in TrafficPayloads, IsAdded(event, p)
    PROVE  /\ Arriving' = IF p.event = "SpawnCar" THEN Arriving \cup {event} ELSE Arriving
           /\ \A car : Agents(car)' = IF p = Resume(car) THEN Agents(car) \cup {event}
                                      ELSE Agents(car)
<1>1. /\ OnTheirWay' = OnTheirWay \cup {event} /\ payload'[event.event_id + 1] = p
      /\ \A k \in 0 .. next_event_id - 1 : payload'[k + 1] = payload[k + 1]
    BY EventIsAdded
<1>2. \A e \in OnTheirWay : payload'[e.event_id + 1] = payload[e.event_id + 1]
    BY <1>1 DEF TrafficEvents
<1> HIDE DEF Resume
<1>3. QED
    BY <1>1, <1>2 DEF Arriving, Agents

LEMMA PayloadsDiffer ==
    /\ ToggleSignal \in TrafficPayloads /\ ToggleSignal.event = "ToggleSignal"
    /\ \A car \in Nat : SpawnCar(car) \in TrafficPayloads /\ Resume(car) \in TrafficPayloads
    /\ \A car : SpawnCar(car).event = "SpawnCar" /\ SpawnCar(car).car = car
    /\ \A car : Resume(car).event = "Resume" /\ Resume(car).car = car
    /\ \A car : ToggleSignal # Resume(car) /\ ToggleSignal # SpawnCar(car)
    /\ \A car, other : SpawnCar(car) # Resume(other)
    /\ \A car, other : Resume(car) = Resume(other) => car = other
    /\ \A car, other : SpawnCar(car) = SpawnCar(other) => car = other
<1>1. \A car : SpawnCar(car).event = "SpawnCar" /\ SpawnCar(car).car = car
    BY DEF SpawnCar
<1>2. \A car : Resume(car).event = "Resume" /\ Resume(car).car = car
    BY DEF Resume
<1>3. ToggleSignal.event = "ToggleSignal"
    BY DEF ToggleSignal
<1>4. QED
    BY <1>1, <1>2, <1>3 DEF TrafficPayloads

(***************************************************************************)
(* The set-up and the callbacks.                                           *)
(***************************************************************************)

(* main schedules the arrival of the next car. *)
LEMMA CarIsSetUp ==
    ASSUME TrafficRuns, SetUpEvent, program' = program
    PROVE  TrafficRuns'
<1>0. /\ TrafficTodo /\ TrafficTimes /\ TrafficCollects /\ TrafficEvents
      /\ TrafficArrives /\ TrafficCars /\ TrafficAgents
    BY DEF TrafficRuns
<1> DEFINE event == [event_id |-> next_event_id, scheduled_at |-> NextCall.delay + 0,
                     priority |-> NextCall.priority]
<1>1. /\ phase = "configure" /\ phase' = phase
      /\ todo # <<>> /\ NextCall.call = "schedule_event" /\ todo' = Tail(todo)
      /\ event_pending' = event_pending \cup {event}
      /\ next_event_id' = next_event_id + 1
      /\ payload' = Append(payload, NextCall.payload)
      /\ UNCHANGED <<event_ready, sourceVars, executorVars, reg_slot, batchVars, runnerVars,
                     model, stage, parallel_events, working, collected, peeks>>
    BY DEF SetUpEvent, ScheduleEventAt, Schedule, Makes, SameProgram, parallelVars
<1>2. /\ todo \in Seq(SetUpCalls) /\ Len(todo) \in Nat \ {0}
      /\ \A k \in 1 .. Len(todo) :
            todo[k] = IF k = Len(todo) THEN AddsSource(SignalSource)
                      ELSE Schedules(next_event_id + k - 1, MinimumPriority,
                                     SpawnCar(next_event_id + k))
    BY <1>0, <1>1 DEF TrafficTodo
<1>3. /\ NextCall = todo[1] /\ 1 \in 1 .. Len(todo) /\ next_event_id \in Nat
      /\ Len(payload) = next_event_id
    BY <1>0, <1>2 DEF NextCall, TrafficEvents
<1>4. NextCall = Schedules(next_event_id + 1 - 1, MinimumPriority, SpawnCar(next_event_id + 1))
    <2>1. AddsSource(SignalSource).call = "add_source"
        BY DEF AddsSource
    <2>2. QED
        BY <1>1, <1>2, <1>3, <2>1
<1>5. /\ NextCall.payload = SpawnCar(next_event_id + 1)
      /\ NextCall.delay + 0 = next_event_id /\ NextCall.priority = MinimumPriority
    BY <1>3, <1>4 DEF Schedules
<1>6. event = ArrivesAt(next_event_id) /\ event.event_id = next_event_id
      /\ event.scheduled_at = next_event_id
    BY <1>5 DEF ArrivesAt
<1> HIDE DEF event
<1>7. IsAdded(event, SpawnCar(next_event_id + 1)) /\ SpawnCar(next_event_id + 1) \in TrafficPayloads
    BY <1>1, <1>3, <1>5, <1>6, PayloadsDiffer DEF IsAdded
<1>8. TrafficEvents'
    BY <1>0, <1>7, EventIsAdded
<1>9. TrafficTodo'
    <2>1. /\ todo' \in Seq(SetUpCalls) /\ Len(todo') = Len(todo) - 1
          /\ \A k \in 1 .. Len(todo') : todo'[k] = todo[k + 1] /\ k + 1 \in 1 .. Len(todo)
        <3> HIDE DEF SetUpCalls
        <3>1. QED
            BY <1>1, <1>2
    <2>2. \A k \in 1 .. Len(todo') :
              todo'[k] = IF k = Len(todo') THEN AddsSource(SignalSource)
                         ELSE Schedules(next_event_id' + k - 1, MinimumPriority,
                                        SpawnCar(next_event_id' + k))
        <3> TAKE k \in 1 .. Len(todo')
        <3>1. /\ todo'[k] = todo[k + 1] /\ k + 1 \in 1 .. Len(todo) /\ k \in Nat
              /\ (k + 1 = Len(todo) <=> k = Len(todo'))
            BY <1>2, <2>1
        <3>2. /\ next_event_id + (k + 1) - 1 = next_event_id' + k - 1
              /\ next_event_id + (k + 1) = next_event_id' + k
            BY <1>1, <1>3, <3>1
        <3>3. QED
            BY <1>2, <3>1, <3>2
    <2>3. QED
        BY <1>1, <2>1, <2>2 DEF TrafficTodo
<1>10. TrafficTimes'
    <2>1. tick_status.current = 0
        BY <1>0, <1>1 DEF TrafficTimes, InitialTickStatus, TickStatus
    <2>2. event.scheduled_at \in Nat /\ tick_status.current <= event.scheduled_at
        BY <1>3, <1>6, <2>1
    <2>3. QED
        BY <1>0, <1>1, <2>2 DEF TrafficTimes
<1>11. TrafficCollects'
    BY <1>0, <1>1 DEF TrafficCollects
<1>12. TrafficArrives'
    <2>1. model = EmptyRoad /\ Len(model.cars) = 0
        BY <1>0, <1>1 DEF TrafficArrives, EmptyRoad
    <2>2. /\ Arriving = {ArrivesAt(tick) : tick \in 0 .. next_event_id - 1}
          /\ \A tick \in 0 .. next_event_id - 1 : payload[tick + 1] = SpawnCar(tick + 1)
        BY <1>0, <1>1, <2>1 DEF TrafficArrives
    <2>3. Arriving' = Arriving \cup {ArrivesAt(next_event_id)}
        BY <1>0, <1>6, <1>7, WhatIsAdded, PayloadsDiffer
    <2>4. 0 .. next_event_id' - 1 = (0 .. next_event_id - 1) \cup {next_event_id}
        BY <1>1, <1>3
    <2>5. Arriving' = {ArrivesAt(tick) : tick \in 0 .. next_event_id' - 1}
        BY <2>2, <2>3, <2>4
    <2>6. \A tick \in 0 .. next_event_id' - 1 : payload'[tick + 1] = SpawnCar(tick + 1)
        BY <1>0, <1>6, <1>7, <2>2, <2>4, EventIsAdded
    <2>7. next_event_id' \in Nat
        BY <1>1, <1>3
    <2>8. Len(model'.cars) = 0 /\ model' = EmptyRoad
        BY <1>1, <2>1
    <2>9. QED
        BY <2>5, <2>6, <2>7, <2>8 DEF TrafficArrives
<1>13. TrafficCars'
    <2>1. \A car : InLane(car)' <=> InLane(car)
        BY <1>1 DEF InLane
    <2>2. QED
        BY <1>0, <1>1, <2>1 DEF TrafficCars
<1>14. TrafficAgents'
    <2>1. \A car : Agents(car)' = Agents(car)
        BY <1>0, <1>7, WhatIsAdded, PayloadsDiffer
    <2>2. \A car : (InLane(car)' <=> InLane(car)) /\ ~IsToResume(car) /\ ~IsToResume(car)'
        BY <1>1 DEF InLane, IsToResume
    <2>3. QED
        BY <1>0, <2>1, <2>2 DEF TrafficAgents
<1>15. QED
    BY <1>1, <1>8, <1>9, <1>10, <1>11, <1>12, <1>13, <1>14 DEF TrafficRuns, IsTrafficProgram

(* What a callback of the example calls next. *)
LEMMA TrafficCallIs ==
    ASSUME TrafficTodo, todo # <<>>, phase # "configure"
    PROVE  /\ phase = "handling" => NextCall \in AgentCalls /\ Tail(todo) = <<>>
           /\ phase # "handling" => NextCall \in SignalCalls /\ Tail(todo) \in Seq(SignalCalls)
<1>1. CASE phase = "handling"
    <2>1. PICK call \in AgentCalls : todo = <<call>>
        BY <1>1 DEF TrafficTodo
    <2>2. NextCall = call /\ Tail(todo) = <<>>
        BY <2>1 DEF NextCall
    <2>3. QED
        BY <1>1, <2>2
<1>2. CASE phase # "handling"
    <2>1. todo \in Seq(SignalCalls)
        BY <1>2 DEF TrafficTodo
    <2>2. QED
        BY <1>2, <2>1, OneCallFewer DEF NextCall
<1>3. QED
    BY <1>1, <1>2

(* An agent, or a switch of the signal, is scheduled. *)
LEMMA TrafficSchedules ==
    ASSUME TrafficRuns, UserSchedules, phase' # "panicked", program' = program
    PROVE  TrafficRuns'
<1>0. /\ TrafficTodo /\ TrafficTimes /\ TrafficCollects /\ TrafficEvents
      /\ TrafficArrives /\ TrafficCars /\ TrafficAgents
    BY DEF TrafficRuns
<1> DEFINE event == [event_id |-> next_event_id,
                     scheduled_at |-> tick_status.current + NextCall.delay,
                     priority |-> NextCall.priority]
<1>1. /\ todo # <<>> /\ NextCall.call = "schedule_event"
      /\ phase \in {"registering", "firing", "handling", "adding"} /\ phase' = phase
      /\ event_pending' = event_pending \cup {event}
      /\ next_event_id' = next_event_id + 1
      /\ payload' = Append(payload, NextCall.payload) /\ todo' = Tail(todo)
      /\ UNCHANGED <<event_ready, sourceVars, executorVars, reg_slot, batchVars, runnerVars,
                     model, stage, parallel_events, working, collected, peeks>>
    BY DEF UserSchedules, ContextScheduleEvent, Panic, Schedule, Makes, InCallback, now,
           SameProgram, parallelVars
<1>2. /\ phase = "handling" => NextCall \in AgentCalls /\ Tail(todo) = <<>>
      /\ phase # "handling" => NextCall \in SignalCalls /\ Tail(todo) \in Seq(SignalCalls)
    BY <1>0, <1>1, TrafficCallIs
<1>3. /\ phase = "handling" =>
            \E car \in Nat, delay \in AgentDelays :
                NextCall = Schedules(delay, MinimumPriority, Resume(car))
      /\ phase # "handling" =>
            NextCall = Schedules(ToggleTickInterval, MinimumPriority, ToggleSignal)
    BY <1>1, <1>2 DEF AgentCalls, SignalCalls, Returns
<1>4. /\ phase = "handling" => \E car \in Nat : NextCall.payload = Resume(car)
      /\ phase # "handling" => NextCall.payload = ToggleSignal
      /\ NextCall.delay \in Nat
    BY <1>3 DEF Schedules, AgentDelays, TickInterval, CrossingTime, ToggleTickInterval
<1>5. event.event_id = next_event_id /\ event.scheduled_at \in Nat
      /\ tick_status.current <= event.scheduled_at
    BY <1>0, <1>4 DEF TrafficTimes
<1> HIDE DEF event
<1>6. IsAdded(event, NextCall.payload) /\ NextCall.payload \in TrafficPayloads
    BY <1>1, <1>4, <1>5, PayloadsDiffer DEF IsAdded
<1>7. TrafficEvents'
    BY <1>0, <1>6, EventIsAdded
<1>8. TrafficTodo'
    BY <1>0, <1>1, <1>2 DEF TrafficTodo
<1>9. TrafficTimes'
    BY <1>0, <1>1, <1>5 DEF TrafficTimes
<1>10. TrafficCollects'
    BY <1>0, <1>1 DEF TrafficCollects
<1>11. /\ Arriving' = Arriving
       /\ \A car : Agents(car)' = IF NextCall.payload = Resume(car)
                                  THEN Agents(car) \cup {event} ELSE Agents(car)
    BY <1>0, <1>4, <1>6, WhatIsAdded, PayloadsDiffer
<1>12. \A car : InLane(car)' <=> InLane(car)
    BY <1>1 DEF InLane
<1>13. TrafficArrives'
    <2>1. PICK count \in Nat :
              /\ Arriving = {ArrivesAt(tick) : tick \in Len(model.cars) .. count - 1}
              /\ \A tick \in Len(model.cars) .. count - 1 : payload[tick + 1] = SpawnCar(tick + 1)
        BY <1>0 DEF TrafficArrives
    <2>2. ASSUME NEW tick \in Len(model.cars) .. count - 1
          PROVE  payload'[tick + 1] = SpawnCar(tick + 1)
        <3>1. ArrivesAt(tick) \in OnTheirWay /\ ArrivesAt(tick).event_id = tick
            BY <2>1 DEF Arriving, ArrivesAt
        <3>2. tick \in 0 .. next_event_id - 1
            BY <1>0, <3>1 DEF TrafficEvents
        <3>3. payload'[tick + 1] = payload[tick + 1]
            BY <1>0, <1>6, <3>2, EventIsAdded
        <3>4. QED
            BY <2>1, <3>3
    <2>3. QED
        BY <1>1, <1>11, <2>1, <2>2 DEF TrafficArrives
<1>14. TrafficCars'
    BY <1>0, <1>1, <1>12 DEF TrafficCars
<1>15. TrafficAgents'
    <2>1. CASE phase = "handling"
        <3>1. todo' = <<>> /\ todo # <<>>
            BY <1>1, <1>2, <2>1
        <3>2. \A car : ~IsToResume(car)' /\ (IsToResume(car) <=> NextCall.payload = Resume(car))
            BY <2>1, <3>1 DEF IsToResume
        <3>3. ASSUME NEW car \in Nat, NextCall.payload = Resume(car)
              PROVE  Agents(car)' = {event} /\ InLane(car)'
            BY <1>0, <1>11, <1>12, <3>2, <3>3 DEF TrafficAgents
        <3>4. ASSUME NEW car \in Nat, NextCall.payload # Resume(car)
              PROVE  IF InLane(car)' THEN \E e \in Agents(car)' : Agents(car)' = {e}
                     ELSE Agents(car)' = {}
            <4>1. Agents(car)' = Agents(car)
                BY <1>11, <3>4
            <4>2. QED
                BY <1>0, <1>12, <3>2, <3>4, <4>1 DEF TrafficAgents
        <3>5. QED
            BY <3>2, <3>3, <3>4 DEF TrafficAgents
    <2>2. CASE phase # "handling"
        <3>1. \A car : ~IsToResume(car) /\ ~IsToResume(car)'
            BY <1>1, <2>2 DEF IsToResume
        <3>2. \A car : Agents(car)' = Agents(car)
            BY <1>4, <1>11, <2>2, PayloadsDiffer
        <3>3. QED
            BY <1>0, <1>12, <3>1, <3>2 DEF TrafficAgents
    <2>3. QED
        BY <2>1, <2>2
<1>16. QED
    BY <1>1, <1>7, <1>8, <1>9, <1>10, <1>13, <1>14, <1>15 DEF TrafficRuns, IsTrafficProgram

(* The registration that is entered, if any, is that of the signal. *)
LEMMA SignalIsRegistered ==
    ASSUME TrafficRuns, NEW slot, EnterRegistration(slot)
    PROVE  todo' \in Seq(SignalCalls)
<1>1. ToggleCalls \in Seq(SignalCalls)
    <2>1. /\ Schedules(ToggleTickInterval, MinimumPriority, ToggleSignal) \in SignalCalls
          /\ Returns({ToggleTickInterval}) \in SignalCalls
        BY DEF SignalCalls
    <2> HIDE DEF SignalCalls
    <2>2. QED
        BY <2>1 DEF ToggleCalls
<1>2. <<>> \in Seq(SignalCalls)
    OBVIOUS
<1>3. todo' \in {ToggleCalls, <<>>}
    BY DEF EnterRegistration, OnRegistered, User, TrafficRuns
<1>4. QED
    BY <1>1, <1>2, <1>3

(* The calls on the Engine, and those of the callbacks. *)
LEMMA TrafficUserStep ==
    ASSUME TrafficRuns, ProgramUserStep, phase' # "panicked", program' = program
    PROVE  TrafficRuns'
<1>0. /\ TrafficTodo /\ TrafficTimes /\ TrafficCollects /\ TrafficEvents
    BY DEF TrafficRuns
<1> USE DEF userVars, SameProgram, parallelVars
<1>1. CASE SetUpSource
    <2>1. /\ todo # <<>> /\ NextCall.call = "add_source" /\ todo' = Tail(todo)
          /\ phase = "configure" /\ phase' = phase
          /\ UNCHANGED <<schedulerVars, source_ready, source_pending, executorVars, batchVars,
                         runnerVars, model, payload, stage, parallel_events, working,
                         collected, peeks>>
        BY <1>1 DEF SetUpSource, AddEngineSource, AddSourceForBeforeSimulation, Makes
    <2>2. /\ todo \in Seq(SetUpCalls) /\ Len(todo) \in Nat \ {0} /\ NextCall = todo[1]
          /\ 1 \in 1 .. Len(todo)
        BY <1>0, <2>1 DEF TrafficTodo, NextCall
    <2>3. Len(todo) = 1
        <3>1. \A k : Schedules(next_event_id + 1 - 1, MinimumPriority, SpawnCar(k)).call = "schedule_event"
            BY DEF Schedules
        <3>2. QED
            BY <1>0, <2>1, <2>2, <3>1 DEF TrafficTodo
    <2>4. todo' = <<>>
        BY <2>1, <2>2, <2>3
    <2>5. TrafficClock'
        <3>1. OnTheirWay' = OnTheirWay
            BY <2>1 DEF OnTheirWay
        <3>2. TrafficTodo'
            <4>1. todo' \in Seq(SetUpCalls)
                <5> HIDE DEF SetUpCalls
                <5>1. QED
                    BY <2>4
            <4>2. 1 .. Len(todo') = {}
                BY <2>4
            <4> HIDE DEF SetUpCalls
            <4>3. QED
                BY <2>1, <4>1, <4>2 DEF TrafficTodo
        <3>3. TrafficTimes'
            BY <1>0, <2>1 DEF TrafficTimes
        <3>4. TrafficCollects' /\ TrafficEvents'
            BY <1>0, <2>1, <3>1 DEF TrafficCollects, TrafficEvents
        <3>5. QED
            BY <3>2, <3>3, <3>4 DEF TrafficClock
    <2>6. OnTheirWay' = OnTheirWay
        BY <2>1 DEF OnTheirWay
    <2>7. QED
        BY <2>1, <2>5, <2>6, TrafficGoesOn
<1>2. CASE UserAddsSource \/ UserCancelsEvents \/ UserCancelsSources
    <2>1. /\ todo # <<>> /\ phase = "handling"
          /\ NextCall.call \in {"add_source", "cancel_scheduled_events",
                                "cancel_scheduled_sources"}
        BY <1>2 DEF UserAddsSource, UserCancelsEvents, UserCancelsSources, Makes,
                    HookedAddSource, ContextAddSource, CancelScheduledEvents,
                    CancelScheduledSources
    <2>2. NextCall \in AgentCalls
        BY <1>0, <2>1, TrafficCallIs
    <2>3. QED
        BY <2>1, <2>2 DEF AgentCalls, Schedules
<1>3. CASE RegistrationReturns
    <2>1. /\ RegisterSource(NextCall.delay) /\ EnterRegistration(reg_slot + 1) /\ todo # <<>>
          /\ NextCall.call = "return" /\ phase = "registering"
          /\ UNCHANGED userVars /\ SameProgram
        BY <1>3 DEF RegistrationReturns, HookedRegisterSource, Makes, RegisterSource
    <2>2. NextCall.delay = {ToggleTickInterval}
        BY <1>0, <2>1, TrafficCallIs DEF SignalCalls, Schedules, Returns
    <2>3. /\ phase' = phase
          /\ \A source \in source_ready' \cup source_pending' :
                \/ source \in source_ready \cup source_pending
                \/ source.scheduled_at = 0 + ToggleTickInterval
          /\ UNCHANGED <<schedulerVars, executorVars, batchVars, runnerVars>>
        BY <2>1, <2>2 DEF RegisterSource, InitializeSource, PushInitial
    <2>4. OnTheirWay' = OnTheirWay
        BY <2>1, <2>3 DEF OnTheirWay
    <2>5. TrafficTodo'
        BY <2>1, <2>3, SignalIsRegistered DEF TrafficTodo
    <2>6. TrafficTimes'
        BY <1>0, <2>3 DEF TrafficTimes, ToggleTickInterval
    <2>7. TrafficCollects' /\ TrafficEvents'
        BY <1>0, <2>1, <2>3, <2>4 DEF TrafficCollects, TrafficEvents
    <2>8. QED
        BY <2>1, <2>3, <2>4, <2>5, <2>6, <2>7, TrafficGoesOn DEF TrafficClock
<1>4. CASE AddedSourceReturns
    BY <1>0, <1>4 DEF AddedSourceReturns, HookedFinishAddSource, FinishAddSource, TrafficTodo
<1>5. CASE FireReturns
    <2>1. /\ FinishFire(NextCall.delay) /\ todo' = Tail(todo) /\ todo # <<>>
          /\ NextCall.call = "return" /\ phase = "firing" /\ phase' = "source_phase"
          /\ UNCHANGED userVars /\ SameProgram
        BY <1>5 DEF FireReturns, HookedFinishFire, Makes, FinishFire, Panic
    <2>2. NextCall.delay = {ToggleTickInterval} /\ todo' \in Seq(SignalCalls)
        BY <1>0, <2>1, TrafficCallIs DEF SignalCalls, Schedules, Returns
    <2>3. /\ \E source \in firing_source :
                ScheduleNextSource(tick_status.current, NextCall.delay, source.source_id)
          /\ UNCHANGED <<schedulerVars, executorVars, source_batch, event_batch, runnerVars>>
        BY <2>1 DEF FinishFire, Panic, now
    <2>4. \A source \in source_ready' \cup source_pending' :
              \/ source \in source_ready \cup source_pending
              \/ source.scheduled_at = tick_status.current + ToggleTickInterval
        BY <2>2, <2>3 DEF ScheduleNextSource
    <2>5. OnTheirWay' = OnTheirWay
        BY <2>1, <2>3 DEF OnTheirWay
    <2>6. TrafficTodo'
        BY <2>1, <2>2 DEF TrafficTodo
    <2>7. TrafficTimes'
        BY <1>0, <2>1, <2>3, <2>4 DEF TrafficTimes, ToggleTickInterval
    <2>8. TrafficCollects' /\ TrafficEvents'
        BY <1>0, <2>1, <2>3, <2>5 DEF TrafficCollects, TrafficEvents
    <2>9. QED
        BY <2>1, <2>3, <2>5, <2>6, <2>7, <2>8, TrafficGoesOn DEF TrafficClock
<1>6. CASE HandlerReturns
    <2>1. /\ FinishHandleEvent /\ todo = <<>> /\ todo' = todo
          /\ UNCHANGED userVars /\ SameProgram
        BY <1>6 DEF HandlerReturns, HookedFinishHandleEvent
    <2>2. /\ phase = "handling" /\ phase' = "event_phase"
          /\ UNCHANGED <<schedulerVars, sourceVars, executorVars, batchVars, runnerVars>>
        BY <2>1 DEF FinishHandleEvent
    <2>3. OnTheirWay' = OnTheirWay
        BY <2>1, <2>2 DEF OnTheirWay
    <2>4. TrafficTodo'
        BY <2>1, <2>2 DEF TrafficTodo
    <2>5. TrafficTimes'
        BY <1>0, <2>2 DEF TrafficTimes
    <2>6. TrafficCollects' /\ TrafficEvents'
        BY <1>0, <2>1, <2>2, <2>3 DEF TrafficCollects, TrafficEvents
    <2>7. QED
        BY <2>1, <2>2, <2>3, <2>4, <2>5, <2>6, TrafficGoesOn DEF TrafficClock
<1>7. QED
    BY <1>1, <1>2, <1>3, <1>4, <1>5, <1>6, CarIsSetUp, TrafficSchedules DEF ProgramUserStep

(***************************************************************************)
(* The runner's steps.                                                     *)
(***************************************************************************)

(* A step that leaves all events where they are, and is in no handler. *)
LEMMA TrafficWaits ==
    ASSUME TrafficRuns, program' = program,
           UNCHANGED <<schedulerVars, event_batch, stage, parallel_events, working, runner,
                       runner_error, payload, model>>,
           TrafficTodo', TrafficTimes', TrafficCollects',
           phase \notin {"handling", "event_phase"},
           phase' \notin {"configure", "handling"},
           phase' = "stopped" => model.lane = <<>>
    PROVE  TrafficRuns'
<1>1. OnTheirWay' = OnTheirWay
    BY DEF OnTheirWay
<1>2. TrafficEvents'
    BY <1>1 DEF TrafficEvents, TrafficRuns
<1>3. QED
    BY <1>1, <1>2, TrafficGoesOn DEF TrafficClock

(* A flush moves the pending events. *)
LEMMA TrafficFlushes ==
    ASSUME TrafficRuns, program' = program, FlushPendingEvents, event_batch = {},
           UNCHANGED <<event_batch, stage, parallel_events, working, runner, runner_error,
                       payload, model>>,
           TrafficTodo', TrafficTimes', TrafficCollects',
           phase # "handling",
           phase' \notin {"configure", "handling", "stopped"}
    PROVE  TrafficRuns'
<1>1. OnTheirWay' = OnTheirWay
    BY DEF OnTheirWay, FlushPendingEvents
<1>2. TrafficEvents'
    BY <1>1 DEF TrafficEvents, TrafficRuns, FlushPendingEvents
<1>3. QED
    BY <1>1, <1>2, TrafficGoesOn DEF TrafficClock, FlushPendingEvents

(* The start of the run. *)
LEMMA TrafficStarts ==
    ASSUME TrafficRuns, program' = program,
           StartSimulation \/ (FinishRegistration /\ SilentStep)
    PROVE  TrafficRuns'
<1>0. TrafficTodo /\ TrafficTimes /\ TrafficCollects /\ TrafficEvents
    BY DEF TrafficRuns
<1> USE DEF userVars, SameProgram, parallelVars
<1>1. CASE StartSimulation
    <2>1. BeginSimulation /\ EnterRegistration(0) /\ UNCHANGED userVars /\ SameProgram
        BY <1>1 DEF StartSimulation, HookedBeginSimulation
    <2>2. /\ phase = "configure" /\ phase' = "registering"
          /\ source_ready' = source_ready \cup source_pending /\ source_pending' = {}
          /\ UNCHANGED <<schedulerVars, executorVars, batchVars, runnerVars>>
        BY <2>1 DEF BeginSimulation, FlushPendingSources
    <2>3. TrafficTodo'
        BY <2>1, <2>2, SignalIsRegistered DEF TrafficTodo
    <2>4. TrafficTimes' /\ TrafficCollects'
        BY <1>0, <2>1, <2>2 DEF TrafficTimes, TrafficCollects
    <2>5. QED
        BY <2>1, <2>2, <2>3, <2>4, TrafficWaits
<1>2. CASE FinishRegistration /\ SilentStep
    <2>1. /\ phase = "registering" /\ phase' = "peek" /\ FlushPendingEvents
          /\ tick_status' = InitialTickStatus /\ current_tick' = 0
          /\ UNCHANGED <<sourceVars, batchVars, runnerVars, todo>>
          /\ UNCHANGED userVars /\ SameProgram
        BY <1>2 DEF FinishRegistration, SilentStep
    <2>2. tick_status = InitialTickStatus /\ InitialTickStatus.current = 0
          /\ InitialTickStatus.skipped = 0
        BY <1>0, <2>1 DEF TrafficTimes, InitialTickStatus, TickStatus
    <2>3. TrafficTodo'
        BY <1>0, <2>1 DEF TrafficTodo
    <2>4. TrafficTimes'
        BY <1>0, <2>1, <2>2 DEF TrafficTimes, FlushPendingEvents
    <2>5. TrafficCollects'
        BY <1>0, <2>1, <2>2 DEF TrafficCollects
    <2>6. event_batch = {}
        BY <1>0, <2>1 DEF TrafficEvents
    <2>7. QED
        BY <2>1, <2>3, <2>4, <2>5, <2>6, TrafficFlushes
<1>3. QED
    BY <1>1, <1>2

(* The end of a tick: the next one is not later than what is to happen. *)
LEMMA TrafficTickEnds ==
    ASSUME TrafficRuns, program' = program, phase' # "panicked", TickEnds
    PROVE  TrafficRuns'
<1>0. /\ TrafficTodo /\ TrafficTimes /\ TrafficCollects /\ TrafficEvents /\ runner_error = FALSE
    BY DEF TrafficRuns
<1>1. /\ EndTickWithIncrementTick \/ EndTickWithJumpToNextTick
      /\ phase = "end_tick" /\ collected' = collected + 1
      /\ UNCHANGED <<parallelVars, todo, userVars, peeks>>
    BY DEF TickEnds, HookedEndTick, AfterTick, EndTickWithIncrementTick,
           EndTickWithJumpToNextTick
<1>2. \A reason : ~Panic(reason)
    BY DEF Panic
<1>3. ASSUME NEW t \in Nat, NEW skipped \in Int, EndTickWith(TickStatus(t, skipped)),
             tick_status.current + 1 + skipped = t,
             \A e \in event_ready : t <= e.scheduled_at
      PROVE  TrafficRuns'
    <2>1. /\ tick_status' = TickStatus(t, skipped) /\ current_tick' = tick_status.current
          /\ phase' = "peek"
          /\ UNCHANGED <<schedulerVars, sourceVars, batchVars, runnerVars>>
        BY <1>0, <1>3 DEF EndTickWith, now
    <2>2. tick_status'.current = t /\ tick_status'.skipped = skipped
        BY <2>1 DEF TickStatus
    <2>3. TrafficTodo'
        BY <1>0, <1>1, <2>1 DEF TrafficTodo
    <2>4. event_batch = {}
        BY <1>0, <1>1 DEF TrafficEvents
    <2>5. TrafficTimes'
        BY <1>0, <1>1, <1>3, <2>1, <2>2, <2>4 DEF TrafficTimes
    <2>6. TrafficCollects'
        <3>1. collected = tick_status.current /\ collected \in Nat /\ peeks \in Nat
            BY <1>0, <1>1 DEF TrafficCollects
        <3>2. /\ collected' = tick_status.current + 1 /\ collected' \in Nat
              /\ current_tick' \in Nat
            BY <1>1, <2>1, <3>1
        <3>3. QED
            BY <1>1, <1>3, <2>1, <2>2, <3>1, <3>2 DEF TrafficCollects
    <2>7. QED
        BY <1>1, <2>1, <2>3, <2>5, <2>6, TrafficWaits DEF parallelVars, userVars
<1>4. /\ tick_status.current \in Nat
      /\ \A e \in event_ready : e.scheduled_at \in Nat /\ tick_status.current + 1 <= e.scheduled_at
    BY <1>0, <1>1 DEF TrafficTimes
<1>5. ASSUME EndTickWith(TickStatus(tick_status.current + 1, 0))
      PROVE  TrafficRuns'
    <2>1. tick_status.current + 1 \in Nat /\ tick_status.current + 1 + 0 = tick_status.current + 1
        BY <1>4
    <2>2. QED
        BY <1>3, <1>4, <1>5, <2>1
<1>6. CASE EndTickWithIncrementTick
    BY <1>2, <1>5, <1>6 DEF EndTickWithIncrementTick, now
<1>7. CASE EndTickWithJumpToNextTick
    <2> DEFINE heads == PeekNextTime(source_ready \cup event_ready)
    <2>1. ASSUME NEW t \in heads
          PROVE  t \in Nat /\ \A e \in event_ready : t <= e.scheduled_at
        <3>1. \A x \in source_ready \cup event_ready : x.scheduled_at \in Nat
            BY <1>0 DEF TrafficTimes
        <3>2. QED
            BY <2>1, <3>1 DEF PeekNextTime
    <2> HIDE DEF heads
    <2>2. CASE heads = {}
        BY <1>2, <1>5, <1>7, <2>2 DEF EndTickWithJumpToNextTick, heads, now
    <2>3. CASE heads # {}
        <3>1. PICK next \in heads :
                  /\ ~SubOverflows(next, now) /\ ~SubOverflows(next - now, 1)
                  /\ JumpTo(next)
            BY <1>2, <1>7, <2>3 DEF EndTickWithJumpToNextTick, heads
        <3>2. next \in Nat /\ next - tick_status.current - 1 \in Int
              /\ tick_status.current + 1 + (next - tick_status.current - 1) = next
            BY <1>4, <2>1
        <3>3. EndTickWith(TickStatus(next, next - tick_status.current - 1))
            BY <3>1 DEF JumpTo, now
        <3>4. QED
            BY <1>3, <2>1, <3>2, <3>3
    <2>4. QED
        BY <2>2, <2>3
<1>8. QED
    BY <1>1, <1>6, <1>7

(* The runner between ticks, but for the start of the run. *)
LEMMA TrafficTickStep ==
    ASSUME TrafficRuns, program' = program, phase' # "panicked",
           (ContinueMicroSteps /\ SilentStep) \/ ProgramStops \/ TickBegins \/ RealtimeWaits
           \/ RealtimeSleeps \/ RealtimeTickBegins
    PROVE  TrafficRuns'
<1>0. /\ TrafficTodo /\ TrafficTimes /\ TrafficCollects /\ TrafficEvents
      /\ program.user = "traffic" /\ runner = program.runner /\ IsTrafficProgram(program)
    BY DEF TrafficRuns
<1> USE DEF userVars, SameProgram, parallelVars
<1>1. CASE ContinueMicroSteps /\ SilentStep
    <2>1. /\ phase = "continue" /\ phase' = "micro_step"
          /\ UNCHANGED <<schedulerVars, sourceVars, executorVars, batchVars, runnerVars, todo>>
          /\ UNCHANGED userVars /\ SameProgram
        BY <1>1 DEF ContinueMicroSteps, SilentStep
    <2>2. TrafficTodo' /\ TrafficTimes' /\ TrafficCollects'
        BY <1>0, <2>1 DEF TrafficTodo, TrafficTimes, TrafficCollects
    <2>3. QED
        BY <2>1, <2>2, TrafficWaits
<1>2. CASE ProgramStops
    <2>1. /\ phase = "peek" /\ phase' = "stopped" /\ WantsToStop
          /\ UNCHANGED <<schedulerVars, sourceVars, executorVars, batchVars, runnerVars, todo>>
          /\ UNCHANGED userVars /\ SameProgram
        BY <1>2 DEF ProgramStops, HookedStopRun, StopRun
    <2>2. model.lane = <<>>
        BY <1>0, <2>1 DEF WantsToStop, StopRule, User, IsTrafficProgram
    <2>3. TrafficTodo' /\ TrafficTimes' /\ TrafficCollects'
        BY <1>0, <2>1 DEF TrafficTodo, TrafficTimes, TrafficCollects
    <2>4. QED
        BY <2>1, <2>2, <2>3, TrafficWaits
<1>3. CASE TickBegins \/ RealtimeTickBegins
    <2>1. /\ BeginTick /\ BeforeTick /\ peeks' \in {peeks, peeks + 1}
          /\ UNCHANGED <<todo, model, payload, stage, parallel_events, working>>
        BY <1>3 DEF TickBegins, RealtimeTickBegins, HookedBeginTick
    <2>2. /\ phase = "peek" /\ phase' = "micro_step"
          /\ collected' = collected + tick_status.skipped
          /\ UNCHANGED <<schedulerVars, sourceVars, tick_status, current_tick, batchVars,
                         runnerVars>>
        BY <2>1 DEF BeginTick, BeforeTick
    <2>3. TrafficTodo' /\ TrafficTimes'
        BY <1>0, <2>1, <2>2 DEF TrafficTodo, TrafficTimes
    <2>4. TrafficCollects'
        BY <1>0, <2>1, <2>2 DEF TrafficCollects, TrafficTimes
    <2>5. QED
        BY <2>1, <2>2, <2>3, <2>4, TrafficWaits
<1>4. CASE RealtimeWaits
    BY <1>0, <1>4 DEF RealtimeWaits, IsRealtime, IsTrafficProgram
<1>5. CASE RealtimeSleeps
    <2>1. UNCHANGED <<schedulerVars, sourceVars, executorVars, batchVars, runnerVars, todo,
                       phase, stage, parallel_events, working, model, payload, collected,
                       peeks>>
        BY <1>5 DEF RealtimeSleeps, Realtime!Elapse, Realtime!WakeUp, Realtime!vars,
                Realtime!schedulerVars, Realtime!sourceVars, Realtime!executorVars,
                Realtime!batchVars, Realtime!runnerVars
    <2>2. OnTheirWay' = OnTheirWay
        BY <2>1 DEF OnTheirWay
    <2>3. TrafficTodo' /\ TrafficTimes' /\ TrafficCollects' /\ TrafficEvents'
        BY <1>0, <2>1, <2>2 DEF TrafficTodo, TrafficTimes, TrafficCollects, TrafficEvents
    <2>4. phase = "stopped" => model.lane = <<>>
        BY DEF TrafficRuns
    <2>5. phase' # "handling" \/ (phase = "handling" /\ todo' = todo)
        BY <2>1
    <2>6. (phase = "handling" => phase' = "handling") /\ (phase' = "configure" => phase = "configure")
        BY <2>1
    <2>7. QED
        BY <2>1, <2>2, <2>3, <2>4, <2>5, <2>6, TrafficGoesOn DEF TrafficClock
<1>6. QED
    BY <1>1, <1>2, <1>3, <1>4, <1>5

(* The runner inside a tick, but for the handlers. *)
LEMMA TrafficMicroStep ==
    ASSUME TrafficRuns, program' = program, phase' # "panicked",
           SourcePhaseStarts \/ (\E source \in source_batch : SourceFires(source))
           \/ EventPhaseStarts \/ SequentialStepEnds \/ PoolWorks \/ CommandIsApplied
           \/ ParallelStepEnds \/ RestIsDiscarded
    PROVE  TrafficRuns'
<1>0. /\ TrafficTodo /\ TrafficTimes /\ TrafficCollects /\ TrafficEvents
      /\ program.user = "traffic" /\ runner = program.runner /\ IsTrafficProgram(program)
    BY DEF TrafficRuns
<1> USE DEF userVars, SameProgram, parallelVars
<1>1. \A reason : ~Panic(reason)
    BY DEF Panic
<1>2. CASE SourcePhaseStarts
    <2>1. /\ phase = "micro_step" /\ phase' = "source_phase"
          /\ source_ready' \cup source_pending' \subseteq source_ready \cup source_pending
          /\ UNCHANGED <<schedulerVars, executorVars, event_batch, runnerVars, todo>>
          /\ UNCHANGED userVars /\ SameProgram
        BY <1>1, <1>2 DEF SourcePhaseStarts, HookedStartSourcePhase, StartSourcePhase,
                          DrainReadySources
    <2>2. TrafficTodo' /\ TrafficCollects'
        BY <1>0, <2>1 DEF TrafficTodo, TrafficCollects
    <2>3. TrafficTimes'
        BY <1>0, <2>1 DEF TrafficTimes
    <2>4. QED
        BY <2>1, <2>2, <2>3, TrafficWaits
<1>3. CASE \E source \in source_batch : SourceFires(source)
    <2>1. PICK source \in source_batch : SourceFires(source)
        BY <1>3
    <2>2. /\ phase = "source_phase" /\ phase' = "firing"
          /\ UNCHANGED <<schedulerVars, sourceVars, executorVars, event_batch, runnerVars>>
          /\ todo' = Fire(registered[source.source_id + 1])
          /\ UNCHANGED userVars /\ SameProgram
        BY <2>1 DEF SourceFires, HookedFireSource, FireSource
    <2>3. todo' \in Seq(SignalCalls)
        <3>1. todo' = ToggleCalls
            BY <1>0, <2>2 DEF Fire, User
        <3>2. /\ Schedules(ToggleTickInterval, MinimumPriority, ToggleSignal) \in SignalCalls
              /\ Returns({ToggleTickInterval}) \in SignalCalls
            BY DEF SignalCalls
        <3> HIDE DEF SignalCalls
        <3>3. QED
            BY <3>1, <3>2 DEF ToggleCalls
    <2>4. TrafficTodo' /\ TrafficTimes' /\ TrafficCollects'
        BY <1>0, <2>2, <2>3 DEF TrafficTodo, TrafficTimes, TrafficCollects
    <2>5. QED
        BY <2>2, <2>4, TrafficWaits
<1>4. CASE EventPhaseStarts
    <2> DEFINE due == DueAt(event_ready, now)
    <2>1. /\ phase = "source_phase" /\ phase' = "event_phase"
          /\ event_ready' = event_ready \ due /\ event_batch' = due
          /\ UNCHANGED <<event_pending, next_event_id, sourceVars, executorVars, runnerVars,
                         todo>>
          /\ UNCHANGED userVars /\ SameProgram
        BY <1>1, <1>4 DEF EventPhaseStarts, HookedStartEventPhase, StartEventPhase,
                          DrainReadyEvents
    <2>2. due \subseteq event_ready /\ \A e \in due : e.scheduled_at = tick_status.current
        BY DEF DueAt, now
    <2> HIDE DEF due
    <2>3. event_batch = {}
        BY <1>0, <2>1 DEF TrafficEvents
    <2>4. OnTheirWay' = OnTheirWay
        BY <2>1, <2>2, <2>3 DEF OnTheirWay
    <2>5. TrafficTodo' /\ TrafficCollects'
        BY <1>0, <2>1 DEF TrafficTodo, TrafficCollects
    <2>6. TrafficTimes'
        BY <1>0, <2>1, <2>2 DEF TrafficTimes
    <2>7. TrafficEvents'
        BY <1>0, <2>1, <2>2, <2>4 DEF TrafficEvents
    <2>8. QED
        BY <2>1, <2>4, <2>5, <2>6, <2>7, TrafficGoesOn DEF TrafficClock
<1>5. CASE SequentialStepEnds
    <2>1. /\ EndMicroStep /\ UNCHANGED todo /\ UNCHANGED userVars /\ SameProgram
        BY <1>5 DEF SequentialStepEnds, HookedEndMicroStep
    <2>2. /\ phase = "event_phase" /\ event_batch = {} /\ phase' \in {"continue", "end_tick"}
          /\ phase' = "end_tick" =>
                tick_status.current \notin PeekNextTime(event_ready \cup event_pending)
          /\ FlushPendingSources /\ FlushPendingEvents
          /\ UNCHANGED <<tick_status, current_tick, batchVars, runnerVars>>
        BY <1>1, <2>1 DEF EndMicroStep, HasNextInCurrentTick, now
    <2>3. TrafficTodo' /\ TrafficCollects'
        BY <1>0, <2>1, <2>2 DEF TrafficTodo, TrafficCollects
    <2>4. /\ source_ready' = source_ready \cup source_pending /\ source_pending' = {}
          /\ event_ready' = event_ready \cup event_pending /\ event_pending' = {}
        BY <2>2 DEF FlushPendingSources, FlushPendingEvents
    <2>5. phase' = "end_tick" => \A e \in event_ready' : tick_status.current < e.scheduled_at
        <3>1. SUFFICES ASSUME phase' = "end_tick", NEW e \in event_ready \cup event_pending,
                              e.scheduled_at = tick_status.current
                       PROVE  FALSE
            BY <1>0, <2>4 DEF TrafficTimes
        <3>2. \A f \in event_ready \cup event_pending : e.scheduled_at <= f.scheduled_at
            BY <1>0, <3>1 DEF TrafficTimes
        <3>3. tick_status.current \in PeekNextTime(event_ready \cup event_pending)
            BY <3>1, <3>2 DEF PeekNextTime
        <3>4. QED
            BY <2>2, <3>1, <3>3
    <2>6. TrafficTimes'
        BY <1>0, <2>2, <2>4, <2>5 DEF TrafficTimes
    <2>7. QED
        BY <2>1, <2>2, <2>3, <2>6, TrafficFlushes
<1>6. CASE PoolWorks \/ CommandIsApplied \/ ParallelStepEnds
    BY <1>0, <1>6 DEF PoolWorks, CommandIsApplied, ApplyCommand, ParallelStepEnds,
                CompleteEventPhase, IsParallel, IsTrafficProgram, TrafficEvents
<1>7. CASE RestIsDiscarded
    BY <1>0, <1>7 DEF RestIsDiscarded, DiscardAtLimit, LimitReached, Strategy, IsTrafficProgram
<1>8. QED
    BY <1>2, <1>3, <1>4, <1>5, <1>6, <1>7

(***************************************************************************)
(* The handlers.                                                           *)
(***************************************************************************)

(* The event that is handled is not on its way any more. *)
IsTaken(event) ==
    /\ event \in event_batch /\ event \in OnTheirWay
    /\ phase = "event_phase" /\ phase' = "handling"
    /\ OnTheirWay' = OnTheirWay \ {event}
    /\ UNCHANGED <<payload, next_event_id, runner, runner_error>>
    /\ TrafficTimes' /\ TrafficCollects' /\ TrafficEvents'

LEMMA TrafficTakes ==
    ASSUME TrafficRuns, NEW event \in event_batch, EventIsHandled(event), program' = program
    PROVE  /\ IsTaken(event)
           /\ payload[event.event_id + 1] \in TrafficPayloads
           /\ \E reaction \in TrafficHandleEvent(model, payload[event.event_id + 1]) :
                  model' = reaction.model /\ todo' = reaction.calls
<1>0. /\ TrafficTimes /\ TrafficCollects /\ TrafficEvents
      /\ IsTrafficProgram(program) /\ program.user = "traffic"
    BY DEF TrafficRuns
<1> DEFINE p == payload[event.event_id + 1]
<1>1. event \in OnTheirWay
    BY DEF OnTheirWay
<1>2. ~IsParallel
    BY <1>0 DEF IsParallel, IsTrafficProgram
<1>3. /\ phase = "event_phase" /\ phase' = "handling"
      /\ event_batch' = event_batch \ {event}
      /\ UNCHANGED <<schedulerVars, sourceVars, executorVars, runnerVars, stage,
                     parallel_events, working, payload, peeks, collected>>
      /\ \E reaction \in TrafficHandleEvent(model, p) :
            model' = reaction.model /\ todo' = reaction.calls
    BY <1>0, <1>2 DEF EventIsHandled, HookedHandleEvent, HandleEvent, Enters,
                      HandleEventReactions, User, parallelVars
<1>4. p \in TrafficPayloads
    <2>1. /\ payload \in Seq(TrafficPayloads) /\ event.event_id + 1 \in 1 .. Len(payload)
        BY <1>0, <1>1 DEF TrafficEvents
    <2> HIDE DEF TrafficPayloads
    <2>2. QED
        BY <2>1
<1> HIDE DEF p
<1>5. OnTheirWay' = OnTheirWay \ {event}
    <2>1. event \notin event_ready \cup event_pending /\ parallel_events = {} /\ working = {}
        BY <1>0 DEF TrafficEvents
    <2>2. QED
        BY <1>3, <2>1 DEF OnTheirWay
<1>6. TrafficTimes'
    BY <1>0, <1>3 DEF TrafficTimes
<1>7. TrafficCollects'
    BY <1>0, <1>3 DEF TrafficCollects
<1>8. TrafficEvents'
    BY <1>0, <1>3, <1>5 DEF TrafficEvents
<1>9. QED
    BY <1>1, <1>3, <1>4, <1>5, <1>6, <1>7, <1>8 DEF IsTaken, p

(* The agents and the arrivals that are left. *)
LEMMA WhatIsLeft ==
    ASSUME TrafficAgents, NEW event, IsTaken(event)
    PROVE  /\ Arriving' = Arriving \ {event}
           /\ \A car : Agents(car)' = Agents(car) \ {event}
           /\ payload[event.event_id + 1].event # "SpawnCar" => event \notin Arriving
           /\ \A car : payload[event.event_id + 1] # Resume(car) => event \notin Agents(car)
           /\ \A car \in Nat : IF InLane(car) THEN \E e \in Agents(car) : Agents(car) = {e}
                               ELSE Agents(car) = {}
<1>1. \A car : ~IsToResume(car)
    BY DEF IsTaken, IsToResume
<1>2. /\ Arriving' = Arriving \ {event}
      /\ \A car : Agents(car)' = Agents(car) \ {event}
    <2> HIDE DEF Resume
    <2>1. QED
        BY DEF IsTaken, Arriving, Agents
<1>3. QED
    BY <1>1, <1>2 DEF Arriving, Agents, TrafficAgents

(* Who schedules an agent from a handler. *)
LEMMA WhoIsToResume ==
    ASSUME phase' = "handling"
    PROVE  /\ todo' = <<>> => \A car : ~IsToResume(car)'
           /\ \A delay, other : todo' = <<Schedules(delay, MinimumPriority, Resume(other))>> =>
                  \A car : IsToResume(car)' <=> car = other
<1>1. todo' = <<>> => \A car : ~IsToResume(car)'
    BY DEF IsToResume
<1>2. ASSUME NEW delay, NEW other,
             todo' = <<Schedules(delay, MinimumPriority, Resume(other))>>
      PROVE  \A car : IsToResume(car)' <=> car = other
    <2>1. todo' # <<>> /\ NextCall' = Schedules(delay, MinimumPriority, Resume(other))
        BY <1>2 DEF NextCall
    <2>2. NextCall'.payload = Resume(other)
        BY <2>1 DEF Schedules
    <2>3. QED
        BY <2>1, <2>2, PayloadsDiffer DEF IsToResume
<1>3. QED
    BY <1>1, <1>2

(* The signal is switched, and nothing else. *)
LEMMA SignalIsToggled ==
    ASSUME TrafficRuns, program' = program, NEW event, IsTaken(event),
           payload[event.event_id + 1] = ToggleSignal,
           model' = Toggled(model), todo' = <<>>
    PROVE  TrafficRuns'
<1>0. TrafficArrives /\ TrafficCars /\ TrafficAgents
    BY DEF TrafficRuns
<1>1. /\ model'.cars = model.cars /\ model'.lane = model.lane /\ model'.steps = model.steps
      /\ model' = [signal |-> model'.signal, cars |-> model'.cars, lane |-> model'.lane,
                   steps |-> model'.steps]
    BY <1>0 DEF Toggled, TrafficCars
<1>2. /\ Arriving' = Arriving /\ \A car \in Nat : Agents(car)' = Agents(car)
    <2>1. /\ payload[event.event_id + 1].event # "SpawnCar"
          /\ \A car : payload[event.event_id + 1] # Resume(car)
        BY PayloadsDiffer
    <2>2. /\ event \notin Arriving /\ Arriving' = Arriving \ {event}
          /\ \A car : event \notin Agents(car) /\ Agents(car)' = Agents(car) \ {event}
        BY <1>0, <2>1, WhatIsLeft
    <2>3. QED
        BY <2>2
<1>3. \A car : InLane(car)' <=> InLane(car)
    BY <1>1 DEF InLane
<1>4. TrafficArrives'
    BY <1>0, <1>1, <1>2 DEF TrafficArrives, IsTaken
<1>5. TrafficCars'
    BY <1>0, <1>1, <1>3 DEF TrafficCars
<1>6. TrafficAgents'
    BY <1>0, <1>2, <1>3, WhatIsLeft, WhoIsToResume DEF TrafficAgents, IsTaken
<1>7. TrafficTodo'
    BY DEF TrafficTodo, IsTaken
<1>8. QED
    BY <1>4, <1>5, <1>6, <1>7 DEF TrafficRuns, IsTaken, IsTrafficProgram

(* A car arrives: the next one, as no earlier tick has an arrival left. *)
LEMMA NextCarArrives ==
    ASSUME TrafficRuns, NEW event, IsTaken(event), NEW car \in Nat,
           payload[event.event_id + 1] = SpawnCar(car)
    PROVE  /\ car = Len(model.cars) + 1
           /\ \E count \in Nat :
                 /\ Arriving' = {ArrivesAt(tick) : tick \in Len(model.cars) + 1 .. count - 1}
                 /\ \A tick \in Len(model.cars) + 1 .. count - 1 :
                       payload[tick + 1] = SpawnCar(tick + 1)
<1>0. TrafficTimes /\ TrafficEvents /\ TrafficArrives /\ TrafficCars /\ TrafficAgents
    BY DEF TrafficRuns
<1> DEFINE n == Len(model.cars)
<1>1. n \in Nat
    BY <1>0 DEF TrafficCars
<1> HIDE DEF n
<1>2. PICK count \in Nat :
          /\ Arriving = {ArrivesAt(tick) : tick \in n .. count - 1}
          /\ \A tick \in n .. count - 1 : payload[tick + 1] = SpawnCar(tick + 1)
    BY <1>0 DEF TrafficArrives, n
<1>3. event \in Arriving
    BY PayloadsDiffer DEF Arriving, IsTaken
<1>4. PICK tick \in n .. count - 1 : event = ArrivesAt(tick)
    BY <1>2, <1>3
<1>5. \A t : ArrivesAt(t).event_id = t /\ ArrivesAt(t).scheduled_at = t
    BY DEF ArrivesAt
<1>6. tick = tick_status.current
    BY <1>0, <1>4, <1>5 DEF TrafficTimes, IsTaken
<1>7. n \in n .. count - 1
    BY <1>1, <1>4
<1>8. ArrivesAt(n) \in OnTheirWay
    BY <1>2, <1>7 DEF Arriving
<1>9. tick_status.current <= n
    <2>1. ArrivesAt(n) \in event_ready \cup event_pending \cup event_batch
        BY <1>0, <1>8 DEF OnTheirWay, TrafficEvents
    <2>2. tick_status.current <= ArrivesAt(n).scheduled_at
        BY <1>0, <2>1 DEF TrafficTimes
    <2>3. QED
        BY <1>5, <2>2
<1>10. tick = n
    BY <1>1, <1>4, <1>6, <1>9
<1>11. car = n + 1
    BY <1>2, <1>4, <1>5, <1>10, PayloadsDiffer
<1>12. Arriving' = {ArrivesAt(t) : t \in n + 1 .. count - 1}
    <2>1. Arriving' = Arriving \ {ArrivesAt(n)}
        BY <1>0, <1>4, <1>10, WhatIsLeft
    <2>2. \A t : t \in n + 1 .. count - 1 <=> t \in n .. count - 1 /\ t # n
        BY <1>1
    <2>3. QED
        BY <1>2, <1>5, <2>1, <2>2
<1>13. \A t \in n + 1 .. count - 1 : payload[t + 1] = SpawnCar(t + 1)
    BY <1>1, <1>2
<1>14. QED
    BY <1>11, <1>12, <1>13 DEF n

LEMMA CarIsSpawned ==
    ASSUME TrafficRuns, program' = program, NEW event, IsTaken(event), NEW car \in Nat,
           payload[event.event_id + 1] = SpawnCar(car),
           model' = Spawned(model, car),
           todo' = <<Schedules(0, MinimumPriority, Resume(car))>>
    PROVE  TrafficRuns'
<1>0. TrafficArrives /\ TrafficCars /\ TrafficAgents
    BY DEF TrafficRuns
<1> DEFINE n == Len(model.cars)
           new == [position |-> SpawnPosition, is_stopped |-> FALSE]
<1>1. car = n + 1
    BY NextCarArrives
<1>2. PICK S : model.cars \in Seq(S)
    BY <1>0 DEF TrafficCars
<1>3. /\ n \in Nat /\ Len(model.steps) = n /\ model.steps \in Seq(Plans)
      /\ model.lane \in Seq(1 .. n)
    BY <1>0, <1>2 DEF TrafficCars
<1>4. /\ model'.cars = Append(model.cars, new)
      /\ model'.lane = Append(model.lane, car)
      /\ model'.steps = Append(model.steps, CarScenario)
      /\ model' = [signal |-> model'.signal, cars |-> model'.cars, lane |-> model'.lane,
                   steps |-> model'.steps]
    BY <1>0 DEF Spawned, TrafficCars
<1>5. /\ CarScenario \in Plans
      /\ CarScenario \notin {<<>>, <<PassingExecutedStep>>}
    BY DEF CarScenario, Plans, ApproachSteps, PassingExecutedStep
<1> HIDE DEF n, new, Plans
<1>6. /\ \E R : model'.cars \in Seq(R)
      /\ Len(model'.cars) = n + 1 /\ \A k \in 1 .. n : model'.cars[k] = model.cars[k]
    <2>1. model.cars \in Seq(S \cup {new}) /\ Len(model.cars) = n
        BY <1>2 DEF n
    <2>2. Append(model.cars, new) \in Seq(S \cup {new})
        BY <2>1
    <2>3. QED
        BY <1>3, <1>4, <2>1, <2>2
<1>7. /\ model'.steps \in Seq(Plans) /\ Len(model'.steps) = n + 1
      /\ \A k \in 1 .. n : model'.steps[k] = model.steps[k]
      /\ model'.steps[n + 1] = CarScenario
    BY <1>3, <1>4, <1>5
<1>8. /\ model'.lane \in Seq(1 .. n + 1) /\ Len(model'.lane) = Len(model.lane) + 1
      /\ \A k \in 1 .. Len(model.lane) : model'.lane[k] = model.lane[k] /\ model.lane[k] \in 1 .. n
      /\ model'.lane[Len(model.lane) + 1] = n + 1 /\ Len(model.lane) \in Nat
    <2>1. model.lane \in Seq(1 .. n + 1) /\ car \in 1 .. n + 1
        BY <1>1, <1>3
    <2>2. /\ model'.lane \in Seq(1 .. n + 1) /\ Len(model'.lane) = Len(model.lane) + 1
          /\ model'.lane[Len(model.lane) + 1] = car
          /\ \A k \in 1 .. Len(model.lane) : model'.lane[k] = model.lane[k]
        BY <1>4, <2>1, AppendProperties
    <2>3. Len(model.lane) \in Nat /\ \A k \in 1 .. Len(model.lane) : model.lane[k] \in 1 .. n
        BY <1>3
    <2>4. QED
        BY <1>1, <2>2, <2>3
<1>9. \A other : InLane(other)' <=> InLane(other) \/ other = n + 1
    <2>1. \A k : k \in 1 .. Len(model.lane) + 1 <=>
                     k \in 1 .. Len(model.lane) \/ k = Len(model.lane) + 1
        BY <1>8
    <2>2. QED
        BY <1>8, <2>1 DEF InLane
<1>10. ~InLane(n + 1)
    <2>1. n + 1 \notin 1 .. n
        BY <1>3
    <2>2. \A k \in 1 .. Len(model.lane) : model.lane[k] \in 1 .. n
        BY <1>8
    <2>3. QED
        BY <2>1, <2>2 DEF InLane
<1>11. TrafficCars'
    <2>1. \A j, k \in 1 .. Len(model'.lane) : model'.lane[j] = model'.lane[k] => j = k
        <3>1. \A k \in 1 .. Len(model'.lane) : k \in 1 .. Len(model.lane) \/ k = Len(model.lane) + 1
            BY <1>8
        <3>2. \A j, k \in 1 .. Len(model.lane) : model.lane[j] = model.lane[k] => j = k
            BY <1>0 DEF TrafficCars
        <3>3. n + 1 \notin 1 .. n
            BY <1>3
        <3>4. \A k \in 1 .. Len(model.lane) : model'.lane[k] # model'.lane[Len(model.lane) + 1]
            BY <1>8, <3>3
        <3>5. \A j, k \in 1 .. Len(model.lane) : model'.lane[j] = model'.lane[k] => j = k
            BY <1>8, <3>2
        <3>6. QED
            BY <3>1, <3>4, <3>5
    <2>2. ASSUME NEW other \in 1 .. n + 1
          PROVE  /\ model'.steps[other] = <<>> <=> ~InLane(other)'
                 /\ model'.steps[other] \in {<<>>, <<PassingExecutedStep>>} =>
                        model'.cars[other].position > 0
        <3>1. CASE other \in 1 .. n
            <4>1. other # n + 1
                BY <1>3, <3>1
            <4>2. /\ model.steps[other] = <<>> <=> ~InLane(other)
                  /\ model.steps[other] \in {<<>>, <<PassingExecutedStep>>} =>
                        model.cars[other].position > 0
                BY <1>0, <3>1 DEF TrafficCars, n
            <4>3. model'.steps[other] = model.steps[other] /\ model'.cars[other] = model.cars[other]
                BY <1>6, <1>7, <3>1
            <4>4. QED
                BY <1>9, <4>1, <4>2, <4>3
        <3>2. CASE other = n + 1
            BY <1>5, <1>7, <1>9, <3>2
        <3>3. QED
            BY <1>3, <3>1, <3>2
    <2>3. QED
        BY <1>4, <1>6, <1>7, <1>8, <2>1, <2>2 DEF TrafficCars
<1>12. TrafficArrives'
    BY <1>6, NextCarArrives DEF TrafficArrives, IsTaken, n
<1>13. TrafficAgents'
    <2>1. \A other \in Nat : Agents(other)' = Agents(other)
        <3>1. \A other : payload[event.event_id + 1] # Resume(other)
            BY PayloadsDiffer
        <3>2. \A other : event \notin Agents(other) /\ Agents(other)' = Agents(other) \ {event}
            BY <1>0, <3>1, WhatIsLeft
        <3>3. QED
            BY <3>2
    <2>2. \A other : IsToResume(other)' <=> other = n + 1
        BY <1>1, WhoIsToResume DEF IsTaken
    <2>3. \A other \in Nat : IF InLane(other) THEN \E e \in Agents(other) : Agents(other) = {e}
                             ELSE Agents(other) = {}
        BY <1>0, WhatIsLeft
    <2>4. QED
        BY <1>9, <1>10, <2>1, <2>2, <2>3 DEF TrafficAgents
<1>14. TrafficTodo'
    BY DEF TrafficTodo, IsTaken, AgentCalls, AgentDelays
<1>15. QED
    BY <1>11, <1>12, <1>13, <1>14 DEF TrafficRuns, IsTaken, IsTrafficProgram

(* A car is moved and given the steps to come: it stays in the lane. *)
LEMMA CarMoves ==
    ASSUME TrafficCars, NEW car \in 1 .. Len(model.cars), InLane(car), NEW moved,
           NEW plan \in Plans, plan # <<>>, plan = <<PassingExecutedStep>> => moved.position > 0,
           model' = [model EXCEPT !.cars[car] = moved, !.steps[car] = plan]
    PROVE  /\ TrafficCars' /\ Len(model'.cars) = Len(model.cars) /\ model'.steps[car] = plan
           /\ \A other : InLane(other)' <=> InLane(other)
<1>1. /\ model'.cars = [model.cars EXCEPT ![car] = moved]
      /\ model'.steps = [model.steps EXCEPT ![car] = plan]
      /\ model'.lane = model.lane
      /\ model' = [signal |-> model'.signal, cars |-> model'.cars, lane |-> model'.lane,
                   steps |-> model'.steps]
    BY DEF TrafficCars
<1>2. PICK S : model.cars \in Seq(S)
    BY DEF TrafficCars
<1>3. /\ model.steps \in Seq(Plans) /\ Len(model.steps) = Len(model.cars)
      /\ Len(model.cars) \in Nat
    BY <1>2 DEF TrafficCars
<1> HIDE DEF Plans
<1>4. /\ model'.cars \in Seq(S \cup {moved}) /\ Len(model'.cars) = Len(model.cars)
      /\ \A k \in 1 .. Len(model.cars) :
            model'.cars[k] = IF k = car THEN moved ELSE model.cars[k]
    <2>1. model.cars \in Seq(S \cup {moved}) /\ moved \in S \cup {moved}
        BY <1>2
    <2>2. QED
        BY <1>1, <2>1, ExceptSeq
<1>5. /\ model'.steps \in Seq(Plans) /\ Len(model'.steps) = Len(model.cars)
      /\ \A k \in 1 .. Len(model.cars) :
            model'.steps[k] = IF k = car THEN plan ELSE model.steps[k]
    BY <1>1, <1>3, ExceptSeq
<1>6. \A other : InLane(other)' <=> InLane(other)
    BY <1>1 DEF InLane
<1>7. ASSUME NEW other \in 1 .. Len(model.cars)
      PROVE  /\ model'.steps[other] = <<>> <=> ~InLane(other)'
             /\ model'.steps[other] \in {<<>>, <<PassingExecutedStep>>} =>
                    model'.cars[other].position > 0
    <2>1. CASE other = car
        BY <1>4, <1>5, <1>6, <2>1
    <2>2. CASE other # car
        BY <1>4, <1>5, <1>6, <2>2 DEF TrafficCars
    <2>3. QED
        BY <2>1, <2>2
<1>8. TrafficCars'
    BY <1>1, <1>4, <1>5, <1>7 DEF TrafficCars
<1>9. QED
    BY <1>4, <1>5, <1>6, <1>8

(* A car leaves the lane with its last step. *)
LEMMA CarLeaves ==
    ASSUME TrafficCars, NEW car \in 1 .. Len(model.cars), InLane(car),
           model.cars[car].position > 0,
           model' = [model EXCEPT !.lane = Retained(@, car), !.steps[car] = <<>>]
    PROVE  /\ TrafficCars' /\ model'.cars = model.cars /\ model'.steps[car] = <<>>
           /\ \A other : InLane(other)' <=> InLane(other) /\ other # car
<1> DEFINE n == Len(model.cars)
           left == Retained(model.lane, car)
<1>1. /\ model'.cars = model.cars
      /\ model'.steps = [model.steps EXCEPT ![car] = <<>>]
      /\ model'.lane = left
      /\ model' = [signal |-> model'.signal, cars |-> model'.cars, lane |-> model'.lane,
                   steps |-> model'.steps]
    BY DEF TrafficCars
<1>2. /\ model.steps \in Seq(Plans) /\ Len(model.steps) = n /\ <<>> \in Plans
      /\ model.lane \in Seq(1 .. n)
      /\ \A j, k \in 1 .. Len(model.lane) : model.lane[j] = model.lane[k] => j = k
    BY DEF TrafficCars, Plans
<1>3. HasRetained(model.lane, car, Len(model.lane), left)
    <2> HIDE DEF n
    <2>1. QED
        BY <1>2, RetainedIds
<1> HIDE DEF n, left, Plans
<1>4. /\ model'.steps \in Seq(Plans) /\ Len(model'.steps) = n
      /\ \A k \in 1 .. n : model'.steps[k] = IF k = car THEN <<>> ELSE model.steps[k]
    BY <1>1, <1>2, ExceptSeq DEF n
<1> DEFINE others == {model.lane[j] : j \in 1 .. Len(model.lane)} \ {car}
<1>5. left \in Seq(others)
    BY <1>3 DEF HasRetained
<1>6. others \subseteq 1 .. n
    BY <1>2
<1> HIDE DEF others
<1>7. left \in Seq(1 .. n)
    <2> DEFINE ids == 1 .. n
    <2>1. others \subseteq ids
        BY <1>6
    <2> HIDE DEF ids
    <2>2. left \in Seq(ids)
        BY <1>5, <2>1
    <2>3. QED
        BY <2>2 DEF ids
<1>8. ASSUME NEW other
      PROVE  InLane(other)' <=> InLane(other) /\ other # car
    <2>1. ASSUME InLane(other)' PROVE InLane(other) /\ other # car
        <3>1. PICK k \in 1 .. Len(left) : left[k] = other
            BY <1>1, <2>1 DEF InLane
        <3>2. other \in others
            BY <1>5, <3>1
        <3>3. QED
            BY <3>2 DEF others, InLane
    <2>2. ASSUME InLane(other), other # car PROVE InLane(other)'
        <3>1. PICK j \in 1 .. Len(model.lane) : model.lane[j] = other
            BY <2>2 DEF InLane
        <3>2. \E i \in 1 .. Len(left) : left[i] = model.lane[j]
            BY <1>3, <2>2, <3>1 DEF HasRetained
        <3>3. QED
            BY <1>1, <3>1, <3>2 DEF InLane
    <2>3. QED
        BY <2>1, <2>2
<1>9. TrafficCars'
    <2>1. \A j, k \in 1 .. Len(model'.lane) : model'.lane[j] = model'.lane[k] => j = k
        BY <1>1, <1>3 DEF HasRetained
    <2>2. ASSUME NEW other \in 1 .. n
          PROVE  /\ model'.steps[other] = <<>> <=> ~InLane(other)'
                 /\ model'.steps[other] \in {<<>>, <<PassingExecutedStep>>} =>
                        model'.cars[other].position > 0
        <3>1. CASE other = car
            BY <1>1, <1>4, <1>8, <3>1
        <3>2. CASE other # car
            BY <1>1, <1>4, <1>8, <3>2 DEF TrafficCars, n
        <3>3. QED
            BY <3>1, <3>2
    <2>3. (\E S : model.cars \in Seq(S)) /\ Len(model'.cars) = n
        BY <1>1 DEF TrafficCars, n
    <2>4. QED
        BY <1>1, <1>4, <1>7, <2>1, <2>2, <2>3 DEF TrafficCars
<1>10. QED
    BY <1>1, <1>4, <1>8, <1>9 DEF n

(* What a continuation makes of its car: it stays in the lane, with steps to come, or it *)
(* has passed and leaves with its last step.                                              *)
GoesOn(car) ==
    \E moved : \E plan \in Plans :
        /\ plan # <<>> /\ (plan = <<PassingExecutedStep>> => moved.position > 0)
        /\ model' = [model EXCEPT !.cars[car] = moved, !.steps[car] = plan]
        /\ todo' = <<Schedules(Head(plan).delay, MinimumPriority, Resume(car))>>
        /\ Head(plan).delay \in AgentDelays
Leaves(car) ==
    /\ model.cars[car].position > 0
    /\ model' = [model EXCEPT !.lane = Retained(@, car), !.steps[car] = <<>>]
    /\ todo' = <<>>

LEMMA TwoSteps ==
    ASSUME NEW step, NEW next
    PROVE  /\ <<step>> \o <<next>> = <<step, next>> /\ <<step, next>> # <<>>
           /\ <<step, next>> # <<next>> /\ Head(<<step, next>>) = step
<1>1. <<step>> \o <<next>> = <<step, next>>
    <2>1. /\ <<step>> \in Seq({step, next}) /\ <<next>> \in Seq({step, next})
          /\ <<step, next>> \in Seq({step, next})
        OBVIOUS
    <2>2. /\ <<step>> \o <<next>> \in Seq({step, next}) /\ Len(<<step>> \o <<next>>) = 2
          /\ (<<step>> \o <<next>>)[1] = step /\ (<<step>> \o <<next>>)[2] = next
        BY <2>1, ConcatProperties
    <2>3. Len(<<step, next>>) = 2 /\ <<step, next>>[1] = step /\ <<step, next>>[2] = next
        OBVIOUS
    <2> DEFINE one == <<step>> \o <<next>>
               two == <<step, next>>
               S == {step, next}
    <2> HIDE DEF one, two, S
    <2>4. \A i \in 1 .. Len(one) : i = 1 \/ i = 2
        BY <2>2 DEF one
    <2>5. one \in Seq(S) /\ two \in Seq(S) /\ Len(one) = Len(two)
        BY <2>1, <2>2, <2>3 DEF one, two, S
    <2>6. \A i \in 1 .. Len(one) : one[i] = two[i]
        BY <2>2, <2>3, <2>4 DEF one, two
    <2>7. one = two
        BY <2>5, <2>6, SeqEqual
    <2>8. QED
        BY <2>7 DEF one, two
<1>2. Len(<<step, next>>) = 2 /\ Len(<<next>>) = 1 /\ Len(<<>>) = 0
    OBVIOUS
<1>3. Head(<<step, next>>) = step
    OBVIOUS
<1>4. QED
    BY <1>1, <1>2, <1>3

(* What the directives of an approach are. *)
LEMMA DirectiveIs ==
    ASSUME NEW car
    PROVE  EvaluateApproachStep(model, car).step \in
               {ScheduleNextTick, InterruptImmediate, SpendPhysicalTime}
<1>1. EvaluateStanding(model, car).step \in {ScheduleNextTick, InterruptImmediate}
    <2>1. CASE MayStart(model, car)
        BY <2>1 DEF EvaluateStanding, Directive
    <2>2. CASE ~MayStart(model, car)
        BY <2>2 DEF EvaluateStanding, Directive
    <2>3. QED
        BY <2>1, <2>2
<1>2. EvaluateAtLimit(model, car).step \in {ScheduleNextTick, SpendPhysicalTime}
    BY DEF EvaluateAtLimit, Directive
<1>3. \A position : Directive(position, FALSE, ScheduleNextTick).step = ScheduleNextTick
    BY DEF Directive
<1>4. CASE model.cars[car].is_stopped
    BY <1>1, <1>4 DEF EvaluateApproachStep
<1>5. CASE ~model.cars[car].is_stopped
    BY <1>2, <1>3, <1>5 DEF EvaluateApproachStep
<1>6. QED
    BY <1>4, <1>5

LEMMA CarIsResumed ==
    ASSUME TrafficCars, NEW car \in 1 .. Len(model.cars), InLane(car),
           NEW reaction \in {Resumed(model, car)},
           model' = reaction.model, todo' = reaction.calls
    PROVE  GoesOn(car) \/ Leaves(car)
<1> DEFINE steps == model.steps[car]
<1>1. /\ model = [signal |-> model.signal, cars |-> model.cars, lane |-> model.lane,
                  steps |-> model.steps]
      /\ car \in DOMAIN model.steps /\ steps \in Plans /\ steps # <<>>
      /\ steps \in {<<>>, <<PassingExecutedStep>>} => model.cars[car].position > 0
    <2>1. model.steps \in Seq(Plans) /\ Len(model.steps) = Len(model.cars)
        BY DEF TrafficCars
    <2> HIDE DEF Plans
    <2>2. car \in DOMAIN model.steps /\ steps \in Plans
        BY <2>1
    <2>3. QED
        BY <2>2 DEF TrafficCars
<1>2. /\ AgentStep("approach_loop", TickInterval).delay \in AgentDelays
      /\ AgentStep("approach_loop", 0).delay \in AgentDelays
      /\ AgentStep("passing_execution", CrossingTime).delay \in AgentDelays
      /\ AgentStep("passing_executed", 1).delay \in AgentDelays
    BY DEF AgentStep, AgentDelays, TickInterval, CrossingTime
<1>3. ASSUME NEW left, NEW plan,
             left.steps[car] = plan, plan # <<>>,
             reaction = Reaction(left, IF left.steps[car] = <<>> THEN <<>>
                                       ELSE <<Schedules(Head(left.steps[car]).delay,
                                                        MinimumPriority, Resume(car))>>)
      PROVE  /\ model' = left
             /\ todo' = <<Schedules(Head(plan).delay, MinimumPriority, Resume(car))>>
    BY <1>3 DEF Reaction
<1>4. \A moved, plan :
          LET left == [model EXCEPT !.cars[car] = moved, !.steps[car] = plan]
          IN  left.steps[car] = plan
    BY <1>1
<1>5. CASE steps = <<PassingExecutedStep>>
    <2>1. Head(steps).tag = "passing_executed" /\ Tail(steps) = <<>>
        BY <1>5 DEF PassingExecutedStep, AgentStep
    <2> DEFINE left == PassingExecuted(model, car, <<>>)
    <2>2. reaction = Reaction(left, IF left.steps[car] = <<>> THEN <<>>
                                    ELSE <<Schedules(Head(left.steps[car]).delay,
                                                     MinimumPriority, Resume(car))>>)
        BY <2>1 DEF Resumed
    <2>3. left = [model EXCEPT !.lane = Retained(@, car), !.steps[car] = <<>>]
        BY DEF PassingExecuted
    <2>4. left.steps[car] = <<>>
        BY <1>1, <2>3
    <2> HIDE DEF left
    <2>5. model' = left /\ todo' = <<>>
        BY <2>2, <2>4 DEF Reaction
    <2>6. QED
        BY <1>1, <1>5, <2>3, <2>5 DEF Leaves
<1>6. CASE \E step \in ApproachSteps : steps = <<step, PassingExecutedStep>>
    <2>1. PICK step \in ApproachSteps : steps = <<step, PassingExecutedStep>>
        BY <1>6
    <2>2. Head(steps) = step /\ Tail(steps) = <<PassingExecutedStep>>
        BY <2>1
    <2>3. CASE step.tag = "approach_loop"
        <3> DEFINE left == DispatchSmoothApproach(model, car, <<PassingExecutedStep>>)
                   directive == EvaluateApproachStep(model, car)
                   plan == <<directive.step, PassingExecutedStep>>
        <3>1. reaction = Reaction(left, IF left.steps[car] = <<>> THEN <<>>
                                        ELSE <<Schedules(Head(left.steps[car]).delay,
                                                         MinimumPriority, Resume(car))>>)
            BY <2>2, <2>3 DEF Resumed
        <3>2. left = [model EXCEPT !.cars[car] = directive.car, !.steps[car] = plan]
            BY TwoSteps DEF DispatchSmoothApproach
        <3>3. directive.step \in ApproachSteps /\ directive.step.delay \in AgentDelays
            BY <1>2, DirectiveIs DEF ApproachSteps, ScheduleNextTick, InterruptImmediate,
                                     SpendPhysicalTime, TickInterval
        <3> HIDE DEF left, directive
        <3>4. /\ plan \in Plans /\ plan # <<>> /\ plan # <<PassingExecutedStep>>
              /\ Head(plan) = directive.step
            <4> HIDE DEF ApproachSteps, PassingExecutedStep
            <4>1. QED
                BY <3>3, TwoSteps DEF Plans
        <3> HIDE DEF plan
        <3>5. left.steps[car] = plan
            BY <1>4, <3>2
        <3>6. /\ model' = left
              /\ todo' = <<Schedules(Head(plan).delay, MinimumPriority, Resume(car))>>
            BY <1>3, <3>1, <3>4, <3>5
        <3> HIDE DEF Plans
        <3>7. QED
            BY <3>2, <3>3, <3>4, <3>6 DEF GoesOn
    <2>4. CASE step.tag = "passing_execution"
        <3> DEFINE left == ExecutePassingStep(model, car, <<PassingExecutedStep>>)
        <3>1. reaction = Reaction(left, IF left.steps[car] = <<>> THEN <<>>
                                        ELSE <<Schedules(Head(left.steps[car]).delay,
                                                         MinimumPriority, Resume(car))>>)
            BY <2>2, <2>4 DEF Resumed
        <3>2. CASE model.signal = "Red"
            <4> DEFINE moved == [model.cars[car] EXCEPT !.is_stopped = TRUE]
                       plan == <<InterruptImmediate, PassingExecutedStep>>
            <4>1. left = [model EXCEPT !.cars[car] = moved, !.steps[car] = plan]
                BY <3>2, TwoSteps DEF ExecutePassingStep
            <4>2. InterruptImmediate \in ApproachSteps /\ InterruptImmediate.delay \in AgentDelays
                BY <1>2 DEF ApproachSteps, InterruptImmediate
            <4> HIDE DEF left, moved
            <4>3. /\ plan \in Plans /\ plan # <<>> /\ plan # <<PassingExecutedStep>>
                  /\ Head(plan) = InterruptImmediate
                <5> HIDE DEF ApproachSteps, PassingExecutedStep
                <5>1. QED
                    BY <4>2, TwoSteps DEF Plans
            <4> HIDE DEF plan
            <4>4. left.steps[car] = plan
                BY <1>4, <4>1
            <4>5. /\ model' = left
                  /\ todo' = <<Schedules(Head(plan).delay, MinimumPriority, Resume(car))>>
                BY <1>3, <3>1, <4>3, <4>4
            <4> HIDE DEF Plans
            <4>6. QED
                BY <4>1, <4>2, <4>3, <4>5 DEF GoesOn
        <3>3. CASE model.signal # "Red"
            <4> DEFINE moved == [position |-> PassedPosition, is_stopped |-> FALSE]
                       plan == <<PassingExecutedStep>>
            <4>1. left = [model EXCEPT !.cars[car] = moved, !.steps[car] = plan]
                BY <3>3 DEF ExecutePassingStep
            <4>2. moved.position > 0
                BY DEF PassedPosition
            <4> HIDE DEF left, moved
            <4>3. plan \in Plans /\ plan # <<>> /\ Head(plan) = PassingExecutedStep
                BY DEF Plans
            <4>4. PassingExecutedStep.delay \in AgentDelays
                BY <1>2 DEF PassingExecutedStep
            <4> HIDE DEF plan
            <4>5. left.steps[car] = plan
                BY <1>4, <4>1
            <4>6. /\ model' = left
                  /\ todo' = <<Schedules(Head(plan).delay, MinimumPriority, Resume(car))>>
                BY <1>3, <3>1, <4>3, <4>5
            <4> HIDE DEF Plans
            <4>7. QED
                BY <4>1, <4>2, <4>3, <4>4, <4>6 DEF GoesOn
        <3>4. QED
            BY <3>2, <3>3
    <2>5. step.tag \in {"approach_loop", "passing_execution"}
        BY DEF ApproachSteps, AgentStep, SpendPhysicalTime
    <2>6. QED
        BY <2>3, <2>4, <2>5
<1>7. QED
    BY <1>1, <1>5, <1>6 DEF Plans

(* The agent of a car in the lane is taken; with its next one the car has one again, *)
(* unless it leaves the lane.                                                         *)
LEMMA AgentIsResumed ==
    ASSUME TrafficRuns, program' = program, NEW event, IsTaken(event), NEW car \in Nat,
           payload[event.event_id + 1] = Resume(car),
           NEW reaction \in {Resumed(model, car)},
           model' = reaction.model, todo' = reaction.calls
    PROVE  TrafficRuns'
<1>0. TrafficArrives /\ TrafficCars /\ TrafficAgents
    BY DEF TrafficRuns
<1>1. event \in Agents(car)
    BY DEF Agents, IsTaken
<1>2. InLane(car) /\ Agents(car) = {event}
    BY <1>0, <1>1, WhatIsLeft
<1>3. car \in 1 .. Len(model.cars)
    BY <1>0, <1>2 DEF InLane, TrafficCars
<1>4. GoesOn(car) \/ Leaves(car)
    BY <1>0, <1>2, <1>3, CarIsResumed
<1>5. Arriving' = Arriving
    <2>1. payload[event.event_id + 1].event # "SpawnCar"
        BY PayloadsDiffer
    <2>2. event \notin Arriving /\ Arriving' = Arriving \ {event}
        BY <1>0, <2>1, WhatIsLeft
    <2>3. QED
        BY <2>2
<1>6. Agents(car)' = {} /\ \A other \in Nat \ {car} : Agents(other)' = Agents(other)
    <2>1. \A other : other # car => payload[event.event_id + 1] # Resume(other)
        BY PayloadsDiffer
    <2>2. /\ \A other : Agents(other)' = Agents(other) \ {event}
          /\ \A other : other # car => event \notin Agents(other)
        BY <1>0, <2>1, WhatIsLeft
    <2>3. QED
        BY <1>2, <2>2
<1>7. \A other \in Nat : IF InLane(other) THEN \E e \in Agents(other) : Agents(other) = {e}
                         ELSE Agents(other) = {}
    BY <1>0, WhatIsLeft
<1>8. /\ TrafficCars' /\ Len(model'.cars) = Len(model.cars)
      /\ TrafficTodo'
      /\ \A other \in Nat : other # car => (InLane(other)' <=> InLane(other))
      /\ IF todo' = <<>> THEN ~InLane(car)' /\ \A other : ~IsToResume(other)'
         ELSE InLane(car)' /\ \A other : IsToResume(other)' <=> other = car
    <2>0. phase' = "handling"
        BY DEF IsTaken
    <2>1. CASE GoesOn(car)
        <3>0. PICK moved : \E plan \in Plans :
                  /\ plan # <<>> /\ (plan = <<PassingExecutedStep>> => moved.position > 0)
                  /\ model' = [model EXCEPT !.cars[car] = moved, !.steps[car] = plan]
                  /\ todo' = <<Schedules(Head(plan).delay, MinimumPriority, Resume(car))>>
                  /\ Head(plan).delay \in AgentDelays
            BY <2>1 DEF GoesOn
        <3>1. PICK plan \in Plans :
                  /\ plan # <<>> /\ (plan = <<PassingExecutedStep>> => moved.position > 0)
                  /\ model' = [model EXCEPT !.cars[car] = moved, !.steps[car] = plan]
                  /\ todo' = <<Schedules(Head(plan).delay, MinimumPriority, Resume(car))>>
                  /\ Head(plan).delay \in AgentDelays
            BY <3>0
        <3> HIDE DEF Plans
        <3>2. TrafficCars' /\ Len(model'.cars) = Len(model.cars)
              /\ \A other : InLane(other)' <=> InLane(other)
            BY <1>0, <1>2, <1>3, <3>1, CarMoves
        <3>3. todo' # <<>> /\ \A other : IsToResume(other)' <=> other = car
            BY <2>0, <3>1, WhoIsToResume
        <3>4. TrafficTodo'
            <4>1. Schedules(Head(plan).delay, MinimumPriority, Resume(car)) \in AgentCalls
                BY <3>1 DEF AgentCalls
            <4>2. QED
                BY <2>0, <3>1, <4>1 DEF TrafficTodo
        <3>5. QED
            BY <1>2, <3>2, <3>3, <3>4
    <2>2. CASE Leaves(car)
        <3>1. /\ model.cars[car].position > 0 /\ todo' = <<>>
              /\ model' = [model EXCEPT !.lane = Retained(@, car), !.steps[car] = <<>>]
            BY <2>2 DEF Leaves
        <3>2. TrafficCars' /\ model'.cars = model.cars
              /\ \A other : InLane(other)' <=> InLane(other) /\ other # car
            BY <1>0, <1>2, <1>3, <3>1, CarLeaves
        <3>3. \A other : ~IsToResume(other)'
            BY <2>0, <3>1, WhoIsToResume
        <3>4. TrafficTodo'
            BY <2>0, <3>1 DEF TrafficTodo
        <3>5. QED
            BY <3>1, <3>2, <3>3, <3>4
    <2>3. QED
        BY <1>4, <2>1, <2>2
<1>9. TrafficArrives'
    BY <1>0, <1>5, <1>8 DEF TrafficArrives, IsTaken
<1>10. TrafficAgents'
    <2>1. ASSUME NEW other \in Nat
          PROVE  /\ IF InLane(other)' /\ ~IsToResume(other)'
                    THEN \E e \in Agents(other)' : Agents(other)' = {e}
                    ELSE Agents(other)' = {}
                 /\ IsToResume(other)' => InLane(other)'
        <3>1. CASE other = car
            BY <1>6, <1>8, <3>1
        <3>2. CASE other # car
            BY <1>6, <1>7, <1>8, <3>2
        <3>3. QED
            BY <3>1, <3>2
    <2>2. QED
        BY <2>1 DEF TrafficAgents
<1>11. QED
    BY <1>8, <1>9, <1>10 DEF TrafficRuns, IsTaken, IsTrafficProgram

LEMMA TrafficHandles ==
    ASSUME TrafficRuns, NEW event \in event_batch, EventIsHandled(event), program' = program
    PROVE  TrafficRuns'
<1> DEFINE p == payload[event.event_id + 1]
<1>1. IsTaken(event) /\ p \in TrafficPayloads
    BY TrafficTakes
<1>2. PICK reaction \in TrafficHandleEvent(model, p) :
          model' = reaction.model /\ todo' = reaction.calls
    BY TrafficTakes
<1> HIDE DEF p
<1>3. CASE p = ToggleSignal
    <2>1. reaction = Reaction(Toggled(model), <<>>)
        BY <1>2, <1>3, PayloadsDiffer DEF TrafficHandleEvent
    <2>2. model' = Toggled(model) /\ todo' = <<>>
        BY <1>2, <2>1 DEF Reaction
    <2>3. QED
        BY <1>1, <1>3, <2>2, SignalIsToggled DEF p
<1>4. ASSUME NEW car \in Nat, p = SpawnCar(car)
      PROVE  TrafficRuns'
    <2>1. p.event = "SpawnCar" /\ p.car = car
        BY <1>4, PayloadsDiffer
    <2>2. reaction = Reaction(Spawned(model, car), <<Schedules(0, MinimumPriority, Resume(car))>>)
        BY <1>2, <2>1 DEF TrafficHandleEvent
    <2>3. /\ model' = Spawned(model, car)
          /\ todo' = <<Schedules(0, MinimumPriority, Resume(car))>>
        BY <1>2, <2>2 DEF Reaction
    <2>4. QED
        BY <1>1, <1>4, <2>3, CarIsSpawned DEF p
<1>5. ASSUME NEW car \in Nat, p = Resume(car)
      PROVE  TrafficRuns'
    <2>1. p.event = "Resume" /\ p.car = car
        BY <1>5, PayloadsDiffer
    <2>2. reaction \in {Resumed(model, car)}
        BY <1>2, <2>1 DEF TrafficHandleEvent
    <2>3. QED
        BY <1>1, <1>2, <1>5, <2>2, AgentIsResumed DEF p
<1>6. QED
    BY <1>1, <1>3, <1>4, <1>5 DEF TrafficPayloads

(***************************************************************************)
(* The cars are driven.                                                    *)
(***************************************************************************)
TrafficUnlessPanicked == program.user = "traffic" => phase = "panicked" \/ TrafficRuns

(* Every step that does not panic keeps the invariant. *)
LEMMA TrafficStep ==
    ASSUME TrafficRuns, [ProgramNext]_programVars, phase' # "panicked"
    PROVE  TrafficRuns'
<1>1. program' = program
    BY ProgramStays
<1>2. CASE ProgramUserStep
    BY <1>1, <1>2, TrafficUserStep
<1>3. CASE ProgramRunnerStep
    <2>1. CASE SilentStep
        BY <1>1, <2>1, TrafficTickStep, TrafficStarts DEF SilentStep
    <2>2. QED
        BY <1>1, <1>3, <2>1, TrafficTickStep, TrafficStarts, TrafficTickEnds, TrafficMicroStep,
           TrafficHandles DEF ProgramRunnerStep
<1>4. CASE UNCHANGED programVars
    <2>1. UNCHANGED <<schedulerVars, sourceVars, executorVars, batchVars, runnerVars, todo,
                       phase, stage, parallel_events, working, model, payload, collected,
                       peeks>>
        BY <1>4 DEF programVars, hookedVars, parallelVars, userVars
    <2>2. OnTheirWay' = OnTheirWay
        BY <2>1 DEF OnTheirWay
    <2>3. TrafficClock'
        BY <2>1, <2>2 DEF TrafficClock, TrafficRuns, TrafficTodo, TrafficTimes, TrafficCollects,
                          TrafficEvents
    <2>4. /\ phase' # "handling" \/ (phase = "handling" /\ todo' = todo)
          /\ phase = "handling" => phase' = "handling"
          /\ phase' = "configure" => phase = "configure"
          /\ phase' = "stopped" => model.lane = <<>>
        BY <2>1 DEF TrafficRuns
    <2>5. QED
        BY <1>1, <2>1, <2>2, <2>3, <2>4, TrafficGoesOn
<1>5. QED
    BY <1>2, <1>3, <1>4 DEF ProgramNext, ProgramIsOver

(* main has the calls of the set-up to make, and nothing is on its way. *)
LEMMA InitTraffic ==
    ASSUME ProgramInit, program.user = "traffic"
    PROVE  TrafficRuns
<1>1. IsTrafficProgram(program)
    BY ExamplesAssumption DEF ProgramInit
<1>2. /\ Init /\ stage = "sync" /\ parallel_events = {} /\ working = {}
      /\ todo = program.setup /\ model = EmptyRoad /\ payload = <<>>
      /\ runner = program.runner /\ collected = 0 /\ peeks = 0
    BY <1>1 DEF ProgramInit, HookedInit, IsTrafficProgram
<1>3. /\ event_ready = {} /\ event_pending = {} /\ event_batch = {} /\ next_event_id = 0
      /\ source_ready = {} /\ source_pending = {} /\ phase = "configure"
      /\ tick_status = InitialTickStatus /\ current_tick = 0 /\ runner_error = FALSE
    BY <1>2 DEF Init, SchedulerInit, SourceInit
<1>4. OnTheirWay = {}
    BY <1>2, <1>3 DEF OnTheirWay
<1>5. TrafficTodo
    <2>1. PICK count \in Time : program.setup = CarArrivals(count) \o <<AddsSource(SignalSource)>>
        BY <1>1 DEF IsTrafficProgram
    <2>2. count \in Nat /\ \A k \in 1 .. count : k \in Time \ {0}
        BY <2>1, MaxTimeAssumption DEF Time
    <2> DEFINE arrivals == CarArrivals(count)
               last == <<AddsSource(SignalSource)>>
    <2>3. /\ arrivals \in Seq(SetUpCalls) /\ Len(arrivals) = count
          /\ \A k \in 1 .. count : arrivals[k] = Schedules(k - 1, MinimumPriority, SpawnCar(k))
        <3>1. \A k \in 1 .. count : Schedules(k - 1, MinimumPriority, SpawnCar(k)) \in SetUpCalls
            BY <2>2 DEF SetUpCalls
        <3> HIDE DEF SetUpCalls
        <3>2. arrivals \in [1 .. count -> SetUpCalls]
            BY <3>1 DEF CarArrivals
        <3>3. arrivals \in Seq(SetUpCalls) /\ Len(arrivals) = count
            BY <2>2, <3>2
        <3>4. QED
            BY <3>3 DEF CarArrivals
    <2>4. last \in Seq(SetUpCalls) /\ Len(last) = 1 /\ last[1] = AddsSource(SignalSource)
        <3>1. AddsSource(SignalSource) \in SetUpCalls
            BY DEF SetUpCalls
        <3> HIDE DEF SetUpCalls
        <3>2. QED
            BY <3>1
    <2> HIDE DEF arrivals, last, SetUpCalls
    <2>5. /\ todo \in Seq(SetUpCalls) /\ Len(todo) = count + 1
          /\ \A k \in 1 .. count + 1 :
                todo[k] = IF k <= count THEN arrivals[k] ELSE last[k - count]
        BY <1>2, <2>1, <2>3, <2>4, ConcatProperties DEF arrivals, last
    <2>6. ASSUME NEW k \in 1 .. Len(todo)
          PROVE  todo[k] = IF k = Len(todo) THEN AddsSource(SignalSource)
                           ELSE Schedules(next_event_id + k - 1, MinimumPriority,
                                          SpawnCar(next_event_id + k))
        <3>1. next_event_id + k - 1 = k - 1 /\ next_event_id + k = k /\ k \in Nat
            BY <1>3, <2>5
        <3>2. CASE k = Len(todo)
            <4>1. ~(k <= count) /\ k - count = 1 /\ k \in 1 .. count + 1
                BY <2>2, <2>5, <3>2
            <4>2. todo[k] = last[1]
                BY <2>5, <4>1
            <4>3. QED
                BY <2>4, <3>2, <4>2
        <3>3. CASE k # Len(todo)
            <4>1. k \in 1 .. count /\ k <= count /\ k \in 1 .. count + 1
                BY <2>2, <2>5, <3>3
            <4>2. todo[k] = arrivals[k]
                BY <2>5, <4>1
            <4>3. QED
                BY <2>3, <3>1, <3>3, <4>1, <4>2
        <3>4. QED
            BY <3>2, <3>3
    <2>7. QED
        BY <1>3, <2>5, <2>6 DEF TrafficTodo
<1>6. TrafficTimes
    BY <1>3 DEF TrafficTimes, InitialTickStatus, TickStatus
<1>7. TrafficCollects
    BY <1>2, <1>3 DEF TrafficCollects
<1>8. TrafficEvents
    BY <1>2, <1>3, <1>4 DEF TrafficEvents
<1>9. TrafficArrives
    <2>1. Arriving = {}
        BY <1>4 DEF Arriving
    <2>2. Len(model.cars) = 0 /\ 0 .. 0 - 1 = {}
        BY <1>2 DEF EmptyRoad
    <2>3. QED
        BY <1>2, <1>3, <2>1, <2>2 DEF TrafficArrives
<1>10. TrafficCars
    <2>1. /\ model = [signal |-> model.signal, cars |-> model.cars, lane |-> model.lane,
                      steps |-> model.steps]
          /\ model.cars = <<>> /\ model.lane = <<>> /\ model.steps = <<>>
        BY <1>2 DEF EmptyRoad
    <2>2. 1 .. Len(<<>>) = {}
        OBVIOUS
    <2>3. \E S : model.cars \in Seq(S)
        BY <2>1
    <2> HIDE DEF Plans
    <2>4. model.steps \in Seq(Plans) /\ model.lane \in Seq(1 .. Len(model.cars))
        BY <2>1
    <2>5. QED
        BY <2>1, <2>2, <2>3, <2>4 DEF TrafficCars
<1>11. TrafficAgents
    <2>1. \A car : Agents(car) = {} /\ ~IsToResume(car)
        BY <1>3, <1>4 DEF Agents, IsToResume
    <2>2. \A car : ~InLane(car)
        <3>1. model.lane = <<>> /\ 1 .. Len(<<>>) = {}
            BY <1>2 DEF EmptyRoad
        <3>2. QED
            BY <3>1 DEF InLane
    <2>3. QED
        BY <2>1, <2>2 DEF TrafficAgents
<1>12. QED
    BY <1>1, <1>2, <1>3, <1>5, <1>6, <1>7, <1>8, <1>9, <1>10, <1>11 DEF TrafficRuns

(* The invariant says more than the property. *)
LEMMA TrafficIsDriven ==
    ASSUME TrafficRuns
    PROVE  CarsAreDrivenAndDated
<1>0. TrafficCollects /\ TrafficCars /\ TrafficAgents
    BY DEF TrafficRuns
<1>1. DOMAIN model.cars = 1 .. Len(model.cars) /\ Len(model.cars) \in Nat
      /\ DOMAIN model.lane = 1 .. Len(model.lane)
    BY <1>0 DEF TrafficCars
<1>2. ASSUME phase \notin {"handling", "configure", "panicked"}, NEW car \in 1 .. Len(model.cars)
      PROVE  Jobs(Resume(car)) = Cardinality({k \in DOMAIN model.lane : model.lane[k] = car})
    <2> DEFINE places == {k \in DOMAIN model.lane : model.lane[k] = car}
    <2>1. Jobs(Resume(car)) = Cardinality(Agents(car))
        BY DEF Jobs, Agents
    <2>2. ~IsToResume(car)
        BY <1>2 DEF IsToResume
    <2>3. CASE InLane(car)
        <3>1. \E e : Agents(car) = {e}
            <4>1. car \in Nat
                BY <1>1
            <4>2. \E e \in Agents(car) : Agents(car) = {e}
                BY <1>0, <2>2, <2>3, <4>1 DEF TrafficAgents
            <4>3. QED
                BY <4>2
        <3>2. \E k : places = {k}
            <4>1. PICK k \in DOMAIN model.lane : model.lane[k] = car
                BY <1>1, <2>3 DEF InLane
            <4>2. \A j \in DOMAIN model.lane : model.lane[j] = model.lane[k] => j = k
                BY <1>0, <1>1 DEF TrafficCars
            <4>3. places = {k}
                BY <4>1, <4>2
            <4>4. QED
                BY <4>3
        <3> HIDE DEF places
        <3>3. Cardinality(Agents(car)) = 1 /\ Cardinality(places) = 1
            BY <3>1, <3>2, FS_Singleton
        <3>4. QED
            BY <2>1, <3>3 DEF places
    <2>4. CASE ~InLane(car)
        <3>1. Agents(car) = {}
            BY <1>0, <1>1, <2>2, <2>4 DEF TrafficAgents
        <3>2. places = {}
            BY <1>1, <2>4 DEF InLane
        <3> HIDE DEF places
        <3>3. QED
            BY <2>1, <3>1, <3>2 DEF places
    <2>5. QED
        BY <2>3, <2>4
<1>3. ASSUME phase = "stopped", NEW car \in 1 .. Len(model.cars)
      PROVE  model.cars[car].position > 0
    <2>1. model.lane = <<>>
        BY <1>3 DEF TrafficRuns
    <2>2. ~InLane(car)
        BY <2>1 DEF InLane
    <2>3. QED
        BY <1>0, <2>2 DEF TrafficCars
<1>4. phase \in {"peek", "stopped"} /\ peeks > 0 => collected = current_tick + 1
    BY <1>0 DEF TrafficCollects
<1>5. QED
    BY <1>1, <1>2, <1>3, <1>4 DEF CarsAreDrivenAndDated

(* agent_run.rs, whatever number of cars main schedules: the collector has a line per tick, *)
(* jumped over or not; every car on the road has one agent on its way and those that have   *)
(* passed have none; and a run that ends has let all pass.                                  *)
THEOREM CarsAreAlwaysDriven == ProgramSpec => []CarsAreDrivenAndDated
<1>1. ProgramInit => TrafficUnlessPanicked
    BY InitTraffic DEF TrafficUnlessPanicked
<1>2. TrafficUnlessPanicked /\ [ProgramNext]_programVars => TrafficUnlessPanicked'
    BY ProgramStays, PanickedStays, TrafficStep DEF TrafficUnlessPanicked
<1>3. TrafficUnlessPanicked => CarsAreDrivenAndDated
    BY TrafficIsDriven DEF TrafficUnlessPanicked, CarsAreDrivenAndDated, User
<1>4. QED
    BY <1>1, <1>2, <1>3, PTL DEF ProgramSpec

(***************************************************************************)
(* The examples are runs of the crate.                                     *)
(***************************************************************************)
LEMMA LittleIsLegal ==
    ASSUME Little
    PROVE  CallsAreLegal
<1>1. todo \in Seq(LittleCalls)
    BY DEF Little, LittleRun
<1>2. todo # <<>> => NextCall \in LittleCalls
    BY <1>1, OneCallFewer DEF NextCall
<1>3. Delays \subseteq Time /\ MinimumPriority \in Priorities
    BY DelaysAssumption, DurationsAssumption
<1>4. QED
    BY <1>2, <1>3 DEF CallsAreLegal, IsLegal, LittleCalls

LEMMA ServerIsLegal ==
    ASSUME Server
    PROVE  CallsAreLegal
<1> SUFFICES ASSUME todo # <<>>
             PROVE  IsLegal(NextCall)
    BY DEF CallsAreLegal
<1>1. /\ {0, ProcessingTime, ParallelProcessingTime} \subseteq Delays
      /\ MinimumPriority \in Priorities
    BY DurationsAssumption
<1>2. CASE phase = "configure"
    <2>1. todo \in Seq(GeneratorCalls)
        BY <1>2 DEF Server, ServerTodo
    <2>2. NextCall \in GeneratorCalls
        BY <2>1 DEF NextCall
    <2>3. QED
        BY <2>2 DEF GeneratorCalls, IsLegal
<1>3. CASE phase = "handling"
    <2>1. NextCall \in TakerCalls
        BY <1>3, NextCallIs
    <2>2. QED
        BY <1>1, <1>3, <2>1 DEF TakerCalls, Processes, Schedules, IsLegal
<1>4. CASE phase \notin {"configure", "handling"}
    <2>1. NextCall \in SourceCalls
        BY <1>4, NextCallIs
    <2>2. CASE NextCall = Arrives
        BY <1>1, <1>4, <2>2 DEF Arrives, Schedules, IsLegal
    <2>3. CASE NextCall \in [call : {"return"}, delay : {{d} : d \in Delays}]
        BY <2>3 DEF IsLegal, Options
    <2>4. QED
        BY <2>1, <2>2, <2>3 DEF SourceCalls
<1>5. QED
    BY <1>2, <1>3, <1>4

LEMMA TrafficIsLegal ==
    ASSUME TrafficRuns
    PROVE  CallsAreLegal
<1> SUFFICES ASSUME todo # <<>>
             PROVE  IsLegal(NextCall)
    BY DEF CallsAreLegal
<1>0. TrafficTodo
    BY DEF TrafficRuns
<1>1. /\ AgentDelays \cup {ToggleTickInterval} \subseteq Delays
      /\ MinimumPriority \in Priorities
    BY DurationsAssumption DEF AgentDelays
<1>2. CASE phase = "configure"
    <2>1. NextCall \in SetUpCalls
        <3>1. todo \in Seq(SetUpCalls)
            BY <1>0, <1>2 DEF TrafficTodo
        <3> HIDE DEF SetUpCalls
        <3>2. QED
            BY <3>1 DEF NextCall
    <2>2. CASE NextCall = AddsSource(SignalSource)
        BY <2>2 DEF AddsSource, IsLegal
    <2>3. CASE \E k \in Time \ {0} : NextCall = Schedules(k - 1, MinimumPriority, SpawnCar(k))
        <3>1. PICK k \in Time \ {0} : NextCall = Schedules(k - 1, MinimumPriority, SpawnCar(k))
            BY <2>3
        <3>2. k - 1 \in Time
            BY MaxTimeAssumption DEF Time
        <3>3. QED
            BY <1>1, <1>2, <3>1, <3>2 DEF Schedules, IsLegal
    <2>4. QED
        BY <2>1, <2>2, <2>3 DEF SetUpCalls
<1>3. CASE phase = "handling"
    <2>1. NextCall \in AgentCalls
        BY <1>0, <1>3, TrafficCallIs
    <2>2. PICK delay \in AgentDelays, car \in Nat :
              NextCall = Schedules(delay, MinimumPriority, Resume(car))
        BY <2>1 DEF AgentCalls
    <2>3. QED
        BY <1>1, <1>3, <2>2 DEF Schedules, IsLegal
<1>4. CASE phase \notin {"configure", "handling"}
    <2>1. NextCall \in SignalCalls
        BY <1>0, <1>4, TrafficCallIs
    <2>2. CASE NextCall = Schedules(ToggleTickInterval, MinimumPriority, ToggleSignal)
        BY <1>1, <1>4, <2>2 DEF Schedules, IsLegal
    <2>3. CASE NextCall = Returns({ToggleTickInterval})
        BY <1>1, <2>3 DEF Returns, IsLegal, Options
    <2>4. QED
        BY <2>1, <2>2, <2>3 DEF SignalCalls
<1>5. QED
    BY <1>2, <1>3, <1>4

(* The examples are runs of the runner they choose, with all that is shown of its runs:  *)
(* they pass no duration and no priority that is not provided for.                       *)
THEOREM ExamplesAreRuns ==
    ProgramSpec /\ program.user \in {"server", "little", "traffic"} =>
        /\ program.kind = "standard" => HookedSpec
        /\ program.kind = "parallel" => ParallelSpec
        /\ program.kind = "realtime" => Realtime!RealtimeSpec
<1> DEFINE Inv == /\ program.user \in {"server", "little", "traffic"}
                  /\ ServerUnlessPanicked /\ TrafficUnlessPanicked
                  /\ program.user = "little" => Little
<1>1. ProgramInit /\ program.user \in {"server", "little", "traffic"} => Inv
    BY InitServer, InitLittle, InitTraffic DEF ServerUnlessPanicked, TrafficUnlessPanicked, User
<1>2. Inv /\ [ProgramNext]_programVars => Inv'
    <2>1. ServerUnlessPanicked /\ [ProgramNext]_programVars => ServerUnlessPanicked'
        BY ProgramStays, PanickedStays, ServerStep DEF ServerUnlessPanicked
    <2>2. TrafficUnlessPanicked /\ [ProgramNext]_programVars => TrafficUnlessPanicked'
        BY ProgramStays, PanickedStays, TrafficStep DEF TrafficUnlessPanicked
    <2>3. QED
        BY <2>1, <2>2, ProgramStays, LittleStep
<1>3. Inv => CallsAreLegal
    BY LittleIsLegal, ServerIsLegal, TrafficIsLegal
       DEF ServerUnlessPanicked, TrafficUnlessPanicked, CallsAreLegal
<1>4. ProgramSpec /\ program.user \in {"server", "little", "traffic"} => []CallsAreLegal
    <2> HIDE DEF Inv
    <2>1. QED
        BY <1>1, <1>2, <1>3, PTL DEF ProgramSpec
<1>5. QED
    BY <1>4, StandardProgramsAreRuns, ParallelProgramsAreRuns, RealtimeProgramsAreRuns, PTL
=================================================================================
