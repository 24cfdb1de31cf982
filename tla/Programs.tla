-------------------------------- MODULE Programs --------------------------------
(***************************************************************************)
(* Whole programs: an Engine set up by somebody, a model and sources of     *)
(* user code (UserCode and the examples), a runner, and what is seen of the *)
(* run.  Where Simulation lets user code do anything its contexts offer,    *)
(* here it makes the calls the code of the program makes, in their order.   *)
(*                                                                         *)
(* Each action is one of HookedSimulation, ParallelRunner or RealtimeRunner *)
(* with the user code it calls.  The code of a callback is evaluated when   *)
(* the callback is entered; its calls are then carried out one at a time.   *)
(* A program is a record: user, kind (the runner), runner (its settings),   *)
(* peeks (how often should_stop may be asked, with "any"), setup (the calls *)
(* on the Engine), model, and what a test expects (see RunTests).           *)
(***************************************************************************)
EXTENDS HookedSimulation, ParallelRunner, LittleLaw, ServerExample, Traffic

CONSTANTS Programs,      \* a sequence of programs
          TickUnit, CastModulus, MaxElapsed, MaxWall   \* of RealtimeRunner

VARIABLES program,       \* the program that runs
          todo,          \* the calls the open callback has yet to make
          model,         \* the user's model
          payload,       \* of each event, by event_id
          registered,    \* the user's sources, by registry index
          peeks,         \* how many ticks should_stop let begin
          collected,     \* how many entries the LaneStateCollector holds
          trace          \* what the hooks and the user code of the program saw

VARIABLES wall, wait, sleep_until   \* of RealtimeRunner

Realtime == INSTANCE RealtimeRunner

realtimeVars == <<wall, wait, sleep_until>>
userVars == <<model, payload, registered>>
programVars == <<hookedVars, parallelVars, realtimeVars, program, todo, userVars, peeks,
                 collected, trace>>

User == program.user
IsParallel == program.kind = "parallel"
IsRealtime == program.kind = "realtime"

(***************************************************************************)
(* User code.                                                              *)
(***************************************************************************)
OnRegistered(source) ==
    CASE User = "test" -> TestOnRegistered(source)
      [] User = "server" -> GeneratorOnRegistered(source)
      [] User = "traffic" -> ToggleCalls

Fire(source) ==
    CASE User = "test" -> TestFire(source)
      [] User = "server" -> GeneratorFire(source)
      [] User = "traffic" -> ToggleCalls

HandleEventReactions(event) ==
    CASE User = "test" -> TestHandleEvent(model, event)
      [] User = "server" -> ServerHandleEvent(model, event)
      [] User = "little" -> LittleHandleEvent(model, event, now)
      [] User = "traffic" -> TrafficHandleEvent(model, event)

ApplyCommandReactions(event) ==
    CASE User = "test" -> TestApplyCommand(model, event)
      [] User = "server" -> ServerApplyCommand(model, event)

CommandsOf(event) == IF User = "test" /\ ~event.sends THEN 0 ELSE 1

(* `should_stop`: the closure of the program where the runner's rule is "any". *)
WantsToStop ==
    CASE StopRule # "any" -> TRUE \in ShouldStop
      [] User = "traffic" -> IsDoneTicks(tick_status, FALSE, 10) /\ model.lane = <<>>
      [] OTHER -> peeks >= program.peeks

(***************************************************************************)
(* What is seen.                                                           *)
(***************************************************************************)
(* The arguments of a hook's call that its scope does not have. *)
Told(when, name) ==
    CASE when = "before" /\ name = "tick" -> <<tick_status.skipped>>
      [] when = "after" /\ name = "tick" -> <<told_micro_step'>>
      [] when = "after" /\ name = "simulation" -> <<current_tick'>>
      [] OTHER -> <<>>
SeenByHook(when, entry) ==
    Seen(when, entry[2].scope, entry[2].key \o Told(when, entry[2].scope))

(* The calls of the hook in this step: scopes left, then scopes entered. *)
HookCalls ==
    LET kept == Cardinality({n \in DOMAIN open \cap DOMAIN open' :
                                SubSeq(open, 1, n) = SubSeq(open', 1, n)})
    IN  [k \in 1 .. Len(open) - kept |-> SeenByHook("after", open[Len(open) + 1 - k])]
        \o [k \in 1 .. Len(open') - kept |-> SeenByHook("before", open'[kept + k])]

Listens(seen) == seen[2] \in program.listens
Sees(before, after) ==
    trace' = trace \o SelectSeq(before \o HookCalls \o after, Listens)
SeesNothing == Sees(<<>>, <<>>)

(* What `should_stop` is given, and the length of the two ready queues. *)
Peeked ==
    <<Seen("user", "peek",
           <<now, tick_status.skipped, Cardinality(event_ready), Cardinality(source_ready)>>)>>

(***************************************************************************)
(* The program.                                                            *)
(***************************************************************************)
ProgramInit ==
    /\ \E k \in DOMAIN Programs : program = Programs[k]
    /\ HookedInit
    /\ runner = program.runner
    /\ stage = "sync" /\ parallel_events = {} /\ working = {}
    /\ channel = <<>> /\ sent = {} /\ applied = {}
    /\ wall = 0 /\ wait = "none" /\ sleep_until = 0
    /\ todo = program.setup
    /\ model = program.model
    /\ payload = <<>> /\ registered = <<>>
    /\ peeks = 0 /\ collected = 0 /\ trace = <<>>

NextCall == Head(todo)
Makes(name) == todo # <<>> /\ NextCall.call = name

SameProgram == UNCHANGED <<program, parallelVars, realtimeVars, peeks, collected>>

(* The source whose `on_registered` is entered at slot, if there is one. *)
EnterRegistration(slot) ==
    todo' = IF slot < source_registry THEN OnRegistered(registered[slot + 1]) ELSE <<>>

(* The calls on the Engine: `schedule_event_at` has a time where a context has a delay. *)
SetUpEvent ==
    /\ Makes("schedule_event")
    /\ ScheduleEventAt(NextCall.delay, NextCall.priority)
    /\ Silently /\ SeesNothing
    /\ payload' = Append(payload, NextCall.payload)
    /\ todo' = Tail(todo)
    /\ UNCHANGED <<model, registered>> /\ SameProgram

SetUpSource ==
    /\ Makes("add_source")
    /\ AddEngineSource
    /\ Silently /\ SeesNothing
    /\ registered' = Append(registered, NextCall.source)
    /\ todo' = Tail(todo)
    /\ UNCHANGED <<model, payload>> /\ SameProgram

StartSimulation ==
    /\ todo = <<>>
    /\ HookedBeginSimulation
    /\ EnterRegistration(0)
    /\ SeesNothing
    /\ UNCHANGED userVars /\ SameProgram

(***************************************************************************)
(* The calls of a callback.                                                *)
(***************************************************************************)
UserSchedules ==
    /\ Makes("schedule_event")
    /\ ContextScheduleEvent(NextCall.delay, NextCall.priority)
    /\ Silently
    /\ Sees(<<Seen("user", "schedule_event", <<now>>)>>, <<>>)
    /\ payload' = Append(payload, NextCall.payload)
    /\ todo' = Tail(todo)
    /\ UNCHANGED <<model, registered>> /\ SameProgram

UserAddsSource ==
    /\ Makes("add_source")
    /\ HookedAddSource
    /\ SeesNothing
    /\ registered' = Append(registered, NextCall.source)
    /\ todo' = OnRegistered(NextCall.source) \o Tail(todo)
    /\ UNCHANGED <<model, payload>> /\ SameProgram

ScheduledIn(queue) == {x \in queue : x.scheduled_at \in NextCall.times}

UserCancelsEvents ==
    LET cancelled == ScheduledIn(event_ready \cup event_pending)
    IN  /\ Makes("cancel_scheduled_events")
        /\ CancelScheduledEvents(cancelled)
        /\ Silently
        /\ Sees(<<Seen("user", "cancel_event", <<Cardinality(cancelled)>>)>>, <<>>)
        /\ todo' = Tail(todo)
        /\ UNCHANGED userVars /\ SameProgram

UserCancelsSources ==
    LET cancelled == ScheduledIn(source_ready \cup source_pending)
    IN  /\ Makes("cancel_scheduled_sources")
        /\ CancelScheduledSources(cancelled)
        /\ Silently
        /\ Sees(<<Seen("user", "cancel_source", <<Cardinality(cancelled)>>)>>, <<>>)
        /\ todo' = Tail(todo)
        /\ UNCHANGED userVars /\ SameProgram

RegistrationReturns ==
    /\ Makes("return")
    /\ HookedRegisterSource(NextCall.delay)
    /\ Sees(<<Seen("user", "on_registered", <<now>>)>>, <<>>)
    /\ EnterRegistration(reg_slot + 1)
    /\ UNCHANGED userVars /\ SameProgram

AddedSourceReturns ==
    /\ Makes("return")
    /\ HookedFinishAddSource(NextCall.delay)
    /\ SeesNothing
    /\ todo' = Tail(todo)
    /\ UNCHANGED userVars /\ SameProgram

FireReturns ==
    /\ Makes("return")
    /\ HookedFinishFire(NextCall.delay)
    /\ Sees(<<Seen("user", "fired", <<now>>)>>, <<>>)
    /\ todo' = Tail(todo)
    /\ UNCHANGED userVars /\ SameProgram

HandlerReturns ==
    /\ todo = <<>>
    /\ \/ \E event \in handled_event : HookedFinishHandleEvent(event)
       \/ handled_event = {} /\ FinishHandleEvent /\ Silently   \* `apply_command`
    /\ SeesNothing
    /\ UNCHANGED <<todo, userVars>> /\ SameProgram

(* A callback is entered: the model changes, and its calls are to be made. *)
Enters(reactions) ==
    \E reaction \in reactions :
        /\ model' = reaction.model
        /\ todo' = reaction.calls

(***************************************************************************)
(* The runner between ticks.                                               *)
(***************************************************************************)
SilentStep ==
    /\ FinishRegistration \/ ContinueMicroSteps
    /\ Silently /\ SeesNothing
    /\ UNCHANGED <<todo, userVars>> /\ SameProgram

ProgramStops ==
    /\ wait = "none"
    /\ WantsToStop
    /\ HookedStopRun
    /\ Sees(Peeked, <<>>)
    /\ UNCHANGED <<todo, userVars>> /\ SameProgram

BeforeTick_IgnoresSkips == UNCHANGED collected

(* `before_tick` of the LaneStateCollector fills in the skipped ticks. *)
BeforeTick == collected' = collected + tick_status.skipped

TickBegins ==
    /\ ~IsRealtime
    /\ ~WantsToStop
    /\ HookedBeginTick
    /\ Sees(Peeked, <<>>)
    /\ peeks' = peeks + 1
    /\ BeforeTick
    /\ UNCHANGED <<program, parallelVars, realtimeVars, todo, userVars>>

(* The RealtimeRunner asks should_stop, then waits.  Here the thread works in no *)
(* time and wakes up as soon as it may.                                          *)
RealtimeWaits ==
    /\ IsRealtime
    /\ ~WantsToStop
    /\ Realtime!Wait
    /\ Silently
    /\ Sees(Peeked, <<>>)
    /\ peeks' = peeks + 1
    /\ UNCHANGED <<program, parallelVars, todo, userVars, collected>>

RealtimeSleeps ==
    /\ \/ Realtime!Elapse /\ wait = "sleeping" /\ wall < sleep_until
       \/ Realtime!WakeUp
    /\ Silently /\ SeesNothing
    /\ UNCHANGED <<program, parallelVars, todo, userVars, peeks, collected>>

RealtimeTickBegins ==
    /\ Realtime!BeginTickInTime
    /\ HookedBeginTick
    /\ SeesNothing
    /\ BeforeTick
    /\ UNCHANGED <<program, parallelVars, todo, userVars, peeks>>

(* `after_tick` of the LaneStateCollector. *)
AfterTick == collected' = IF phase' = "panicked" THEN collected ELSE collected + 1

TickEnds ==
    /\ HookedEndTick
    /\ SeesNothing
    /\ AfterTick
    /\ UNCHANGED <<program, parallelVars, realtimeVars, todo, userVars, peeks>>

(***************************************************************************)
(* The runner inside a tick.                                               *)
(***************************************************************************)
SourcePhaseStarts ==
    /\ HookedStartSourcePhase
    /\ SeesNothing
    /\ UNCHANGED <<todo, userVars>> /\ SameProgram

SourceFires(source) ==
    /\ HookedFireSource(source)
    /\ Sees(<<>>, <<Seen("user", "fire", <<now>>)>>)
    /\ todo' = Fire(registered[source.source_id + 1])
    /\ UNCHANGED userVars /\ SameProgram

EventPhaseStarts ==
    /\ HookedStartEventPhase
    /\ SeesNothing
    /\ UNCHANGED <<todo, userVars>> /\ SameProgram

EventIsHandled(event) ==
    /\ IF IsParallel THEN HandleSynchronously(event) ELSE UNCHANGED parallelVars
    /\ HookedHandleEvent(event)
    /\ Sees(<<>>, <<Seen("user", "handle_event", <<now>>)>>)
    /\ Enters(HandleEventReactions(payload[event.event_id + 1]))
    /\ UNCHANGED <<payload, registered, program, realtimeVars, peeks, collected>>

SequentialStepEnds ==
    /\ ~IsParallel
    /\ HookedEndMicroStep
    /\ SeesNothing
    /\ UNCHANGED <<todo, userVars>> /\ SameProgram

(* The pool, and the main thread while it waits for it. *)
PoolWorks ==
    /\ IsParallel
    /\ \/ StartWorkers
       \/ \E event \in parallel_events : BeginWork(event)
       \/ \E call \in working :
             call.sends < CommandsOf(payload[call.event.event_id + 1]) /\ SendCommand(call)
       \/ \E call \in working :
             call.sends = CommandsOf(payload[call.event.event_id + 1]) /\ FinishWork(call)
       \/ JoinWorkers
    /\ Silently /\ SeesNothing
    /\ UNCHANGED <<program, realtimeVars, todo, userVars, peeks, collected>>

CommandIsApplied ==
    /\ ApplyCommand
    /\ Silently
    /\ Sees(<<>>, <<Seen("user", "apply_command", <<now>>)>>)
    /\ Enters(ApplyCommandReactions(payload[Head(channel).event_id + 1]))
    /\ UNCHANGED <<payload, registered, program, realtimeVars, peeks, collected>>

ParallelStepEnds ==
    /\ CompleteEventPhase
    /\ HookedEndMicroStep
    /\ SeesNothing
    /\ UNCHANGED <<program, realtimeVars, todo, userVars, peeks, collected>>

(* The hook is told the micro-step that will not be, and how much is discarded. *)
RestIsDiscarded ==
    /\ DiscardAtLimit
    /\ Silently
    /\ Sees(<<Seen("on", "discard_remain_micro_step",
                   <<now, micro_step, Cardinality(DueAt(source_ready, now)),
                     Cardinality(DueAt(event_ready, now))>>)>>, <<>>)
    /\ UNCHANGED <<todo, userVars>> /\ SameProgram

(* The run has returned, or the thread has panicked. *)
ProgramIsOver == phase \in {"stopped", "panicked"} /\ UNCHANGED programVars

ProgramUserStep ==
    \/ SetUpEvent \/ SetUpSource
    \/ UserSchedules \/ UserAddsSource \/ UserCancelsEvents \/ UserCancelsSources
    \/ RegistrationReturns \/ AddedSourceReturns \/ FireReturns \/ HandlerReturns

ProgramRunnerStep ==
    \/ StartSimulation \/ SilentStep \/ ProgramStops
    \/ TickBegins \/ RealtimeWaits \/ RealtimeSleeps \/ RealtimeTickBegins
    \/ SourcePhaseStarts
    \/ \E source \in source_batch : SourceFires(source)
    \/ EventPhaseStarts
    \/ \E event \in event_batch : EventIsHandled(event)
    \/ SequentialStepEnds
    \/ PoolWorks \/ CommandIsApplied \/ ParallelStepEnds
    \/ RestIsDiscarded \/ TickEnds

ProgramNext == ProgramUserStep \/ ProgramRunnerStep \/ ProgramIsOver

ProgramSpec == ProgramInit /\ [][ProgramNext]_programVars
==============================================================================
