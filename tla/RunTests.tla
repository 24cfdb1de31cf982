------------------------------- MODULE RunTests --------------------------------
(***************************************************************************)
(* The tests that run a simulation.                                        *)
(***************************************************************************)
EXTENDS ProgramSteps

--------------------------------------------------------------------------------
(***************************************************************************)
(* The tests of the three runners (execution/runner/instance/), which have  *)
(* most of their tests in common.                                          *)
(***************************************************************************)
LowPriority == 0      \* below the threshold of the parallel tests
Threshold == 5
HighPriority == 10
TestPriorities == {LowPriority, Threshold, HighPriority}

TargetOf(kind) == IF kind = "parallel" THEN ParallelTarget ELSE EventA
TraceSource(kind, initial_delay, interval_delay) ==
    AddsSource(TestSource(initial_delay, interval_delay, <<>>,
                          <<Schedules(0, MinimumPriority, TargetOf(kind))>>))
AbortsAtOnce == LimitAbort(AnyRunner, 0, 0)

RunSuccess(kind) ==
    Counting(Test(kind, DoTicks(AnyRunner, FALSE, 10), 0, <<EventAt(5, EventA)>>), 1, 0)

RunWithStrategyError(kind) ==
    Failing(Test(kind, AbortsAtOnce, 10, <<TraceSource(kind, {0}, {1})>>))

RunWithoutStrategyError(kind) ==
    Test(kind, AbortsAtOnce, 10, <<EventAt(0, TargetOf(kind))>>)

LifecycleExecutionOrder(kind) ==
    Recording(Test(kind, DoTicks(AnyRunner, FALSE, 2), 0, <<TraceSource(kind, {1}, {})>>),
              {"on_registered", "fire", "schedule_event", "fired"},
              <<ByUser("on_registered", 0), ByUser("fire", 1), ByUser("schedule_event", 1),
                ByUser("fired", 1)>>)

(* The test asks that nothing is recorded of tick 1, and that tick 0 is; the run is *)
(* aborted even before the source fires, when the micro-step that found it ends.    *)
LifecycleInterruption(kind) ==
    Failing(Recording(Test(kind, AbortsAtOnce, 10, <<TraceSource(kind, {0}, {0})>>),
                      {"on_registered", "peek", "fire"},
                      <<ByUser("on_registered", 0), PeekedAt(0, 0, 0, 0)>>))

FlowScopes == {"simulation", "tick", "micro_step", "source_phase", "event_phase"}
EndOf(tick) == <<Seen("after", "simulation", <<tick>>)>>
BeginningOf == <<Seen("before", "simulation", <<>>)>>

HookFlow(kind, include_zero_tick, flow) ==
    Recording(Test(kind, DoTicks(AnyRunner, include_zero_tick, 2), 0,
                   <<EventAt(1, TargetOf(kind))>>),
              FlowScopes, flow)

HookLifecycleIncludingZero(kind) ==
    HookFlow(kind, TRUE, BeginningOf \o TickCalls(0) \o TickCalls(1) \o EndOf(1))
HookLifecycleWithoutZero(kind) ==
    HookFlow(kind, FALSE,
             BeginningOf \o TickCalls(0) \o TickCalls(1) \o TickCalls(2) \o EndOf(2))

(***************************************************************************)
(* Tests of the ParallelRunner only.                                       *)
(***************************************************************************)
SyncAndParallelExecution ==
    Counting(Test("parallel", AnyRunner, 1,
                  <<PriorityEventAt(0, HighPriority, EventA),
                    PriorityEventAt(0, LowPriority, ParallelTarget)>>), 1, 1)

BoundaryPriority ==
    Counting(Test("parallel", AnyRunner, 1, <<PriorityEventAt(0, Threshold, EventA)>>), 1, 0)

(* The test has a hundred events. *)
ManyEvents == 5
MassiveParallelEvents ==
    Counting(Test("parallel", AnyRunner, 1,
                  [k \in 1 .. ManyEvents |-> EventAt(0, ParallelTarget)]), 0, ManyEvents)

AbortsOnStrategyError ==
    Failing(Test("parallel", AbortsAtOnce, 5,
                 <<EventAt(0, TestEvent(<<>>, TRUE, <<EventAt(0, ParallelTarget)>>))>>))

RunnerTestsOf(kind) ==
    <<RunWithoutStrategyError(kind), LifecycleExecutionOrder(kind),
      LifecycleInterruption(kind), HookLifecycleIncludingZero(kind),
      HookLifecycleWithoutZero(kind)>>

StandardTests ==
    <<RunSuccess("standard"), RunWithStrategyError("standard")>> \o RunnerTestsOf("standard")
RealtimeTests ==
    <<RunSuccess("realtime"), RunWithStrategyError("realtime")>> \o RunnerTestsOf("realtime")
ParallelTests ==
    <<SyncAndParallelExecution, BoundaryPriority, MassiveParallelEvents, AbortsOnStrategyError>>
    \o RunnerTestsOf("parallel")

RunnerPrograms == StandardTests \o RealtimeTests \o ParallelTests

--------------------------------------------------------------------------------
(***************************************************************************)
(* The tests of the contexts, the Engine, the phase handler and the         *)
(* strategies, as runs of the StandardRunner.  Where a test makes up a      *)
(* context at some tick, an event of that tick brings the run there, and    *)
(* its handler makes the calls of the test.                                *)
(***************************************************************************)
Standard(runner, peeks, setup) == Test("standard", runner, peeks, setup)
SourceAfter(delay) == AddsSource(TestSource({delay}, {}, <<>>, <<>>))
EventAfter(delay) == Schedules(delay, MinimumPriority, EventA)
Peeks(test, expected) == Recording(test, {"peek"}, expected)

(* A handler at tick that makes the calls, in a run that begins two ticks. *)
At(tick, calls) == <<EventAt(tick, Handling(calls))>>

(***************************************************************************)
(* context/executor.rs.                                                    *)
(***************************************************************************)
PeekNoEvent == Peeks(Standard(AnyRunner, 1, <<>>), <<PeekedAt(0, 0, 0, 0), PeekedAt(1, 0, 0, 0)>>)
PeekWithEvent ==
    Peeks(Standard(AnyRunner, 1, <<EventAt(5, EventA)>>),
          <<PeekedAt(0, 0, 1, 0), PeekedAt(5, 4, 1, 0)>>)

EndSimulationAsOk ==
    Recording(Standard(AnyRunner, 2, <<EventAt(10, EventA)>>), {"simulation"},
              <<Seen("before", "simulation", <<>>), Seen("after", "simulation", <<10>>)>>)
EndSimulationAsError ==
    Failing(Recording(Standard(LimitAbort(AnyRunner, 0, 0), 10, <<EventAt(10, Chain[1])>>),
                      {"simulation"},
                      <<Seen("before", "simulation", <<>>),
                        Seen("after", "simulation", <<10>>)>>))

EndTickWithIncrement ==
    Peeks(Standard(EveryTick(AnyRunner), 6, <<>>), [k \in 1 .. 7 |-> PeekedAt(k - 1, 0, 0, 0)])

(* Tick 5 makes the calls; the next tick is then peeked at, once tick 5 has ended. *)
JumpFromFive(calls, peeked) ==
    Recording(Standard(AnyRunner, 2, At(5, calls)), {"tick", "peek"},
              <<PeekedAt(0, 0, 1, 0), Seen("before", "tick", <<0, 0>>),
                Seen("after", "tick", <<0, 0>>),
                PeekedAt(5, 4, 1, 0), Seen("before", "tick", <<5, 4>>),
                Seen("after", "tick", <<5, 0>>), peeked>>)

JumpOnlySource == JumpFromFive(<<SourceAfter(7)>>, PeekedAt(12, 6, 0, 1))
JumpOnlyEvent == JumpFromFive(<<EventAfter(5)>>, PeekedAt(10, 4, 1, 0))
JumpBoth == JumpFromFive(<<SourceAfter(7), EventAfter(5)>>, PeekedAt(10, 4, 1, 1))
JumpNoNext == JumpFromFive(<<>>, PeekedAt(6, 0, 0, 0))

DiscardRemain ==
    Recording(Standard(LimitDiscard(AnyRunner, 0), 2,
                       At(5, <<SourceAfter(0), EventAfter(0), EventAfter(0)>>)),
              {"discard_remain_micro_step", "fire"}, <<Discarded(5, 1, 1, 2)>>)

(***************************************************************************)
(* execution/engine.rs and execution/phase/handler.rs.                     *)
(***************************************************************************)
EngineAddSource ==
    Peeks(Standard(AnyRunner, 0, <<AddsSource(TestSource({}, {}, <<EventAfter(1)>>, <<>>))>>),
          <<PeekedAt(0, 0, 1, 0)>>)
EngineScheduleEventAt ==
    Peeks(Standard(AnyRunner, 0, <<EventAt(10, EventA)>>), <<PeekedAt(0, 0, 1, 0)>>)
EngineBeginSimulation == Peeks(Standard(AnyRunner, 0, <<>>), <<PeekedAt(0, 0, 0, 0)>>)

(* A micro-step that is continued, and one that completes its tick. *)
MicroStepResults ==
    Recording(Standard(AnyRunner, 1, <<EventAt(0, Chain[1])>>),
              {"micro_step", "source_phase", "event_phase", "handle_event"},
              SubSeq(MicroStepCalls(0, 0), 1, 4) \o <<ByUser("handle_event", 0)>> \o
              SubSeq(MicroStepCalls(0, 0), 5, 6) \o
              SubSeq(MicroStepCalls(0, 1), 1, 4) \o <<ByUser("handle_event", 0)>> \o
              SubSeq(MicroStepCalls(0, 1), 5, 6))

(***************************************************************************)
(* context/event.rs.                                                       *)
(***************************************************************************)
AddSourceAfter ==
    Recording(Standard(AnyRunner, 1, At(0, <<SourceAfter(10)>>)), {"register", "peek", "fire"},
              <<PeekedAt(0, 0, 1, 0), Seen("before", "register", <<0>>),
                Seen("after", "register", <<0>>), PeekedAt(10, 9, 0, 1)>>)
AddSourceAtNow ==
    Recording(Standard(AnyRunner, 1, At(0, <<SourceAfter(0)>>)), {"register", "fire"},
              <<Seen("before", "register", <<0>>), Seen("after", "register", <<0>>),
                ByUser("fire", 0)>>)
ScheduleEvent ==
    Peeks(Standard(AnyRunner, 1, At(0, <<EventAfter(1), EventAfter(1), EventAfter(1),
                                         Schedules(5, 10, EventA)>>)),
          <<PeekedAt(0, 0, 1, 0), PeekedAt(1, 0, 4, 0)>>)
CancelTestEvents ==
    Recording(Standard(AnyRunner, 1,
                       At(0, <<EventAfter(5), EventAfter(10), CancelsEvents({5, 10}),
                               EventAfter(5), EventAfter(10), CancelsEvents({5})>>)),
              {"cancel_event", "peek"},
              <<PeekedAt(0, 0, 1, 0), ByUser("cancel_event", 2), ByUser("cancel_event", 1),
                PeekedAt(10, 9, 1, 0)>>)
CancelTestSources ==
    Recording(Standard(AnyRunner, 1,
                       At(0, <<SourceAfter(5), SourceAfter(10), CancelsSources({5, 10}),
                               SourceAfter(5), SourceAfter(10), CancelsSources({5})>>)),
              {"cancel_source", "peek"},
              <<PeekedAt(0, 0, 1, 0), ByUser("cancel_source", 2), ByUser("cancel_source", 1),
                PeekedAt(10, 9, 0, 1)>>)

(***************************************************************************)
(* The strategies: one chain of micro-steps in a tick, below the limit and  *)
(* past it, and chains in two ticks.                                       *)
(***************************************************************************)
Chained(runner, events) ==
    Standard(runner, 2, [k \in DOMAIN events |-> EventAt(k - 1, Chain[events[k]])])
DiscardsRecorded(test, expected) == Recording(test, {"discard_remain_micro_step"}, expected)

AbortUnderLimit == DiscardsRecorded(Chained(LimitAbort(AnyRunner, 10, 1), <<10>>), <<>>)
AbortWithinAllowance ==
    DiscardsRecorded(Chained(LimitAbort(AnyRunner, 10, 1), <<11>>), <<Discarded(0, 11, 0, 1)>>)
AbortExceedsAllowance ==
    Failing(DiscardsRecorded(Chained(LimitAbort(AnyRunner, 10, 1), <<11, 11>>),
                             <<Discarded(0, 11, 0, 1), Discarded(1, 11, 0, 1)>>))
DiscardUnderLimit == DiscardsRecorded(Chained(LimitDiscard(AnyRunner, 5), <<5>>), <<>>)
DiscardReachesLimit ==
    DiscardsRecorded(Chained(LimitDiscard(AnyRunner, 5), <<6>>), <<Discarded(0, 6, 0, 1)>>)
AlwaysContinues ==
    Counting(DiscardsRecorded(Chained(AnyRunner, <<12>>), <<>>), 13, 0)

ContextPrograms ==
    <<PeekNoEvent, PeekWithEvent, EndSimulationAsOk, EndSimulationAsError,
      EndTickWithIncrement, JumpOnlySource, JumpOnlyEvent, JumpBoth, JumpNoNext, DiscardRemain,
      EngineAddSource, EngineScheduleEventAt, EngineBeginSimulation, MicroStepResults,
      AddSourceAfter, AddSourceAtNow, ScheduleEvent, CancelTestEvents, CancelTestSources,
      AbortUnderLimit, AbortWithinAllowance, AbortExceedsAllowance, DiscardUnderLimit,
      DiscardReachesLimit, AlwaysContinues>>
================================================================================
