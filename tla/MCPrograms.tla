------------------------------- MODULE MCPrograms -------------------------------
(***************************************************************************)
(* The programs: the crate's tests of whole runs, and its examples.        *)
(***************************************************************************)
EXTENDS ProgramProperties, RunTests

Example(user_code, kind, settings, setup, initial) ==
    [user |-> user_code, kind |-> kind, runner |-> settings, peeks |-> 0, setup |-> setup,
     model |-> initial, listens |-> {}, expected |-> <<>>, fails |-> FALSE, final |-> {}]

(* The two generators, with a shorter run than the 60 ticks where it is parallel. *)
BothGenerators(burst) == <<AddsSource(JobGenerator(4, burst)), AddsSource(JobGenerator(6, burst))>>
StandardExample ==
    Example("server", "standard", DoTicks(EveryTick(AnyRunner), FALSE, 60), BothGenerators(1), Idle)
SkipTickExample ==
    Example("server", "standard", DoTicks(AnyRunner, FALSE, 60), BothGenerators(1), Idle)
RealtimeExample ==
    Example("server", "realtime", DoTicks(AnyRunner, FALSE, 60), BothGenerators(1), Idle)
StepExample == Example("server", "standard", DoTicks(AnyRunner, TRUE, 60), BothGenerators(1), Idle)
ParallelTicks == 10
ParallelExample ==
    Example("server", "parallel", DoTicks(AnyRunner, FALSE, ParallelTicks),
            BothGenerators(5), Idle)

LittleExample ==
    Example("little", "standard", DoTicks(AnyRunner, FALSE, EndTicks),
            <<Schedules(0, MinimumPriority, Arrival)>>, EmptyQueue)

CarCount == 5
AgentExample ==
    Example("traffic", "standard", AnyRunner,
            CarArrivals(CarCount) \o <<AddsSource(SignalSource)>>, EmptyRoad)

Examples ==
    <<StandardExample, SkipTickExample, RealtimeExample, StepExample, ParallelExample,
      LittleExample, AgentExample>>

AllPrograms == RunnerPrograms \o ContextPrograms \o Examples
EveryDelay == 0 .. MaxTime
AllRunners == {AllPrograms[k].runner : k \in DOMAIN AllPrograms}
==============================================================================
