# des-sim in TLA+

A verification project for `des-sim`, a discrete-event simulation framework in
Rust (the crate under `src/`, file names below are relative to `src/src/`).
It models how a run of the `StandardRunner` moves events and sources through an
`Engine`, what `ParallelRunner` and `RealtimeRunner` change in it, the hooks and
agents on top, and, in that model, the crate's own tests and examples as programs. TLC checks
these models, and TLAPS proves that for every choice of bounds, strategy and
user code a run of the `StandardRunner`, and one of the `ParallelRunner`, is a run of a
plain event list. It proves every other safety property that holds in the models too, but
for the assertions of concrete tests; among them Little's law, no stranded job and one
agent for each car in the crate's examples.

## The system

A simulation is a single thread that drives an `Engine` tick by tick. A tick is
a series of micro-steps; a micro-step fires the sources that are due, then
handles the events that are due, in order. Users supply models (which handle
events), sources (which fire periodically), hooks (which observe) and a
continue strategy (which says how many micro-steps a tick may have).

| component | code | state it keeps | operations |
| --- | --- | --- | --- |
| simulation time | `primitive/time/` | values only: `SimTime`, `Duration`, `TickStatus`, `MicroStep` | checked add and sub, `previous`, `is_done_ticks`, `next` |
| `EventScheduler` | `event_scheduler.rs` | a ready heap, a pending heap, the next event id | `schedule`, `drain_ready`, `drain_cancel_scheduled`, `peek_next_time`, `flush_pending` |
| `SourceHandler` | `source_handler.rs` | the registry, a ready heap, a pending heap, the next source id | registration before and during a run, `drain_ready`, `schedule_next`, `drain_cancel_scheduled`, `flush_pending` |
| `Engine`, executor contexts | `execution/engine.rs`, `context/executor.rs` | tick status, current tick, next micro-step | `begin_simulation`, `peek_next_tick`, `begin_tick`, `end_tick_with_*`, `discard_remain_micro_step` |
| micro-step phases | `execution/phase/` | the batch being worked off | `start_source_phase`, `fire_and_schedule`, `to_event_phase`, `handle_event`, `end_micro_step` |
| user contexts | `context/event.rs`, `context/source.rs` | borrow the above | `schedule_event`, `add_source`, `cancel_scheduled_events`, `cancel_scheduled_sources` |
| `StandardRunner`, `Runner` | `execution/runner.rs`, `execution/runner/instance/standard.rs` | the strategy, `skippable` | `run`, `run_do_ticks`, `run_until_idle`, `run_until_model_condition` |
| continue strategies | `execution/strategy/continue_strategy/` | limit, allowed errors, `error_count` | `handle_micro_step_continue` of three strategies |
| `ParallelRunner` | `execution/runner/instance/parallel.rs` | a pool and a command channel | splits a batch, workers handle it, commands applied later |
| `RealtimeRunner` | `execution/runner/instance/realtime.rs` | start instant, tick length | waits before each tick |
| hooks | `modeling/hook.rs`, `modeling/hook/` | registered hooks | before and after calls around every step |
| agents | `modeling/agent.rs` | continuations and shared tickets | `step` chains through events |
| samplers | `modeling/sampler/` | random streams, the index of a rotation | `sample`, `sample_with`, `to_duration`, combinators |
| examples | `src/examples/` | servers, an M/M/1 queue, a lane of cars, a collector | models, sources and hooks under the three runners |

Except for the workers of `ParallelRunner` the components are plain calls on one
thread. What makes them hard is not parallelism but **re-entrance**: user code
runs in the middle of a micro-step and changes the very queues the loop above it
is working on. The design answers with two heaps per scheduler, a pending one that
user code writes and a ready one that the loop drains, and with flushes at a few
fixed places. Where those flushes stand, which heap a question is put to, and what
happens to the entries a drained batch has already taken decide everything:

* an event of delay zero must not overtake the batch that is being handled;
* an entry left behind by the clock trips an assertion ticks later;
* the jump of a skipping runner subtracts times and panics below zero;
* `should_stop` is answered from the ready heap of events alone;
* a discarding strategy empties a tick in the middle, an aborting one must
  leave the executor in a state that can still be ended;
* ticks and micro-steps are counters with checked arithmetic.

`PROJECT.json` lists these hazards at their lines, and the components with
what is and is not modelled.

## Modules

The system:

| module | models | notes |
| --- | --- | --- |
| `SimTime` | `SimTime`, `Duration`, `TickStatus`, `MicroStep` | `MaxTime` and `MaxMicroStep` stand for `usize::MAX` and `u64::MAX` |
| `ScheduledQueue` | what both schedulers do with a heap | a heap is the set of its entries |
| `EventScheduler` | the event scheduler | one operator per method |
| `SourceHandler` | the source handler | the registry is its length |
| `Simulation` | `StandardRunner::run` over an `Engine`, with contexts, phases and strategies | the specification `Spec`, and `FairSpec` |
| `EventList` | the abstract specification | a clock, an agenda, what was executed or dropped |
| `SimulationProperties` | the properties, and the refinement mapping to `EventList` | |
| `ParallelRunner`, `ParallelProperties` | `ParallelRunner::run` | extends `Simulation`, replaces its event phase |
| `RealtimeRunner`, `RealtimeProperties` | `RealtimeRunner::run` | extends `Simulation` with a wall clock and a wait |
| `HookDelegate` | the delegate, and what the hooks see | before-hooks open scopes, after-hooks close them |
| `HookedSimulation`, `HookProperties` | the calls of hooks during a run | each action of `Simulation` with the calls its code makes |
| `AgentSimulation`, `AgentProperties` | agents and tickets | a handler for `Simulation` |
| `PhaseQueue` | every way to take entries off a phase | for runners outside the crate |
| `Samplers` | what is done with a drawn number | draws are arguments, in tenths of a tick |
| `Sums` | a sum made in a loop | of weights in `Samplers`, of stays in `LittleLaw` |

Programs that run in it:

| module | models | notes |
| --- | --- | --- |
| `UserCode` | the form of user code; the models, sources and handlers of the crate's tests | a handler gives the model it leaves and the calls it makes |
| `ServerExample` | `standard_runner.rs`, `skip_tick_run.rs`, `realtime_runner.rs`, `step_run.rs`, `parallel_runner.rs` | a queue is its length |
| `LittleLaw` | `little_law.rs` | any of a few durations for each draw |
| `Traffic` | `agent_run.rs` | cars, a signal, a collector; `retain` is the loop it is (`Retained`) |
| `Programs` | a program under its runner | the actions of `HookedSimulation`, `ParallelRunner` and `RealtimeRunner` with the user code they call |
| `ProgramSteps`, `RunTests` | the tests of the runners, contexts, strategies | data: set-up, expected trace, expected result |
| `ProgramProperties` | what programs are to do, and what the mains of the examples may set up | |
| `ScenarioSteps`, `ComponentTests` | the unit tests of the components | data: calls, arguments and asserted answers |
| `ComponentScenarios` | the unit tests carried out | each call is the operator of the component's module |

`MCSimulation`, `MCHooks`, `MCParallel`, `MCRealtime`, `MCAgents`, `MCComponents` and
`MCPrograms` are the modules TLC is run on, the instances are the `.cfg` files, and
`MCRunners` names the runners they take. The theorems are in `Simulation_proofs` (types,
time, conservation and order of events, no overtaking, and the refinement),
`Ticks_proofs` (jumps, stop rules, sources, micro-steps, strategies), `Hook_proofs`,
`Parallel_proofs`, `Realtime_proofs`, `Agent_proofs`, `Samplers_proofs` (weighted
choices) and `Program_proofs` (programs and examples).

`EventScheduler` and `SourceHandler` are state machines without a `Next`: their
actions have the methods' names, and `Simulation` calls them as the code does.
Both extend `ScheduledQueue`, which extends `SimTime`. Some definitions have a
faulty variant in front of them (`Before_LowPriorityFirst`,
`FlushPendingEvents_Skipped`, ...). Nothing uses them; each is a plausible bug,
and putting it in place of the definition makes a run fail. They document that
the properties can be violated by an error in the code.

### How state and actions correspond to the code

* **Heaps are sets.** Event ids are unique, so `BinaryHeap<Reverse<...>>` never
  holds two equal entries and popping it is taking the entry every other one
  comes after (`IsFront`, by the `Ord` the code implements). The sources'
  batch is a `BTreeMap`-like order by time and id; ids are shown to be unique
  too (`SourceScheduledOnce`).
* **phase** is the position in `run` together with the type of the context that
  the typestate API is at (`ExecutorContext`, `ActiveExecutorContext`,
  `SourcePhase`, `EventPhase`, `MicroStepResult`).
* **User code** is a callback that stays open over any number of steps:
  `FireSource` and `HandleEvent` enter it, `ContextScheduleEvent`,
  `ContextAddSource`, `CancelScheduledEvents` and `CancelScheduledSources` are
  the calls its context offers, `FinishFire` and `FinishHandleEvent` leave it.
  The predicate of a cancel may choose any set of entries. Everything a user
  could write is a behaviour of the model, within the bounds.
* **The runner** is chosen at the beginning and stays: `runner` is a record of its
  strategy, limit, allowed errors, `skippable` and stop rule, any one in `Runners`. One
  run of TLC therefore covers several runners.
* **A panic** is a state, `phase = "panicked"`, with the reason in `panic`.
* **tick_status** is `next_tick_status` between ticks and
  `current_tick_status` inside one; `now` is its tick.
* **History variables.** `handled`, `dropped`, `tick_first_id` and
  `step_first_id` record what happened; no guard reads them. `asked_by` in a
  scheduled source records whose callback returned its delay.
* **The bounds** `MaxEvents` and `MaxSources` cap what user code creates, in the
  guards of `ScheduleEventAt`, `ContextScheduleEvent`, `AddEngineSource` and
  `ContextAddSource`. Ids and `error_count` are then bounded too.

Left out of `Simulation`: payloads, names and formatting; the calls of hooks
(they are given shared references, so a run does not depend on them).

The modules that extend `Simulation`:

* **`ParallelRunner`.** `stage` is the place in the event phase: `take_front_if`
  and `handle_event` in line ("sync"), the pool at work ("working"), the loop over
  `try_recv` ("applying"). `working` holds the open calls of
  `handle_event_parallel`, at most `Workers` of them, each of which may send up to
  `MaxCommands` commands. `apply_command` gets the phase's context, so it is
  a callback like a handler. `sent` and `applied` are history.
* **`RealtimeRunner`.** `wall` is the time since `start_instant` and goes on by
  itself, up to `MaxWall`. `CastModulus` is 2^32 in the code, and smaller here.
* **`HookDelegate` and `HookedSimulation`.** `open` is the sequence of the calls
  of all hooks whose counterpart is due: a monitor that is right if and only if
  the hooks see nested calls. A call's arguments are evaluated where the code
  evaluates them: `after_micro_step` after the next micro-step was computed,
  `after_tick` before the next tick is.
* **`AgentSimulation`.** `tickets[i]` is the content of a `RefCell`; `payload`
  says which ticket an event carries; `future_steps` is each continuation's
  queue. The handler is the one of the crate's tests and example. A step's logic
  may schedule, cancel and change the queue of steps. No sources are registered.
* **`PhaseQueue`.** `take_one_if` compares with the front, `take_all_if` with
  every entry; what is taken belongs to the runner, which handles or discards it.
* **`ComponentScenarios`.** A unit test is a sequence of steps, each a call with what the
  test asserts of its answer. `ScenarioStep` makes the call by the operator that
  models it, on the state the calls before it have left. The tests show that
  the operators are the code's methods in the places that the authors
  thought worth a test: the order of draining, ids, heads, overflow,
  what is left after a cancel.
* **`Programs`.** Where `Simulation` lets user code do anything, a program does what it
  is written to do: on entering a callback its code is evaluated (`todo` is then the
  calls it has to make), and its calls are carried out one by one as the actions of the
  user contexts. `payload[id + 1]` is what an event carries, `registered[index]` what a
  source is, `trace` what the hooks, sources and models of a test record.
  `channel` order, the choice of workers and the draws of `LittleLaw` stay open, so a
  program still has many runs and a test's assertion is claimed of each.

## Checked by TLC

| run | instance | question |
| --- | --- | --- |
| `jump` | two runners: skipping without a limit, and every tick with `LimitDiscardStrategy`; any `should_stop`; ticks 0..2, 3 events of 2 priorities, 2 sources | time, events, sources, refinement |
| `strategies` | five runners: three strategies, three stop rules, with and without skipping; two hooks, fair | counted ticks are done, micro-steps bounded, errors final, ticks end, calls nest |
| `parallel` | `ParallelRunner`: priorities 0..2, threshold 1, two workers, two commands each, fair | nothing lost or taken twice, order, refinement |
| `realtime` | `RealtimeRunner`: ticks 0..3 of two units, cast of two bits, fair | never early, no drift, waits end |
| `agents` | two agents of up to two steps, shared tickets, `run_until_idle`, `LimitDiscardStrategy` and a `LimitAbortStrategy` that forgives nothing | no step twice, none forgotten, none late |
| `components` | 106 unit tests of the scheduler, source handler, phases, delegate, samplers, times | the model answers what the tests assert |
| `programs` | 55 programs: the tests of runners, contexts and strategies, and seven examples | traces and results are those asserted; the examples are right |
| `source_ids` | two sources | **violated**: a source fires that did not ask |
| `initial_sources` | one source | **violated**: a source due at tick zero misses its first micro-step |
| `one_tick` | `run_do_ticks(1, true)` | **violated**: it returns before tick zero |
| `realtime_cast` | as `realtime`, with a cast of one bit | **violated**: a tick beyond the width of the cast begins early |
| `micro_step_limit` | `LimitAbortStrategy` with a limit of one micro-step per tick, two events | **violated**: a second micro-step of the tick handles an event |

What the properties say:

* *Time.* `NothingIsOverdue`: the clock never passes an entry. `OnlyOverflowPanics`:
  assertions and subtractions of the runner never panic. `JumpIsExact`: a jump
  lands on a tick with work, and `previous` of the status is the tick that was
  processed last, however many were skipped.
* *Events.* `EventsAreConserved`: every id ever issued is in one heap, in the
  batch, handled or dropped, and in one place only. `ZeroDelayIsDeferred` and
  `AdvanceEventsGoFirst`: what is scheduled in a micro-step waits for a later
  one, and the first micro-step takes up all that was scheduled before the tick.
  `NoOvertaking`: an event is handled at its tick, never before an older one of
  that tick whose priority is not lower, wherever that one is queued.
  `StatusIsAccurate`: `NoMoreEvent` is told only when no event exists anywhere.
  `ImplementsEventList`: the refinement.
* *Sources.* `SourceScheduledOnce`: no source is scheduled twice, and every id
  is an index of the registry.
* *Strategies and stop rules.* `MicroStepsAreBounded`: with a limit of L a tick has
  at most L + 1 micro-steps that do anything. This is what the code does;
  `MicroStepsArePermitted`, at most L, is what the doc says (finding 5). `AbortIsFinal`,
  `CountedTicksAreDone`, `NoExtraTick`, `IdleLeavesNoEvent`.
* *Liveness.* `TicksEnd`, `RunReturns`.
* *Parallel.* `ParallelEventsAreConserved`: as above, with the events in the pool.
  `SyncStaysOnMainThread`: no event at the threshold or above reaches a worker.
  `ModelIsShared`: nothing changes the model while a worker reads it.
  `CommandsAreApplied`, `CommandsInOrder`, `CommandsGetApplied`: no command is
  lost, and those of one event keep their order. Commands of different events do
  not: they are applied as the workers sent them. `ImplementsParallelList`: an
  `EventList` that keeps the order of the priorities from the threshold on.
* *Hooks.* `HooksNest`: over all hooks together calls nest, with the tick,
  micro-step and subject they began with. `EveryScopeIsClosed`: also when an
  error ends the run, where two comments of the repository contradict each other (finding 6). `LastMicroStepIsTold`: the `last_micro_step` of `after_tick`
  is one that ran. This holds except after a strategy's error, where the code
  passes the number of the micro-step that was discarded.
* *Realtime.* `NeverEarly`, `NoDrift`, `WaitEnds`.
* *Agents.* `AgentIsInOnePlace`, `NoAgentIsForgotten`, `StepsAreNeverLate`,
  `IdleMeansAgentsAreDone`.
* *Unit tests.* `AnswersAreExpected`: every call of every test answers what the
  test asserts. It fails when the model and the tested code differ.
* *Programs.* `TracesAreExpected`: what a test's hooks, sources and models record is,
  at any moment, the beginning of what the test asserts, in the end all of it, and the
  run returns the asserted Ok or Err and model. It holds for the three runners' loops as
  one, which the code repeats by hand.
  `NoJobIsStranded`: a busy server has exactly one completion on its way and an idle
  one no queue; a parallel server with a queue has something on its way that
  takes from it, whatever the workers interleave. Both this and the clause of
  `CarsAreDrivenAndDated` about agents leave out the states inside a handler, which has
  changed the model and not yet scheduled, and those after a panic, which for good leaves
  such a handler half done (a completion beyond the last tick overflows).
  `LittlesLaw`: the time-weighted length of the queue is the sum of the stays, not only
  of the finished run, where the example asserts it, but at every event.
  `CarsAreDrivenAndDated`: each car on the road has one event, so no car stops for
  ever and none is driven twice; the collector holds one entry per tick, including those the
  runner jumped over; and the run ends when all cars have passed.

`TypeOK` is the type invariant of the core. `HookTypeOK`, `ParallelTypeOK`,
`RealtimeTypeOK` and `AgentTypeOK` state the types of the variables added to it, for the
reader; they hold in the instances of `strategies`, `parallel`, `realtime` and
`agents`, which do not list them.

### Bounds

Three ticks are the least with a tick that is skipped and one that is not;
three events are the least for an event that is pending, one in the batch and
one in the ready heap at once, and two priorities the least for one to come
first although it is younger. Two sources are needed for a wrong id to name
another source. `MaxTime` and `MaxMicroStep` are reached in the runs, so the
overflow panics are reached as well. The limits 0 and 1 with `MaxMicroStep` of 2
and 3 leave room to exceed them. Two workers are the least that can finish in
another order than they began, two commands the least that have an order, three
priorities leave two on one side of the threshold; two hooks are the least for
an order between hooks. A cast of two bits holds the ticks 0..3 of `realtime`;
the target of tick 3 exceeds `MaxElapsed`, so that panic is reached. `MaxWall` is
past every target. Two agents and three events allow two tickets and a third
event that shares one. A longer run repeats these situations: what
happens in a tick depends on the queues only through which entries are due now
or later. The theorems below do not depend on any bound.

`components` executes each test as written, so its only bounds are those that
stand for `MAX` in the tests of overflow (1000, where the tests use the limits of
the integer types relative to them). In `programs` nothing stops before its end
(`MaxTime`, `MaxEvents` and `MaxMicroStep` exceed what any of them reaches, and `Delays`
has every duration up to `MaxTime`), with these reductions: `agent_run` has 5 cars, enough for a lane with cars on both
sides of the signal and one that waits behind another; the parallel server runs
for 10 ticks instead of 60, and the test with a hundred events has 5, because each
command multiplies the interleavings and two workers that overlap show them all;
`little_law` ends at tick 10 with durations 1 or 3 between arrivals and 0 or 2 of
service, which gives empty, growing and shrinking queues and services of no time.
Under the `RealtimeRunner` a program's own work takes no time; `realtime` is the
run in which it may.

Deadlock is checked in `components` and `programs`, which stutter at their ends. The
other configurations say `CHECK_DEADLOCK FALSE` because a run really ends, in
`stopped` or `panicked`.

### Fairness

`FairSpec` (and, with the same conditions, `FairHookedSpec` of run `strategies`)
assumes weak fairness of `RunnerStep`, since nothing else runs on the runner's
thread, and of `UserReturn`: user callbacks terminate. There is none on
`UserOperation`: user code need not schedule anything. Without the second
assumption no framework that calls back could promise termination. With
`AlwaysContinueStrategy` a zero-delay loop never ends a tick in the code (in the
model it runs into the micro-step counter), so liveness is stated for the
limiting strategy only.

`FairParallelSpec` splits this: the main thread's steps, the user's returns on it,
and the pool's steps (a worker picks up an event, or its call returns) are each
weakly fair. Sending is not: a worker may send nothing. `FairRealtimeSpec` adds
weak fairness of `Elapse`: time passes.

## Findings

1. **A source can fire in the place of another** (run `source_ids`).
   `SourceHandler` numbers scheduled sources with `next_source_id`, which counts
   only the sources that returned a delay, and uses the number as an index of
   the registry, which counts all. After a source that declined its initial
   firing, every later one is scheduled under a wrong index.
   `add_source_after_registered_action` does the same.
2. **Initial sources miss micro-step zero** (run `initial_sources`).
   `begin_simulation` flushes the sources' pending heap before
   `initialize_sources` fills it. A source that asks for delay zero is pending
   when tick zero begins and fires in its second micro-step; events scheduled at
   the same moment are flushed and handled in the first.
3. **`run_do_ticks(1, true)` runs no tick** (run `one_tick`).
   `previous` of tick zero is tick zero, so the zero-th tick counts as done
   before it began. For larger counts the zero-th tick is counted as documented,
   and without it too (run `strategies`). The unit test
   `tick_status_is_done_ticks_edge_cases` asserts the answer that causes it,
   `is_done_ticks(true, 1)` at tick zero (`sim_time.rs:701-704`); it is among the
   tests of `components`.
4. **Beyond tick 2^32 the `RealtimeRunner` does not wait** (run `realtime_cast`).
   The tick is cast to `u32` before it is multiplied with the tick unit. The
   run uses a cast of one bit; the argument is the same for 32.
5. **A limit of L lets L + 1 micro-steps work** (run `micro_step_limit`).
   `limit_micro_step_count` is the "Maximum micro-steps permitted per tick"
   (`limit_abort.rs:102`; "maximum number of micro-steps per tick", `:4`). The strategy
   is asked after a micro-step and goes on while its number, counted from zero, is
   `< limit`. The micro-steps 0 .. L all fire and handle; the run, with L = 1, has an
   event handled in micro-step 1. `LimitDiscardStrategy` compares alike. Its doc speaks of a
   count that "exceeds" the limit (`limit_discard.rs:7` and `:16`, also
   `limit_abort.rs:49`), which is right of the micro-steps that have ended, but in its
   comment (`:41`) and in the unit tests the limit is "reached" when the micro-step
   numbered L, the (L + 1)th, ends. With L = 0 a
   tick still has its micro-step 0, which `test_standard_runner_run_without_strategy_error`
   wants. `MicroStepsAreBounded` and its theorem say that L + 1 is never exceeded.
6. **After a strategy's error `after_tick` is called** (run `strategies`).
   The test `test_lifecycle_interruption_on_strategy_error` verifies, its comment says, that "the
   normal lifecycle event (such as AfterTick) after the microstep where the error
   occurred is not executed" (`standard.rs:428-429`, `parallel.rs:665-666`,
   `realtime.rs:464-465`). The runner leaves the micro-step loop and ends the tick as
   always, hooks included, as `EveryScopeIsClosed` says for every such run, and as the same test
   wants a few lines above: `AfterMicroStep`, `AfterTick` and `AfterSimulation`
   "correctly terminate the flow" (`standard.rs:421-422`). The `assert_ne!` on
   `AfterTick` passes either way, because nothing in that test records one.

Places where docs and code differ without a run of their own:

* `take_one_if` "searches for and pops the first" entry that satisfies the predicate,
  says its doc (`phase/event.rs:56`, `phase/source.rs:74`). It calls `pop_front_if`,
  looks at the front and returns `None` when that one does not satisfy it
  (`TakeOneIf` of `PhaseQueue`), so that it is the same as `take_front_if`.
* `AlwaysContinueStrategy` delegates "termination control to the main simulation loop's
  `should_stop`" (`always_continue.rs:5`); `should_stop` is asked between
  ticks only, and not at all while zero-delay work keeps a tick from ending.
* The doc of `ParallelRunner` says that priorities *exceeding* the threshold are handled
  in line, the one of its field (and the code) that those *equal* to it are too.
* `modeling/hook.rs:115` promises `before_event` immediately before an event is
  processed; the events that workers handle reach neither it nor `after_event`.
* `examples/parallel_runner.rs:84` limits "the number of concurrent processes" by
  comparing the length of the queue of waiting jobs with `WORKER_COUNT`; the jobs in
  process are not in that queue, so more of them may run.

## Proved by TLAPS

For every value of the constants that satisfies their assumptions, thus for any
number of events, sources, hooks, workers, commands and agents, any priorities and
delays, all three strategies, both ways of ending a tick and every stop rule. Each
theorem says that a specification implies a property that a run checks on a small
instance:

| specification | theorem | property |
| --- | --- | --- |
| `Spec` | `TypeCorrect` | `TypeOK` |
| | `NothingIsEverOverdue` | `NothingIsOverdue` |
| | `RunsPanicOnlyOnOverflow` | `OnlyOverflowPanics` |
| | `EventsAreAlwaysConserved` | `EventsAreConserved` |
| | `ZeroDelayIsAlwaysDeferred` | `ZeroDelayIsDeferred` |
| | `NoneOvertakes` | `NoOvertaking` |
| | `RunnerImplementsEventList` | `ImplementsEventList` |
| | `StatusIsAlwaysAccurate` | `StatusIsAccurate` |
| | `JumpIsAlwaysExact` | `JumpIsExact` |
| | `AdvanceEventsAlwaysGoFirst` | `AdvanceEventsGoFirst` |
| | `SourceIsAlwaysScheduledOnce` | `SourceScheduledOnce` |
| | `IdleAlwaysLeavesNoEvent` | `IdleLeavesNoEvent` |
| | `CountedTicksAreAlwaysDone` | `CountedTicksAreDone`, if `OneTickIsNotAskedFor` |
| | `NoTickIsExtra` | `NoExtraTick`, if `SomeTickIsAskedFor` |
| | `MicroStepsAreAlwaysBounded` | `MicroStepsAreBounded` |
| | `AbortIsAlwaysFinal` | `AbortIsFinal` |
| `HookedSpec` | `HooksAlwaysNest` | `HooksNest` |
| | `EveryScopeIsAlwaysClosed` | `EveryScopeIsClosed` |
| | `LastMicroStepIsAlwaysTold` | `LastMicroStepIsTold` |
| `ParallelSpec` | `ModelIsAlwaysShared` | `ModelIsShared` |
| | `ParallelEventsAreAlwaysConserved` | `ParallelEventsAreConserved` |
| | `SyncAlwaysStaysOnMainThread` | `SyncStaysOnMainThread` |
| | `CommandsAreAlwaysApplied` | `CommandsAreApplied` |
| | `CommandsAreAlwaysInOrder` | `CommandsInOrder` |
| | `ParallelImplementsEventList` | `ImplementsParallelList` |
| `RealtimeSpec` | `NeverDrifts` | `NoDrift` |
| | `TicksAreNeverEarly` | `NeverEarly`, if `TicksFitTheCast` |
| `AgentSpec` | `AgentIsAlwaysInOnePlace` | `AgentIsInOnePlace` |
| | `NoAgentIsEverForgotten` | `NoAgentIsForgotten` |
| | `IdleAlwaysMeansAgentsAreDone` | `IdleMeansAgentsAreDone` |
| | `StepsAreAlwaysTimely` | `StepsAreNeverLate` |
| `ProgramSpec` | `LittlesLawAlwaysHolds` | `LittlesLaw` |
| | `NoJobIsEverStranded` | `NoJobIsStranded` |
| | `CarsAreAlwaysDriven` | `CarsAreDrivenAndDated` |

Some theorems are not about a property of a run:

| theorem | says |
| --- | --- |
| `StandardProgramsAreRuns`, `ParallelProgramsAreRuns`, `RealtimeProgramsAreRuns` | a program under a runner is a run of `HookedSpec`, `ParallelSpec`, `RealtimeSpec`: what is shown for arbitrary user code holds of every program, tests and examples included, as long as `CallsAreLegal` |
| `ExamplesAreRuns` | the servers, `little_law.rs` and `agent_run.rs` make only legal calls, so that for them the hypothesis of those three is discharged |
| `ChoiceFallsInAWeight` | the index `ChoiceSampler` and `EmpiricalSampler` look up exists and has a weight above zero, for all weights and draws |
| `ChoiceIsWeighted` | each index is found for exactly as many draws as its weight |

The assumptions on constants are those the modules name: the bounds are naturals,
`Delays` are times, `Priorities` are naturals, each of the `Runners` is well formed,
and so on for the added constants. The runner is a variable that no step changes.

`ProgramSpec` runs any one of the constant `Programs`. `ExamplesAssumption` says what
the mains of the examples set up, and no more than that:

* `IsServerProgram`: any sequence of job generators of any intervals and bursts, any of the three
  runners with `AlwaysContinueStrategy`, the strategy of all five examples, and any stop rule;
  under the `ParallelRunner` a threshold above the priority of the events, as the example
  asks for to have all of them handled by workers; its `handle_event` does nothing.
* `IsLittleProgram`: any sequence of first arrivals and departures, `StandardRunner` or
  `RealtimeRunner`, any strategy and stop rule. The draws are any of
  `ArrivalDurations` and `ServiceDurations`, which are any sets of naturals.
* `IsTrafficProgram`: any number of cars, one per tick from the first on, and the signal,
  under the `StandardRunner`, skipping or not.

`DurationsAssumption` says that the durations the examples pass are among `Delays`. TLC
evaluates both in `programs`. `CallsAreLegal` says that user code passes times, `Delays` and
`Priorities` there are; `Simulation` lets user code choose from those. The three theorems that
have it as a hypothesis are about any user code, that of the tests included.

Three theorems have a hypothesis of their own. Two of these exclude what a finding is about,
so that the theorem says how far the finding reaches:

* `OneTickIsNotAskedFor`: `run_do_ticks` is not asked for one tick with tick zero, nor
  for none without it. The first is finding 3; the second also stops before tick zero,
  whose entries then remain.
* `TicksFitTheCast`: `MaxTime < CastModulus`, that is, ticks below 2^32. Beyond it
  is finding 4. `NoDrift` needs no such hypothesis.
* `SomeTickIsAskedFor`: `run_do_ticks(0, true)` is not called. It ends at tick zero, and there is
  no tick "minus one" it could have ended with.

### The arguments

The invariants below are each inductive, relative to those above them.

* **Types** (`StepType`). The interesting part is
  that no time or micro-step out of range is stored, which is the overflow tests.
* **Timely** strengthens `NothingIsOverdue`. Alone it is not inductive, because
  the clock moves: that nothing is passed is known from `TickIsDone` (when the
  tick ends, everything queued is due later), which `end_micro_step` establishes
  by comparing the heads of the two heaps *after* both flushes
  (`PendingIsFlushed`), and `discard_remain_micro_step` by taking away what is
  due. `OnlyOverflowPanics` is part of it: an overdue entry is what makes
  `drain_ready` panic, and the jump cannot underflow because both heads are later
  than the tick (`HeadIsLeast`, `NoHeadNow`).
* **Conserved** strengthens `EventsAreConserved` with the fact that the batch is
  used up outside the event phase, since `to_event_phase` replaces it. The
  operations are treated in five lemmas about three sets, two sets of ids and a
  counter (`ScheduleConserves`, `FlushConserves`, `DrainConserves`,
  `DropConserves`, `HandleConserves`).
* **Ordered** strengthens `ZeroDelayIsDeferred`. During a micro-step the ids
  tell old from new: what is pending has an id from `step_first_id` on,
  everything else an older one. It needs that nothing is pending when a
  micro-step begins (`Quiet`), and it says that the event phase holds all that
  is due now (`Handling`).
* **FrontMayBeExecuted** combines them: an older event of this tick is not in
  the ready heap (`Handling`) and not pending (ids), so it is in the batch, where
  the heap order decides. `NoneOvertakes` follows, and `Execute` of the
  refinement.
* **The refinement** maps `clock` to `now`, `agenda` to the two heaps and the
  batch, `executed` and `discarded` to the history. `UserListed` and
  `RunnerListed` map each action: `schedule` is `Issue`, `handle_event` is
  `Execute`, cancelling and discarding are `Drop`, ending a tick is `Advance`,
  and everything else is a stutter.
* **A heap that is not empty has a head** (`HasHead`), by the least element of a set
  of naturals (`LeastNat`, from the library's well-foundedness of `<`). `JumpIsExact`
  and `StatusIsAccurate` need it: an empty `peek_next_time` must mean an empty heap.
* **Sourced** is conservation for sources, with the id counter tied to the registry:
  `initialize_sources` draws one id per round at most (`SourcesNumbered`).
* **Stop rules.** A run stops between ticks, when all that is left is in the ready heaps
  and due at `now` or later; and `previous` of the status is the last processed tick
  (`CountedStep`). Without skipping the count moves by one, from below `tick_count`
  to at most it (`OneByOne`).
* **Advancing** repeats the argument of Ordered for the tick: ids from `tick_first_id` on
  are new in it, so an older event that is due now was in the first batch.
* **Bounded** says what the micro-step after the limit looks like (`WindingUp`): the
  discard before it left nothing due, so it has no batch, runs no user code, and
  therefore nothing can become due in it.
* **Nesting** (hooks): the open calls are exactly those of a path from the tick to the place
  `phase` is at, once per hook (`Delegate`). A before call of the delegate appends
  one call for each hook, the after calls take them off in reverse, and the arguments agree because
  the code evaluates both from the same clock and micro-step. `HooksOnlyWatch` shows
  `HookedSpec => Spec`, so all of the above holds for runs with hooks.
* **Staged**, **Parallel** (`ParallelRunner`): `stage` and `phase` fit together, so nothing
  but workers steps while they hold the model; conservation and order hold
  with the events in the pool counted to the batch (`Kept`), which were all due now and are
  older than anything scheduled meanwhile (`WorkIsDue`). `SyncOnly` rests on the heap order: when
  the front of the batch is below the threshold the whole batch is (`NoneIsSync`, `FrontExists`).
  `Delivered` and `InOrder` say that the channel holds what was sent and not applied, each command
  behind its predecessors of the same event. In the refinement a worker that picks up an event
  executes it, in whatever order; only ranks from the threshold on are ordered.
* **Waiting** (`RealtimeRunner`): a tick begins only after the wait for its own target, and
  the wait ends only when the clock has reached it. Each step is one of the core or the panic
  of an unrepresentable `Instant`.
* **Agentive** (agents) has a part per difficulty. `Alone`: a continuation in a ticket is in
  no other and not running. `Attended`: an event is current, or a continuation
  running, only inside a handler. `Unhandled`: a ticket that still holds a continuation was carried by no
  event that was handled before, since the handler executes its ticket; with conservation, every carrier is
  then alive or dropped, which is `NoAgentIsForgotten`. `OnTime`: one of the carriers is no later
  than the step is due, or one was dropped. That what agents schedule is an operation of
  users (`AgentSpec => Spec`) needs the types of their steps, whose invariance needs `Spec`:
  both are shown in one induction (`AlwaysAgentive`).

* **Induction over data.** The sums over histories and weights, and `retain`, are
  recursive functions. What they compute is shown for every input with
  `Induction`: a set of naturals that has 0, and `n + 1` with each `n`, has all, by the least
  element of the rest. `SumsExist` and `RetainingExists` show that the functions exist;
  `TotalAppend`, `TotalTail` and `RetainedIds` are then what the rest uses: what is
  retained are the other ids, each once.
* **Programs are runs.** Each action of `Programs` is one of the runner it chose with a
  choice among those `Simulation` leaves to user code (`CallsAreUserSteps`,
  `StandardStep`, `ParallelStep`, `RealtimeProgramStep`). Nothing is assumed of what
  user code computes, except `CallsAreLegal`.
* **Little** (`little_law.rs`): `LittleCounts` is the law at `last_event_time` instead of the
  end, which is inductive: the update at an event adds the length of the queue times the
  time since, and that is by how much the sum of all stays grows (`StaysGrow`). An
  arrival adds a customer who has stayed for no time, a departure closes a stay at the time it
  is counted at. It needs that time does not go back.
* **Server** (the five servers): the sequential one needs `Processed` (the one completion is
  on its way, from the handler that is to schedule it to the one that is given it);
  the parallel one `TakerOnItsWay`: where there is a queue, a completion or a `JobProcessNext`
  is queued, or at work with its command unsent, or its command is in the channel. Each
  command is sent before its worker is done (`HasSent`), and an applied
  one that leaves a queue schedules a `JobProcessNext`.
* **TrafficRuns** (`agent_run.rs`) has a part per difficulty. `TrafficArrives`: cars arrive in the
  order of their ids, as their events have the numbers of their ticks and no tick is
  passed over (`TrafficTimes`, which is `Timely` for this program). `TrafficCars`: a
  car is in the lane exactly while it has steps to drive, no car is there twice,
  and one with only its last step left has crossed. `TrafficAgents`: a car in the lane
  has one `Resume` event on its way or its handler is about to schedule it.
  `TrafficCollects`: the collector is behind by `skipped` at a peek and makes up for it when the
  tick begins.

### Only model-checked

* Liveness: `TicksEnd`, `RunReturns`, `CommandsGetApplied`, `WaitEnds`. Fairness and ENABLED are out
  of the prover's reach.
* The tests (`TracesAreExpected`, `AnswersAreExpected`): each is one finite program with
  literal data, and a run of TLC explores it completely. There is nothing to generalise: a
  proof would follow each test call by call, as the run does. That the tests are runs of
  the modelled runners is `StandardProgramsAreRuns` and its two siblings, if their calls are legal.

## Not modelled

* The distributions of the samplers (normal, Poisson and so on), which draw floats,
  and `aggregate`, `map` and `chain`, which only call closures. `examples/sampler.rs`
  prints such draws.
* `run_batch_parallel`: independent engines on independent threads. `LittleLaw` runs
  the engines of its batch as separate behaviours.
* `run_playback`: the loop of `run` with a sleep in it.
* Reuse of a runner for a second run: `LimitAbortStrategy` keeps its error count.
* The hook calls of `cancel_*`, `discard_*` and `on_discard_remain_micro_step` in
  `HookedSimulation`, as they open no scope; `Programs` has them where a test or an
  example listens. `SharedHook` forwards each call unchanged.
* `peek` and `inspect` of agents, `Display` and `Debug`, the operations on `Duration` that no
  runner uses, names and payloads.
* Trace output and the interactive prompt: I/O.

## Plan

In this order; all but block 5 are done.

1. *Core.* `SimTime`, `ScheduledQueue`, `EventScheduler`, `SourceHandler`,
   `Simulation`, `EventList`, their properties, runs and proofs.
2. *Around the core.* `ParallelRunner`, hooks, `RealtimeRunner`, agents.
3. *Custom runners.* `PhaseQueue`: what a phase offers beyond the crate's runners.
4. *The crate's own evidence.* Its unit tests, run tests and examples as programs of
   the model.
5. *Reuse.* Two runs of one runner, with a strategy that remembers its errors.
6. *Proofs of the models.* Every safety property of the core, of hooks, of the parallel
   and the realtime runner and of agents.
7. *Proofs of the programs.* Programs are runs; the three properties of the examples; the
   samplers' weighted choice.
