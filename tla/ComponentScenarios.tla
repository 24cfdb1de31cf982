-------------------------- MODULE ComponentScenarios --------------------------
(***************************************************************************)
(* The crate's unit tests, run by the modules of the components: each test  *)
(* is a sequence of calls, each call is the action of the component that    *)
(* models it, and what the model answers is compared with what the test     *)
(* asserts.  It is how the components are held to the code.                 *)
(*                                                                         *)
(* A panic ends nothing here: it leaves the state alone and is answered.    *)
(***************************************************************************)
EXTENDS EventScheduler, SourceHandler, PhaseQueue, Samplers, HookDelegate, ScenarioSteps
LOCAL INSTANCE FiniteSetsExt
LOCAL INSTANCE SequencesExt

CONSTANT Scenarios    \* a sequence of tests

VARIABLES test,       \* the test that runs
          at,         \* the step it is at
          answer,     \* what the last call answered
          expected    \* what the test asserts of it

driverVars == <<test, at, answer, expected>>
componentVars == <<schedulerVars, sourceVars, phaseQueueVars, next_index>>
allVars == <<driverVars, componentVars, hookVars>>

ScenarioInit ==
    /\ test \in DOMAIN Scenarios
    /\ at = 1 /\ answer = <<>> /\ expected = <<>>
    /\ SchedulerInit /\ SourceInit /\ PhaseQueueInit(<<>>)
    /\ next_index = 0 /\ HookInit

Current == Scenarios[test][at]
Args == Current.args
Called(call) == at <= Len(Scenarios[test]) /\ Current.call = call

Answered(value) ==
    /\ answer' = value
    /\ expected' = Current.answer
    /\ at' = at + 1
    /\ UNCHANGED test

Flag(b) == IF b THEN 1 ELSE 0
OptionSeq(option) == SetToSeq(option)
Ascending(ids) == SetToSortSeq(ids, LAMBDA x, y : x < y)
EventIds(events) ==
    LET sorted == SetToSortSeq(events, Before)
    IN  [k \in DOMAIN sorted |-> sorted[k].event_id]
BySource(entries) == SetToSortSeq(entries, SourceBefore)
SourceIds(entries) == [k \in DOMAIN BySource(entries) |-> BySource(entries)[k].source_id]
HeadOf(queue) == {x \in queue : PeekNextTime(queue) = {x.scheduled_at}}

(***************************************************************************)
(* The event scheduler.                                                    *)
(***************************************************************************)
CallSchedule ==
    /\ Called("schedule")
    /\ Schedule(Args.now, Args.delay, Args.priority)
    /\ Answered(<<>>)
    /\ UNCHANGED <<sourceVars, phaseQueueVars, next_index>>

CallFlushEvents ==
    /\ Called("flush_pending")
    /\ FlushPendingEvents
    /\ Answered(<<>>)
    /\ UNCHANGED <<sourceVars, phaseQueueVars, next_index>>

CallDrainEvents ==
    /\ Called("drain_ready")
    /\ ~Overdue(event_ready, Args)
    /\ Answered(EventIds(DueAt(event_ready, Args)))
    /\ DrainReadyEvents(Args)
    /\ UNCHANGED <<sourceVars, phaseQueueVars, next_index>>

CallCancelEvents ==
    /\ Called("drain_cancel_scheduled")
    /\ LET cancelled == {e \in event_ready \cup event_pending : e.event_id \in Args}
       IN  /\ Answered(Ascending({e.event_id : e \in cancelled}))
           /\ DrainCancelScheduledEvents(cancelled)
    /\ UNCHANGED <<sourceVars, phaseQueueVars, next_index>>

(***************************************************************************)
(* The source handler.                                                     *)
(***************************************************************************)
CallAddSource ==
    /\ Called("add_source_for_before_simulation")
    /\ AddSourceForBeforeSimulation
    /\ Answered(<<>>)
    /\ UNCHANGED <<schedulerVars, phaseQueueVars, next_index>>

CallInitializeSource ==
    /\ Called("initialize_sources")
    /\ InitializeSource(Args.slot, Args.delay)
    /\ Answered(<<>>)
    /\ UNCHANGED <<schedulerVars, phaseQueueVars, next_index>>

CallAddSourceAfter ==
    /\ Called("add_source_after_registered_action")
    /\ AddSourceAfterRegisteredAction(Args.now, Args.delay)
    /\ Answered(<<>>)
    /\ UNCHANGED <<schedulerVars, phaseQueueVars, next_index>>

CallScheduleNext ==
    /\ Called("schedule_next")
    /\ ScheduleNextSource(Args.now, {Args.delay}, Args.id)
    /\ Answered(<<>>)
    /\ UNCHANGED <<schedulerVars, phaseQueueVars, next_index>>

CallFlushSources ==
    /\ Called("sources.flush_pending")
    /\ FlushPendingSources
    /\ Answered(<<>>)
    /\ UNCHANGED <<schedulerVars, phaseQueueVars, next_index>>

CallDrainSources ==
    /\ Called("sources.drain_ready")
    /\ ~Overdue(source_ready, Args)
    /\ Answered(SourceIds(DueAt(source_ready, Args)))
    /\ DrainReadySources(Args)
    /\ UNCHANGED <<schedulerVars, phaseQueueVars, next_index>>

CallCancelSources ==
    /\ Called("sources.drain_cancel_scheduled")
    /\ LET cancelled == {s \in source_ready \cup source_pending : s.source_id \in Args}
       IN  /\ Answered(Ascending({s.source_id : s \in cancelled}))
           /\ DrainCancelScheduledSources(cancelled)
    /\ UNCHANGED <<schedulerVars, phaseQueueVars, next_index>>

(***************************************************************************)
(* The queue of a phase.                                                   *)
(***************************************************************************)
CallNewPhase ==
    /\ Called("new")
    /\ NewPhase(Args)
    /\ Answered(<<>>)
    /\ UNCHANGED <<schedulerVars, sourceVars, next_index>>

CallTake ==
    /\ \/ Called("take_one") /\ TakeOne
       \/ Called("take_one_if") /\ TakeOneIf(Args)
       \/ Called("take_front_if") /\ TakeFrontIf(Args)
       \/ Called("take_all") /\ TakeAllEntries
       \/ Called("take_all_if") /\ TakeAllIf(Args)
    /\ Answered(given')
    /\ UNCHANGED <<schedulerVars, sourceVars, next_index>>

CallHandle ==
    /\ Called("handle_event")
    /\ HandleEntry(Args)
    /\ Answered(handled_log')
    /\ UNCHANGED <<schedulerVars, sourceVars, next_index>>

CallDiscard ==
    /\ Called("discard")
    /\ DiscardEntry(Args)
    /\ Answered(discard_log')
    /\ UNCHANGED <<schedulerVars, sourceVars, next_index>>

(***************************************************************************)
(* A rotating sampler, and calls that change no state.                     *)
(***************************************************************************)
CallNewRotate ==
    /\ Called("RotateSampler.new")
    /\ ~NewRotatePanics(Args.list, Args.index)
    /\ NewRotate(Args.index)
    /\ Answered(<<>>)
    /\ UNCHANGED <<schedulerVars, sourceVars, phaseQueueVars>>

CallRotate ==
    /\ Called("RotateSampler.sample")
    /\ Answered(<<Args[next_index + 1]>>)
    /\ RotateSample(Args)
    /\ UNCHANGED <<schedulerVars, sourceVars, phaseQueueVars>>

CallThatPanics ==
    /\ \/ Called("drain_ready") /\ Overdue(event_ready, Args)
       \/ Called("sources.drain_ready") /\ Overdue(source_ready, Args)
       \/ Called("RotateSampler.new") /\ NewRotatePanics(Args.list, Args.index)
    /\ Answered(Panicked)
    /\ UNCHANGED componentVars

PanicsUnless(ok, value) == IF ok THEN value ELSE Panicked
SomeOrPanic(option) == PanicsUnless(option # {}, OptionSeq(option))

(* What a call that reads answers. *)
Reads ==
    [peek |-> OptionSeq(PeekNextTime(event_ready)) \o
                  (IF event_ready = {} THEN <<>> ELSE <<EventIds(HeadOf(event_ready))[1]>>),
     peek_next_time |-> OptionSeq(PeekNextTime(event_ready)),
     ready_queue_len |-> <<Cardinality(source_ready)>>,
     ready_entries |-> ready_queue,
     peek_next_index |-> <<next_index>>,
     pending_queue |-> <<source_registry, next_source_id>> \o
         [k \in 1 .. 2 * Cardinality(source_pending) |->
             LET entry == BySource(source_pending)[(k + 1) \div 2]
             IN  IF k % 2 = 1 THEN entry.scheduled_at ELSE entry.source_id]]

CallThatReads ==
    /\ at <= Len(Scenarios[test])
    /\ \/ Current.call \in DOMAIN Reads /\ Answered(Reads[Current.call])
       \/ Called("sources.peek_next_time") /\ Answered(OptionSeq(PeekNextTime(source_ready)))
       \/ /\ Called("sources.peek")
          /\ Answered(IF source_ready = {} THEN <<>> ELSE
                      LET entry == BySource(source_ready)[1]
                      IN  <<entry.scheduled_at, entry.source_id>>)
       \/ Called("HookDelegate") /\ Answered(CallOrder(Args))
       \/ Called("get_by_source_id") /\ Answered(PanicsUnless(Args < source_registry, <<Args>>))
    /\ UNCHANGED componentVars

(* Calls of pure functions. *)
CallOnTimes ==
    /\ \/ Called("add") /\ Answered(SomeOrPanic(CheckedAdd(Args.a, Args.b)))
       \/ Called("sub") /\ Answered(SomeOrPanic(CheckedSub(Args.a, Args.b)))
       \/ Called("checked_add") /\ Answered(OptionSeq(CheckedAdd(Args.a, Args.b)))
       \/ Called("checked_sub") /\ Answered(OptionSeq(CheckedSub(Args.a, Args.b)))
       \/ Called("saturating_add") /\ Answered(<<SaturatingAdd(Args.a, Args.b)>>)
       \/ Called("saturating_sub") /\ Answered(<<SaturatingSub(Args.a, Args.b)>>)
       \/ Called("MicroStep.next") /\ Answered(SomeOrPanic(NextMicroStep(Args)))
       \/ Called("previous") /\ Answered(PanicsUnless(~PreviousPanics(Args), <<Previous(Args)>>))
       \/ /\ Called("is_done_ticks")
          /\ Answered(<<Flag(IsDoneTicks(Args.status, Args.include, Args.count))>>)
    /\ UNCHANGED componentVars

CallOnSamplers ==
    /\ \/ Called("to_duration") /\ Answered(SomeOrPanic(TryToDuration(Args)))
       \/ /\ Called("to_duration_with_clamp")
          /\ Answered(<<ToDurationWithClamp(Args.raw, Args.max)>>)
       \/ /\ Called("to_duration_or_else")
          /\ Answered(IF TryToDuration(Args.raw) = {} THEN <<Args.otherwise>>
                      ELSE OptionSeq(TryToDuration(Args.raw)))
       \/ Called("PendingDuration.add") /\ Answered(<<Args.a + Args.b>>)
       \/ Called("PendingDuration.sub") /\ Answered(<<Args.a - Args.b>>)
       \/ Called("ChoiceSampler.new") /\ Answered(PanicsUnless(~ChoicePanics(Args), <<>>))
       \/ /\ Called("ChoiceSampler.sample")
          /\ Answered(<<Choose(Args.weights, Args.values, Args.r)>>)
       \/ Called("ModeSampler.sample") /\ Answered(<<ActiveSampler(Args.values, Args.index)>>)
       \/ Called("DelaySampler.sample") /\ Answered(<<DelaySample(Args.sampled, Args.delay)>>)
       \/ Called("JitterSampler.sample") /\ Answered(<<JitterSample(Args.sampled, Args.jitter)>>)
       \/ Called("ClampSampler.sample") /\ Answered(<<Clamped(Args.sampled, Args.min, Args.max)>>)
       \/ /\ Called("EnsureNonNegativeSampler.sample")
          /\ Answered(<<EnsureNonNegative(Args.draws, Args.limit, Args.fallback),
                        Tries(Args.draws, Args.limit)>>)
    /\ UNCHANGED componentVars

(* The test passed its last step. *)
TestIsOver == at > Len(Scenarios[test]) /\ UNCHANGED <<driverVars, componentVars>>

ScenarioStep ==
    \/ CallSchedule \/ CallFlushEvents \/ CallDrainEvents \/ CallCancelEvents
    \/ CallAddSource \/ CallInitializeSource \/ CallAddSourceAfter \/ CallScheduleNext
    \/ CallFlushSources \/ CallDrainSources \/ CallCancelSources
    \/ CallNewPhase \/ CallTake \/ CallHandle \/ CallDiscard
    \/ CallNewRotate \/ CallRotate \/ CallThatPanics \/ CallThatReads
    \/ CallOnTimes \/ CallOnSamplers
    \/ TestIsOver

(* The tests of HookDelegate call its methods one by one: no scope is opened. *)
ScenarioNext == ScenarioStep /\ UNCHANGED hookVars

ScenarioSpec == ScenarioInit /\ [][ScenarioNext]_allVars

(* Every assertion of every test holds of the model: what a call of a component *)
(* answers is what the code answered when the test was written.                 *)
AnswersAreExpected == answer = expected
==============================================================================
