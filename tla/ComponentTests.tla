---------------------------- MODULE ComponentTests -----------------------------
(***************************************************************************)
(* The unit tests of the components, one definition each.                  *)
(***************************************************************************)
EXTENDS ScenarioSteps, SimTime

--------------------------------------------------------------------------------
(***************************************************************************)
(* The tests of event_scheduler.rs, one definition each.  An event is the   *)
(* id it gets, which is how many were scheduled before it; that tells what  *)
(* the payloads tell in the tests.                                          *)
(***************************************************************************)
Scheduled(now, delay, priority) ==
    Step("schedule", [now |-> now, delay |-> delay, priority |-> priority], <<>>)
Flushed == Step("flush_pending", <<>>, <<>>)
Drained(now, ids) == Step("drain_ready", now, ids)
Cancelled(matching, ids) == Step("drain_cancel_scheduled", matching, ids)
NextIs(time, id) == Step("peek", <<>>, <<time, id>>)
NextTimeIs(times) == Step("peek_next_time", <<>>, times)

(* Events of priority zero, scheduled at tick zero. *)
Plain(delays) == [k \in DOMAIN delays |-> Scheduled(0, delays[k], 0)]

CollectReturnsOnlyMatchingTime ==
    Plain(<<10, 20, 30>>) \o <<Flushed, Drained(10, <<0>>), NextIs(20, 1)>>

CollectOrdersByPriority ==
    <<Scheduled(0, 10, 10), Scheduled(0, 10, 20), Scheduled(0, 10, 30), Flushed,
      Drained(10, <<2, 1, 0>>)>>

CollectBeforeFlush ==
    <<Scheduled(0, 10, 10), Scheduled(0, 10, 20), Scheduled(0, 10, 30),
      Drained(10, <<>>), Flushed, Drained(10, <<2, 1, 0>>)>>

CollectOrdersByTimeThenPriority ==
    <<Scheduled(0, 10, 20), Scheduled(0, 10, 10), Scheduled(0, 20, 5), Scheduled(0, 20, 30),
      Flushed, Drained(10, <<0, 1>>), Drained(20, <<3, 2>>)>>

CollectFromEmptyScheduler == <<Drained(0, <<>>), NextTimeIs(<<>>)>>

CollectWhenNoEventMatchesNow ==
    <<Scheduled(30, 10, 0), Scheduled(30, 30, 0), Scheduled(30, 40, 0), Flushed,
      Drained(30, <<>>), NextTimeIs(<<40>>)>>

CollectOrdersByEventId ==
    Times(3, Scheduled(0, 10, 10)) \o <<Flushed, Drained(10, <<0, 1, 2>>)>>

CollectLeavesFutureEvents ==
    <<Scheduled(0, 10, 10), Scheduled(0, 10, 10), Scheduled(0, 20, 10), Flushed,
      Drained(10, <<0, 1>>), NextIs(20, 2)>>

CollectPanicsIfPastEventExists == Plain(<<10, 20>>) \o <<Flushed, Drained(20, Panicked)>>

CancelFromPendingQueue ==
    Plain(<<10, 20, 30>>) \o
    <<Cancelled({0}, <<0>>), Flushed, Drained(20, <<1>>), Drained(30, <<2>>)>>

CancelFromReadyQueue ==
    Plain(<<10, 20, 30>>) \o
    <<Flushed, Cancelled({1}, <<1>>), Drained(10, <<0>>), Drained(30, <<2>>)>>

CancelMultipleEvents ==
    Plain(<<10, 20, 30, 40>>) \o
    <<Flushed, Cancelled({0, 2, 3}, <<0, 2, 3>>), Drained(20, <<1>>)>>

CancelNoEvents ==
    Plain(<<10, 20>>) \o
    <<Flushed, Cancelled({}, <<>>), Drained(10, <<0>>), Drained(20, <<1>>)>>

CancelAllEvents ==
    Plain(<<10, 20>>) \o
    <<Flushed, Cancelled({0, 1}, <<0, 1>>), Drained(10, <<>>), Drained(20, <<>>)>>

CancelBeforeFlush ==
    Plain(<<10, 20>>) \o <<Flushed>> \o Plain(<<30, 40>>) \o
    <<Cancelled({0, 2}, <<0, 2>>), Flushed, Drained(20, <<1>>), Drained(40, <<3>>)>>

CancelEventById ==
    Plain(<<10, 20, 30>>) \o
    <<Flushed, Cancelled({1}, <<1>>), Drained(10, <<0>>), Drained(30, <<2>>)>>

CancelWithMixedQueues ==
    Plain(<<10, 20>>) \o <<Flushed>> \o Plain(<<15, 25>>) \o
    <<Cancelled({1, 2}, <<1, 2>>), Flushed, Drained(10, <<0>>), Drained(25, <<3>>)>>

EventSchedulerScenarios ==
    <<CollectReturnsOnlyMatchingTime, CollectOrdersByPriority, CollectBeforeFlush,
      CollectOrdersByTimeThenPriority, CollectFromEmptyScheduler,
      CollectWhenNoEventMatchesNow, CollectOrdersByEventId, CollectLeavesFutureEvents,
      CollectPanicsIfPastEventExists, CancelFromPendingQueue, CancelFromReadyQueue,
      CancelMultipleEvents, CancelNoEvents, CancelAllEvents, CancelBeforeFlush,
      CancelEventById, CancelWithMixedQueues>>

--------------------------------------------------------------------------------
(***************************************************************************)
(* The tests of source_handler.rs, one definition each.  A source is its    *)
(* index in the registry, which stands for its name; what a test asserts of *)
(* the ids of drained sources is the sequence of ids.  `initialize_sources` *)
(* is one step per registered source, as in SourceHandler.                  *)
(***************************************************************************)
SourceAdded == Step("add_source_for_before_simulation", <<>>, <<>>)
Initialized(slot, delay) == Step("initialize_sources", [slot |-> slot, delay |-> delay], <<>>)
SourceAddedAt(now, delay) ==
    Step("add_source_after_registered_action", [now |-> now, delay |-> delay], <<>>)
NextScheduled(now, delay, id) ==
    Step("schedule_next", [now |-> now, delay |-> delay, id |-> id], <<>>)
SourcesFlushed == Step("sources.flush_pending", <<>>, <<>>)
SourcesDrained(now, ids) == Step("sources.drain_ready", now, ids)
SourcesCancelled(matching, ids) == Step("sources.drain_cancel_scheduled", matching, ids)
NextSourceIs(entry) == Step("sources.peek", <<>>, entry)
NextSourceTimeIs(times) == Step("sources.peek_next_time", <<>>, times)
IdNames(id, slot) == Step("get_by_source_id", id, slot)

(* registry length, next_source_id, and the pending entries by time. *)
HandlerHolds(registered, next_id, pending) ==
    Step("pending_queue", <<>>, <<registered, next_id>> \o pending)
NothingReady == Step("ready_queue_len", <<>>, <<0>>)

(* Sources added before the simulation and initialized to fire after delays. *)
Sources(delays) ==
    Times(Len(delays), SourceAdded) \o [k \in DOMAIN delays |-> Initialized(k - 1, {delays[k]})]
ReadySources(delays) == Sources(delays) \o <<SourcesFlushed>>

NewHandler == <<HandlerHolds(0, 0, <<>>)>>
AddSources == <<SourceAdded, SourceAdded, HandlerHolds(2, 0, <<>>), NothingReady>>
InitializeSources == Sources(<<10, 5>>) \o <<HandlerHolds(2, 2, <<5, 1, 10, 0>>)>>
AddSourceWithDelay == <<SourceAddedAt(100, {50}), HandlerHolds(1, 1, <<150, 0>>)>>
AddSourceWithoutDelay == <<SourceAddedAt(100, {}), HandlerHolds(1, 0, <<>>)>>
AddSourceWithZeroDelay ==
    <<SourceAddedAt(100, {0}), HandlerHolds(1, 1, <<100, 0>>), NothingReady>>

AddSeveralSources ==
    <<SourceAddedAt(100, {20}), SourceAddedAt(100, {}), SourceAddedAt(100, {10}),
      HandlerHolds(3, 2, <<110, 1, 120, 0>>)>>

FlushPending ==
    Sources(<<10, 5>>) \o
    <<NothingReady, SourcesFlushed, HandlerHolds(2, 2, <<>>),
      SourcesDrained(5, <<1>>), SourcesDrained(10, <<0>>)>>

DrainReady ==
    ReadySources(<<10, 5, 10, 15>>) \o
    <<SourcesDrained(5, <<1>>), SourcesDrained(7, <<>>), SourcesDrained(10, <<0, 2>>),
      SourcesDrained(15, <<3>>), SourcesDrained(20, <<>>)>>

DrainReadyAfterDelayZero ==
    ReadySources(<<10, 10>>) \o
    <<SourcesDrained(10, <<0, 1>>), SourceAddedAt(10, {0}), SourcesFlushed,
      SourcesDrained(10, <<2>>)>>

DrainReadyInvariantViolation == ReadySources(<<5>>) \o <<SourcesDrained(10, Panicked)>>
GetBySourceId == ReadySources(<<10, 5>>) \o <<IdNames(0, <<0>>), IdNames(1, <<1>>)>>

ScheduleNext ==
    ReadySources(<<10>>) \o <<NextScheduled(10, 20, 0), HandlerHolds(1, 1, <<30, 0>>)>>

PeekNextTimeOfSources ==
    <<NextSourceTimeIs(<<>>)>> \o Sources(<<10, 5>>) \o
    <<NextSourceIs(<<>>), SourcesFlushed, NextSourceTimeIs(<<5>>), SourcesDrained(5, <<1>>),
      NextSourceTimeIs(<<10>>), SourcesDrained(10, <<0>>), NextSourceTimeIs(<<>>)>>

PeekSource ==
    <<NextSourceIs(<<>>)>> \o Sources(<<10, 5>>) \o
    <<NextSourceIs(<<>>), SourcesFlushed, NextSourceIs(<<5, 1>>), SourcesDrained(5, <<1>>),
      NextSourceIs(<<10, 0>>), SourcesDrained(10, <<0>>), NextSourceIs(<<>>)>>

CancelPendingSource ==
    Sources(<<10, 20, 30>>) \o
    <<SourcesCancelled({0}, <<0>>), SourcesFlushed, SourcesDrained(20, <<1>>),
      SourcesDrained(30, <<2>>)>>

CancelReadySource ==
    ReadySources(<<10, 20, 30>>) \o
    <<SourcesCancelled({1}, <<1>>), SourcesDrained(10, <<0>>), SourcesDrained(30, <<2>>)>>

CancelMultipleSources ==
    ReadySources(<<10, 20, 30, 40>>) \o
    <<SourcesCancelled({0, 2, 3}, <<0, 2, 3>>), SourcesDrained(20, <<1>>)>>

CancelNoSources ==
    ReadySources(<<10, 20>>) \o
    <<SourcesCancelled({}, <<>>), SourcesDrained(10, <<0>>), SourcesDrained(20, <<1>>)>>

CancelAllSources ==
    ReadySources(<<10, 20>>) \o
    <<SourcesCancelled({0, 1}, <<0, 1>>), SourcesDrained(10, <<>>), SourcesDrained(20, <<>>)>>

CancelSourcesOfMixedQueues ==
    ReadySources(<<10, 20>>) \o
    <<SourceAddedAt(0, {15}), SourceAddedAt(0, {25}), SourcesCancelled({1, 2}, <<1, 2>>),
      SourcesFlushed, SourcesDrained(10, <<0>>), SourcesDrained(25, <<3>>)>>

CancelSourceById ==
    ReadySources(<<10, 20, 30>>) \o
    <<SourcesCancelled({1}, <<1>>), SourcesDrained(10, <<0>>), SourcesDrained(30, <<2>>)>>

DeterministicOrdering == ReadySources(<<10, 10>>) \o <<SourcesDrained(10, <<0, 1>>)>>

CascadingRegistration ==
    ReadySources(<<10>>) \o
    <<SourcesDrained(10, <<0>>), SourceAddedAt(10, {0}), SourceAddedAt(10, {5}),
      SourcesDrained(10, <<>>), SourcesFlushed, SourcesDrained(10, <<1>>),
      SourcesDrained(15, <<2>>)>>

SourceHandlerScenarios ==
    <<NewHandler, AddSources, InitializeSources, AddSourceWithDelay, AddSourceWithoutDelay,
      AddSourceWithZeroDelay, AddSeveralSources, FlushPending, DrainReady,
      DrainReadyAfterDelayZero, DrainReadyInvariantViolation, GetBySourceId, ScheduleNext,
      PeekNextTimeOfSources, PeekSource, CancelPendingSource, CancelReadySource,
      CancelMultipleSources, CancelNoSources, CancelAllSources, CancelSourcesOfMixedQueues,
      CancelSourceById, DeterministicOrdering, CascadingRegistration>>

--------------------------------------------------------------------------------
(***************************************************************************)
(* The tests of the two phases (execution/phase/event.rs and source.rs).   *)
(* An event phase starts with the payloads A, B and C, a source phase with *)
(* the sources 1, 2 and 3; they are the numbers 1, 2 and 3 in both.        *)
(***************************************************************************)
PhaseOf(batch) == Step("new", batch, <<>>)
TookOne(entry) == Step("take_one", <<>>, entry)
TookOneIf(predicate, entry) == Step("take_one_if", predicate, entry)
TookFrontIf(predicate, entry) == Step("take_front_if", predicate, entry)
TookAll(entries) == Step("take_all", <<>>, entries)
TookAllIf(predicate, entries) == Step("take_all_if", predicate, entries)
Handled(entry, log) == Step("handle_event", entry, log)
Discarded(entry, log) == Step("discard", entry, log)
QueueIs(entries) == Step("ready_entries", <<>>, entries)

(* `setup_event_phase` and `setup_source_phase`. *)
SetupEventPhase == <<PhaseOf(<<1, 2, 3>>), QueueIs(<<1, 2, 3>>)>>
SetupSourcePhase == <<PhaseOf(<<1, 2, 3>>), QueueIs(<<1, 2, 3>>)>>

EventTakeOne == SetupEventPhase \o <<TookOne(<<1>>), QueueIs(<<2, 3>>)>>
EventTakeOneIf ==
    SetupEventPhase \o <<TookOneIf({1}, <<1>>), QueueIs(<<2, 3>>)>> \o
    SetupEventPhase \o <<TookOneIf({}, <<>>), QueueIs(<<1, 2, 3>>)>>
EventTakeFrontIf ==
    SetupEventPhase \o
    <<TookFrontIf({1}, <<1>>), QueueIs(<<2, 3>>), TookFrontIf({1}, <<>>), QueueIs(<<2, 3>>)>>
EventTakeAll == SetupEventPhase \o <<TookAll(<<1, 2, 3>>), QueueIs(<<>>)>>
EventTakeAllIf == <<PhaseOf(<<1, 2, 3, 1>>), TookAllIf({1}, <<1, 1>>), QueueIs(<<2, 3>>)>>
EventHandle == SetupEventPhase \o <<Handled(1, <<1>>)>>

(* The `discard_event` hook of the test is told the event, as DiscardHook records it. *)
EventDiscard == SetupEventPhase \o <<Discarded(1, <<1>>)>>

SourceTakeOne == SetupSourcePhase \o <<TookOne(<<1>>), QueueIs(<<2, 3>>)>>
SourceTakeFrontIf ==
    SetupSourcePhase \o
    <<TookFrontIf({1}, <<1>>), QueueIs(<<2, 3>>), TookFrontIf({3}, <<>>), QueueIs(<<2, 3>>)>>
SourceTakeAll == SetupSourcePhase \o <<TookAll(<<1, 2, 3>>), QueueIs(<<>>)>>
SourceTakeAllIf == <<PhaseOf(<<1, 2, 3, 1>>), TookAllIf({1}, <<1, 1>>), QueueIs(<<2, 3>>)>>
SourceDiscard == SetupSourcePhase \o <<TookOne(<<1>>), Discarded(1, <<1>>)>>

PhaseScenarios ==
    <<EventTakeOne, EventTakeOneIf, EventTakeFrontIf, EventTakeAll, EventTakeAllIf,
      EventHandle, EventDiscard, SourceTakeOne, SourceTakeFrontIf, SourceTakeAll,
      SourceTakeAllIf, SourceDiscard>>

--------------------------------------------------------------------------------
(***************************************************************************)
(* The tests of primitive/time/sim_time.rs and micro_step.rs.  MaxTime     *)
(* stands for TimeTick::MAX and MaxMicroStep for u64::MAX.  SimTime and    *)
(* Duration are the same number, and so are the tests of the two.          *)
(***************************************************************************)
Two(a, b) == [a |-> a, b |-> b]
AddIs(a, b, answer) == Step("add", Two(a, b), answer)
SubIs(a, b, answer) == Step("sub", Two(a, b), answer)
CheckedAddIs(a, b, answer) == Step("checked_add", Two(a, b), answer)
CheckedSubIs(a, b, answer) == Step("checked_sub", Two(a, b), answer)
SaturatingAddIs(a, b, answer) == Step("saturating_add", Two(a, b), answer)
SaturatingSubIs(a, b, answer) == Step("saturating_sub", Two(a, b), answer)
PreviousIs(current, skipped, answer) == Step("previous", TickStatus(current, skipped), answer)
NextIsStep(step, answer) == Step("MicroStep.next", step, answer)

(* `is_done_ticks`: asked for (include_zero_tick, tick_count). *)
Done(current, skipped, include, count) ==
    Step("is_done_ticks", [status |-> TickStatus(current, skipped), include |-> include,
                           count |-> count], <<1>>)
NotDone(current, skipped, include, count) ==
    [Done(current, skipped, include, count) EXCEPT !.answer = <<0>>]

SimTimeAddAndSub == <<AddIs(10, 5, <<15>>), SubIs(10, 5, <<5>>)>>
SimTimeChecked ==
    <<CheckedAddIs(10, 5, <<15>>), CheckedAddIs(MaxTime - 1, 1, <<MaxTime>>),
      CheckedAddIs(MaxTime - 1, 2, <<>>)>>
SimTimeSaturating ==
    <<SaturatingAddIs(10, 5, <<15>>), SaturatingAddIs(MaxTime - 1, 2, <<MaxTime>>)>>
SimTimeSubtractions ==
    <<CheckedSubIs(10, 5, <<5>>), CheckedSubIs(10, 15, <<>>), CheckedSubIs(0, 1, <<>>),
      SaturatingSubIs(10, 5, <<5>>), SaturatingSubIs(10, 15, <<0>>)>>
SimTimeSubDuration ==
    <<CheckedSubIs(10, 5, <<5>>), CheckedSubIs(10, 15, <<>>), SaturatingSubIs(10, 5, <<5>>),
      SaturatingSubIs(10, 15, <<0>>)>>
SimTimeZeroAndMax ==
    <<AddIs(100, 0, <<100>>), SubIs(100, 0, <<100>>), SubIs(MaxTime, 1, <<MaxTime - 1>>)>>

DurationAddAndSub == SimTimeAddAndSub
DurationChecked == SimTimeChecked \o SimTimeSaturating
DurationSubtractions ==
    <<CheckedSubIs(10, 5, <<5>>), CheckedSubIs(10, 15, <<>>), SaturatingSubIs(10, 5, <<5>>),
      SaturatingSubIs(10, 15, <<0>>)>>
DurationZeroAndMax == SimTimeZeroAndMax

TickStatusPrevious ==
    <<PreviousIs(0, 0, <<0>>), PreviousIs(5, 0, <<4>>), PreviousIs(5, 2, <<2>>)>>
IsDoneTicksNoSkip ==
    <<NotDone(0, 0, TRUE, 2), Done(2, 0, TRUE, 2), NotDone(0, 0, FALSE, 2),
      NotDone(2, 0, FALSE, 2), Done(3, 0, FALSE, 2)>>
IsDoneTicksWithSkip ==
    <<Done(5, 2, TRUE, 2), Done(5, 2, TRUE, 3), NotDone(5, 2, TRUE, 4), Done(5, 2, FALSE, 2),
      NotDone(5, 2, FALSE, 3)>>
PreviousOfLargeTick == <<PreviousIs(MaxTime, 100, <<MaxTime - 100 - 1>>)>>
IsDoneTicksEdgeCases ==
    <<Done(0, 0, TRUE, 0), Done(0, 0, FALSE, 0), Done(0, 0, TRUE, 1), NotDone(0, 0, FALSE, 1),
      NotDone(1, 0, FALSE, 1), Done(2, 0, FALSE, 1)>>
PreviousSkippedLimits == <<PreviousIs(5, 4, <<0>>), PreviousIs(5, 5, Panicked)>>

SaturatingBoundary ==
    <<SaturatingAddIs(MaxTime, 1, <<MaxTime>>), SaturatingAddIs(MaxTime, MaxTime, <<MaxTime>>),
      SaturatingSubIs(0, 5, <<0>>), SaturatingSubIs(3, 5, <<0>>)>>
SubUnderflow == <<CheckedSubIs(3, 5, <<>>), CheckedSubIs(0, 1, <<>>), SubIs(3, 5, Panicked)>>

MicroStepNext ==
    <<NextIsStep(0, <<1>>), NextIsStep(99, <<100>>), NextIsStep(MaxMicroStep, Panicked)>>

TimeScenarios ==
    <<SimTimeAddAndSub, SimTimeChecked, SimTimeSaturating, SimTimeSubtractions,
      SimTimeSubDuration, SimTimeZeroAndMax, DurationAddAndSub, DurationChecked,
      DurationSubtractions, DurationZeroAndMax, TickStatusPrevious, IsDoneTicksNoSkip,
      IsDoneTicksWithSkip, PreviousOfLargeTick, IsDoneTicksEdgeCases, PreviousSkippedLimits,
      SaturatingBoundary, SubUnderflow, MicroStepNext>>

--------------------------------------------------------------------------------
(***************************************************************************)
(* The tests of modeling/sampler.rs and of the samplers and combinators    *)
(* under it, with draws in tenths of a tick.  Where a test draws a thousand *)
(* times and looks at the shares, every number the generator may return is  *)
(* drawn once.                                                             *)
(***************************************************************************)
ToDuration(raw, answer) == Step("to_duration", raw, answer)
ToDurationClamped(raw, max, ticks) ==
    Step("to_duration_with_clamp", [raw |-> raw, max |-> max], <<ticks>>)
ToDurationOrElse(raw, otherwise, ticks) ==
    Step("to_duration_or_else", [raw |-> raw, otherwise |-> otherwise], <<ticks>>)
Added(a, b, sum) == Step("PendingDuration.add", [a |-> a, b |-> b], <<sum>>)
Subtracted(a, b, difference) == Step("PendingDuration.sub", [a |-> a, b |-> b], <<difference>>)
Rotating(list, index, answer) == Step("RotateSampler.new", [list |-> list, index |-> index], answer)
Rotated(list, value) == Step("RotateSampler.sample", list, <<value>>)
NextIndexIs(index) == Step("peek_next_index", <<>>, <<index>>)
Choosing(weights, answer) == Step("ChoiceSampler.new", weights, answer)
Chosen(weights, r, value) ==
    Step("ChoiceSampler.sample", [weights |-> weights, values |-> <<100, 200, 300>>, r |-> r],
         <<value>>)
InMode(values, active_index, value) ==
    Step("ModeSampler.sample", [values |-> values, index |-> active_index], <<value>>)
Delayed(sampled, delay, value) ==
    Step("DelaySampler.sample", [sampled |-> sampled, delay |-> delay], <<value>>)
Jittered(sampled, jitter, value) ==
    Step("JitterSampler.sample", [sampled |-> sampled, jitter |-> jitter], <<value>>)
ClampedTo(sampled, min, max, value) ==
    Step("ClampSampler.sample", [sampled |-> sampled, min |-> min, max |-> max], <<value>>)
Ensured(draws, limit, fallback, value, calls) ==
    Step("EnsureNonNegativeSampler.sample",
         [draws |-> draws, limit |-> limit, fallback |-> fallback], <<value, calls>>)

PendingToDuration ==
    <<ToDuration(105, <<11>>), ToDuration(104, <<10>>), ToDuration(-50, Panicked)>>
PendingWithClamp ==
    <<ToDurationClamped(105, 100, 11), ToDurationClamped(1500, 100, 100),
      ToDurationClamped(-50, 100, 0)>>
PendingOrElse == <<ToDurationOrElse(55, 0, 6), ToDurationOrElse(-55, 10, 10)>>
PendingArithmetic ==
    <<Added(100, 50, 150), Added(100, 75, 175), Subtracted(100, 30, 70),
      Subtracted(100, 25, 75)>>

Rotate ==
    LET list == <<10, 20, 30>>
    IN  <<Rotating(list, 0, <<>>), NextIndexIs(0), Rotated(list, 10), NextIndexIs(1),
          Rotated(list, 20), NextIndexIs(2), Rotated(list, 30), NextIndexIs(0),
          Rotated(list, 10), NextIndexIs(1)>>
RotateFromIndex ==
    LET list == <<10, 20, 30>>
    IN  <<Rotating(list, 1, <<>>), NextIndexIs(1), Rotated(list, 20), NextIndexIs(2)>>
RotateEmptyList == <<Rotating(<<>>, 0, Panicked)>>
RotateInvalidIndex == <<Rotating(<<10>>, 1, Panicked)>>

ChoiceWeighted ==
    LET w == <<1, 2, 1>>
    IN  <<Choosing(w, <<>>), Chosen(w, 0, 100), Chosen(w, 1, 200), Chosen(w, 2, 200),
          Chosen(w, 3, 300)>>
ChoiceUniform ==
    LET w == <<1, 1, 1>>
    IN  <<Choosing(w, <<>>), Chosen(w, 0, 100), Chosen(w, 1, 200), Chosen(w, 2, 300)>>
ChoiceEmpty == <<Choosing(<<>>, Panicked)>>
ChoiceWithoutWeight == <<Choosing(<<0>>, Panicked)>>

(* The same four of EmpiricalSampler, whose values are durations. *)
EmpiricalWeighted == ChoiceWeighted
EmpiricalUniform == ChoiceUniform
EmpiricalEmpty == ChoiceEmpty
EmpiricalWithoutWeight == ChoiceWithoutWeight

ModeValidIndex == <<InMode(<<100, 200, 300>>, 1, 200)>>
ModeOutOfBounds == <<InMode(<<100, 200>>, 5, 100)>>
DelayAdds == <<Delayed(100, 50, 150), Delayed(100, 0, 100), Delayed(100, -50, 100)>>
JitterAdds == <<Jittered(100, 50, 150), Jittered(100, 0, 100), Jittered(100, -50, 50)>>
ClampBounds ==
    <<ClampedTo(500, 100, 1000, 500), ClampedTo(50, 100, 1000, 100),
      ClampedTo(1500, 100, 1000, 1000)>>
EnsurePositive == <<Ensured(<<100, 100, 100>>, 3, 0, 100, 1)>>
EnsureFallsBack == <<Ensured(<<-10>>, 1, 5, 50, 1)>>
EnsureTriesAgain == <<Ensured(<<-10, -10, 100, 100, 100>>, 5, 0, 100, 3)>>

CombinatorDelay == <<Delayed(100, 50, 150)>>
CombinatorJitter == <<Jittered(100, 20, 120)>>
CombinatorClamp == <<ClampedTo(100, 50, 80, 80), ClampedTo(30, 50, 80, 50), ClampedTo(60, 50, 80, 60)>>
CombinatorEnsure ==
    <<Ensured(<<-50, -50, -50>>, 3, 10, 100, 3), Ensured(<<50, 50, 50>>, 3, 10, 50, 1)>>

SamplerScenarios ==
    <<PendingToDuration, PendingWithClamp, PendingOrElse, PendingArithmetic, Rotate,
      RotateFromIndex, RotateEmptyList, RotateInvalidIndex, ChoiceWeighted, ChoiceUniform,
      ChoiceEmpty, ChoiceWithoutWeight, EmpiricalWeighted, EmpiricalUniform, EmpiricalEmpty,
      EmpiricalWithoutWeight, ModeValidIndex, ModeOutOfBounds, DelayAdds, JitterAdds,
      ClampBounds, EnsurePositive, EnsureFallsBack, EnsureTriesAgain, CombinatorDelay,
      CombinatorJitter, CombinatorClamp, CombinatorEnsure>>

--------------------------------------------------------------------------------
(***************************************************************************)
(* The tests of HookDelegate (modeling/hook/instance/delegate.rs): three    *)
(* MockHooks, each of which records its number in every method.            *)
(***************************************************************************)
MockHooks(method, call_order) == <<Step("HookDelegate", method, call_order)>>
DelegateOrder(method) == MockHooks(method, <<1, 2, 3>>)
ReverseOrder(method) == MockHooks(method, <<3, 2, 1>>)

SimulationHookOrder ==
    DelegateOrder("before_simulation") \o ReverseOrder("after_simulation")
TickHookOrder == DelegateOrder("before_tick") \o ReverseOrder("after_tick")
MicroStepHookOrder ==
    DelegateOrder("before_micro_step") \o ReverseOrder("after_micro_step") \o
    ReverseOrder("on_discard_remain_micro_step")
RegisterHookOrder ==
    DelegateOrder("before_register_source") \o ReverseOrder("after_register_source")
SourceHookOrder ==
    DelegateOrder("before_source_phase") \o DelegateOrder("before_source") \o
    ReverseOrder("after_source") \o DelegateOrder("cancel_source") \o
    DelegateOrder("discard_source") \o ReverseOrder("after_source_phase")
EventHookOrder ==
    DelegateOrder("before_event_phase") \o DelegateOrder("before_event") \o
    ReverseOrder("after_event") \o DelegateOrder("cancel_event") \o
    DelegateOrder("discard_event") \o ReverseOrder("after_event_phase")

DelegateScenarios ==
    <<SimulationHookOrder, TickHookOrder, MicroStepHookOrder, RegisterHookOrder,
      SourceHookOrder, EventHookOrder>>
================================================================================
