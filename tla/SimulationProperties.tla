------------------------- MODULE SimulationProperties -------------------------
(***************************************************************************)
(* What a run of the StandardRunner promises.                              *)
(***************************************************************************)
EXTENDS Simulation

AllEvents == event_ready \cup event_pending \cup event_batch
AllSources == source_ready \cup source_pending \cup source_batch \cup firing_source
InMicroStep == phase \in {"micro_step", "source_phase", "firing", "event_phase", "handling",
                          "adding", "continue"}

(* Every variable has the type of the Rust field it stands for. *)
TypeOK ==
    /\ SchedulerTypeOK
    /\ SourceTypeOK
    /\ phase \in Phases
    /\ tick_status \in TickStatuses
    /\ current_tick \in Time
    /\ micro_step \in MicroSteps
    /\ reg_slot \in Nat
    /\ source_batch \in SUBSET ScheduledSources
    /\ event_batch \in SUBSET ScheduledEvents
    /\ firing_source \in SUBSET ScheduledSources
    /\ runner \in Runners
    /\ error_count \in Nat
    /\ runner_error \in BOOLEAN
    /\ panic \in Panics
    /\ handled \in SUBSET Nat
    /\ dropped \in SUBSET Nat
    /\ tick_first_id \in Nat
    /\ step_first_id \in Nat

(***************************************************************************)
(* Time.                                                                   *)
(***************************************************************************)

(* Nothing scheduled is ever left behind by the clock: jumping or not, with *)
(* or without discards, a queued entry is due now or later.                 *)
NothingIsOverdue ==
    \A x \in event_ready \cup event_pending \cup source_ready \cup source_pending :
        x.scheduled_at >= now

(* The assertions of the two `drain_ready` never fail, and the subtractions *)
(* of `end_tick_with_jump_to_next_tick` never go below zero: the only       *)
(* panics are the user's, who asked for a time or a micro-step beyond the   *)
(* range of the counter.                                                    *)
OnlyOverflowPanics == panic \in {"none", "time overflow", "micro-step overflow"}

(* A jump lands on a tick with work to do and skips only ticks without any; *)
(* with nothing scheduled it moves by one.  Either way `previous` of the    *)
(* status handed to `should_stop` is the tick that was last processed.      *)
JumpIsExact ==
    phase = "peek" /\ now > 0 =>
        /\ Previous(tick_status) = current_tick
        /\ \/ \E x \in event_ready \cup source_ready : x.scheduled_at = now
           \/ tick_status.skipped = 0 /\ (Skippable => event_ready \cup source_ready = {})

(***************************************************************************)
(* Events.                                                                 *)
(***************************************************************************)

(* Every event ever scheduled is in exactly one place: in one of the heaps, *)
(* in the batch of the phase, or done with.  No event is lost, none is      *)
(* handled twice, and none that was cancelled or discarded comes back.      *)
EventsAreConserved ==
    /\ IdsOf(AllEvents) \cup handled \cup dropped = 0 .. next_event_id - 1
    /\ IdsOf(AllEvents) \cap (handled \cup dropped) = {}
    /\ handled \cap dropped = {}
    /\ \A e, f \in AllEvents : e.event_id = f.event_id => e = f
    /\ event_ready \cap event_pending = {}
    /\ event_batch \cap (event_ready \cup event_pending) = {}

Handled(event) == phase = "event_phase" /\ phase' = "handling" /\ event \notin event_batch'

(* An event is handled at the tick it was scheduled for, and never overtakes *)
(* an event of that tick that is older and of no lower priority, wherever    *)
(* the older one is queued.                                                  *)
NoOvertaking ==
    [][\A e \in event_batch : Handled(e) =>
          /\ e.scheduled_at = now
          /\ \A f \in AllEvents : f.scheduled_at = now /\ f.event_id < e.event_id
                                     => f.priority < e.priority]_vars

(* The events of a run are those of an EventList: the two heaps and the     *)
(* batch are its agenda, micro-steps and phases are invisible, and every     *)
(* step of the runner is one step of the list or none.                       *)
List == INSTANCE EventList WITH
            Times <- Time, Ranks <- Priorities, OrderedRanks <- Priorities,
            clock <- now, agenda <- AllEvents, issued <- next_event_id,
            executed <- handled, discarded <- dropped
ImplementsEventList == List!ListSpec

(* What is scheduled during a micro-step, by its sources or by its events,  *)
(* waits for a later one, even with delay zero.                             *)
ZeroDelayIsDeferred == \A e \in event_batch : e.event_id < step_first_id

(* The events scheduled for a tick before it began are all taken up in its  *)
(* first micro-step; the later ones only see zero-delay work.               *)
AdvanceEventsGoFirst ==
    InMicroStep /\ micro_step > 0 =>
        \A e \in AllEvents : e.event_id < tick_first_id => e.scheduled_at > now

(* `should_stop` is told the truth: between ticks, NoMoreEvent means that   *)
(* no event is scheduled anywhere, pending ones included.                   *)
StatusIsAccurate == phase = "peek" => (NoMoreEvent <=> AllEvents = {})

(***************************************************************************)
(* Sources.                                                                *)
(***************************************************************************)

(* A source id is scheduled at most once at any time, across both heaps, the *)
(* batch and the source that is firing, and it always names a registered     *)
(* source, so indexing the registry with it cannot panic.                    *)
SourceScheduledOnce ==
    /\ \A s, t \in AllSources : s.source_id = t.source_id => s = t
    /\ source_ready \cap source_pending = {}
    /\ (source_batch \cup firing_source) \cap (source_ready \cup source_pending) = {}
    /\ source_batch \cap firing_source = {}
    /\ \A s \in AllSources : s.source_id < next_source_id
    /\ next_source_id <= source_registry

(* The doc of `initialize_sources`: when the initializer of a source returns *)
(* a duration, that source is scheduled for its initial firing.              *)
FiresTheSourceThatAsked == \A s \in firing_source : s.source_id = s.asked_by

(* The doc of `SourceHandler::drain_ready` and the comment of               *)
(* `begin_simulation`: a drain at the start of a tick finds every source     *)
(* that should fire in it.                                                   *)
DueSourcesAreReady ==
    phase = "micro_step" /\ micro_step = 0 =>
        \A s \in source_pending : s.scheduled_at # now

(***************************************************************************)
(* Strategies and stop rules.                                              *)
(***************************************************************************)

(* A limiting strategy lets a tick have Limit + 1 micro-steps with work, and *)
(* one more that finds nothing to do: it is asked when a micro-step ended,   *)
(* and compares that one's number, counted from zero, with `<`.  The docs    *)
(* promise one less; see MicroStepsArePermitted.                             *)
MicroStepsAreBounded ==
    Strategy # "always" =>
        /\ micro_step <= Limit + 1
        /\ micro_step = Limit + 1 =>
              /\ source_batch = {} /\ event_batch = {}
              /\ phase \notin {"firing", "handling", "adding"}

(* The doc of `LimitAbortStrategy::new`: its limit is the "Maximum           *)
(* micro-steps permitted per tick", and what exceeds it is discarded.  So    *)
(* the micro-steps that fire or handle anything are those numbered below it. *)
(* The code runs one more.                                                   *)
MicroStepsArePermitted ==
    Strategy = "limit_abort" /\ phase \in {"firing", "handling"} => micro_step < Limit

(* LimitAbortStrategy forgives AllowErrors ticks over the whole run; the     *)
(* next one is an error, after which no tick and no micro-step begins.       *)
AbortIsFinal ==
    /\ runner_error <=> Strategy = "limit_abort" /\ error_count = AllowErrors + 1
    /\ error_count <= AllowErrors + 1
    /\ runner_error => phase \in {"end_tick", "stopped", "panicked"}

(* `run_do_ticks` does not return before every tick it counts was processed: *)
(* ticks 0 .. n - 1 when tick zero counts, 0 .. n when it does not.          *)
CountedTicksAreDone ==
    phase = "stopped" /\ ~runner_error /\ StopRule = "do_ticks" =>
        \A x \in AllEvents \cup AllSources :
            x.scheduled_at >= (IF IncludeZeroTick THEN TickCount ELSE TickCount + 1)

(* `run_do_ticks` without skipping ends with the last counted tick. *)
NoExtraTick ==
    phase = "stopped" /\ ~runner_error /\ StopRule = "do_ticks" /\ ~Skippable =>
        current_tick = (IF IncludeZeroTick THEN TickCount - 1 ELSE TickCount)

(* `run_until_idle` leaves no event behind. *)
IdleLeavesNoEvent ==
    phase = "stopped" /\ ~runner_error /\ StopRule = "idle" => AllEvents = {}

(***************************************************************************)
(* Liveness.                                                               *)
(***************************************************************************)

(* With a limiting strategy every tick ends, however much zero-delay work    *)
(* the user code creates.                                                    *)
TicksEnd ==
    phase = "micro_step" /\ Strategy # "always" ~>
        phase \in {"peek", "stopped"} \/ panic = "time overflow"

(* `run_do_ticks` returns.                                                  *)
RunReturns ==
    phase = "peek" /\ Strategy # "always" /\ StopRule = "do_ticks" ~>
        phase = "stopped" \/ panic = "time overflow"
==============================================================================
