------------------------------ MODULE Ticks_proofs ------------------------------
(***************************************************************************)
(* Proofs about the ticks and micro-steps of a run: where the clock jumps, *)
(* when a run stops, and what the sources and the strategies do meanwhile. *)
(***************************************************************************)
EXTENDS Simulation_proofs, WellFoundedInduction

USE DEF vars, schedulerVars, sourceVars, executorVars, batchVars, runnerVars, historyVars

(***************************************************************************)
(* A heap that is not empty has a head.                                    *)
(***************************************************************************)

(* A non-empty set of naturals has a least element. *)
LEMMA LeastNat ==
    ASSUME NEW T \in SUBSET Nat, T # {}
    PROVE  \E x \in T : \A y \in T : x <= y
<1> DEFINE R == OpToRel(<, Nat)
<1>1. IsWellFoundedOn(R, Nat)
    BY NatLessThanWellFounded, PTL
<1>2. \A x, y \in Nat : x < y => <<x, y>> \in R
    BY DEF OpToRel
<1> HIDE DEF R
<1>3. \E x \in T : \A y \in T : ~(<<y, x>> \in R)
    BY <1>1, WFMin
<1>4. PICK x \in T : \A y \in T : ~(<<y, x>> \in R)
    BY <1>3
<1>5. \A y \in T : ~(y < x)
    BY <1>2, <1>4
<1>6. \A y \in T : y \in Nat /\ x \in Nat
    OBVIOUS
<1>7. \A y \in T : x <= y
    BY <1>5, <1>6
<1>8. QED
    BY <1>7

(* `peek_next_time` returns None only when the heap is empty. *)
LEMMA HasHead ==
    ASSUME NEW queue, \A x \in queue : x.scheduled_at \in Nat
    PROVE  PeekNextTime(queue) = {} <=> queue = {}
<1> DEFINE times == {x.scheduled_at : x \in queue}
<1>1. CASE queue = {}
    BY <1>1 DEF PeekNextTime
<1>2. CASE queue # {}
    <2>1. times \in SUBSET Nat /\ times # {}
        BY <1>2
    <2>2. PICK t \in times : \A u \in times : t <= u
        BY <2>1, LeastNat
    <2>3. PICK x \in queue : t = x.scheduled_at
        OBVIOUS
    <2>4. \A z \in queue : x.scheduled_at <= z.scheduled_at
        BY <2>2, <2>3
    <2>5. x.scheduled_at \in PeekNextTime(queue)
        BY <2>4 DEF PeekNextTime
    <2>6. QED
        BY <1>2, <2>5
<1>3. QED
    BY <1>1, <1>2

(***************************************************************************)
(* Which steps lead where.                                                 *)
(***************************************************************************)
EndTick == EndTickWithIncrementTick \/ EndTickWithJumpToNextTick
Ticking == InMicroStep \/ phase = "end_tick"

(* The runner and its strategy are chosen once; only a discard counts errors. *)
LEMMA RunnerIsFixed ==
    ASSUME [Next]_vars
    PROVE  /\ UNCHANGED runner
           /\ UNCHANGED <<error_count, runner_error>> \/ DiscardAtLimit
<1>1. CASE UNCHANGED vars
    BY <1>1
<1>2. CASE Configure
    BY <1>2 DEF Configure, ScheduleEventAt, AddEngineSource
<1>3. CASE UserOperation
    BY <1>3 DEF UserOperation, ContextScheduleEvent, ContextAddSource, CancelScheduledEvents,
                CancelScheduledSources, Panic
<1>4. CASE UserReturn
    BY <1>4 DEF UserReturn, RegisterSource, FinishAddSource, FinishFire, FinishHandleEvent,
                Panic
<1>5. CASE DiscardAtLimit
    <2>1. UNCHANGED runner
        BY <1>5, Zenon DEF DiscardAtLimit, Panic
    <2>2. QED
        BY <1>5, <2>1
<1>6. CASE RunnerStep /\ ~DiscardAtLimit
    BY <1>6 DEF RunnerStep, BeginSimulation, FinishRegistration, StopRun, BeginTick,
                StartSourcePhase, FireSource, StartEventPhase, HandleEvent, EndMicroStep,
                ContinueMicroSteps, EndTickWithIncrementTick, EndTickWithJumpToNextTick,
                EndTickWith, JumpTo, Panic
<1>7. QED
    BY <1>1, <1>2, <1>3, <1>4, <1>5, <1>6 DEF Next

(* Between two ticks `run` is at the end of `begin_simulation` or of a tick. *)
LEMMA WaysToPeek ==
    ASSUME [Next]_vars, phase' = "peek"
    PROVE  UNCHANGED vars \/ FinishRegistration \/ EndTick
<1>1. CASE Configure
    BY <1>1 DEF Configure, ScheduleEventAt, AddEngineSource
<1>2. CASE UserOperation
    BY <1>2 DEF UserOperation, ContextScheduleEvent, ContextAddSource, CancelScheduledEvents,
                CancelScheduledSources, Panic, InCallback
<1>3. CASE UserReturn
    BY <1>3 DEF UserReturn, RegisterSource, FinishAddSource, FinishFire, FinishHandleEvent,
                Panic
<1>4. CASE DiscardAtLimit
    BY <1>4, Zenon DEF DiscardAtLimit, Panic
<1>5. CASE RunnerStep /\ ~DiscardAtLimit
    BY <1>5 DEF RunnerStep, BeginSimulation, StopRun, BeginTick,
                StartSourcePhase, FireSource, StartEventPhase, HandleEvent, EndMicroStep,
                ContinueMicroSteps, EndTick, Panic
<1>6. QED
    BY <1>1, <1>2, <1>3, <1>4, <1>5 DEF Next

(* `run` returns because should_stop said so, or with the error of a strategy. *)
LEMMA WaysToStop ==
    ASSUME [Next]_vars, phase' = "stopped"
    PROVE  UNCHANGED vars \/ StopRun \/ runner_error'
<1>1. CASE Configure
    BY <1>1 DEF Configure, ScheduleEventAt, AddEngineSource
<1>2. CASE UserOperation
    BY <1>2 DEF UserOperation, ContextScheduleEvent, ContextAddSource, CancelScheduledEvents,
                CancelScheduledSources, Panic, InCallback
<1>3. CASE UserReturn
    BY <1>3 DEF UserReturn, RegisterSource, FinishAddSource, FinishFire, FinishHandleEvent,
                Panic
<1>4. CASE DiscardAtLimit
    BY <1>4, Zenon DEF DiscardAtLimit, Panic
<1>5. CASE RunnerStep /\ ~DiscardAtLimit
    BY <1>5 DEF RunnerStep, BeginSimulation, FinishRegistration, BeginTick,
                StartSourcePhase, FireSource, StartEventPhase, HandleEvent, EndMicroStep,
                ContinueMicroSteps, EndTickWithIncrementTick, EndTickWithJumpToNextTick,
                EndTickWith, JumpTo, Panic
<1>6. QED
    BY <1>1, <1>2, <1>3, <1>4, <1>5 DEF Next

(* Within a tick the clock stands still. *)
LEMMA WaysToTick ==
    ASSUME [Next]_vars, Ticking'
    PROVE  /\ BeginTick \/ Ticking
           /\ UNCHANGED tick_status
<1>1. CASE UNCHANGED vars
    BY <1>1 DEF Ticking, InMicroStep
<1>2. CASE Configure
    BY <1>2 DEF Configure, ScheduleEventAt, AddEngineSource, Ticking, InMicroStep
<1>3. CASE UserOperation
    BY <1>3 DEF UserOperation, ContextScheduleEvent, ContextAddSource, CancelScheduledEvents,
                CancelScheduledSources, Panic, InCallback, Ticking, InMicroStep
<1>4. CASE UserReturn
    BY <1>4 DEF UserReturn, RegisterSource, FinishAddSource, FinishFire, FinishHandleEvent,
                Panic, Ticking, InMicroStep
<1>5. CASE DiscardAtLimit
    <2>1. UNCHANGED tick_status /\ phase = "continue"
        BY <1>5, Zenon DEF DiscardAtLimit, Panic
    <2>2. QED
        BY <2>1 DEF Ticking, InMicroStep
<1>6. CASE RunnerStep /\ ~DiscardAtLimit
    BY <1>6 DEF RunnerStep, BeginSimulation, FinishRegistration, StopRun, BeginTick,
                StartSourcePhase, FireSource, StartEventPhase, HandleEvent, EndMicroStep,
                ContinueMicroSteps, EndTickWithIncrementTick, EndTickWithJumpToNextTick,
                EndTickWith, JumpTo, Panic, Ticking, InMicroStep
<1>7. QED
    BY <1>1, <1>2, <1>3, <1>4, <1>5, <1>6 DEF Next

(***************************************************************************)
(* What `should_stop` is told between two ticks.                           *)
(***************************************************************************)

(* The queues at peek: events are flushed, the phases are over. *)
LEMMA PeekQueues ==
    ASSUME TypeOK, Conserved, Ordered, phase = "peek" \/ phase = "stopped"
    PROVE  /\ event_pending = {} /\ event_batch = {}
           /\ AllEvents = event_ready
BY DEF Ordered, Quiet, Conserved, BatchIsUsedUp, InEventPhase, AllEvents

(* NoMoreEvent tells whether an event is queued anywhere. *)
LEMMA AccurateStatus ==
    ASSUME TypeOK, Conserved, Ordered
    PROVE  StatusIsAccurate
<1>1. \A e \in event_ready : e.scheduled_at \in Nat
    BY QueuedTimes DEF Time
<1>2. NoMoreEvent <=> event_ready = {}
    BY <1>1, HasHead DEF NoMoreEvent
<1>3. QED
    BY <1>2, PeekQueues DEF StatusIsAccurate

(* The status `should_stop` gets is never wrong: no more events means that no *)
(* event is queued, pending or in a batch.                                   *)
THEOREM StatusIsAlwaysAccurate == Spec => []StatusIsAccurate
BY AccurateStatus, TypeCorrect, AlwaysConserved, AlwaysOrdered, PTL

(* The subtractions of a jump never underflow: a tick with nothing to do ends *)
(* with either one tick more or a jump to a tick that is later.               *)
LEMMA WaysToEndTick ==
    ASSUME TypeOK, Timely, EndTick
    PROVE  \/ Panic("time overflow")
           \/ /\ EndTickWith(TickStatus(now + 1, 0))
              /\ now + 1 \in Time
              /\ Skippable => event_ready \cup source_ready = {}
           \/ /\ Skippable
              /\ \E x \in event_ready \cup source_ready :
                    /\ x.scheduled_at \in Time /\ x.scheduled_at > now
                    /\ EndTickWith(TickStatus(x.scheduled_at, x.scheduled_at - now - 1))
<1>1. phase = "end_tick"
    BY DEF EndTick, EndTickWithIncrementTick, EndTickWithJumpToNextTick
<1>2. \A x \in source_ready \cup event_ready : x.scheduled_at \in Time /\ x.scheduled_at > now
    BY <1>1, QueuedTimes DEF Timely, TickIsDone
<1>3. now \in Time
    BY NowType
<1>4. ~AddOverflows(now, 1) => now + 1 \in Time
    BY <1>3, MaxTimeAssumption DEF AddOverflows, Time
<1>5. CASE EndTickWithIncrementTick
    BY <1>4, <1>5 DEF EndTickWithIncrementTick
<1>6. CASE EndTickWithJumpToNextTick
    <2> DEFINE heads == PeekNextTime(source_ready \cup event_ready)
    <2>1. CASE heads = {}
        <3>1. \A x \in source_ready \cup event_ready : x.scheduled_at \in Nat
            BY <1>2 DEF Time
        <3>2. source_ready \cup event_ready = {}
            BY <2>1, <3>1, HasHead
        <3>3. QED
            BY <1>4, <1>6, <2>1, <3>2 DEF EndTickWithJumpToNextTick
    <2>2. CASE heads # {}
        <3>1. PICK next \in heads :
                 IF SubOverflows(next, now) \/ SubOverflows(next - now, 1)
                 THEN Panic("time underflow")
                 ELSE JumpTo(next)
            BY <1>6, <2>2 DEF EndTickWithJumpToNextTick
        <3>2. PICK x \in source_ready \cup event_ready : x.scheduled_at = next
            BY HeadIsLeast
        <3>3. next \in Time /\ next > now
            BY <1>2, <3>2
        <3>4. ~SubOverflows(next, now) /\ ~SubOverflows(next - now, 1)
            BY <1>3, <3>3 DEF SubOverflows, Time
        <3>5. EndTickWith(TickStatus(next, next - now - 1))
            BY <3>1, <3>4 DEF JumpTo
        <3>6. QED
            BY <1>6, <3>2, <3>3, <3>5 DEF EndTickWithJumpToNextTick
    <2>3. QED
        BY <2>1, <2>2
<1>7. QED
    BY <1>5, <1>6 DEF EndTick

(* A tick that ends hands over a status whose `previous` is that tick. *)
LEMMA JumpStep ==
    ASSUME TypeOK, Timely, JumpIsExact, [Next]_vars
    PROVE  JumpIsExact'
<1> SUFFICES ASSUME phase' = "peek", now' > 0
             PROVE  JumpIsExact'
    BY DEF JumpIsExact
<1>1. now \in Nat
    BY NowType DEF Time
<1>2. CASE UNCHANGED vars
    BY <1>2 DEF JumpIsExact, now, Skippable
<1>3. CASE FinishRegistration
    BY <1>3 DEF FinishRegistration, InitialTickStatus, TickStatus, now
<1>4. CASE EndTick
    <2>1. ~Panic("time overflow")
        BY DEF Panic
    <2>2. CASE /\ EndTickWith(TickStatus(now + 1, 0))
               /\ Skippable => event_ready \cup source_ready = {}
        <3>1. /\ tick_status'.current = now + 1 /\ tick_status'.skipped = 0
              /\ current_tick' = now
              /\ UNCHANGED <<event_ready, source_ready, runner>>
            BY <2>2 DEF EndTickWith, TickStatus
        <3>2. Previous(tick_status') = current_tick'
            BY <1>1, <3>1 DEF Previous
        <3>3. QED
            BY <2>2, <3>1, <3>2 DEF JumpIsExact, Skippable
    <2>3. ASSUME NEW x \in event_ready \cup source_ready,
                 x.scheduled_at \in Time, x.scheduled_at > now,
                 EndTickWith(TickStatus(x.scheduled_at, x.scheduled_at - now - 1))
          PROVE  JumpIsExact'
        <3>1. /\ tick_status'.current = x.scheduled_at
              /\ tick_status'.skipped = x.scheduled_at - now - 1
              /\ current_tick' = now
              /\ UNCHANGED <<event_ready, source_ready>>
            BY <2>3 DEF EndTickWith, TickStatus
        <3>2. Previous(tick_status') = current_tick'
            BY <1>1, <2>3, <3>1 DEF Previous, Time
        <3>3. QED
            BY <3>1, <3>2 DEF JumpIsExact, now
    <2>4. QED
        BY <1>4, <2>1, <2>2, <2>3, WaysToEndTick
<1>5. QED
    BY <1>2, <1>3, <1>4, WaysToPeek

(* Skipping lands on work and passes none over, and `previous` is always the *)
(* tick that was processed last.                                            *)
THEOREM JumpIsAlwaysExact == Spec => []JumpIsExact
<1>1. Init => JumpIsExact
    BY DEF Init, JumpIsExact
<1>2. TypeOK /\ Timely /\ JumpIsExact /\ [Next]_vars => JumpIsExact'
    BY JumpStep
<1>3. QED
    BY <1>1, <1>2, TypeCorrect, AlwaysTimely, PTL DEF Spec

(***************************************************************************)
(* Sources.  As for events, the operations only move entries between sets; *)
(* an id is drawn when an entry is first scheduled and goes round with it. *)
(***************************************************************************)
Once(ready, pending, batch, firing, count) ==
    LET all == ready \cup pending \cup batch \cup firing
    IN  /\ \A s, t \in all : s.source_id = t.source_id => s = t
        /\ ready \cap pending = {}
        /\ (batch \cup firing) \cap (ready \cup pending) = {}
        /\ batch \cap firing = {}
        /\ \A s \in all : s.source_id < count

(* SourceScheduledOnce is Once of the current sets, and its next value Once of *)
(* their next values.                                                         *)
LEMMA OnceNow ==
    /\ SourceScheduledOnce <=>
          /\ Once(source_ready, source_pending, source_batch, firing_source, next_source_id)
          /\ next_source_id <= source_registry
    /\ SourceScheduledOnce' <=>
          /\ Once(source_ready', source_pending', source_batch', firing_source', next_source_id')
          /\ next_source_id' <= source_registry'
BY DEF SourceScheduledOnce, Once, AllSources

(* `flush_pending` *)
LEMMA FlushOnce ==
    ASSUME NEW R, NEW P, NEW B, NEW F, NEW n, Once(R, P, B, F, n)
    PROVE  Once(R \cup P, {}, B, F, n)
BY DEF Once

(* A source that was never scheduled gets the next id. *)
LEMMA PushOnce ==
    ASSUME NEW R, NEW P, NEW B, NEW F, NEW n \in Nat, Once(R, P, B, F, n),
           \A s \in R \cup P \cup B \cup F : s.source_id \in Nat,
           NEW X, \A x, y \in X : x = y /\ x.source_id = n
    PROVE  Once(R, P \cup X, B, F, n + 1)
<1>1. \A s \in R \cup P \cup B \cup F : s.source_id < n /\ s.source_id < n + 1 /\ s \notin X
    BY DEF Once
<1>2. \A x \in X : x.source_id = n /\ n < n + 1
    OBVIOUS
<1>3. QED
    BY <1>1, <1>2 DEF Once

(* A source that fired keeps its id. *)
LEMMA AgainOnce ==
    ASSUME NEW R, NEW P, NEW B, NEW F, NEW n, Once(R, P, B, F, n),
           NEW s \in F,
           NEW X, \A x, y \in X : x = y /\ x.source_id = s.source_id
    PROVE  Once(R, P \cup X, B, {}, n)
<1>1. \A t \in R \cup P \cup B : t.source_id # s.source_id
    BY DEF Once
<1>2. \A x \in X : x.source_id = s.source_id /\ x.source_id < n
    BY DEF Once
<1>3. QED
    BY <1>1, <1>2 DEF Once

(* `drain_ready` at the start of a source phase *)
LEMMA DrainOnce ==
    ASSUME NEW R, NEW P, NEW F, NEW n, Once(R, P, {}, F, n), NEW X \in SUBSET R
    PROVE  Once(R \ X, P, X, F, n)
BY DEF Once

(* `drain_cancel_scheduled` and `discard_remain_micro_step` *)
LEMMA DropOnce ==
    ASSUME NEW R, NEW P, NEW B, NEW F, NEW n, Once(R, P, B, F, n), NEW X
    PROVE  Once(R \ X, P \ X, B, F, n) /\ Once(R \ X, P, B, F, n)
BY DEF Once

(* `take_one` *)
LEMMA FireOnce ==
    ASSUME NEW R, NEW P, NEW B, NEW n, Once(R, P, B, {}, n), NEW s \in B
    PROVE  Once(R, P, B \ {s}, {s}, n)
BY DEF Once

(* Before and between source phases nothing is in their hands; before the run *)
(* nothing is scheduled, and `initialize_sources` draws one id per round at   *)
(* most.                                                                      *)
SourcesIdle ==
    /\ phase \notin {"source_phase", "firing", "panicked"} => source_batch = {}
    /\ phase \notin {"firing", "panicked"} => firing_source = {}
SourcesNumbered ==
    /\ phase = "configure" => next_source_id = 0 /\ source_ready \cup source_pending = {}
    /\ phase = "registering" => next_source_id <= reg_slot /\ reg_slot <= source_registry

Sourced == SourceScheduledOnce /\ SourcesIdle /\ SourcesNumbered

(* Most steps move no source. *)
LEMMA StillSourced ==
    ASSUME Sourced,
           UNCHANGED <<sourceVars, reg_slot, source_batch, firing_source>>,
           \/ phase' \notin {"configure", "registering"} /\ source_batch = {} /\ firing_source = {}
           \/ phase' = phase
           \/ phase' = "panicked"
    PROVE  Sourced'
<1>1. SourceScheduledOnce'
    BY OnceNow DEF Sourced
<1>2. QED
    BY <1>1 DEF Sourced, SourcesIdle, SourcesNumbered

(* A panic moves no source. *)
LEMMA PanicSourced ==
    ASSUME Sourced, NEW reason, Panic(reason)
    PROVE  Sourced'
BY StillSourced DEF Panic

(* The ids of the scheduled sources are numbers. *)
LEMMA SourceIdType ==
    ASSUME TypeOK
    PROVE  /\ \A s \in source_ready \cup source_pending \cup source_batch \cup firing_source :
                 s.source_id \in Nat
           /\ next_source_id \in Nat /\ source_registry \in Nat /\ reg_slot \in Nat
BY DEF TypeOK, SourceTypeOK, ScheduledSources

(* An Option holds at most one delay, so one `on_registered` schedules at most *)
(* one entry.                                                                 *)
LEMMA PushInitialOnce ==
    ASSUME TypeOK, Sourced, NEW delay \in Options(Delays), NEW slot, NEW t,
           PushInitial(slot, t, delay),
           UNCHANGED <<source_ready, source_batch, firing_source>>
    PROVE  /\ Once(source_ready', source_pending', source_batch', firing_source', next_source_id')
           /\ next_source_id' \in {next_source_id, next_source_id + 1}
<1> DEFINE new == {[scheduled_at |-> t + d, source_id |-> next_source_id, asked_by |-> slot] :
                      d \in delay}
<1>1. Once(source_ready, source_pending, source_batch, firing_source, next_source_id)
    BY OnceNow DEF Sourced
<1>2. source_pending' = source_pending \cup new
    BY DEF PushInitial
<1>3. CASE delay = {}
    <2>1. new = {} /\ next_source_id' = next_source_id
        BY <1>3 DEF PushInitial
    <2>2. source_pending' = source_pending
        BY <1>2, <2>1
    <2>3. QED
        BY <1>1, <2>1, <2>2
<1>4. CASE delay # {}
    <2>1. next_source_id' = next_source_id + 1
        BY <1>4 DEF PushInitial
    <2>2. \A c, d \in delay : c = d
        BY DEF Options
    <2>3. \A x, y \in new : x = y /\ x.source_id = next_source_id
        BY <2>2
    <2> HIDE DEF new
    <2>4. Once(source_ready, source_pending \cup new, source_batch, firing_source,
               next_source_id + 1)
        BY <1>1, <2>3, PushOnce, SourceIdType
    <2>5. QED
        BY <1>2, <2>1, <2>4
<1>5. QED
    BY <1>3, <1>4

(* User code keeps sources in order. *)
LEMMA UserSourced ==
    ASSUME TypeOK, Sourced, Configure \/ UserOperation \/ UserReturn
    PROVE  Sourced'
<1>1. ASSUME NEW t, NEW p, ScheduleEventAt(t, p)
      PROVE  Sourced'
    BY <1>1, StillSourced DEF ScheduleEventAt
<1>2. CASE AddEngineSource
    <2>1. /\ source_registry' = source_registry + 1
          /\ UNCHANGED <<next_source_id, source_ready, source_pending, source_batch,
                         firing_source, phase>>
          /\ phase = "configure"
        BY <1>2 DEF AddEngineSource, AddSourceForBeforeSimulation
    <2>2. next_source_id' <= source_registry'
        BY <2>1, SourceIdType DEF Sourced, SourceScheduledOnce
    <2>3. SourceScheduledOnce'
        BY <2>1, <2>2, OnceNow DEF Sourced
    <2>4. QED
        BY <2>1, <2>3 DEF Sourced, SourcesIdle, SourcesNumbered
<1>3. ASSUME NEW d, NEW p, ContextScheduleEvent(d, p)
      PROVE  Sourced'
    BY <1>3, StillSourced, PanicSourced DEF ContextScheduleEvent
<1>4. CASE ContextAddSource
    BY <1>4, StillSourced DEF ContextAddSource, Sourced, SourcesIdle
<1>5. ASSUME NEW cancelled, CancelScheduledEvents(cancelled)
      PROVE  Sourced'
    BY <1>5, StillSourced DEF CancelScheduledEvents
<1>6. ASSUME NEW cancelled, CancelScheduledSources(cancelled)
      PROVE  Sourced'
    <2>1. /\ source_pending' = source_pending \ cancelled
          /\ source_ready' = source_ready \ cancelled
          /\ UNCHANGED <<source_registry, next_source_id, source_batch, firing_source, phase>>
          /\ phase = "handling"
        BY <1>6 DEF CancelScheduledSources, DrainCancelScheduledSources
    <2>2. SourceScheduledOnce'
        BY <2>1, DropOnce, OnceNow DEF Sourced
    <2>3. QED
        BY <2>1, <2>2 DEF Sourced, SourcesIdle, SourcesNumbered
<1>7. ASSUME NEW delay \in Options(Delays), RegisterSource(delay)
      PROVE  Sourced'
    <2>1. /\ phase = "registering" /\ reg_slot < source_registry
          /\ reg_slot' = reg_slot + 1
          /\ UNCHANGED <<source_registry, source_ready, source_batch, firing_source, phase>>
          /\ PushInitial(reg_slot, 0, delay)
        BY <1>7 DEF RegisterSource, InitializeSource
    <2>2. /\ Once(source_ready', source_pending', source_batch', firing_source', next_source_id')
          /\ next_source_id' \in {next_source_id, next_source_id + 1}
        BY <2>1, PushInitialOnce
    <2>3. next_source_id' <= reg_slot' /\ reg_slot' <= source_registry'
        BY <2>1, <2>2, SourceIdType DEF Sourced, SourcesNumbered
    <2>4. next_source_id' <= source_registry'
        BY <2>1, <2>2, <2>3, SourceIdType
    <2>5. QED
        BY <2>1, <2>2, <2>3, <2>4, OnceNow DEF Sourced, SourcesIdle, SourcesNumbered
<1>8. ASSUME NEW delay \in Options(Delays), FinishAddSource(delay)
      PROVE  Sourced'
    <2>1. CASE \E d \in delay : AddOverflows(now, d)
        BY <1>8, <2>1, PanicSourced DEF FinishAddSource
    <2>2. CASE ~ \E d \in delay : AddOverflows(now, d)
        <3>1. /\ phase = "adding" /\ phase' = "handling"
              /\ source_registry' = source_registry + 1
              /\ UNCHANGED <<source_ready, source_batch, firing_source>>
              /\ PushInitial(source_registry, now, delay)
            BY <1>8, <2>2 DEF FinishAddSource, AddSourceAfterRegisteredAction
        <3>2. /\ Once(source_ready', source_pending', source_batch', firing_source', next_source_id')
              /\ next_source_id' \in {next_source_id, next_source_id + 1}
            BY <3>1, PushInitialOnce
        <3>3. next_source_id' <= source_registry'
            BY <3>1, <3>2, SourceIdType DEF Sourced, SourceScheduledOnce
        <3>4. QED
            BY <3>1, <3>2, <3>3, OnceNow DEF Sourced, SourcesIdle, SourcesNumbered
    <2>3. QED
        BY <2>1, <2>2
<1>9. ASSUME NEW delay \in Options(Delays), FinishFire(delay)
      PROVE  Sourced'
    <2>1. CASE \E d \in delay : AddOverflows(now, d)
        BY <1>9, <2>1, PanicSourced DEF FinishFire
    <2>2. CASE ~ \E d \in delay : AddOverflows(now, d)
        <3>1. PICK s \in firing_source : ScheduleNextSource(now, delay, s.source_id)
            BY <1>9, <2>2 DEF FinishFire
        <3> DEFINE new == {[scheduled_at |-> now + d, source_id |-> s.source_id,
                            asked_by |-> s.source_id] : d \in delay}
        <3>2. /\ source_pending' = source_pending \cup new
              /\ firing_source' = {} /\ phase' = "source_phase"
              /\ UNCHANGED <<source_registry, next_source_id, source_ready, source_batch>>
            BY <1>9, <2>2, <3>1 DEF FinishFire, ScheduleNextSource
        <3>3. \A c, d \in delay : c = d
            BY DEF Options
        <3>4. \A x, y \in new : x = y /\ x.source_id = s.source_id
            BY <3>3
        <3> HIDE DEF new
        <3>5. Once(source_ready, source_pending \cup new, source_batch, {}, next_source_id)
            BY <3>4, AgainOnce, OnceNow DEF Sourced
        <3>6. SourceScheduledOnce'
            BY <3>2, <3>5, OnceNow DEF Sourced
        <3>7. QED
            BY <3>2, <3>6 DEF Sourced, SourcesIdle, SourcesNumbered
    <2>3. QED
        BY <2>1, <2>2
<1>10. CASE FinishHandleEvent
    BY <1>10, StillSourced DEF FinishHandleEvent, Sourced, SourcesIdle
<1>11. QED
    BY <1>1, <1>2, <1>3, <1>4, <1>5, <1>6, <1>7, <1>8, <1>9, <1>10
       DEF Configure, UserOperation, UserReturn

(* A flush puts the pending sources with the others. *)
LEMMA FlushSourced ==
    ASSUME Sourced, FlushPendingSources, UNCHANGED <<source_batch, firing_source>>,
           source_batch = {}, firing_source = {},
           phase' \notin {"configure", "registering"}
    PROVE  Sourced'
<1>1. SourceScheduledOnce'
    BY FlushOnce, OnceNow DEF Sourced, FlushPendingSources
<1>2. QED
    BY <1>1 DEF Sourced, SourcesIdle, SourcesNumbered

(* The runner keeps sources in order. *)
LEMMA RunnerSourced ==
    ASSUME TypeOK, Timely, Sourced, RunnerStep
    PROVE  Sourced'
<1>1. CASE BeginSimulation
    <2>1. /\ FlushPendingSources /\ UNCHANGED <<source_batch, firing_source>>
          /\ phase = "configure" /\ phase' = "registering" /\ reg_slot' = 0
        BY <1>1 DEF BeginSimulation
    <2>2. SourceScheduledOnce'
        BY <2>1, FlushOnce, OnceNow DEF Sourced, FlushPendingSources
    <2>3. next_source_id' = 0 /\ source_registry' \in Nat
        BY <2>1, SourceIdType DEF Sourced, SourcesNumbered, FlushPendingSources
    <2>4. QED
        BY <2>1, <2>2, <2>3 DEF Sourced, SourcesIdle, SourcesNumbered
<1>2. CASE FinishRegistration
    BY <1>2, StillSourced DEF FinishRegistration, Sourced, SourcesIdle
<1>3. CASE StopRun
    BY <1>3, StillSourced DEF StopRun, Sourced, SourcesIdle
<1>4. CASE BeginTick
    BY <1>4, StillSourced DEF BeginTick, Sourced, SourcesIdle
<1>5. CASE StartSourcePhase
    <2> DEFINE due == DueAt(source_ready, now)
    <2>1. /\ source_ready' = source_ready \ due /\ source_batch' = due
          /\ UNCHANGED <<source_registry, next_source_id, source_pending, firing_source>>
          /\ phase = "micro_step" /\ phase' = "source_phase"
        BY <1>5, NotOverdue DEF StartSourcePhase, DrainReadySources
    <2>2. due \in SUBSET source_ready
        BY DEF DueAt
    <2>3. source_batch = {} /\ firing_source = {}
        BY <2>1 DEF Sourced, SourcesIdle
    <2> HIDE DEF due
    <2>4. SourceScheduledOnce'
        BY <2>1, <2>2, <2>3, DrainOnce, OnceNow DEF Sourced
    <2>5. QED
        BY <2>1, <2>3, <2>4 DEF Sourced, SourcesIdle, SourcesNumbered
<1>6. ASSUME NEW s \in source_batch, FireSource(s)
      PROVE  Sourced'
    <2>1. /\ source_batch' = source_batch \ {s} /\ firing_source' = {s}
          /\ UNCHANGED <<source_registry, next_source_id, source_ready, source_pending>>
          /\ phase = "source_phase" /\ phase' = "firing"
        BY <1>6 DEF FireSource
    <2>2. firing_source = {}
        BY <2>1 DEF Sourced, SourcesIdle
    <2>3. SourceScheduledOnce'
        BY <2>1, <2>2, FireOnce, OnceNow DEF Sourced
    <2>4. QED
        BY <2>1, <2>3 DEF Sourced, SourcesIdle, SourcesNumbered
<1>7. CASE StartEventPhase
    BY <1>7, NotOverdue, StillSourced DEF StartEventPhase, Sourced, SourcesIdle
<1>8. ASSUME NEW e, HandleEvent(e)
      PROVE  Sourced'
    BY <1>8, StillSourced DEF HandleEvent, Sourced, SourcesIdle
<1>9. CASE EndMicroStep
    <2>1. CASE Panic("micro-step overflow")
        BY <2>1, PanicSourced
    <2>2. CASE ~Panic("micro-step overflow")
        <3>1. /\ FlushPendingSources /\ UNCHANGED <<source_batch, firing_source>>
              /\ phase = "event_phase" /\ phase' \in {"continue", "end_tick"}
            BY <1>9, <2>2 DEF EndMicroStep
        <3>2. source_batch = {} /\ firing_source = {}
            BY <3>1 DEF Sourced, SourcesIdle
        <3>3. QED
            BY <3>1, <3>2, FlushSourced
    <2>3. QED
        BY <2>1, <2>2
<1>10. CASE ContinueMicroSteps
    BY <1>10, StillSourced DEF ContinueMicroSteps, Sourced, SourcesIdle
<1>11. CASE DiscardAtLimit
    <2>1. /\ DrainReadySources(now) /\ UNCHANGED source_batch /\ UNCHANGED firing_source
          /\ phase = "continue" /\ phase' \in {"end_tick", "micro_step"}
        BY <1>11, NotOverdue, Zenon DEF DiscardAtLimit, DiscardRemainMicroStep
    <2>2. SourceScheduledOnce'
        BY <2>1, DropOnce, OnceNow DEF Sourced, DrainReadySources
    <2>3. QED
        BY <2>1, <2>2 DEF Sourced, SourcesIdle, SourcesNumbered
<1>12. ASSUME NEW status, EndTickWith(status), phase = "end_tick"
       PROVE  Sourced'
    BY <1>12, StillSourced DEF EndTickWith, Sourced, SourcesIdle
<1>13. CASE EndTickWithIncrementTick
    BY <1>12, <1>13, PanicSourced DEF EndTickWithIncrementTick
<1>14. CASE EndTickWithJumpToNextTick
    BY <1>12, <1>14, PanicSourced DEF EndTickWithJumpToNextTick, JumpTo
<1>15. QED
    BY <1>1, <1>2, <1>3, <1>4, <1>5, <1>6, <1>7, <1>8, <1>9, <1>10, <1>11, <1>13, <1>14
       DEF RunnerStep

(* A new engine has no sources. *)
LEMMA InitSourced == Init => Sourced
BY DEF Init, SourceInit, Sourced, SourceScheduledOnce, SourcesIdle, SourcesNumbered, AllSources

(* Sourced is an inductive invariant of a run. *)
THEOREM AlwaysSourced == Spec => []Sourced
<1>1. Init => Sourced
    BY InitSourced
<1>2. TypeOK /\ Timely /\ Sourced /\ [Next]_vars => Sourced'
    <2>1. CASE UNCHANGED vars
        BY <2>1, StillSourced
    <2>2. QED
        BY <2>1, UserSourced, RunnerSourced DEF Next
<1>3. QED
    BY <1>1, <1>2, TypeCorrect, AlwaysTimely, PTL DEF Spec

(* A source id is never scheduled twice, and always names a registered source: *)
(* looking it up in the registry cannot fail.                                  *)
THEOREM SourceIsAlwaysScheduledOnce == Spec => []SourceScheduledOnce
BY AlwaysSourced, PTL DEF Sourced

(***************************************************************************)
(* When a run stops.                                                       *)
(***************************************************************************)
DoesTicks == StopRule = "do_ticks"
ZeroTick == IF IncludeZeroTick THEN 1 ELSE 0

(* What no step changes once `run` returned. *)
StoppedWell == phase = "stopped" /\ ~runner_error

(* A step that ends in a good return is the return or does nothing. *)
LEMMA WaysToStopWell ==
    ASSUME [Next]_vars, StoppedWell'
    PROVE  UNCHANGED vars \/ StopRun
BY WaysToStop DEF StoppedWell

(* `run_until_idle` returns when NoMoreEvent, which is never wrong. *)
LEMMA IdleStep ==
    ASSUME TypeOK, Conserved, Ordered, IdleLeavesNoEvent, [Next]_vars
    PROVE  IdleLeavesNoEvent'
<1> SUFFICES ASSUME StoppedWell', StopRule' = "idle"
             PROVE  AllEvents' = {}
    BY DEF IdleLeavesNoEvent, StoppedWell
<1>1. CASE UNCHANGED vars
    BY <1>1 DEF IdleLeavesNoEvent, StoppedWell, StopRule, AllEvents
<1>2. CASE StopRun
    <2>1. StopRule = "idle"
        BY <1>2 DEF StopRun, StopRule
    <2>2. NoMoreEvent
        BY <1>2, <2>1 DEF StopRun, ShouldStop
    <2>3. AllEvents = {}
        BY <1>2, <2>2, AccurateStatus DEF StatusIsAccurate, StopRun
    <2>4. QED
        BY <1>2, <2>3 DEF StopRun, AllEvents
<1>3. QED
    BY <1>1, <1>2, WaysToStopWell

(* `run_until_idle` leaves no event behind. *)
THEOREM IdleAlwaysLeavesNoEvent == Spec => []IdleLeavesNoEvent
<1>1. Init => IdleLeavesNoEvent
    BY DEF Init, IdleLeavesNoEvent
<1>2. TypeOK /\ Conserved /\ Ordered /\ IdleLeavesNoEvent /\ [Next]_vars => IdleLeavesNoEvent'
    BY IdleStep
<1>3. QED
    BY <1>1, <1>2, TypeCorrect, AlwaysConserved, AlwaysOrdered, PTL DEF Spec

(* What `should_stop` of `run_do_ticks` has when it says yes. *)
LEMMA DoneTicks ==
    ASSUME TypeOK, DoesTicks
    PROVE  /\ TRUE \in ShouldStop <=> Previous(tick_status) + ZeroTick >= TickCount
           /\ FALSE \in ShouldStop <=> Previous(tick_status) + ZeroTick < TickCount
           /\ TickCount \in Nat /\ ZeroTick \in {0, 1}
           /\ Previous(tick_status) \in Int
           /\ now = 0 => Previous(tick_status) = 0
           /\ now > 0 => Previous(tick_status) < now
<1> DEFINE done == Previous(tick_status) + ZeroTick >= TickCount
<1>1. ShouldStop = {done}
    BY DEF DoesTicks, ShouldStop, IsDoneTicks, ZeroTick
<1>2. TickCount \in Nat
    BY RunnersAssumption DEF TypeOK, RunnerSettings, TickCount
<1>3. tick_status.current \in Nat /\ tick_status.skipped \in Nat
    BY DEF TypeOK, TickStatuses, Time
<1>4. /\ Previous(tick_status) \in Int
      /\ now = 0 => Previous(tick_status) = 0
      /\ now > 0 => Previous(tick_status) < now
    BY <1>3 DEF Previous, now
<1>5. ZeroTick \in {0, 1}
    BY DEF ZeroTick
<1>6. done \in BOOLEAN
    BY <1>2, <1>4, <1>5
<1> HIDE DEF done
<1>7. (TRUE \in ShouldStop <=> done) /\ (FALSE \in ShouldStop <=> ~done)
    BY <1>1, <1>6, Zenon
<1> USE DEF done
<1>8. ~done <=> Previous(tick_status) + ZeroTick < TickCount
    BY <1>2, <1>4, <1>5
<1>9. QED
    BY <1>2, <1>4, <1>5, <1>7, <1>8

(* `run_do_ticks` asked for one tick more than none stops before the first, *)
(* whose `previous` is the tick itself.                                      *)
OneTickIsNotAskedFor ==
    \A r \in Runners : r.stop_rule = "do_ticks" =>
        r.tick_count # (IF r.include_zero_tick THEN 1 ELSE 0)

(* Nothing is queued at a tick that was counted. *)
LEMMA CountedStep ==
    ASSUME OneTickIsNotAskedFor, TypeOK, Timely, Conserved, Ordered, Sourced,
           CountedTicksAreDone, [Next]_vars
    PROVE  CountedTicksAreDone'
<1> SUFFICES ASSUME StoppedWell', DoesTicks'
             PROVE  CountedTicksAreDone'
    BY DEF CountedTicksAreDone, StoppedWell, DoesTicks
<1>1. CASE UNCHANGED vars
    BY <1>1 DEF CountedTicksAreDone, StoppedWell, StopRule, IncludeZeroTick, TickCount,
                AllEvents, AllSources
<1>2. CASE StopRun
    <2>1. /\ phase = "peek" /\ TRUE \in ShouldStop /\ DoesTicks
          /\ UNCHANGED <<IncludeZeroTick, TickCount, AllEvents, AllSources>>
        BY <1>2 DEF StopRun, DoesTicks, StopRule, IncludeZeroTick, TickCount, AllEvents, AllSources
    <2>2. Previous(tick_status) + ZeroTick >= TickCount
        BY <2>1, DoneTicks
    <2>3. TickCount # ZeroTick
        BY <2>1 DEF OneTickIsNotAskedFor, TypeOK, DoesTicks, StopRule, ZeroTick, TickCount,
                    IncludeZeroTick
    <2>4. now \in Nat
        BY NowType DEF Time
    <2>5. now + ZeroTick >= TickCount + 1 \/ (TickCount = 0 /\ ZeroTick = 1)
        BY <2>1, <2>2, <2>3, <2>4, DoneTicks
    <2>6. \A x \in AllEvents \cup AllSources : x.scheduled_at \in Nat /\ x.scheduled_at >= now
        <3>1. AllEvents \cup AllSources \subseteq Queued
            BY <2>1, PeekQueues DEF Sourced, SourcesIdle, AllSources, Queued
        <3>2. QED
            BY <3>1, QueuedTimes DEF Timely, NothingIsOverdue, Queued, Time
    <2>7. \A x \in AllEvents \cup AllSources :
             x.scheduled_at >= (IF IncludeZeroTick THEN TickCount ELSE TickCount + 1)
        BY <2>1, <2>4, <2>5, <2>6, DoneTicks DEF ZeroTick
    <2>8. QED
        BY <2>1, <2>7 DEF CountedTicksAreDone
<1>3. QED
    BY <1>1, <1>2, WaysToStopWell

(* `run_do_ticks` never returns with an entry queued at a tick it counts, unless *)
(* it was asked for tick zero alone: `previous` of the first status is tick zero *)
(* itself, so that run stops before doing anything.                             *)
THEOREM CountedTicksAreAlwaysDone ==
    ASSUME OneTickIsNotAskedFor
    PROVE  Spec => []CountedTicksAreDone
<1>1. Init => CountedTicksAreDone
    BY DEF Init, CountedTicksAreDone
<1>2. TypeOK /\ Timely /\ Conserved /\ Ordered /\ Sourced /\ CountedTicksAreDone /\ [Next]_vars
         => CountedTicksAreDone'
    BY CountedStep
<1>3. QED
    BY <1>1, <1>2, TypeCorrect, AlwaysTimely, AlwaysConserved, AlwaysOrdered, AlwaysSourced, PTL
       DEF Spec

(* Tick zero can only count as a tick that is asked for. *)
SomeTickIsAskedFor ==
    \A r \in Runners : r.stop_rule = "do_ticks" /\ r.include_zero_tick => r.tick_count >= 1

(* Without skipping the clock advances by one, so the count of ticks does too: *)
(* it is below tick_count while a tick runs and at most tick_count after it.   *)
BelowCount ==
    Ticking => tick_status.skipped = 0 /\ Previous(tick_status) + ZeroTick < TickCount
AtMostCount ==
    phase = "peek" =>
        /\ tick_status.skipped = 0 /\ current_tick = Previous(tick_status)
        /\ Previous(tick_status) + ZeroTick <= TickCount
OneByOne == DoesTicks /\ ~Skippable => BelowCount /\ AtMostCount /\ NoExtraTick

(* A tick begins when should_stop said no, and leaves the clock alone. *)
LEMMA BelowCountStep ==
    ASSUME TypeOK, DoesTicks, ~Skippable, BelowCount, AtMostCount, [Next]_vars
    PROVE  BelowCount'
<1> SUFFICES ASSUME Ticking'
             PROVE  /\ tick_status'.skipped = 0
                    /\ Previous(tick_status') + ZeroTick' < TickCount'
    BY DEF BelowCount
<1>1. UNCHANGED <<tick_status, ZeroTick, TickCount>>
    BY RunnerIsFixed, WaysToTick DEF ZeroTick, IncludeZeroTick, TickCount
<1>2. tick_status.skipped = 0 /\ Previous(tick_status) + ZeroTick < TickCount
    <2>1. CASE BeginTick
        BY <2>1, DoneTicks DEF BeginTick, AtMostCount
    <2>2. CASE Ticking
        BY <2>2 DEF BelowCount
    <2>3. QED
        BY <2>1, <2>2, WaysToTick
<1>3. QED
    BY <1>1, <1>2

(* A tick that ends was one of those asked for. *)
LEMMA AtMostCountStep ==
    ASSUME SomeTickIsAskedFor, TypeOK, Timely, DoesTicks, ~Skippable, BelowCount, AtMostCount,
           [Next]_vars
    PROVE  AtMostCount'
<1> SUFFICES ASSUME phase' = "peek"
             PROVE  /\ tick_status'.skipped = 0 /\ current_tick' = Previous(tick_status')
                    /\ Previous(tick_status') + ZeroTick' <= TickCount'
    BY DEF AtMostCount
<1>1. UNCHANGED <<ZeroTick, TickCount>>
    BY RunnerIsFixed DEF ZeroTick, IncludeZeroTick, TickCount
<1>2. now \in Nat /\ now = tick_status.current
    BY NowType DEF Time, now
<1>3. CASE UNCHANGED vars
    BY <1>1, <1>3 DEF AtMostCount
<1>4. CASE FinishRegistration
    <2>1. tick_status'.current = 0 /\ tick_status'.skipped = 0 /\ current_tick' = 0
        BY <1>4 DEF FinishRegistration, InitialTickStatus, TickStatus
    <2>2. Previous(tick_status') = 0
        BY <2>1 DEF Previous
    <2>3. ZeroTick <= TickCount
        <3>1. runner \in Runners /\ TickCount \in Nat
            BY DoneTicks DEF TypeOK
        <3>2. IncludeZeroTick => TickCount >= 1
            BY <3>1 DEF SomeTickIsAskedFor, DoesTicks, StopRule, TickCount, IncludeZeroTick
        <3>3. QED
            BY <3>1, <3>2 DEF ZeroTick
    <2>4. QED
        BY <1>1, <2>1, <2>2, <2>3, DoneTicks
<1>5. CASE EndTick
    <2>1. EndTickWith(TickStatus(now + 1, 0)) /\ phase = "end_tick"
        BY <1>5, WaysToEndTick
           DEF Panic, EndTick, EndTickWithIncrementTick, EndTickWithJumpToNextTick
    <2>2. tick_status'.current = now + 1 /\ tick_status'.skipped = 0 /\ current_tick' = now
        BY <2>1 DEF EndTickWith, TickStatus
    <2>3. Previous(tick_status') = now
        BY <1>2, <2>2 DEF Previous
    <2>4. tick_status.skipped = 0 /\ Previous(tick_status) + ZeroTick < TickCount
        BY <2>1 DEF BelowCount, Ticking
    <2>5. Previous(tick_status) = IF now = 0 THEN 0 ELSE now - 1
        BY <1>2, <2>4 DEF Previous
    <2>6. now + ZeroTick <= TickCount
        <3>1. ZeroTick \in {0, 1} /\ TickCount \in Nat
            BY DoneTicks
        <3>2. QED
            BY <1>2, <2>4, <2>5, <3>1
    <2>7. QED
        BY <1>1, <2>2, <2>3, <2>6
<1>6. QED
    BY <1>3, <1>4, <1>5, WaysToPeek

(* should_stop says yes at the count, which was not passed. *)
LEMMA NoExtraTickStep ==
    ASSUME TypeOK, DoesTicks, ~Skippable, AtMostCount, NoExtraTick, [Next]_vars
    PROVE  NoExtraTick'
<1> SUFFICES ASSUME StoppedWell'
             PROVE  NoExtraTick'
    BY DEF NoExtraTick, StoppedWell
<1>1. UNCHANGED <<StopRule, Skippable, IncludeZeroTick, TickCount>>
    BY RunnerIsFixed DEF StopRule, Skippable, IncludeZeroTick, TickCount
<1>2. CASE UNCHANGED vars
    BY <1>1, <1>2 DEF NoExtraTick, StoppedWell
<1>3. CASE StopRun
    <2>1. current_tick' = current_tick /\ current_tick + ZeroTick = TickCount
        <3>1. /\ UNCHANGED current_tick /\ TRUE \in ShouldStop
              /\ current_tick = Previous(tick_status)
              /\ Previous(tick_status) + ZeroTick <= TickCount
            BY <1>3 DEF StopRun, AtMostCount
        <3>2. /\ Previous(tick_status) + ZeroTick >= TickCount
              /\ TickCount \in Nat /\ ZeroTick \in {0, 1} /\ Previous(tick_status) \in Int
            BY <3>1, DoneTicks
        <3>3. QED
            BY <3>1, <3>2
    <2>2. current_tick \in Nat
        BY DEF TypeOK, Time
    <2>3. QED
        BY <1>1, <2>1, <2>2, DoneTicks DEF NoExtraTick, ZeroTick
<1>4. QED
    BY <1>2, <1>3, WaysToStopWell

(* `run_do_ticks` without skipping ends with the last tick it was asked for. *)
THEOREM NoTickIsExtra ==
    ASSUME SomeTickIsAskedFor
    PROVE  Spec => []NoExtraTick
<1>1. Init => OneByOne
    BY DEF Init, OneByOne, BelowCount, AtMostCount, NoExtraTick, Ticking, InMicroStep
<1>2. TypeOK /\ Timely /\ OneByOne /\ [Next]_vars => OneByOne'
    <2> SUFFICES ASSUME TypeOK, Timely, OneByOne, [Next]_vars, DoesTicks', ~Skippable'
                 PROVE  BelowCount' /\ AtMostCount' /\ NoExtraTick'
        BY DEF OneByOne
    <2>1. DoesTicks /\ ~Skippable
        BY RunnerIsFixed DEF DoesTicks, StopRule, Skippable
    <2>2. QED
        BY <2>1, BelowCountStep, AtMostCountStep, NoExtraTickStep DEF OneByOne
<1>3. OneByOne => NoExtraTick
    BY DEF OneByOne, NoExtraTick, DoesTicks
<1>4. QED
    BY <1>1, <1>2, <1>3, TypeCorrect, AlwaysTimely, PTL DEF Spec

(***************************************************************************)
(* Micro-steps.                                                            *)
(***************************************************************************)

(* Ids again tell what was there when the tick began: while a tick runs, new *)
(* ids are at least tick_first_id.                                           *)
Advancing ==
    /\ InMicroStep => tick_first_id <= next_event_id
    /\ Stepping => tick_first_id <= step_first_id
    /\ AdvanceEventsGoFirst

(* Most steps take events away or schedule the next one. *)
LEMMA StillAdvancing ==
    ASSUME TypeOK, Advancing,
           UNCHANGED <<tick_status, tick_first_id, step_first_id, micro_step>>,
           next_event_id' \in {next_event_id, next_event_id + 1},
           \A e \in AllEvents' : e \in AllEvents \/ e.event_id = next_event_id,
           InMicroStep' => InMicroStep,
           Stepping' => Stepping
    PROVE  Advancing'
<1>1. next_event_id \in Nat /\ tick_first_id \in Nat
    BY DEF TypeOK, SchedulerTypeOK
<1>2. InMicroStep' => tick_first_id' <= next_event_id'
    BY <1>1 DEF Advancing
<1>3. AdvanceEventsGoFirst'
    BY <1>1 DEF Advancing, AdvanceEventsGoFirst, now
<1>4. QED
    BY <1>2, <1>3 DEF Advancing

(* A panic leaves the tick. *)
LEMMA PanicAdvancing ==
    ASSUME TypeOK, Advancing, NEW reason, Panic(reason)
    PROVE  Advancing'
BY DEF Panic, Advancing, AdvanceEventsGoFirst, InMicroStep, Stepping

(* User code keeps the old events of the tick behind it. *)
LEMMA UserAdvancing ==
    ASSUME TypeOK, Advancing, Configure \/ UserOperation \/ UserReturn
    PROVE  Advancing'
<1>1. ASSUME NEW t, NEW p, ScheduleEventAt(t, p)
      PROVE  Advancing'
    BY <1>1 DEF ScheduleEventAt, Advancing, AdvanceEventsGoFirst, InMicroStep, Stepping
<1>2. CASE AddEngineSource
    BY <1>2 DEF AddEngineSource, Advancing, AdvanceEventsGoFirst, InMicroStep, Stepping
<1>3. ASSUME NEW d, NEW p, ContextScheduleEvent(d, p)
      PROVE  Advancing'
    <2>1. CASE AddOverflows(now, d)
        BY <1>3, <2>1, PanicAdvancing DEF ContextScheduleEvent
    <2>2. CASE ~AddOverflows(now, d)
        <3>1. Schedule(now, d, p) /\ UNCHANGED <<event_batch, phase>>
            BY <1>3, <2>2 DEF ContextScheduleEvent
        <3>2. \A e \in AllEvents' : e \in AllEvents \/ e.event_id = next_event_id
            BY <3>1 DEF Schedule, AllEvents
        <3>3. QED
            BY <1>3, <2>2, <3>1, <3>2, StillAdvancing
               DEF ContextScheduleEvent, Schedule, InMicroStep, Stepping
    <2>3. QED
        BY <2>1, <2>2
<1>4. CASE ContextAddSource
    BY <1>4, StillAdvancing DEF ContextAddSource, AllEvents, InMicroStep, Stepping
<1>5. ASSUME NEW cancelled, CancelScheduledEvents(cancelled)
      PROVE  Advancing'
    BY <1>5, StillAdvancing
       DEF CancelScheduledEvents, DrainCancelScheduledEvents, AllEvents, InMicroStep, Stepping
<1>6. ASSUME NEW cancelled, CancelScheduledSources(cancelled)
      PROVE  Advancing'
    BY <1>6, StillAdvancing DEF CancelScheduledSources, AllEvents, InMicroStep, Stepping
<1>7. ASSUME NEW delay, RegisterSource(delay)
      PROVE  Advancing'
    BY <1>7 DEF RegisterSource, Advancing, AdvanceEventsGoFirst, InMicroStep, Stepping
<1>8. ASSUME NEW delay, FinishAddSource(delay)
      PROVE  Advancing'
    BY <1>8, StillAdvancing, PanicAdvancing
       DEF FinishAddSource, AllEvents, InMicroStep, Stepping
<1>9. ASSUME NEW delay, FinishFire(delay)
      PROVE  Advancing'
    BY <1>9, StillAdvancing, PanicAdvancing DEF FinishFire, AllEvents, InMicroStep, Stepping
<1>10. CASE FinishHandleEvent
    BY <1>10, StillAdvancing DEF FinishHandleEvent, AllEvents, InMicroStep, Stepping
<1>11. QED
    BY <1>1, <1>2, <1>3, <1>4, <1>5, <1>6, <1>7, <1>8, <1>9, <1>10
       DEF Configure, UserOperation, UserReturn

(* The first micro-step takes up all that is due: what it leaves is later or new. *)
LEMMA RunnerAdvancing ==
    ASSUME TypeOK, Timely, Ordered, Advancing, RunnerStep
    PROVE  Advancing'
<1>1. CASE BeginSimulation
    BY <1>1 DEF BeginSimulation, Advancing, AdvanceEventsGoFirst, InMicroStep, Stepping
<1>2. CASE FinishRegistration
    BY <1>2 DEF FinishRegistration, Advancing, AdvanceEventsGoFirst, InMicroStep, Stepping
<1>3. CASE StopRun
    BY <1>3 DEF StopRun, Advancing, AdvanceEventsGoFirst, InMicroStep, Stepping
<1>4. CASE BeginTick
    <2>1. /\ phase' = "micro_step" /\ micro_step' = 0
          /\ tick_first_id' = next_event_id /\ next_event_id' = next_event_id
          /\ next_event_id \in Nat
        BY <1>4 DEF BeginTick, TypeOK, SchedulerTypeOK
    <2>2. QED
        BY <2>1 DEF Advancing, AdvanceEventsGoFirst, InMicroStep, Stepping
<1>5. CASE StartSourcePhase
    <2>1. /\ UNCHANGED <<event_ready, event_pending, event_batch, next_event_id, tick_status,
                         tick_first_id, micro_step>>
          /\ phase = "micro_step" /\ step_first_id' = next_event_id
        BY <1>5, NotOverdue DEF StartSourcePhase
    <2>2. InMicroStep /\ tick_first_id' <= next_event_id' /\ tick_first_id' <= step_first_id'
        BY <2>1 DEF Advancing, InMicroStep
    <2>3. AdvanceEventsGoFirst'
        BY <2>1, <2>2 DEF Advancing, AdvanceEventsGoFirst, AllEvents, now
    <2>4. QED
        BY <2>2, <2>3 DEF Advancing
<1>6. ASSUME NEW source, FireSource(source)
      PROVE  Advancing'
    BY <1>6, StillAdvancing DEF FireSource, AllEvents, InMicroStep, Stepping
<1>7. CASE StartEventPhase
    <2>1. /\ DrainReadyEvents(now) /\ event_batch' = DueAt(event_ready, now)
          /\ UNCHANGED <<tick_status, tick_first_id, step_first_id, micro_step>>
          /\ phase = "source_phase" /\ phase' = "event_phase"
        BY <1>7, NotOverdue DEF StartEventPhase
    <2>2. AllEvents' \subseteq AllEvents /\ next_event_id' = next_event_id
        BY <2>1 DEF DrainReadyEvents, DueAt, AllEvents
    <2>3. QED
        BY <2>1, <2>2, StillAdvancing DEF InMicroStep, Stepping
<1>8. ASSUME NEW event, HandleEvent(event)
      PROVE  Advancing'
    BY <1>8, StillAdvancing DEF HandleEvent, AllEvents, InMicroStep, Stepping
<1>9. CASE EndMicroStep
    <2>1. CASE Panic("micro-step overflow")
        BY <2>1, PanicAdvancing
    <2>2. CASE ~Panic("micro-step overflow")
        <3>1. /\ FlushPendingEvents
              /\ UNCHANGED <<tick_status, tick_first_id, event_batch>>
              /\ event_batch = {} /\ phase = "event_phase"
              /\ phase' \in {"continue", "end_tick"}
            BY <1>9, <2>2 DEF EndMicroStep
        <3>2. tick_first_id \in Nat /\ step_first_id \in Nat /\ now \in Nat
            BY NowType DEF TypeOK, Time
        <3>3. \A e \in AllEvents' : e \in event_ready \/ e \in event_pending
            BY <3>1 DEF FlushPendingEvents, AllEvents
        <3>4. \A e \in event_pending : e.event_id \in Nat /\ e.event_id >= step_first_id
            BY <3>1 DEF Ordered, Stepping, TypeOK, SchedulerTypeOK, ScheduledEvents
        <3>5. tick_first_id <= step_first_id
            BY <3>1 DEF Advancing, Stepping
        <3>6. \A e \in event_ready : e.scheduled_at > now
            <4>1. \A e \in event_ready : e.scheduled_at \in Nat /\ e.scheduled_at >= now
                BY QueuedTimes DEF Timely, NothingIsOverdue, Time
            <4>2. \A e \in event_ready : e.scheduled_at # now
                BY <3>1 DEF Ordered, Handling
            <4>3. QED
                BY <3>2, <4>1, <4>2
        <3>7. \A e \in AllEvents' : e.event_id < tick_first_id => e.scheduled_at > now
            BY <3>2, <3>3, <3>4, <3>5, <3>6
        <3>8. tick_first_id <= next_event_id /\ next_event_id' = next_event_id
            BY <3>1 DEF Advancing, InMicroStep, FlushPendingEvents
        <3>9. QED
            BY <3>1, <3>7, <3>8 DEF Advancing, AdvanceEventsGoFirst, Stepping, now
    <2>3. QED
        BY <2>1, <2>2
<1>10. CASE ContinueMicroSteps
    BY <1>10, StillAdvancing DEF ContinueMicroSteps, AllEvents, InMicroStep, Stepping
<1>11. CASE DiscardAtLimit
    <2>1. /\ DrainReadyEvents(now)
          /\ UNCHANGED event_batch /\ UNCHANGED tick_status /\ UNCHANGED tick_first_id
          /\ UNCHANGED step_first_id /\ UNCHANGED micro_step
          /\ phase = "continue" /\ phase' \in {"end_tick", "micro_step"}
        BY <1>11, NotOverdue, Zenon DEF DiscardAtLimit, DiscardRemainMicroStep
    <2>2. AllEvents' \subseteq AllEvents /\ next_event_id' = next_event_id
        BY <2>1 DEF DrainReadyEvents, AllEvents
    <2>3. QED
        BY <2>1, <2>2, StillAdvancing DEF InMicroStep, Stepping
<1>12. ASSUME NEW status, EndTickWith(status)
       PROVE  Advancing'
    BY <1>12 DEF EndTickWith, Advancing, AdvanceEventsGoFirst, InMicroStep, Stepping
<1>13. CASE EndTickWithIncrementTick
    BY <1>12, <1>13, PanicAdvancing DEF EndTickWithIncrementTick
<1>14. CASE EndTickWithJumpToNextTick
    BY <1>12, <1>14, PanicAdvancing DEF EndTickWithJumpToNextTick, JumpTo
<1>15. QED
    BY <1>1, <1>2, <1>3, <1>4, <1>5, <1>6, <1>7, <1>8, <1>9, <1>10, <1>11, <1>13, <1>14
       DEF RunnerStep

(* What was scheduled for a tick before the tick began is taken up in its first *)
(* micro-step; the others only see what was scheduled within the tick.          *)
THEOREM AdvanceEventsAlwaysGoFirst == Spec => []AdvanceEventsGoFirst
<1>1. Init => Advancing
    BY DEF Init, Advancing, AdvanceEventsGoFirst, InMicroStep, Stepping
<1>2. TypeOK /\ Timely /\ Ordered /\ Advancing /\ [Next]_vars => Advancing'
    <2>1. ASSUME Advancing, UNCHANGED vars
          PROVE  Advancing'
        BY <2>1 DEF Advancing, AdvanceEventsGoFirst, InMicroStep, Stepping, AllEvents, now
    <2>2. QED
        BY <2>1, UserAdvancing, RunnerAdvancing DEF Next
<1>3. Advancing => AdvanceEventsGoFirst
    BY DEF Advancing
<1>4. QED
    BY <1>1, <1>2, <1>3, TypeCorrect, AlwaysTimely, AlwaysOrdered, PTL DEF Spec

(***************************************************************************)
(* Strategies.                                                             *)
(***************************************************************************)

(* The micro-step after the last one allowed finds nothing to do: the discard *)
(* before it left nothing due, and nothing runs that could schedule more.     *)
NothingMoreDue == \A x \in Queued : x.scheduled_at # now
Exhausted == micro_step = Limit + 1
WindingUp ==
    /\ source_batch = {} /\ event_batch = {}
    /\ phase \notin {"firing", "handling", "adding"}
    /\ phase \in {"micro_step", "source_phase", "event_phase"} => NothingMoreDue
Bounded == Strategy # "always" => micro_step <= Limit + 1 /\ (Exhausted => WindingUp)

(* Most steps do not count, and none of those that run user code comes last. *)
LEMMA StillBounded ==
    ASSUME Bounded, UNCHANGED <<runner, micro_step>>, Exhausted /\ WindingUp => WindingUp'
    PROVE  Bounded'
BY DEF Bounded, Exhausted, Strategy, Limit

(* A panic changes no batch. *)
LEMMA PanicBounded ==
    ASSUME Bounded, NEW reason, Panic(reason)
    PROVE  Bounded'
BY StillBounded DEF Panic, WindingUp

(* The limit is a number. *)
LEMMA LimitType == TypeOK => Limit \in Nat /\ micro_step \in Nat
BY RunnersAssumption, MaxMicroStepAssumption DEF TypeOK, RunnerSettings, Limit, MicroSteps

(* User code runs while the engine is set up or in a micro-step with work. *)
LEMMA UserBounded ==
    ASSUME TypeOK, Bounded, Configure \/ UserOperation \/ UserReturn
    PROVE  Bounded'
<1>1. CASE Configure
    BY <1>1, StillBounded DEF Configure, ScheduleEventAt, AddEngineSource, WindingUp
<1>2. CASE UserOperation
    BY <1>2, StillBounded, PanicBounded
       DEF UserOperation, ContextScheduleEvent, ContextAddSource, CancelScheduledEvents,
           CancelScheduledSources, InCallback, WindingUp
<1>3. ASSUME NEW delay, RegisterSource(delay)
      PROVE  Bounded'
    BY <1>3, StillBounded DEF RegisterSource, WindingUp
<1>4. ASSUME NEW delay, FinishAddSource(delay)
      PROVE  Bounded'
    BY <1>4, StillBounded, PanicBounded DEF FinishAddSource, WindingUp
<1>5. ASSUME NEW delay, FinishFire(delay)
      PROVE  Bounded'
    BY <1>5, StillBounded, PanicBounded DEF FinishFire, WindingUp
<1>6. CASE FinishHandleEvent
    BY <1>6, StillBounded DEF FinishHandleEvent, WindingUp
<1>7. QED
    BY <1>1, <1>2, <1>3, <1>4, <1>5, <1>6 DEF UserReturn

(* The phases of a micro-step have nothing to do in the last one. *)
LEMMA MicroStepBounded ==
    ASSUME TypeOK, Timely, Sourced, Bounded,
           \/ StartSourcePhase
           \/ \E source \in source_batch : FireSource(source)
           \/ StartEventPhase
           \/ \E event \in event_batch : HandleEvent(event)
           \/ EndMicroStep
    PROVE  Bounded'
<1>1. CASE StartSourcePhase
    <2>1. /\ DrainReadySources(now) /\ source_batch' = DueAt(source_ready, now)
          /\ UNCHANGED <<schedulerVars, tick_status, micro_step, event_batch, runner>>
          /\ phase = "micro_step" /\ phase' = "source_phase"
        BY <1>1, NotOverdue DEF StartSourcePhase
    <2>2. NothingMoreDue => source_batch' = {} /\ NothingMoreDue'
        BY <2>1 DEF NothingMoreDue, Queued, DueAt, DrainReadySources, now
    <2>3. QED
        BY <2>1, <2>2, StillBounded DEF WindingUp
<1>2. ASSUME NEW source \in source_batch, FireSource(source)
      PROVE  Bounded'
    BY <1>2, StillBounded DEF FireSource, WindingUp
<1>3. CASE StartEventPhase
    <2>1. /\ DrainReadyEvents(now) /\ event_batch' = DueAt(event_ready, now)
          /\ UNCHANGED <<sourceVars, tick_status, micro_step, source_batch, runner>>
          /\ phase = "source_phase" /\ phase' = "event_phase"
        BY <1>3, NotOverdue DEF StartEventPhase
    <2>2. NothingMoreDue => event_batch' = {} /\ NothingMoreDue'
        BY <2>1 DEF NothingMoreDue, Queued, DueAt, DrainReadyEvents, now
    <2>3. QED
        BY <2>1, <2>2, StillBounded DEF WindingUp
<1>4. ASSUME NEW event \in event_batch, HandleEvent(event)
      PROVE  Bounded'
    BY <1>4, StillBounded DEF HandleEvent, WindingUp
<1>5. CASE EndMicroStep
    <2>1. phase = "event_phase" /\ event_batch = {} /\ source_batch = {}
        BY <1>5 DEF EndMicroStep, Sourced, SourcesIdle
    <2>2. CASE Panic("micro-step overflow")
        BY <2>2, PanicBounded
    <2>3. CASE ~HasNextInCurrentTick(source_ready \cup source_pending,
                                     event_ready \cup event_pending)
        <3>1. /\ phase' = "end_tick"
              /\ UNCHANGED <<micro_step, runner, source_batch, event_batch>>
            BY <1>5, <2>3 DEF EndMicroStep
        <3>2. QED
            BY <3>1, StillBounded DEF WindingUp
    <2>4. CASE /\ HasNextInCurrentTick(source_ready \cup source_pending,
                                       event_ready \cup event_pending)
               /\ ~Panic("micro-step overflow")
        <3>1. /\ phase' = "continue" /\ micro_step' = micro_step + 1
              /\ UNCHANGED <<runner, source_batch, event_batch>>
            BY <1>5, <2>4 DEF EndMicroStep
        <3>2. ~NothingMoreDue
            <4>1. \/ now \in PeekNextTime(source_ready \cup source_pending)
                  \/ now \in PeekNextTime(event_ready \cup event_pending)
                BY <2>4 DEF HasNextInCurrentTick
            <4>2. \/ \E x \in source_ready \cup source_pending : x.scheduled_at = now
                  \/ \E x \in event_ready \cup event_pending : x.scheduled_at = now
                BY <4>1 DEF PeekNextTime
            <4>3. QED
                BY <4>2 DEF NothingMoreDue, Queued
        <3>3. Strategy # "always" => micro_step <= Limit + 1 /\ micro_step # Limit + 1
            BY <2>1, <3>2 DEF Bounded, Exhausted, WindingUp
        <3>4. Strategy' = Strategy /\ Limit' = Limit
            BY <3>1 DEF Strategy, Limit
        <3>5. Strategy' # "always" => micro_step' <= Limit' + 1
            BY <3>1, <3>3, <3>4, LimitType
        <3>6. QED
            BY <2>1, <3>1, <3>5 DEF Bounded, WindingUp
    <2>5. QED
        BY <2>2, <2>3, <2>4
<1>6. QED
    BY <1>1, <1>2, <1>3, <1>4, <1>5

(* The strategies stop a tick at the limit: the discard leaves nothing due. *)
LEMMA StrategyBounded ==
    ASSUME TypeOK, Timely, Sourced, Bounded, ContinueMicroSteps \/ DiscardAtLimit
    PROVE  Bounded'
<1>1. CASE ContinueMicroSteps
    <2>1. Strategy # "always" => ~Exhausted
        BY <1>1, LimitType DEF ContinueMicroSteps, LimitReached, Exhausted
    <2>2. UNCHANGED <<runner, micro_step>>
        BY <1>1 DEF ContinueMicroSteps
    <2>3. QED
        BY <2>1, <2>2 DEF Bounded, Exhausted, Strategy, Limit
<1>2. CASE DiscardAtLimit
    <2>1. /\ DiscardRemainMicroStep
          /\ UNCHANGED source_batch /\ UNCHANGED event_batch /\ UNCHANGED tick_status
          /\ UNCHANGED micro_step /\ UNCHANGED runner
          /\ phase = "continue" /\ phase' \in {"end_tick", "micro_step"}
        BY <1>2, NotOverdue, Zenon DEF DiscardAtLimit
    <2>2. event_pending = {} /\ source_pending = {}
        BY <2>1 DEF Timely, PendingIsFlushed
    <2>3. NothingMoreDue'
        BY <2>1, <2>2 DEF DiscardRemainMicroStep, DrainReadySources, DrainReadyEvents, DueAt,
                          NothingMoreDue, Queued, now
    <2>4. QED
        BY <2>1, <2>3, StillBounded DEF WindingUp
<1>3. QED
    BY <1>1, <1>2

(* The count starts again with every tick. *)
LEMMA TickLoopBounded ==
    ASSUME TypeOK, Bounded,
           BeginSimulation \/ FinishRegistration \/ StopRun \/ BeginTick \/ EndTick
    PROVE  Bounded'
<1>1. CASE BeginSimulation
    BY <1>1, StillBounded DEF BeginSimulation, WindingUp
<1>2. CASE FinishRegistration
    BY <1>2, StillBounded DEF FinishRegistration, WindingUp
<1>3. CASE StopRun
    BY <1>3, StillBounded DEF StopRun, WindingUp
<1>4. CASE BeginTick
    <2>1. micro_step' = 0 /\ Limit' = Limit
        BY <1>4 DEF BeginTick, Limit
    <2>2. micro_step' <= Limit' + 1 /\ micro_step' # Limit' + 1
        BY <2>1, LimitType
    <2>3. QED
        BY <2>2 DEF Bounded, Exhausted
<1>5. ASSUME NEW status, EndTickWith(status)
      PROVE  Bounded'
    BY <1>5, StillBounded DEF EndTickWith, WindingUp
<1>6. CASE EndTick
    BY <1>5, <1>6, PanicBounded
       DEF EndTick, EndTickWithIncrementTick, EndTickWithJumpToNextTick, JumpTo
<1>7. QED
    BY <1>1, <1>2, <1>3, <1>4, <1>6

(* With a limiting strategy a tick has at most Limit + 1 micro-steps with work, *)
(* however much its micro-steps schedule for the same tick.                     *)
THEOREM MicroStepsAreAlwaysBounded == Spec => []MicroStepsAreBounded
<1>1. Init /\ TypeOK => Bounded
    BY LimitType DEF Init, Bounded, Exhausted
<1>2. TypeOK /\ Timely /\ Sourced /\ Bounded /\ [Next]_vars => Bounded'
    <2>1. ASSUME Bounded, UNCHANGED vars
          PROVE  Bounded'
        BY <2>1, StillBounded DEF WindingUp, NothingMoreDue, Queued, now
    <2>2. QED
        BY <2>1, UserBounded, MicroStepBounded, StrategyBounded, TickLoopBounded
           DEF Next, RunnerStep, EndTick
<1>3. Bounded => MicroStepsAreBounded
    BY DEF Bounded, Exhausted, WindingUp, MicroStepsAreBounded
<1>4. QED
    BY <1>1, <1>2, <1>3, TypeCorrect, AlwaysTimely, AlwaysSourced, PTL DEF Spec

(* From the error of a strategy there is no way back into the tick. *)
LEMMA ErrorEndsTheTick ==
    ASSUME [Next]_vars, runner_error, phase \in {"end_tick", "stopped", "panicked"}
    PROVE  phase' \in {"end_tick", "stopped", "panicked"}
<1>1. CASE UNCHANGED vars
    BY <1>1
<1>2. CASE Configure
    BY <1>2 DEF Configure, ScheduleEventAt, AddEngineSource
<1>3. CASE UserOperation
    BY <1>3 DEF UserOperation, ContextScheduleEvent, ContextAddSource, CancelScheduledEvents,
                CancelScheduledSources, InCallback
<1>4. CASE UserReturn
    BY <1>4 DEF UserReturn, RegisterSource, FinishAddSource, FinishFire, FinishHandleEvent
<1>5. CASE RunnerStep
    BY <1>5 DEF RunnerStep, BeginSimulation, FinishRegistration, StopRun, BeginTick,
                StartSourcePhase, FireSource, StartEventPhase, HandleEvent, EndMicroStep,
                ContinueMicroSteps, DiscardAtLimit, EndTickWithIncrementTick,
                EndTickWithJumpToNextTick, EndTickWith, JumpTo, Panic
<1>6. QED
    BY <1>1, <1>2, <1>3, <1>4, <1>5 DEF Next

(* Only a discard counts, and it counts one error past the allowed ones at most. *)
LEMMA AbortStep ==
    ASSUME TypeOK, Timely, AbortIsFinal, [Next]_vars
    PROVE  AbortIsFinal'
<1>1. UNCHANGED runner /\ (UNCHANGED <<error_count, runner_error>> \/ DiscardAtLimit)
    BY RunnerIsFixed
<1>2. Strategy' = Strategy /\ AllowErrors' = AllowErrors
    BY <1>1 DEF Strategy, AllowErrors
<1>3. CASE UNCHANGED <<error_count, runner_error>>
    BY <1>2, <1>3, ErrorEndsTheTick DEF AbortIsFinal
<1>4. CASE DiscardAtLimit
    <2>1. AllowErrors \in Nat /\ error_count \in Nat
        BY RunnersAssumption DEF TypeOK, RunnerSettings, AllowErrors
    <2>2. phase = "continue"
        BY <1>4, Zenon DEF DiscardAtLimit
    <2>3. ~(Strategy = "limit_abort" /\ error_count = AllowErrors + 1)
        BY <2>2 DEF AbortIsFinal
    <2>4. /\ error_count' = IF Strategy = "limit_abort" THEN error_count + 1 ELSE error_count
          /\ runner_error' = (Strategy = "limit_abort" /\ TooManyErrors(error_count'))
          /\ phase' = IF runner_error' THEN "end_tick" ELSE "micro_step"
        BY <1>4, NotOverdue, Zenon DEF DiscardAtLimit
    <2>5. CASE Strategy = "limit_abort"
        <3>1. error_count' = error_count + 1 /\ (runner_error' <=> error_count' > AllowErrors')
            <4>1. runner_error' <=> TooManyErrors(error_count')
                BY <2>4, <2>5, Zenon
            <4>2. QED
                BY <1>2, <2>4, <2>5, <4>1 DEF TooManyErrors
        <3>2. error_count <= AllowErrors
            BY <2>1, <2>3, <2>5 DEF AbortIsFinal
        <3>3. runner_error' => phase' = "end_tick"
            BY <2>4, Zenon
        <3>4. QED
            BY <1>2, <2>1, <2>5, <3>1, <3>2, <3>3 DEF AbortIsFinal
    <2>6. CASE Strategy # "limit_abort"
        <3>1. error_count' = error_count /\ ~runner_error'
            BY <2>4, <2>6, Zenon
        <3>2. QED
            BY <1>2, <2>6, <3>1 DEF AbortIsFinal
    <2>7. QED
        BY <2>5, <2>6
<1>5. QED
    BY <1>1, <1>3, <1>4

(* LimitAbortStrategy forgives AllowErrors ticks; the next one ends the run. *)
THEOREM AbortIsAlwaysFinal == Spec => []AbortIsFinal
<1>1. Init /\ TypeOK => AbortIsFinal
    <2>1. TypeOK => AllowErrors \in Nat
        BY RunnersAssumption DEF TypeOK, RunnerSettings, AllowErrors
    <2>2. QED
        BY <2>1 DEF Init, AbortIsFinal
<1>2. TypeOK /\ Timely /\ AbortIsFinal /\ [Next]_vars => AbortIsFinal'
    BY AbortStep
<1>3. QED
    BY <1>1, <1>2, TypeCorrect, AlwaysTimely, PTL DEF Spec
==============================================================================
