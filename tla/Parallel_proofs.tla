----------------------------- MODULE Parallel_proofs -----------------------------
(***************************************************************************)
(* Proofs about the ParallelRunner: workers and the main thread.           *)
(***************************************************************************)
EXTENDS ParallelProperties, Ticks_proofs, SequenceTheorems,
        FiniteSetTheorems

USE DEF vars, schedulerVars, sourceVars, executorVars, batchVars, runnerVars, historyVars
USE DEF channelVars, parallelVars

allVars == <<vars, parallelVars>>

(***************************************************************************)
(* Control: where the main thread is while workers run.                    *)
(***************************************************************************)
Staged ==
    /\ stage \in {"sync", "working", "applying"}
    /\ stage = "working" => phase = "event_phase" /\ event_batch = {}
    /\ stage = "applying" => InEventPhase
    /\ stage # "working" => parallel_events = {} /\ working = {}

(* A step is one of the StandardRunner, with no worker about; or it starts the *)
(* workers, is one of theirs, joins them or enters `apply_command`.            *)
RunnersOwn ==
    /\ [Next]_vars
    /\ stage # "working"
    /\ parallel_events = {} /\ working = {}
    /\ UNCHANGED <<parallel_events, working>>
QuietlyParallel == UNCHANGED <<vars, parallel_events>>

(* No callback of the user is open in the event phase itself. *)
LEMMA UserIsElsewhere ==
    ASSUME phase = "event_phase"
    PROVE  ~Configure /\ ~UserOperation /\ ~UserReturn
BY DEF Configure, ScheduleEventAt, AddEngineSource, UserOperation, ContextScheduleEvent,
       ContextAddSource, CancelScheduledEvents, CancelScheduledSources, UserReturn,
       RegisterSource, FinishAddSource, FinishFire, FinishHandleEvent, InCallback

(* What user code does in a handler leaves it in the handler or ends it. *)
LEMMA UserStaysInEventPhase ==
    ASSUME InEventPhase, Configure \/ UserOperation \/ UserReturn
    PROVE  InEventPhase'
BY DEF Configure, ScheduleEventAt, AddEngineSource, UserOperation, ContextScheduleEvent,
       ContextAddSource, CancelScheduledEvents, CancelScheduledSources, UserReturn,
       RegisterSource, FinishAddSource, FinishFire, FinishHandleEvent, InCallback,
       InEventPhase, Panic

(* And the runner does nothing meanwhile. *)
LEMMA RunnerIsElsewhere ==
    ASSUME phase \in {"handling", "adding", "panicked"}
    PROVE  ~RunnerStep
<1>1. ~DiscardAtLimit
    BY Zenon DEF DiscardAtLimit
<1>2. QED
    BY <1>1 DEF RunnerStep, BeginSimulation, FinishRegistration, StopRun, BeginTick,
                StartSourcePhase, FireSource, StartEventPhase, HandleEvent, EndMicroStep,
                ContinueMicroSteps, EndTickWithIncrementTick, EndTickWithJumpToNextTick

LEMMA WaysToStep ==
    ASSUME Staged, [ParallelNext]_allVars
    PROVE  \/ RunnersOwn
           \/ StartWorkers
           \/ \E event \in parallel_events : BeginWork(event)
           \/ ApplyCommand
           \/ QuietlyParallel
<1>1. CASE UNCHANGED allVars
    BY <1>1 DEF allVars, QuietlyParallel
<1>2. CASE SharedStep
    BY <1>2 DEF SharedStep, Staged, RunnersOwn, Next
<1>3. ASSUME NEW event \in event_batch, HandleSynchronously(event)
      PROVE  RunnersOwn
    BY <1>3 DEF HandleSynchronously, Staged, RunnersOwn, Next, RunnerStep
<1>4. CASE CompleteEventPhase
    BY <1>4 DEF CompleteEventPhase, Staged, RunnersOwn, Next, RunnerStep
<1>5. CASE UserStep \/ UserReturnStep
    <2>1. phase # "event_phase"
        BY <1>5, UserIsElsewhere DEF UserStep, UserReturnStep
    <2>2. QED
        BY <1>5, <2>1 DEF UserStep, UserReturnStep, Staged, RunnersOwn, Next
<1>6. CASE JoinWorkers
    BY <1>6 DEF JoinWorkers, QuietlyParallel
<1>7. ASSUME NEW call, FinishWork(call) \/ SendCommand(call)
      PROVE  QuietlyParallel
    BY <1>7 DEF FinishWork, SendCommand, QuietlyParallel
<1>8. QED
    BY <1>1, <1>2, <1>3, <1>4, <1>5, <1>6, <1>7 DEF ParallelNext, MainThreadStep, PoolStep

LEMMA StepStaged ==
    ASSUME Staged, [ParallelNext]_allVars
    PROVE  Staged'
<1>1. CASE UNCHANGED allVars
    BY <1>1 DEF allVars, Staged, InEventPhase
<1>2. CASE SharedStep
    <2>1. phase # "event_phase" /\ RunnerStep /\ UNCHANGED parallelVars
        BY <1>2 DEF SharedStep
    <2>2. ~InEventPhase
        BY <2>1, RunnerIsElsewhere DEF InEventPhase
    <2>3. QED
        BY <2>1, <2>2 DEF Staged
<1>3. ASSUME NEW event \in event_batch, HandleSynchronously(event)
      PROVE  Staged'
    BY <1>3 DEF HandleSynchronously, Staged
<1>4. CASE StartWorkers
    BY <1>4 DEF StartWorkers, TakeAll, Staged
<1>5. CASE JoinWorkers
    BY <1>5 DEF JoinWorkers, WorkIsDone, Staged, InEventPhase
<1>6. CASE ApplyCommand
    BY <1>6 DEF ApplyCommand, Staged, InEventPhase
<1>7. CASE CompleteEventPhase
    BY <1>7 DEF CompleteEventPhase, Staged
<1>8. CASE UserStep \/ UserReturnStep
    <2>1. (Configure \/ UserOperation \/ UserReturn) /\ UNCHANGED parallelVars
        BY <1>8 DEF UserStep, UserReturnStep
    <2>2. phase # "event_phase"
        BY <2>1, UserIsElsewhere
    <2>3. QED
        BY <2>1, <2>2, UserStaysInEventPhase DEF Staged
<1>9. ASSUME NEW event, BeginWork(event)
      PROVE  Staged'
    BY <1>9 DEF BeginWork, Staged
<1>10. ASSUME NEW call, FinishWork(call) \/ SendCommand(call)
       PROVE  Staged'
    BY <1>10 DEF FinishWork, SendCommand, Staged
<1>11. QED
    BY <1>1, <1>2, <1>3, <1>4, <1>5, <1>6, <1>7, <1>8, <1>9, <1>10
       DEF ParallelNext, MainThreadStep, PoolStep

THEOREM AlwaysStaged == ParallelSpec => []Staged
<1>1. ParallelInit => Staged
    BY DEF ParallelInit, Init, Staged
<1>2. Staged /\ [ParallelNext]_<<vars, parallelVars>> => Staged'
    BY StepStaged DEF allVars
<1>3. QED
    BY <1>1, <1>2, PTL DEF ParallelSpec

(* While a worker has the model, the main thread waits in the event phase: it *)
(* joins the pool before it enters a handler, a command or another phase.     *)
THEOREM ModelIsAlwaysShared == ParallelSpec => []ModelIsShared
<1>1. Staged => ModelIsShared
    BY DEF Staged, ModelIsShared
<1>2. QED
    BY <1>1, AlwaysStaged, PTL

(***************************************************************************)
(* Types, time and the places of events.                                   *)
(***************************************************************************)

(* Unhandled events are conserved as those of a StandardRunner are, with what *)
(* was taken for the workers counted to the batch.                            *)
Kept ==
    /\ Conserves(event_ready, event_pending, event_batch \cup parallel_events, handled, dropped,
                 next_event_id)
    /\ BatchIsUsedUp

(* What the workers get was due now, and is older than what they may meet. *)
WorkIsDue ==
    \A event \in parallel_events :
        event \in ScheduledEvents /\ event.scheduled_at = now /\ event.event_id < step_first_id

Parallel == TypeOK /\ Timely /\ Kept /\ Ordered /\ WorkIsDue

LEMMA KeptIsConserved ==
    ASSUME parallel_events = {}
    PROVE  Kept <=> Conserved
<1>1. event_batch \cup parallel_events = event_batch
    OBVIOUS
<1>2. QED
    BY <1>1, ConservesNow DEF Kept, Conserved

LEMMA KeptIsConservedNext ==
    ASSUME parallel_events' = {}
    PROVE  Kept' <=> Conserved'
<1>1. event_batch' \cup parallel_events' = event_batch'
    OBVIOUS
<1>2. Kept' <=> /\ Conserves(event_ready', event_pending', event_batch' \cup parallel_events',
                             handled', dropped', next_event_id')
                /\ BatchIsUsedUp'
    BY DEF Kept, Conserves, IdsOf
<1>3. QED
    BY <1>1, <1>2, ConservesNext DEF Conserved

(* Steps that are the runner's own. *)
LEMMA OwnParallel ==
    ASSUME Parallel, RunnersOwn
    PROVE  Parallel'
<1>1. TypeOK' /\ Timely'
    BY StepType, StepTimely DEF Parallel, RunnersOwn
<1>2. Conserved
    BY KeptIsConserved DEF Parallel, RunnersOwn
<1>3. Conserved'
    <2>1. CASE UNCHANGED vars
        BY <1>2, <2>1, StillConserved DEF eventVars, InEventPhase
    <2>2. CASE Next
        BY <1>2, <2>2, UserConserved, RunnerConserved DEF Next, Parallel
    <2>3. QED
        BY <2>1, <2>2 DEF RunnersOwn
<1>4. Ordered'
    <2>1. CASE UNCHANGED vars
        BY <2>1, QuietOrdered DEF Parallel, eventVars, Quiet, Stepping, Handling
    <2>2. CASE Next
        BY <1>2, <2>2, UserOrdered, RunnerOrdered DEF Next, Parallel
    <2>3. QED
        BY <2>1, <2>2 DEF RunnersOwn
<1>5. Kept' /\ WorkIsDue'
    BY <1>3, KeptIsConservedNext DEF RunnersOwn, WorkIsDue
<1>6. QED
    BY <1>1, <1>4, <1>5 DEF Parallel

(* `take_front_if` yields nothing: the queue is handed over as it is. *)
LEMMA StartParallel ==
    ASSUME Staged, Parallel, StartWorkers
    PROVE  Parallel'
<1>1. /\ phase = "event_phase" /\ parallel_events = {}
      /\ event_batch' = {} /\ parallel_events' = event_batch
      /\ UNCHANGED <<schedulerVars, sourceVars, phase, executorVars, reg_slot, source_batch,
                     firing_source, runnerVars, historyVars>>
    BY DEF StartWorkers, TakeAll, Staged
<1>2. TypeOK'
    BY <1>1 DEF Parallel, TypeOK, SchedulerTypeOK, SourceTypeOK
<1>3. Timely'
    BY <1>1, StillTimely DEF Parallel, Queued
<1>4. event_batch' \cup parallel_events' = event_batch \cup parallel_events
    BY <1>1
<1>5. Kept'
    <2>1. Conserves(event_ready', event_pending', event_batch' \cup parallel_events',
                    handled', dropped', next_event_id')
        BY <1>1, <1>4 DEF Parallel, Kept
    <2>2. QED
        BY <1>1, <2>1 DEF Kept, Conserves, IdsOf, BatchIsUsedUp
<1>6. Ordered'
    BY <1>1, StillOrdered DEF Parallel, Quiet, Stepping, Handling
<1>7. WorkIsDue'
    BY <1>1 DEF Parallel, WorkIsDue, Ordered, Handling, ZeroDelayIsDeferred, TypeOK, now
<1>8. QED
    BY <1>2, <1>3, <1>5, <1>6, <1>7 DEF Parallel

(* A worker takes one event, and that counts as handled. *)
LEMMA WorkParallel ==
    ASSUME Staged, Parallel, NEW event \in parallel_events, BeginWork(event)
    PROVE  Parallel'
<1>1. /\ phase = "event_phase" /\ event_batch = {}
      /\ parallel_events' = parallel_events \ {event}
      /\ handled' = handled \cup {event.event_id}
      /\ UNCHANGED <<schedulerVars, sourceVars, phase, executorVars, reg_slot, batchVars,
                     runnerVars, dropped, tick_first_id, step_first_id>>
    BY DEF BeginWork, Staged
<1>2. TypeOK'
    <2>1. event.event_id \in Nat
        BY DEF Parallel, WorkIsDue, ScheduledEvents
    <2>2. QED
        BY <1>1, <2>1 DEF Parallel, TypeOK, SchedulerTypeOK, SourceTypeOK
<1>3. Timely'
    BY <1>1, StillTimely DEF Parallel, Queued
<1>4. Kept'
    <2>1. event_batch \cup parallel_events = parallel_events
          /\ event_batch' \cup parallel_events' = parallel_events \ {event}
        BY <1>1
    <2>2. Conserves(event_ready, event_pending, parallel_events, handled, dropped, next_event_id)
        BY <2>1 DEF Parallel, Kept
    <2>3. Conserves(event_ready, event_pending, parallel_events \ {event},
                    handled \cup {event.event_id}, dropped, next_event_id)
        BY <2>2, HandleConserves
    <2>4. Conserves(event_ready', event_pending', event_batch' \cup parallel_events',
                    handled', dropped', next_event_id')
        BY <1>1, <2>1, <2>3
    <2>5. QED
        BY <1>1, <2>4 DEF Kept, Conserves, IdsOf, BatchIsUsedUp
<1>5. Ordered'
    BY <1>1, QuietOrdered, StillOrdered DEF Parallel, Quiet, Stepping, Handling
<1>6. WorkIsDue'
    BY <1>1 DEF Parallel, WorkIsDue, now
<1>7. QED
    BY <1>2, <1>3, <1>4, <1>5, <1>6 DEF Parallel

(* `apply_command` is entered as a handler is. *)
LEMMA ApplyParallel ==
    ASSUME Staged, Parallel, ApplyCommand
    PROVE  Parallel'
<1>1. /\ phase = "event_phase" /\ phase' = "handling" /\ parallel_events = {}
      /\ UNCHANGED <<schedulerVars, sourceVars, executorVars, reg_slot, batchVars, runnerVars,
                     historyVars, parallel_events>>
    BY DEF ApplyCommand, Staged
<1>2. TypeOK'
    BY <1>1 DEF Parallel, TypeOK, SchedulerTypeOK, SourceTypeOK, Phases
<1>3. Timely'
    BY <1>1, StillTimely DEF Parallel, Queued
<1>4. Conserved'
    <2>1. Conserved
        BY <1>1, KeptIsConserved DEF Parallel
    <2>2. QED
        BY <1>1, <2>1, StillConserved DEF eventVars, InEventPhase
<1>5. Ordered'
    BY <1>1, QuietOrdered DEF Parallel, eventVars, Quiet, Stepping, Handling
<1>6. Kept' /\ WorkIsDue'
    BY <1>1, <1>4, KeptIsConservedNext DEF WorkIsDue
<1>7. QED
    BY <1>2, <1>3, <1>5, <1>6 DEF Parallel

LEMMA QuietParallel ==
    ASSUME Parallel, QuietlyParallel
    PROVE  Parallel'
<1>1. TypeOK'
    BY DEF Parallel, QuietlyParallel, TypeOK, SchedulerTypeOK, SourceTypeOK
<1>2. Timely' /\ Ordered'
    <2>1. [Next]_vars
        BY DEF QuietlyParallel
    <2>2. QED
        BY <2>1, StepTimely, QuietOrdered
           DEF Parallel, QuietlyParallel, eventVars, Quiet, Stepping, Handling
<1>3. Kept'
    BY DEF Parallel, QuietlyParallel, Kept, Conserves, IdsOf, BatchIsUsedUp, InEventPhase
<1>4. WorkIsDue'
    BY DEF Parallel, QuietlyParallel, WorkIsDue, now
<1>5. QED
    BY <1>1, <1>2, <1>3, <1>4 DEF Parallel

LEMMA InitParallel == ParallelInit => Parallel
<1> SUFFICES ASSUME ParallelInit PROVE Parallel
    OBVIOUS
<1>1. TypeOK /\ Timely /\ Conserved /\ Ordered
    BY InitType, InitTimely, InitConserved, InitOrdered DEF ParallelInit
<1>2. parallel_events = {}
    BY DEF ParallelInit
<1>3. QED
    BY <1>1, <1>2, KeptIsConserved DEF Parallel, WorkIsDue

(* Parallel is an inductive invariant of a run. *)
THEOREM AlwaysParallel == ParallelSpec => []Parallel
<1>1. Staged /\ Parallel /\ [ParallelNext]_<<vars, parallelVars>> => Parallel'
    BY WaysToStep, OwnParallel, StartParallel, WorkParallel, ApplyParallel, QuietParallel
       DEF allVars
<1>2. QED
    BY <1>1, InitParallel, AlwaysStaged, PTL DEF ParallelSpec

(* Every event is in one place, at the main thread or at the pool, and is given *)
(* to the model once, however many workers there are and in whatever order they *)
(* take their events.                                                           *)
THEOREM ParallelEventsAreAlwaysConserved == ParallelSpec => []ParallelEventsAreConserved
<1>1. Staged /\ Parallel => ParallelEventsAreConserved
    <2> SUFFICES ASSUME Staged, Parallel
                 PROVE  ParallelEventsAreConserved
        OBVIOUS
    <2>1. Unhandled = event_ready \cup event_pending \cup (event_batch \cup parallel_events)
        BY DEF Unhandled, AllEvents
    <2>2. event_batch \cap parallel_events = {}
        BY DEF Staged
    <2>3. (event_batch \cup parallel_events) \cap (event_ready \cup event_pending) = {}
        BY DEF Parallel, Kept, Conserves
    <2>4. parallel_events \cap AllEvents = {}
        BY <2>2, <2>3 DEF AllEvents
    <2>5. QED
        BY <2>1, <2>4 DEF Parallel, Kept, Conserves, ParallelEventsAreConserved
<1>2. QED
    BY <1>1, AlwaysStaged, AlwaysParallel, PTL

(***************************************************************************)
(* The front of a queue.  `take_front_if` and `take_one` find one whenever *)
(* the queue is not empty: the order of events is total, and only finitely *)
(* many ids were issued.                                                   *)
(***************************************************************************)
LEMMA BeforeIsAnOrder ==
    /\ \A e \in ScheduledEvents : ~Before(e, e)
    /\ \A e, f, g \in ScheduledEvents : Before(e, f) /\ Before(f, g) => Before(e, g)
    /\ \A e, f \in ScheduledEvents : Before(e, f) \/ Before(f, e) \/ e.event_id = f.event_id
<1>1. ASSUME NEW e \in ScheduledEvents
      PROVE  e.scheduled_at \in Nat /\ e.priority \in Nat /\ e.event_id \in Nat
    <2>1. e.scheduled_at \in Time /\ e.priority \in Priorities /\ e.event_id \in Nat
        BY DEF ScheduledEvents
    <2>2. e.priority \in Nat
        BY <2>1, PrioritiesAssumption
    <2>3. e.scheduled_at \in Nat
        BY <2>1, MaxTimeAssumption DEF Time
    <2>4. QED
        BY <2>1, <2>2, <2>3
<1>2. QED
    BY <1>1 DEF Before

LEMMA FrontExists ==
    ASSUME NEW n \in Nat, NEW S \in SUBSET ScheduledEvents, S # {},
           \A e \in S : e.event_id < n,
           \A e, f \in S : e.event_id = f.event_id => e = f
    PROVE  \E e \in S : IsFront(e, S)
<1> DEFINE Ahead(e) == {f.event_id : f \in {g \in S : Before(g, e)}}
           counts == {Cardinality(Ahead(e)) : e \in S}
<1>1. \A e \in S : IsFiniteSet(Ahead(e)) /\ Cardinality(Ahead(e)) \in Nat
    <2> TAKE e \in S
    <2>1. Ahead(e) \in SUBSET (0 .. n)
        BY DEF ScheduledEvents
    <2>2. IsFiniteSet(0 .. n)
        BY FS_Interval
    <2> HIDE DEF Ahead
    <2>3. QED
        BY <2>1, <2>2, FS_Subset, FS_CardinalityType
<1>2. counts \in SUBSET Nat /\ counts # {}
    <2> HIDE DEF Ahead
    <2>1. QED
        BY <1>1
<1>3. PICK least \in counts : \A k \in counts : least <= k
    <2> HIDE DEF counts
    <2>1. QED
        BY <1>2, LeastNat
<1>4. PICK e \in S : least = Cardinality(Ahead(e))
    OBVIOUS
<1>5. ASSUME NEW f \in S, Before(f, e)
      PROVE  FALSE
    <2>1. Ahead(f) \in SUBSET Ahead(e)
        BY <1>5, BeforeIsAnOrder
    <2>2. f.event_id \in Ahead(e)
        BY <1>5
    <2>3. f.event_id \notin Ahead(f)
        BY BeforeIsAnOrder
    <2>4. least <= Cardinality(Ahead(f))
        <3> HIDE DEF Ahead
        <3>1. Cardinality(Ahead(f)) \in counts
            OBVIOUS
        <3>2. QED
            BY <1>3, <3>1
    <2> HIDE DEF Ahead, counts
    <2>5. Cardinality(Ahead(f)) <= Cardinality(Ahead(e))
          /\ (Cardinality(Ahead(e)) = Cardinality(Ahead(f)) => Ahead(e) = Ahead(f))
        BY <1>1, <2>1, FS_Subset
    <2>6. Cardinality(Ahead(e)) = Cardinality(Ahead(f))
        BY <1>1, <1>4, <2>4, <2>5
    <2>7. QED
        BY <2>2, <2>3, <2>5, <2>6
<1>6. IsFront(e, S)
    BY <1>5, BeforeIsAnOrder DEF IsFront
<1>7. QED
    BY <1>6

(***************************************************************************)
(* Priorities.  All events of a queue are due at the same tick, so its     *)
(* front has the highest priority in it.                                   *)
(***************************************************************************)
LEMMA FrontIsHighest ==
    ASSUME Parallel, phase = "event_phase", NEW e, IsFront(e, event_batch)
    PROVE  \A f \in event_batch : f.priority <= e.priority
<1> TAKE f \in event_batch
<1>1. e \in event_batch /\ e \in ScheduledEvents /\ f \in ScheduledEvents
    BY DEF IsFront, Parallel, TypeOK
<1>2. e.scheduled_at = now /\ f.scheduled_at = now /\ now \in Nat
    BY <1>1, NowType DEF Parallel, Ordered, Handling, Time
<1>3. e.priority \in Nat /\ f.priority \in Nat
    BY <1>1, PrioritiesAssumption DEF ScheduledEvents
<1>4. CASE f = e
    BY <1>3, <1>4
<1>5. CASE f # e
    BY <1>2, <1>3, <1>5 DEF IsFront, Before
<1>6. QED
    BY <1>4, <1>5

(* `take_front_if` yields nothing only when no event of the queue is for the *)
(* main thread.                                                              *)
LEMMA NoneIsSync ==
    ASSUME Staged, Parallel, StartWorkers
    PROVE  \A e \in event_batch : e.priority < SyncPriorityThreshold
<1>1. CASE event_batch = {}
    BY <1>1
<1>2. CASE event_batch # {}
    <2>1. /\ phase = "event_phase" /\ parallel_events = {}
          /\ \A e \in event_batch : IsFront(e, event_batch) => ~IsSync(e)
        BY DEF StartWorkers, Staged
    <2>2. event_batch \in SUBSET ScheduledEvents /\ next_event_id \in Nat
        BY DEF Parallel, TypeOK, SchedulerTypeOK
    <2>3. /\ \A e \in event_batch : e.event_id < next_event_id
          /\ \A e, f \in event_batch : e.event_id = f.event_id => e = f
        <3>1. Conserved
            BY <2>1, KeptIsConserved DEF Parallel
        <3>2. QED
            BY <3>1, IdsAreIssued DEF Parallel, Conserved, EventsAreConserved, AllEvents
    <2>4. PICK e \in event_batch : IsFront(e, event_batch)
        BY <1>2, <2>2, <2>3, FrontExists
    <2>5. ~IsSync(e)
        BY <2>1, <2>4
    <2>6. \A f \in event_batch : f.priority <= e.priority
        BY <2>1, <2>4, FrontIsHighest
    <2>7. \A f \in event_batch : f.priority \in Nat
        BY <2>2, PrioritiesAssumption DEF ScheduledEvents
    <2>8. QED
        BY <2>5, <2>6, <2>7, ParallelAssumption DEF IsSync
<1>3. QED
    BY <1>1, <1>2

SyncOnly == working \in SUBSET Calls /\ SyncStaysOnMainThread

LEMMA StepSync ==
    ASSUME Staged, Parallel, SyncOnly, [ParallelNext]_allVars
    PROVE  SyncOnly'
<1>1. CASE UNCHANGED <<parallel_events, working>>
    BY <1>1 DEF SyncOnly, SyncStaysOnMainThread
<1>2. CASE StartWorkers
    BY <1>2, NoneIsSync DEF StartWorkers, SyncOnly, SyncStaysOnMainThread
<1>3. ASSUME NEW event \in parallel_events, BeginWork(event)
      PROVE  SyncOnly'
    <2> DEFINE call == [event |-> event, sends |-> 0]
    <2>1. /\ parallel_events' = parallel_events \ {event}
          /\ working' = working \cup {call}
        BY <1>3 DEF BeginWork
    <2>2. call \in Calls /\ call.event = event
        BY ParallelAssumption DEF Parallel, WorkIsDue, Calls
    <2> HIDE DEF call
    <2>3. QED
        BY <2>1, <2>2 DEF SyncOnly, SyncStaysOnMainThread
<1>4. ASSUME NEW call \in working, FinishWork(call)
      PROVE  SyncOnly'
    BY <1>4 DEF FinishWork, SyncOnly, SyncStaysOnMainThread
<1>5. ASSUME NEW call \in working, SendCommand(call)
      PROVE  SyncOnly'
    <2> DEFINE next == [call EXCEPT !.sends = @ + 1]
    <2>1. working' = (working \ {call}) \cup {next} /\ UNCHANGED parallel_events
        BY <1>5 DEF SendCommand
    <2>2. call \in Calls /\ call.sends < MaxCommands
        BY <1>5 DEF SendCommand, SyncOnly
    <2>3. next \in Calls /\ next.event = call.event
        BY <2>2, ParallelAssumption DEF Calls
    <2> HIDE DEF next
    <2>4. QED
        BY <2>1, <2>3 DEF SyncOnly, SyncStaysOnMainThread
<1>6. QED
    BY <1>1, <1>2, <1>3, <1>4, <1>5, WaysToStep
       DEF RunnersOwn, ParallelNext, MainThreadStep, PoolStep, SharedStep, JoinWorkers,
           ApplyCommand, CompleteEventPhase, HandleSynchronously, UserStep, UserReturnStep,
           allVars

THEOREM AlwaysSyncOnly == ParallelSpec => []SyncOnly
<1>1. ParallelInit => SyncOnly
    BY DEF ParallelInit, SyncOnly, SyncStaysOnMainThread
<1>2. Staged /\ Parallel /\ SyncOnly /\ [ParallelNext]_<<vars, parallelVars>> => SyncOnly'
    BY StepSync DEF allVars
<1>3. QED
    BY <1>1, <1>2, AlwaysStaged, AlwaysParallel, PTL DEF ParallelSpec

(* No event at or above the threshold is ever given to a worker: the queue is    *)
(* handed over when its front is below, and the front has the highest priority.  *)
THEOREM SyncAlwaysStaysOnMainThread == ParallelSpec => []SyncStaysOnMainThread
<1>1. SyncOnly => SyncStaysOnMainThread
    BY DEF SyncOnly
<1>2. QED
    BY <1>1, AlwaysSyncOnly, PTL

(***************************************************************************)
(* Commands.  The channel holds what was sent and not yet applied, and a   *)
(* command comes after all that its event sent before.                     *)
(***************************************************************************)
Command(event_id, nth) == [event_id |-> event_id, nth |-> nth]
Received == {channel[i] : i \in 1 .. Len(channel)}

Delivered ==
    /\ channel \in Seq(Commands)
    /\ applied \in SUBSET Commands
    /\ sent = applied \cup Received
    /\ stage = "sync" => channel = <<>>

InOrder ==
    /\ \A command \in applied : \A n \in Nat :
          n < command.nth => Command(command.event_id, n) \in applied
    /\ \A i \in 1 .. Len(channel) : \A n \in Nat :
          n < channel[i].nth =>
              \/ Command(channel[i].event_id, n) \in applied
              \/ \E j \in 1 .. i - 1 : channel[j] = Command(channel[i].event_id, n)
    /\ \A call \in working : \A n \in Nat :
          n < call.sends => Command(call.event.event_id, n) \in sent

(* What a channel holds, as a sequence. *)
LEMMA AppendReceives ==
    ASSUME NEW C, NEW q \in Seq(C), NEW c \in C
    PROVE  /\ Append(q, c) \in Seq(C) /\ Len(Append(q, c)) = Len(q) + 1 /\ Len(q) \in Nat
           /\ Append(q, c)[Len(q) + 1] = c
           /\ \A i \in 1 .. Len(q) : Append(q, c)[i] = q[i]
BY AppendProperties, LenProperties

LEMMA TailReceives ==
    ASSUME NEW C, NEW q \in Seq(C), q # <<>>
    PROVE  /\ Tail(q) \in Seq(C) /\ Len(Tail(q)) = Len(q) - 1 /\ Len(q) \in Nat \ {0}
           /\ Head(q) = q[1] /\ q[1] \in C
           /\ \A i \in 1 .. Len(q) - 1 : Tail(q)[i] = q[i + 1]
<1>1. Len(q) \in Nat \ {0}
    BY LenProperties, EmptySeq
<1>2. Head(q) = q[1] /\ q[1] \in C
    BY <1>1, ElementOfSeq, HeadTailProperties
<1>3. Tail(q) \in Seq(C) /\ Len(Tail(q)) = Len(q) - 1
    BY HeadTailProperties
<1>4. \A i \in 1 .. Len(q) - 1 : Tail(q)[i] = q[i + 1]
    BY <1>1, HeadTailProperties
<1>5. QED
    BY <1>1, <1>2, <1>3, <1>4

LEMMA QuietDelivered ==
    ASSUME Delivered, UNCHANGED channelVars, stage' = "sync" => stage = "sync"
    PROVE  Delivered'
BY DEF Delivered, Received

LEMMA QuietInOrder ==
    ASSUME InOrder, UNCHANGED channelVars, working' \in SUBSET working
    PROVE  InOrder'
BY DEF InOrder

(* `send` *)
LEMMA SendInOrder ==
    ASSUME Staged, SyncOnly, Delivered, InOrder, NEW call \in working, SendCommand(call)
    PROVE  Delivered' /\ InOrder'
<1> DEFINE command == Command(call.event.event_id, call.sends)
           next == [call EXCEPT !.sends = @ + 1]
<1>1. /\ channel' = Append(channel, command)
      /\ sent' = sent \cup {command}
      /\ working' = (working \ {call}) \cup {next}
      /\ UNCHANGED <<stage, applied>> /\ stage = "working"
    BY DEF SendCommand, Enqueue, Command
<1>2. call \in Calls /\ call.sends \in Nat /\ call.event.event_id \in Nat
    BY ParallelAssumption DEF SyncOnly, Calls, ScheduledEvents
<1>3. command \in Commands
    BY <1>2 DEF Command, Commands
<1>4. next.event = call.event /\ next.sends = call.sends + 1
    BY <1>2 DEF Calls
<1> HIDE DEF command, next
<1>5. channel \in Seq(Commands) /\ sent = applied \cup Received
    BY DEF Delivered
<1>6. /\ channel' \in Seq(Commands) /\ Len(channel') = Len(channel) + 1 /\ Len(channel) \in Nat
      /\ channel'[Len(channel) + 1] = command
      /\ \A i \in 1 .. Len(channel) : channel'[i] = channel[i]
    BY <1>1, <1>3, <1>5, AppendReceives
<1>7. Received' = Received \cup {command}
    <2>1. \A x : x \in Received' => x \in Received \cup {command}
        <3> TAKE x
        <3> HAVE x \in Received'
        <3>1. PICK i \in 1 .. Len(channel') : x = channel'[i]
            BY DEF Received
        <3>2. i \in 1 .. Len(channel) \/ i = Len(channel) + 1
            BY <1>6
        <3>3. QED
            BY <1>6, <3>1, <3>2 DEF Received
    <2>2. \A i \in 1 .. Len(channel) : i \in 1 .. Len(channel')
        BY <1>6
    <2>3. Len(channel) + 1 \in 1 .. Len(channel')
        BY <1>6
    <2>4. \A x : x \in Received \cup {command} => x \in Received'
        BY <1>6, <2>2, <2>3 DEF Received
    <2>5. QED
        BY <2>1, <2>4
<1>8. Delivered'
    BY <1>1, <1>5, <1>6, <1>7 DEF Delivered
<1>9. ASSUME NEW i \in 1 .. Len(channel'), NEW n \in Nat, n < channel'[i].nth
      PROVE  \/ Command(channel'[i].event_id, n) \in applied'
             \/ \E j \in 1 .. i - 1 : channel'[j] = Command(channel'[i].event_id, n)
    <2>1. CASE i \in 1 .. Len(channel)
        <3>1. channel'[i] = channel[i] /\ \A j \in 1 .. i - 1 : channel'[j] = channel[j]
            BY <1>6, <2>1
        <3>2. QED
            BY <1>1, <1>9, <2>1, <3>1 DEF InOrder
    <2>2. CASE i = Len(channel) + 1
        <3>1. channel'[i] = command
            BY <1>6, <2>2
        <3>2. command.event_id = call.event.event_id /\ command.nth = call.sends
            BY DEF command, Command
        <3>3. Command(command.event_id, n) \in sent
            BY <1>9, <3>1, <3>2 DEF InOrder
        <3>4. Command(command.event_id, n) \in applied
              \/ \E j \in 1 .. Len(channel) : channel[j] = Command(command.event_id, n)
            BY <1>5, <3>3 DEF Received
        <3>5. i - 1 = Len(channel)
            BY <1>6, <2>2
        <3>6. QED
            BY <1>1, <1>6, <3>1, <3>4, <3>5
    <2>3. QED
        BY <1>6, <2>1, <2>2
<1>10. ASSUME NEW c \in working', NEW n \in Nat, n < c.sends
       PROVE  Command(c.event.event_id, n) \in sent'
    <2>1. CASE c \in working
        BY <1>1, <1>10, <2>1 DEF InOrder
    <2>2. CASE c = next
        <3>1. n < call.sends \/ n = call.sends
            BY <1>2, <1>4, <1>10, <2>2
        <3>2. n = call.sends => Command(c.event.event_id, n) = command
            BY <1>4, <2>2 DEF command
        <3>3. n < call.sends => Command(c.event.event_id, n) \in sent
            BY <1>4, <2>2 DEF InOrder
        <3>4. QED
            BY <1>1, <3>1, <3>2, <3>3
    <2>3. QED
        BY <1>1, <2>1, <2>2
<1>11. InOrder'
    <2>1. \A c \in applied' : \A n \in Nat :
             n < c.nth => Command(c.event_id, n) \in applied'
        BY <1>1 DEF InOrder
    <2>2. QED
        BY <1>9, <1>10, <2>1 DEF InOrder, Command
<1>12. QED
    BY <1>8, <1>11

(* `try_recv` yields a command. *)
LEMMA ApplyInOrder ==
    ASSUME Delivered, InOrder, ApplyCommand
    PROVE  Delivered' /\ InOrder'
<1> DEFINE command == channel[1]
<1>1. /\ channel # <<>> /\ channel' = Tail(channel)
      /\ applied' = applied \cup {Head(channel)}
      /\ UNCHANGED <<stage, working, sent>> /\ stage = "applying"
    BY DEF ApplyCommand
<1>2. channel \in Seq(Commands) /\ sent = applied \cup Received
    BY DEF Delivered
<1>3. /\ channel' \in Seq(Commands) /\ Len(channel') = Len(channel) - 1
      /\ Len(channel) \in Nat \ {0}
      /\ Head(channel) = command /\ command \in Commands
      /\ \A i \in 1 .. Len(channel) - 1 : channel'[i] = channel[i + 1]
    BY <1>1, <1>2, TailReceives
<1>4. applied' = applied \cup {command}
    BY <1>1, <1>3
<1>5. applied' \cup Received' = applied \cup Received
    <2>1. ASSUME NEW i \in 1 .. Len(channel')
          PROVE  channel'[i] \in Received
        <3>1. i + 1 \in 1 .. Len(channel) /\ channel'[i] = channel[i + 1]
            BY <1>3
        <3>2. QED
            BY <3>1 DEF Received
    <2>2. ASSUME NEW i \in 1 .. Len(channel)
          PROVE  channel[i] \in {command} \cup Received'
        <3>1. CASE i = 1
            BY <3>1
        <3>2. CASE i # 1
            <4>1. i - 1 \in 1 .. Len(channel') /\ channel'[i - 1] = channel[(i - 1) + 1]
                  /\ (i - 1) + 1 = i
                BY <1>3, <3>2
            <4>2. QED
                BY <4>1 DEF Received
        <3>3. QED
            BY <3>1, <3>2
    <2>3. command \in Received
        BY <1>3 DEF Received
    <2>4. \A x \in Received' : x \in Received
        BY <2>1 DEF Received
    <2>5. \A x \in Received : x \in {command} \cup Received'
        BY <2>2 DEF Received
    <2>6. QED
        BY <1>4, <2>3, <2>4, <2>5
<1>6. Delivered'
    BY <1>1, <1>2, <1>3, <1>4, <1>5 DEF Delivered
<1>7. \A n \in Nat : n < command.nth => Command(command.event_id, n) \in applied
    <2>1. 1 \in 1 .. Len(channel) /\ ~(\E j \in 1 .. 1 - 1 : TRUE)
        BY <1>3
    <2>2. QED
        BY <2>1 DEF InOrder
<1>8. ASSUME NEW i \in 1 .. Len(channel'), NEW n \in Nat, n < channel'[i].nth
      PROVE  \/ Command(channel'[i].event_id, n) \in applied'
             \/ \E j \in 1 .. i - 1 : channel'[j] = Command(channel'[i].event_id, n)
    <2>1. i + 1 \in 1 .. Len(channel) /\ channel'[i] = channel[i + 1] /\ (i + 1) - 1 = i
        BY <1>3
    <2>2. \/ Command(channel'[i].event_id, n) \in applied
          \/ \E j \in 1 .. i : channel[j] = Command(channel'[i].event_id, n)
        BY <1>8, <2>1 DEF InOrder
    <2>3. CASE \E j \in 1 .. i : channel[j] = Command(channel'[i].event_id, n)
        <3>1. PICK j \in 1 .. i : channel[j] = Command(channel'[i].event_id, n)
            BY <2>3
        <3>2. CASE j = 1
            BY <1>4, <3>1, <3>2
        <3>3. CASE j # 1
            <4>1. /\ j - 1 \in 1 .. i - 1 /\ j - 1 \in 1 .. Len(channel) - 1
                  /\ (j - 1) + 1 = j
                BY <1>3, <3>3
            <4>2. channel'[j - 1] = channel[j]
                BY <1>3, <4>1
            <4>3. QED
                BY <3>1, <4>1, <4>2
        <3>4. QED
            BY <3>2, <3>3
    <2>4. QED
        BY <1>4, <2>2, <2>3
<1>9. InOrder'
    <2>1. \A c \in applied' : \A n \in Nat :
             n < c.nth => Command(c.event_id, n) \in applied'
        BY <1>4, <1>7 DEF InOrder
    <2>2. \A c \in working' : \A n \in Nat :
             n < c.sends => Command(c.event.event_id, n) \in sent'
        BY <1>1 DEF InOrder
    <2>3. QED
        BY <1>8, <2>1, <2>2 DEF InOrder, Command
<1>10. QED
    BY <1>6, <1>9

LEMMA StepInOrder ==
    ASSUME Staged, SyncOnly, Delivered, InOrder, [ParallelNext]_allVars
    PROVE  Delivered' /\ InOrder'
<1>1. CASE UNCHANGED allVars
    BY <1>1, QuietDelivered, QuietInOrder DEF allVars
<1>2. CASE SharedStep
    BY <1>2, QuietDelivered, QuietInOrder DEF SharedStep
<1>3. ASSUME NEW event \in event_batch, HandleSynchronously(event)
      PROVE  Delivered' /\ InOrder'
    BY <1>3, QuietDelivered, QuietInOrder DEF HandleSynchronously
<1>4. CASE StartWorkers
    BY <1>4, QuietDelivered, QuietInOrder DEF StartWorkers
<1>5. CASE JoinWorkers
    BY <1>5, QuietDelivered, QuietInOrder DEF JoinWorkers
<1>6. CASE ApplyCommand
    BY <1>6, ApplyInOrder
<1>7. CASE CompleteEventPhase
    <2>1. /\ channel = <<>> /\ channel' = <<>>
          /\ UNCHANGED <<working, sent, applied>>
        BY <1>7 DEF CompleteEventPhase, NothingReceived
    <2>2. QED
        BY <2>1, QuietInOrder DEF Delivered, Received
<1>8. CASE UserStep \/ UserReturnStep
    BY <1>8, QuietDelivered, QuietInOrder DEF UserStep, UserReturnStep
<1>9. ASSUME NEW event \in parallel_events, BeginWork(event)
      PROVE  Delivered' /\ InOrder'
    <2> DEFINE call == [event |-> event, sends |-> 0]
    <2>1. working' = working \cup {call} /\ UNCHANGED <<stage, channelVars>>
        BY <1>9 DEF BeginWork
    <2>2. \A n \in Nat : ~(n < call.sends)
        OBVIOUS
    <2> HIDE DEF call
    <2>3. Delivered'
        BY <2>1, QuietDelivered
    <2>4. QED
        BY <2>1, <2>2, <2>3 DEF InOrder
<1>10. ASSUME NEW call \in working, FinishWork(call)
       PROVE  Delivered' /\ InOrder'
    BY <1>10, QuietDelivered, QuietInOrder DEF FinishWork
<1>11. ASSUME NEW call \in working, SendCommand(call)
       PROVE  Delivered' /\ InOrder'
    BY <1>11, SendInOrder
<1>12. QED
    BY <1>1, <1>2, <1>3, <1>4, <1>5, <1>6, <1>7, <1>8, <1>9, <1>10, <1>11
       DEF ParallelNext, MainThreadStep, PoolStep

THEOREM AlwaysInOrder == ParallelSpec => [](Delivered /\ InOrder)
<1>1. ParallelInit => Delivered /\ InOrder
    BY DEF ParallelInit, Delivered, Received, InOrder
<1>2. Staged /\ SyncOnly /\ (Delivered /\ InOrder) /\ [ParallelNext]_<<vars, parallelVars>>
        => (Delivered /\ InOrder)'
    BY StepInOrder DEF allVars
<1>3. QED
    BY <1>1, <1>2, AlwaysStaged, AlwaysSyncOnly, PTL DEF ParallelSpec

(* The main thread leaves the event phase only with an empty channel, and then *)
(* every command sent was applied.                                             *)
THEOREM CommandsAreAlwaysApplied == ParallelSpec => []CommandsAreApplied
<1>1. Staged /\ Delivered => CommandsAreApplied
    <2> SUFFICES ASSUME Staged, Delivered, ~InEventLoop
                 PROVE  applied = sent
        BY DEF CommandsAreApplied
    <2>1. stage = "sync"
        BY DEF Staged, InEventPhase, InEventLoop
    <2>2. channel = <<>> /\ Received = {}
        BY <2>1 DEF Delivered, Received
    <2>3. QED
        BY <2>2 DEF Delivered
<1>2. QED
    BY <1>1, AlwaysStaged, AlwaysInOrder, PTL

(* However the workers' sends interleave, the commands of one event are applied *)
(* in the order in which it sent them.                                          *)
THEOREM CommandsAreAlwaysInOrder == ParallelSpec => []CommandsInOrder
<1>1. Delivered /\ InOrder => CommandsInOrder
    <2> SUFFICES ASSUME Delivered, InOrder, NEW command \in applied,
                        NEW n \in 0 .. command.nth
                 PROVE  [event_id |-> command.event_id, nth |-> n] \in applied
        BY DEF CommandsInOrder
    <2>1. command \in Commands /\ command.nth \in Nat
        BY DEF Delivered, Commands
    <2>2. CASE n < command.nth
        BY <2>1, <2>2 DEF InOrder, Command
    <2>3. CASE n = command.nth
        BY <2>1, <2>3 DEF Commands
    <2>4. QED
        BY <2>1, <2>2, <2>3
<1>2. QED
    BY <1>1, AlwaysInOrder, PTL

(***************************************************************************)
(* Refinement.  The runner's own steps are steps of the list that keeps    *)
(* every priority in order, and so of one that keeps fewer.  A worker may  *)
(* take any event it was given: nothing it overtakes is of a priority that *)
(* is kept in order, since what is left on the heaps is due later or newer.*)
(***************************************************************************)
LEMMA FewerInOrder ==
    ASSUME TypeOK, parallel_events = {}, parallel_events' = {}, ListStep
    PROVE  ParallelList!ListNext \/ UNCHANGED ParallelList!listVars
<1>1. Unhandled = AllEvents /\ Unhandled' = AllEvents'
    BY DEF Unhandled
<1>2. CASE UNCHANGED List!listVars
    BY <1>1, <1>2 DEF List!listVars, ParallelList!listVars
<1>3. ASSUME NEW at \in Time, NEW rank \in Priorities, List!Issue(at, rank)
      PROVE  ParallelList!ListNext
    <2>1. ParallelList!Issue(at, rank)
        BY <1>1, <1>3 DEF List!Issue, ParallelList!Issue
    <2>2. QED
        BY <2>1 DEF ParallelList!ListNext
<1>4. ASSUME NEW e \in AllEvents, List!Execute(e)
      PROVE  ParallelList!ListNext
    <2>1. ParallelList!MayBeExecuted(e)
        BY <1>1, <1>4 DEF List!Execute, List!MayBeExecuted, ParallelList!MayBeExecuted
    <2>2. ParallelList!Execute(e)
        BY <1>1, <1>4, <2>1 DEF List!Execute, ParallelList!Execute
    <2>3. QED
        BY <1>1, <2>2 DEF ParallelList!ListNext
<1>5. ASSUME NEW events \in SUBSET AllEvents, List!Drop(events)
      PROVE  ParallelList!ListNext
    <2>1. ParallelList!Drop(events)
        BY <1>1, <1>5 DEF List!Drop, ParallelList!Drop
    <2>2. QED
        BY <1>1, <2>1 DEF ParallelList!ListNext
<1>6. ASSUME NEW time \in Time, List!Advance(time)
      PROVE  ParallelList!ListNext
    <2>1. ParallelList!Advance(time)
        BY <1>1, <1>6 DEF List!Advance, ParallelList!Advance
    <2>2. QED
        BY <2>1 DEF ParallelList!ListNext
<1>7. QED
    BY <1>2, <1>3, <1>4, <1>5, <1>6 DEF ListStep, List!ListNext

(* `handle_event_parallel` *)
LEMMA WorkExecutes ==
    ASSUME Staged, Parallel, SyncOnly, NEW event \in parallel_events, BeginWork(event)
    PROVE  ParallelList!ListNext
<1>1. /\ phase = "event_phase" /\ event_batch = {}
      /\ parallel_events' = parallel_events \ {event}
      /\ handled' = handled \cup {event.event_id}
      /\ UNCHANGED <<schedulerVars, tick_status, event_batch, dropped>>
    BY DEF BeginWork, Staged
<1>2. Unhandled = event_ready \cup event_pending \cup parallel_events
    BY <1>1 DEF Unhandled, AllEvents
<1>3. Conserves(event_ready, event_pending, parallel_events, handled, dropped, next_event_id)
    <2>1. event_batch \cup parallel_events = parallel_events
        BY <1>1
    <2>2. QED
        BY <2>1 DEF Parallel, Kept
<1>4. Unhandled' = Unhandled \ {event}
    <2>1. Unhandled' = event_ready \cup event_pending \cup (parallel_events \ {event})
        BY <1>1 DEF Unhandled, AllEvents
    <2>2. event \notin event_ready \cup event_pending
        BY <1>3 DEF Conserves
    <2>3. QED
        BY <1>2, <2>1, <2>2
<1>5. event.event_id \notin handled \cup dropped
    BY <1>3 DEF Conserves, IdsOf
<1>6. ASSUME NEW f \in Unhandled, f.scheduled_at = now, f.event_id < event.event_id,
             f.priority \in {p \in Priorities : p >= SyncPriorityThreshold}
      PROVE  FALSE
    <2>1. f \in ScheduledEvents
        BY <1>2 DEF Parallel, TypeOK, SchedulerTypeOK, WorkIsDue
    <2>2. f \notin event_ready
        BY <1>1, <1>6 DEF Parallel, Ordered, Handling
    <2>3. f \notin event_pending
        <3>1. event.event_id < step_first_id /\ event.event_id \in Nat /\ step_first_id \in Nat
            BY DEF Parallel, WorkIsDue, ScheduledEvents, TypeOK
        <3>2. f.event_id \in Nat
            BY <2>1 DEF ScheduledEvents
        <3>3. f \in event_pending => f.event_id >= step_first_id
            BY <1>1 DEF Parallel, Ordered, Stepping
        <3>4. QED
            BY <1>6, <3>1, <3>2, <3>3
    <2>4. f.priority < SyncPriorityThreshold
        BY <1>2, <2>2, <2>3 DEF SyncOnly, SyncStaysOnMainThread
    <2>5. f.priority \in Nat
        BY <1>6, PrioritiesAssumption
    <2>6. QED
        BY <1>6, <2>4, <2>5, ParallelAssumption
<1>7. ParallelList!MayBeExecuted(event)
    BY <1>6 DEF ParallelList!MayBeExecuted, Parallel, WorkIsDue
<1>8. ParallelList!Execute(event)
    BY <1>1, <1>4, <1>5, <1>7 DEF ParallelList!Execute, now
<1>9. event \in Unhandled
    BY <1>2
<1>10. QED
    BY <1>8, <1>9 DEF ParallelList!ListNext

LEMMA StepListed ==
    ASSUME Staged, Parallel, SyncOnly, [ParallelNext]_allVars
    PROVE  [ParallelList!ListNext]_ParallelList!listVars
<1>1. CASE RunnersOwn
    <2>1. Conserved
        BY <1>1, KeptIsConserved DEF Parallel, RunnersOwn
    <2>2. ListStep
        <3>1. CASE UNCHANGED vars
            BY <3>1, Silent DEF eventVars, ListStep
        <3>2. CASE Next
            BY <2>1, <3>2, UserListed, RunnerListed DEF Next, Parallel
        <3>3. QED
            BY <1>1, <3>1, <3>2 DEF RunnersOwn
    <2>3. QED
        BY <1>1, <2>2, FewerInOrder DEF RunnersOwn, Parallel
<1>2. CASE StartWorkers
    <2>1. /\ parallel_events = {} /\ event_batch' = {} /\ parallel_events' = event_batch
          /\ UNCHANGED <<schedulerVars, tick_status, handled, dropped>>
        BY <1>2 DEF StartWorkers, TakeAll, Staged
    <2>2. Unhandled' = Unhandled
        BY <2>1 DEF Unhandled, AllEvents
    <2>3. QED
        BY <2>1, <2>2 DEF ParallelList!listVars, now
<1>3. CASE ApplyCommand \/ QuietlyParallel
    <2>1. UNCHANGED <<schedulerVars, tick_status, event_batch, parallel_events, handled, dropped>>
        BY <1>3 DEF ApplyCommand, QuietlyParallel
    <2>2. QED
        BY <2>1 DEF ParallelList!listVars, Unhandled, AllEvents, now
<1>4. QED
    BY <1>1, <1>2, <1>3, WaysToStep, WorkExecutes

(* To its user the ParallelRunner is an event list that keeps the priorities    *)
(* from the threshold on in order, whatever the number of workers, their        *)
(* interleaving and what the commands do.                                       *)
THEOREM ParallelImplementsEventList == ParallelSpec => ImplementsParallelList
<1>1. ParallelInit => ParallelList!ListInit
    BY DEF ParallelInit, Init, SchedulerInit, ParallelList!ListInit, Unhandled, AllEvents,
           InitialTickStatus, TickStatus, now
<1>2. Staged /\ Parallel /\ SyncOnly /\ [ParallelNext]_<<vars, parallelVars>>
        => [ParallelList!ListNext]_ParallelList!listVars
    BY StepListed DEF allVars
<1>3. QED
    BY <1>1, <1>2, AlwaysStaged, AlwaysParallel, AlwaysSyncOnly, PTL
       DEF ParallelSpec, ImplementsParallelList, ParallelList!ListSpec
==============================================================================
