---------------------------- MODULE EventScheduler ----------------------------
(***************************************************************************)
(* `EventScheduler` of event_scheduler.rs: the two heaps of scheduled      *)
(* events and the counter event ids are drawn from.                        *)
(*                                                                         *)
(* A heap is the set of its entries.  Ids are unique, so no two entries    *)
(* are equal, and popping the heap means removing the entry every other    *)
(* entry comes after.  `drain_ready` and `drain_cancel_scheduled` hand out *)
(* sorted queues; here they are sets whose front is found with IsFront.    *)
(* Payloads are left out: nothing in the scheduler looks at them.          *)
(***************************************************************************)
EXTENDS ScheduledQueue

CONSTANTS Priorities,  \* the `EventPriority` values in use, a u8 in the code
          MaxEvents    \* bound on the events a run schedules

ASSUME PrioritiesAssumption == Priorities \subseteq Nat
ASSUME MaxEventsAssumption == MaxEvents \in Nat

VARIABLES event_ready,    \* ready_queue: events a drain may hand out
          event_pending,  \* pending_queue: events scheduled since the last flush
          next_event_id

schedulerVars == <<event_ready, event_pending, next_event_id>>

(* `ScheduledEvent`, with the id and the priority of its `Event`. *)
ScheduledEvents == [event_id : Nat, scheduled_at : Time, priority : Priorities]

SchedulerTypeOK ==
    /\ event_ready \in SUBSET ScheduledEvents
    /\ event_pending \in SUBSET ScheduledEvents
    /\ next_event_id \in Nat

SchedulerInit ==
    /\ event_ready = {}
    /\ event_pending = {}
    /\ next_event_id = 0

Before_LowPriorityFirst(e, f) ==
    \/ e.scheduled_at < f.scheduled_at
    \/ /\ e.scheduled_at = f.scheduled_at
       /\ \/ e.priority < f.priority
          \/ e.priority = f.priority /\ e.event_id < f.event_id

(* `Ord for ScheduledEvent`: earlier first, then higher priority, then older. *)
Before(e, f) ==
    \/ e.scheduled_at < f.scheduled_at
    \/ /\ e.scheduled_at = f.scheduled_at
       /\ \/ e.priority > f.priority
          \/ e.priority = f.priority /\ e.event_id < f.event_id

IsFront(e, events) == e \in events /\ \A f \in events \ {e} : Before(e, f)

Schedule_StraightToReady(now, delay, priority) ==
    /\ event_ready' = event_ready \cup
          {[event_id |-> next_event_id, scheduled_at |-> now + delay, priority |-> priority]}
    /\ next_event_id' = next_event_id + 1
    /\ UNCHANGED event_pending

(* `schedule`: the caller has ruled out that now + delay overflows. *)
Schedule(now, delay, priority) ==
    /\ event_pending' = event_pending \cup
          {[event_id |-> next_event_id, scheduled_at |-> now + delay, priority |-> priority]}
    /\ next_event_id' = next_event_id + 1
    /\ UNCHANGED event_ready

DrainReadyEvents_LeavesThem(now) ==
    UNCHANGED schedulerVars

(* `drain_ready`, once its assertion held: the caller takes DueAt(event_ready, now). *)
DrainReadyEvents(now) ==
    /\ event_ready' = event_ready \ DueAt(event_ready, now)
    /\ UNCHANGED <<event_pending, next_event_id>>

(* `drain_cancel_scheduled`: the predicate is the model's, so it may pick *)
(* any entries of the two heaps.                                          *)
DrainCancelScheduledEvents(cancelled) ==
    /\ event_pending' = event_pending \ cancelled
    /\ event_ready' = event_ready \ cancelled
    /\ UNCHANGED next_event_id

FlushPendingEvents_KeepsCopies ==
    /\ event_ready' = event_ready \cup event_pending
    /\ UNCHANGED <<event_pending, next_event_id>>

FlushPendingEvents_Skipped == UNCHANGED schedulerVars

(* `flush_pending`. *)
FlushPendingEvents ==
    /\ event_ready' = event_ready \cup event_pending
    /\ event_pending' = {}
    /\ UNCHANGED next_event_id
==============================================================================
