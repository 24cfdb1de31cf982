---------------------------- MODULE SourceHandler ----------------------------
(***************************************************************************)
(* `SourceHandler` of source_handler.rs: the registry of sources, the two  *)
(* heaps of scheduled sources and the counter source ids are drawn from.   *)
(*                                                                         *)
(* A source is known by its index in the registry; its name and its        *)
(* implementation are left out.  `get_by_source_id(id)` is registry[id],   *)
(* so a scheduled id stands for the source at that index.  asked_by is a   *)
(* history field the code does not keep: the index of the source whose     *)
(* `on_registered` or `fire` returned the delay of the entry.              *)
(***************************************************************************)
EXTENDS ScheduledQueue

CONSTANT MaxSources  \* bound on the sources a run registers

ASSUME MaxSourcesAssumption == MaxSources \in Nat

VARIABLES source_registry,  \* source_registry.len()
          next_source_id,
          source_ready,     \* ready_queue
          source_pending    \* pending_queue

sourceVars == <<source_registry, next_source_id, source_ready, source_pending>>

(* `ScheduledSource`. *)
ScheduledSources == [scheduled_at : Time, source_id : Nat, asked_by : Nat]

SourceTypeOK ==
    /\ source_registry \in Nat
    /\ next_source_id \in Nat
    /\ source_ready \in SUBSET ScheduledSources
    /\ source_pending \in SUBSET ScheduledSources

SourceInit ==
    /\ source_registry = 0
    /\ next_source_id = 0
    /\ source_ready = {}
    /\ source_pending = {}

(* The derived `Ord` of `ScheduledSource`. *)
SourceBefore(s, t) ==
    \/ s.scheduled_at < t.scheduled_at
    \/ s.scheduled_at = t.scheduled_at /\ s.source_id < t.source_id

IsFrontSource(s, sources) == s \in sources /\ \A t \in sources \ {s} : SourceBefore(s, t)

(* `add_source_for_before_simulation`. *)
AddSourceForBeforeSimulation ==
    /\ source_registry' = source_registry + 1
    /\ UNCHANGED <<next_source_id, source_ready, source_pending>>

PushInitial_ForgetsToCount(slot, now, delay) ==
    /\ source_pending' = source_pending \cup
          {[scheduled_at |-> now + d, source_id |-> next_source_id, asked_by |-> slot] :
              d \in delay}
    /\ UNCHANGED next_source_id

(* What `initialize_sources` and `add_source_after_registered_action` do with *)
(* the Option<Duration> an `on_registered` returned: the next source id is    *)
(* used up only when there is a delay.                                        *)
PushInitial(slot, now, delay) ==
    /\ source_pending' = source_pending \cup
          {[scheduled_at |-> now + d, source_id |-> next_source_id, asked_by |-> slot] :
              d \in delay}
    /\ next_source_id' = IF delay = {} THEN next_source_id ELSE next_source_id + 1

(* One round of the loop in `initialize_sources`. *)
InitializeSource(slot, delay) ==
    /\ PushInitial(slot, 0, delay)
    /\ UNCHANGED <<source_registry, source_ready>>

(* `add_source_after_registered_action`. *)
AddSourceAfterRegisteredAction(now, delay) ==
    /\ source_registry' = source_registry + 1
    /\ PushInitial(source_registry, now, delay)
    /\ UNCHANGED source_ready

(* `schedule_next`, called when the Option<Duration> `fire` returned is not None. *)
ScheduleNextSource(now, delay, source_id) ==
    /\ source_pending' = source_pending \cup
          {[scheduled_at |-> now + d, source_id |-> source_id, asked_by |-> source_id] :
              d \in delay}
    /\ UNCHANGED <<source_registry, next_source_id, source_ready>>

(* `drain_ready`, once its assertion held: the caller takes DueAt(source_ready, now). *)
DrainReadySources(now) ==
    /\ source_ready' = source_ready \ DueAt(source_ready, now)
    /\ UNCHANGED <<source_registry, next_source_id, source_pending>>

(* `drain_cancel_scheduled`: any entries of the two heaps. *)
DrainCancelScheduledSources(cancelled) ==
    /\ source_pending' = source_pending \ cancelled
    /\ source_ready' = source_ready \ cancelled
    /\ UNCHANGED <<source_registry, next_source_id>>

(* `flush_pending`. *)
FlushPendingSources ==
    /\ source_ready' = source_ready \cup source_pending
    /\ source_pending' = {}
    /\ UNCHANGED <<source_registry, next_source_id>>
==============================================================================
