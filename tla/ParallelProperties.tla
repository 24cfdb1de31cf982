--------------------------- MODULE ParallelProperties ---------------------------
(***************************************************************************)
(* What a run of the ParallelRunner promises.                              *)
(***************************************************************************)
EXTENDS ParallelRunner, SimulationProperties

Unhandled == AllEvents \cup parallel_events
InEventLoop == phase \in {"event_phase", "handling", "adding", "panicked"}

(* Every variable has the type of the Rust value it stands for. *)
ParallelTypeOK ==
    /\ TypeOK
    /\ stage \in {"sync", "working", "applying"}
    /\ parallel_events \in SUBSET ScheduledEvents
    /\ working \in SUBSET Calls
    /\ channel \in Seq(Commands)
    /\ sent \in SUBSET Commands
    /\ applied \in SUBSET Commands

(* Every event ever scheduled is in one place, and each is given to the     *)
(* model once, whether by the main thread or by a worker.                   *)
ParallelEventsAreConserved ==
    /\ IdsOf(Unhandled) \cup handled \cup dropped = 0 .. next_event_id - 1
    /\ IdsOf(Unhandled) \cap (handled \cup dropped) = {}
    /\ handled \cap dropped = {}
    /\ \A e, f \in Unhandled : e.event_id = f.event_id => e = f
    /\ parallel_events \cap AllEvents = {}

(* The doc of sync_priority_threshold: events at or above it never reach a  *)
(* worker, so what they do is in order.                                     *)
SyncStaysOnMainThread ==
    \A e \in parallel_events \cup {call.event : call \in working} :
        e.priority < SyncPriorityThreshold

(* While a worker reads the model the main thread changes nothing: no        *)
(* handler, no command and no other phase runs.                             *)
ModelIsShared == working # {} => phase = "event_phase" /\ stage = "working"

(* No command is lost: when the event phase of a micro-step is over, all    *)
(* that were sent in it have been applied.                                  *)
CommandsAreApplied == ~InEventLoop => applied = sent

(* The commands of one event are applied in the order it sent them. *)
CommandsInOrder ==
    \A command \in applied : \A n \in 0 .. command.nth :
        [event_id |-> command.event_id, nth |-> n] \in applied

(* Every command sent is applied in the end, or the run panics. *)
CommandsGetApplied == sent # applied ~> (sent = applied \/ phase = "panicked")

(* The events of a run are those of an EventList that keeps the priorities  *)
(* from the threshold on in order, and the others in any.                   *)
ParallelList == INSTANCE EventList WITH
                    Times <- Time, Ranks <- Priorities,
                    OrderedRanks <- {p \in Priorities : p >= SyncPriorityThreshold},
                    clock <- now, agenda <- Unhandled, issued <- next_event_id,
                    executed <- handled, discarded <- dropped
ImplementsParallelList == ParallelList!ListSpec
==============================================================================
