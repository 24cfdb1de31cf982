------------------------------- MODULE EventList -------------------------------
(***************************************************************************)
(* What a discrete-event simulator promises its user, with no heaps, no    *)
(* micro-steps and no phases: a clock, an agenda of events, and the two    *)
(* ways an event leaves it.                                                *)
(*                                                                         *)
(*   - time never goes back, and never passes an event on the agenda;      *)
(*   - an event is executed at its own time, after every older event of    *)
(*     that time whose priority is not lower (unless that priority is one  *)
(*     of those a parallel runner does not keep in order);                 *)
(*   - an event is executed or dropped, once, and never both.              *)
(*                                                                         *)
(* This is the contract the README of the crate states: ticks, priorities  *)
(* and the stable order of ScheduledEvent.                                 *)
(***************************************************************************)
EXTENDS Naturals

CONSTANTS Times, Ranks,   \* the times and the priorities in use
          OrderedRanks    \* the priorities whose events are executed in order

VARIABLES clock,
          agenda,    \* the events still to come
          issued,    \* how many ids were given out
          executed,  \* ids
          discarded  \* ids

listVars == <<clock, agenda, issued, executed, discarded>>

ListInit ==
    /\ clock = 0
    /\ agenda = {}
    /\ issued = 0
    /\ executed = {}
    /\ discarded = {}

(* A new event is due now or later. *)
Issue(at, rank) ==
    /\ at >= clock
    /\ agenda' = agenda \cup {[event_id |-> issued, scheduled_at |-> at, priority |-> rank]}
    /\ issued' = issued + 1
    /\ UNCHANGED <<clock, executed, discarded>>

MayBeExecuted(e) ==
    /\ e.scheduled_at = clock
    /\ \A f \in agenda :
          /\ f.scheduled_at = clock
          /\ f.event_id < e.event_id
          /\ f.priority \in OrderedRanks
          => f.priority < e.priority

Execute(e) ==
    /\ MayBeExecuted(e)
    /\ agenda' = agenda \ {e}
    /\ executed' = executed \cup {e.event_id}
    /\ e.event_id \notin executed \cup discarded
    /\ UNCHANGED <<clock, issued, discarded>>

(* Cancelling and discarding look alike from outside. *)
Drop(events) ==
    /\ agenda' = agenda \ events
    /\ discarded' = discarded \cup {e.event_id : e \in events}
    /\ \A e \in events : e.event_id \notin executed \cup discarded
    /\ UNCHANGED <<clock, issued, executed>>

Advance(time) ==
    /\ time > clock
    /\ \A e \in agenda : e.scheduled_at >= time
    /\ clock' = time
    /\ UNCHANGED <<agenda, issued, executed, discarded>>

ListNext ==
    \/ \E at \in Times, rank \in Ranks : Issue(at, rank)
    \/ \E e \in agenda : Execute(e)
    \/ \E events \in SUBSET agenda : Drop(events)
    \/ \E time \in Times : Advance(time)

ListSpec == ListInit /\ [][ListNext]_listVars
==============================================================================
