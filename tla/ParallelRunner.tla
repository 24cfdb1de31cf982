----------------------------- MODULE ParallelRunner -----------------------------
(***************************************************************************)
(* `ParallelRunner` of execution/runner/instance/parallel.rs: the loop of  *)
(* the StandardRunner with another event phase.                            *)
(*                                                                         *)
(* Events at or above the threshold are handled on the main thread, from   *)
(* the front of the queue.  At the first one below it the whole rest of    *)
(* the queue goes to rayon's pool.  The workers share the model, which     *)
(* they cannot change, and have no context; they send commands through an  *)
(* mpsc channel.  When all have returned, the main thread applies the      *)
(* commands in the order of the channel, with the context of the phase.    *)
(*                                                                         *)
(* `apply_command` may do whatever a handler may, so while it is open the  *)
(* phase is "handling", as for `handle_event`.                             *)
(***************************************************************************)
EXTENDS Simulation, Sequences, FiniteSets

CONSTANTS SyncPriorityThreshold,
          Workers,      \* the threads of rayon's pool
          MaxCommands   \* bound on the commands one event sends

ASSUME ParallelAssumption ==
    /\ SyncPriorityThreshold \in Nat
    /\ Workers \in Nat \ {0}
    /\ MaxCommands \in Nat

VARIABLES stage,            \* where the event phase is: "sync", "working" or "applying"
          parallel_events,  \* taken off the queue, and not yet picked up by a worker
          working,          \* the open calls of `handle_event_parallel`
          channel,          \* what the receiver has not seen yet
          sent, applied     \* history: the commands sent, and those applied

channelVars == <<channel, sent, applied>>
parallelVars == <<stage, parallel_events, working, channelVars>>

(* An open call and how many commands it has sent; a command is told by the *)
(* event that sent it and its number.                                       *)
Calls == [event : ScheduledEvents, sends : 0 .. MaxCommands]
Commands == [event_id : Nat, nth : Nat]

ParallelInit ==
    /\ Init
    /\ stage = "sync"
    /\ parallel_events = {}
    /\ working = {}
    /\ channel = <<>> /\ sent = {} /\ applied = {}

IsSync_AboveOnly(event) == event.priority > SyncPriorityThreshold

(* The predicate given to `take_front_if`. *)
IsSync(event) == event.priority >= SyncPriorityThreshold

(* `take_front_if` yields an event: it is handled in line. *)
HandleSynchronously(event) ==
    /\ stage = "sync"
    /\ IsSync(event)
    /\ HandleEvent(event)
    /\ UNCHANGED parallelVars

TakeAll_LeavesThem == UNCHANGED event_batch

(* `take_all` of EventPhase. *)
TakeAll == event_batch' = {}

(* `take_front_if` yields nothing: the rest of the queue, which may be empty, *)
(* is handed to the pool.                                                     *)
StartWorkers ==
    /\ phase = "event_phase"
    /\ stage = "sync"
    /\ \A event \in event_batch : IsFront(event, event_batch) => ~IsSync(event)
    /\ TakeAll
    /\ parallel_events' = event_batch
    /\ stage' = "working"
    /\ UNCHANGED <<schedulerVars, sourceVars, phase, executorVars, reg_slot, source_batch,
                   firing_source, runnerVars, historyVars, working, channelVars>>

(* A worker picks up any event and enters `handle_event_parallel`. *)
BeginWork(event) ==
    /\ stage = "working"
    /\ Cardinality(working) < Workers
    /\ parallel_events' = parallel_events \ {event}
    /\ working' = working \cup {[event |-> event, sends |-> 0]}
    /\ handled' = handled \cup {event.event_id}
    /\ UNCHANGED <<schedulerVars, sourceVars, phase, executorVars, reg_slot, batchVars,
                   runnerVars, dropped, tick_first_id, step_first_id, stage, channelVars>>

Enqueue_AtTheFront(queue, command) == <<command>> \o queue

(* A channel keeps the order of what it is sent. *)
Enqueue(queue, command) == Append(queue, command)

(* `sender.send(command)` of a worker. *)
SendCommand(call) ==
    LET command == [event_id |-> call.event.event_id, nth |-> call.sends]
    IN  /\ stage = "working"
        /\ call.sends < MaxCommands
        /\ working' = (working \ {call}) \cup {[call EXCEPT !.sends = @ + 1]}
        /\ channel' = Enqueue(channel, command)
        /\ sent' = sent \cup {command}
        /\ UNCHANGED <<vars, stage, parallel_events, applied>>

(* `handle_event_parallel` returns. *)
FinishWork(call) ==
    /\ stage = "working"
    /\ working' = working \ {call}
    /\ UNCHANGED <<vars, stage, parallel_events, channelVars>>

WorkIsDone_AllPickedUp == parallel_events = {}

(* `for_each_with` returns once every event was handled. *)
WorkIsDone == parallel_events = {} /\ working = {}

JoinWorkers ==
    /\ stage = "working"
    /\ WorkIsDone
    /\ stage' = "applying"
    /\ UNCHANGED <<vars, parallel_events, working, channelVars>>

(* `try_recv` yields a command: enter `apply_command`. *)
ApplyCommand ==
    /\ phase = "event_phase"
    /\ stage = "applying"
    /\ channel # <<>>
    /\ channel' = Tail(channel)
    /\ applied' = applied \cup {Head(channel)}
    /\ phase' = "handling"
    /\ UNCHANGED <<schedulerVars, sourceVars, executorVars, reg_slot, batchVars, runnerVars,
                   historyVars, stage, parallel_events, working, sent>>

NothingReceived_AfterOne == channel = <<>> \/ applied # {}

(* `try_recv` yields nothing. *)
NothingReceived == channel = <<>>

(* The loop over the commands ends, and the event phase with it. *)
CompleteEventPhase ==
    /\ stage = "applying"
    /\ NothingReceived
    /\ EndMicroStep
    /\ stage' = "sync"
    /\ channel' = <<>>   \* the receiver is dropped
    /\ UNCHANGED <<parallel_events, working, sent, applied>>

(* Everything outside the event phase is as in the StandardRunner. *)
SharedStep ==
    /\ phase # "event_phase"
    /\ RunnerStep
    /\ UNCHANGED parallelVars

MainThreadStep ==
    \/ SharedStep
    \/ \E event \in event_batch : HandleSynchronously(event)
    \/ StartWorkers
    \/ JoinWorkers
    \/ ApplyCommand
    \/ CompleteEventPhase

UserStep == (Configure \/ UserOperation) /\ UNCHANGED parallelVars
UserReturnStep == UserReturn /\ UNCHANGED parallelVars

PoolStep ==
    \/ \E event \in parallel_events : BeginWork(event)
    \/ \E call \in working : FinishWork(call)

ParallelNext ==
    \/ MainThreadStep
    \/ UserStep
    \/ UserReturnStep
    \/ PoolStep
    \/ \E call \in working : SendCommand(call)

ParallelSpec == ParallelInit /\ [][ParallelNext]_<<vars, parallelVars>>

(* Neither thread is held up, and user code returns on both. *)
FairParallelSpec ==
    /\ ParallelSpec
    /\ WF_<<vars, parallelVars>>(MainThreadStep)
    /\ WF_<<vars, parallelVars>>(UserReturnStep)
    /\ WF_<<vars, parallelVars>>(PoolStep)
==============================================================================
