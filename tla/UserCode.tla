------------------------------- MODULE UserCode -------------------------------
(***************************************************************************)
(* What the code of a user does when it is called back: the calls it makes  *)
(* on its context, in turn, the last one being what it returns, and what    *)
(* becomes of its model.  A source and an event are what user code made of  *)
(* them, and are read by nobody else.                                       *)
(***************************************************************************)
EXTENDS Integers, Sequences

Schedules(delay, priority, payload) ==
    [call |-> "schedule_event", delay |-> delay, priority |-> priority, payload |-> payload]
AddsSource(source) == [call |-> "add_source", source |-> source]

(* The filter of a cancellation: scheduled_at is one of times. *)
CancelsEvents(times) == [call |-> "cancel_scheduled_events", times |-> times]
CancelsSources(times) == [call |-> "cancel_scheduled_sources", times |-> times]

(* `on_registered` and `fire` return an Option of a duration. *)
Returns(delay) == [call |-> "return", delay |-> delay]

(* A handler: the model it leaves and the calls it makes. *)
Reaction(model, calls) == [model |-> model, calls |-> calls]

(* What is seen of a run: a call of a hook or of user code, and its numbers. *)
Seen(when, what, numbers) == <<when, what, numbers>>

(* `EventPriority::minimum()`. *)
MinimumPriority == 0

(***************************************************************************)
(* The user code of the crate's tests.  A source is told by its two delays  *)
(* and by what it schedules, an event by what its handler does.             *)
(***************************************************************************)
TestSource(initial_delay, interval_delay, on_registered, on_fire) ==
    [initial |-> initial_delay, interval |-> interval_delay,
     registered |-> on_registered, fired |-> on_fire]

(* handles: the calls of `handle_event`; sends and applies: whether            *)
(* `handle_event_parallel` sends a command, and the calls of `apply_command`.  *)
TestEvent(handles, sends, applies) ==
    [handles |-> handles, sends |-> sends, applies |-> applies]

EventA == TestEvent(<<>>, FALSE, <<>>)   \* handled by counting it
ParallelTarget == TestEvent(<<>>, TRUE, <<>>)

(* The TestModel of the runners' tests: event_count, and how many commands were *)
(* applied.                                                                      *)
NoneCounted == [events |-> 0, commands |-> 0]

TestOnRegistered(source) == source.registered \o <<Returns(source.initial)>>
TestFire(source) == source.fired \o <<Returns(source.interval)>>
TestHandleEvent(model, event) ==
    {Reaction([model EXCEPT !.events = @ + 1], event.handles)}
TestApplyCommand(model, event) ==
    {Reaction([model EXCEPT !.commands = @ + 1], event.applies)}
==============================================================================
