------------------------------ MODULE ProgramSteps ------------------------------
(***************************************************************************)
(* How the programs of tests are written: the test's runner, the calls that *)
(* set its Engine up, what its hooks and sources record, how the run ends   *)
(* and what the model has counted by then.                                 *)
(***************************************************************************)
EXTENDS UserCode, MCRunners

Test(kind, runner, peeks, setup) ==
    [user |-> "test", kind |-> kind, runner |-> runner, peeks |-> peeks, setup |-> setup,
     model |-> NoneCounted, listens |-> {}, expected |-> <<>>, fails |-> FALSE, final |-> {}]

Failing(test) == [test EXCEPT !.fails = TRUE]
Counting(test, events, commands) ==
    [test EXCEPT !.final = {[events |-> events, commands |-> commands]}]
Recording(test, listens, expected) ==
    [test EXCEPT !.listens = listens, !.expected = expected]

(* `schedule_event_at` of the Engine, and its `add_source`. *)
EventAt(tick, event) == Schedules(tick, MinimumPriority, event)
PriorityEventAt(tick, priority, event) == Schedules(tick, priority, event)

(* A handler that makes calls, and events after one another in a tick: the n-th *)
(* is followed by n more.                                                        *)
Handling(calls) == TestEvent(calls, FALSE, <<>>)
Chain[n \in 0 .. 12] ==
    IF n = 0 THEN EventA ELSE Handling(<<Schedules(0, MinimumPriority, Chain[n - 1])>>)

(* should_stop as it is asked at the tick, having skipped some, with so many *)
(* events and sources ready.                                                  *)
PeekedAt(tick, skipped, events, sources) ==
    Seen("user", "peek", <<tick, skipped, events, sources>>)
Discarded(tick, step, sources, events) ==
    Seen("on", "discard_remain_micro_step", <<tick, step, sources, events>>)
ByUser(what, tick) == Seen("user", what, <<tick>>)

(* The calls of hooks in a micro-step, but for those about a source or an event. *)
MicroStepCalls(tick, step) ==
    <<Seen("before", "micro_step", <<tick, step>>),
      Seen("before", "source_phase", <<tick, step>>),
      Seen("after", "source_phase", <<tick, step>>),
      Seen("before", "event_phase", <<tick, step>>),
      Seen("after", "event_phase", <<tick, step>>),
      Seen("after", "micro_step", <<tick, step>>)>>

TickCalls(tick) ==
    <<Seen("before", "tick", <<tick, 0>>)>> \o MicroStepCalls(tick, 0) \o
    <<Seen("after", "tick", <<tick, 0>>)>>
==============================================================================
