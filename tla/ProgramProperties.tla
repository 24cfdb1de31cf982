---------------------------- MODULE ProgramProperties ----------------------------
(***************************************************************************)
(* What whole programs are to do, and what the theorems need of the         *)
(* examples.                                                               *)
(***************************************************************************)
EXTENDS Programs
LOCAL INSTANCE SequencesExt

(***************************************************************************)
(* What the mains of the examples set up.                                  *)
(***************************************************************************)

(* little_law.rs schedules the first arrival, on an engine without sources. *)
LittleCalls ==
    [call : {"schedule_event"}, delay : Delays, priority : {MinimumPriority},
     payload : {Arrival, Departure}]
IsLittleProgram(example) ==
    /\ example.kind \in {"standard", "realtime"}
    /\ example.model = EmptyQueue
    /\ example.setup \in Seq(LittleCalls)

(* The servers register job generators, and run under AlwaysContinueStrategy. *)
Generators == [interval : Delays, burst : Nat]
GeneratorCalls == [call : {"add_source"}, source : Generators]
IsServerProgram(example) ==
    /\ example.kind \in {"standard", "realtime", "parallel"}
    /\ example.kind = "parallel" => MinimumPriority < SyncPriorityThreshold
    /\ example.runner.strategy = "always"
    /\ example.model = Idle
    /\ example.setup \in Seq(GeneratorCalls)

(* agent_run.rs has a car arrive per tick, the first at once, and then registers the *)
(* signal.                                                                          *)
CarArrivals(count) == [k \in 1 .. count |-> Schedules(k - 1, MinimumPriority, SpawnCar(k))]
SignalSource == "toggle signal"
IsTrafficProgram(example) ==
    /\ example.kind = "standard"
    /\ example.runner.strategy = "always" /\ example.runner.stop_rule = "any"
    /\ example.model = EmptyRoad
    /\ \E count \in Time : example.setup = CarArrivals(count) \o <<AddsSource(SignalSource)>>

(* Delays has the durations the examples pass to a context. *)
ASSUME DurationsAssumption ==
    /\ {0, ProcessingTime, ParallelProcessingTime} \cup ArrivalDurations \cup ServiceDurations
           \subseteq Delays
    /\ {TickInterval, CrossingTime, ToggleTickInterval} \subseteq Delays
    /\ MinimumPriority \in Priorities
ASSUME ExamplesAssumption ==
    \A k \in DOMAIN Programs :
        /\ Programs[k].user = "little" => IsLittleProgram(Programs[k])
        /\ Programs[k].user = "server" => IsServerProgram(Programs[k])
        /\ Programs[k].user = "traffic" => IsTrafficProgram(Programs[k])

(***************************************************************************)
(* Properties.                                                             *)
(***************************************************************************)

(* A run of a test records what the test asserts and nothing else, returns the *)
(* Ok or the Err it asserts, with the model it asserts, and does not panic.    *)
TracesAreExpected ==
    User = "test" =>
        /\ IsPrefix(trace, program.expected)
        /\ phase # "panicked"
        /\ phase = "stopped" =>
              /\ trace = program.expected
              /\ runner_error = program.fails
              /\ \A final \in program.final : model = final

(* The events that are scheduled, or with a worker, and not yet handled to the end. *)
OnTheirWay ==
    event_ready \cup event_pending \cup event_batch \cup parallel_events
    \cup {call.event : call \in working}
PayloadsOnTheirWay == {payload[e.event_id + 1] : e \in OnTheirWay}
Jobs(event) == Cardinality({e \in OnTheirWay : payload[e.event_id + 1] = event})

(* The servers of the examples never strand a job: the sequential one is busy    *)
(* exactly while one JobProcessed is on its way, and only then has a queue; when *)
(* the parallel one has a queue, something that takes from it is on its way,     *)
(* be it an event, a worker or a command, whatever the workers interleave.  A     *)
(* handler that panicked may have left its work half done.                       *)
NoJobIsStranded ==
    (User = "server" /\ phase \notin {"handling", "panicked"}) =>
        IF IsParallel
        THEN model.queue > 0 =>
                \/ PayloadsOnTheirWay \cap {JobProcessed, JobProcessNext} # {}
                \/ \E k \in DOMAIN channel : payload[channel[k].event_id + 1] # JobArrived
        ELSE /\ Jobs(JobProcessed) = IF model.is_busy THEN 1 ELSE 0
             /\ model.queue > 0 => model.is_busy

(* Little's law, as main asserts it of the finished run, times total_ticks: the *)
(* time-weighted queue length is the sum of all stays; and at the last event of  *)
(* any moment already.                                                          *)
LittlesLaw ==
    User = "little" =>
        /\ model.time_weighted_queue_length = TotalStayTicks(model, model.last_event_time)
        /\ phase = "stopped" =>
              FinalModel(model, EndTicks).time_weighted_queue_length =
                  TotalStayTicks(FinalModel(model, EndTicks), EndTicks)

(* The table agent_run.rs prints has one line per tick: between ticks, the collector *)
(* holds the ticks 0 to current_tick, jumped over or not; every car on the road has   *)
(* exactly one event on its way, which is its agent, unless a handler has panicked;   *)
(* and a run ends with all passed.                                                    *)
CarsAreDrivenAndDated ==
    User = "traffic" =>
        /\ phase \in {"peek", "stopped"} /\ peeks > 0 => collected = current_tick + 1
        /\ phase \notin {"handling", "configure", "panicked"} =>
              \A car \in DOMAIN model.cars :
                  Jobs(Resume(car)) = Cardinality({k \in DOMAIN model.lane : model.lane[k] = car})
        /\ phase = "stopped" => \A car \in DOMAIN model.cars : model.cars[car].position > 0
==============================================================================
