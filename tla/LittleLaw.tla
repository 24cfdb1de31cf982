------------------------------- MODULE LittleLaw -------------------------------
(***************************************************************************)
(* The M/M/1 queue of examples/little_law.rs.  A sampled duration is any of *)
(* the few given ones, and the run is shorter: limit_time, which is also    *)
(* simulation_end_ticks, is EndTicks.  The batch of runs is one run per     *)
(* behaviour.  Rates are left out: both sides of the law are multiplied by  *)
(* total_ticks, which makes them numbers.                                   *)
(***************************************************************************)
EXTENDS UserCode, Sums

CONSTANTS EndTicks,
          ArrivalDurations,   \* what arrival_sampler may yield, to_duration
          ServiceDurations    \* the same of service_sampler

ASSUME LittleLawAssumption ==
    /\ EndTicks \in Nat
    /\ ArrivalDurations \subseteq Nat /\ ServiceDurations \subseteq Nat

Arrival == "Arrival"
Departure == "Departure"

(* A customer is its arrival_time. *)
EmptyQueue ==
    [queue |-> <<>>, total_stay_duration |-> 0, total_served_customers |-> 0,
     time_weighted_queue_length |-> 0, last_event_time |-> 0]

UpdateStatistics_ForgetsTheTime(model, current_time) ==
    [model EXCEPT !.time_weighted_queue_length =
                      @ + Len(model.queue) * (current_time - model.last_event_time)]

(* `update_statistics`. *)
UpdateStatistics(model, current_time) ==
    IF current_time < model.last_event_time
    THEN model
    ELSE [model EXCEPT
             !.time_weighted_queue_length =
                 @ + Len(model.queue) * (current_time - model.last_event_time),
             !.last_event_time = current_time]

ServesFor(duration) == Schedules(duration, MinimumPriority, Departure)
ArrivesAfter(duration) == Schedules(duration, MinimumPriority, Arrival)

(* The first customer in the queue is the one being served. *)
CustomerArrives(model, now) ==
    LET next == [model EXCEPT !.queue = Append(@, now)]
        starts == IF model.queue = <<>>
                  THEN {<<ServesFor(service)>> : service \in ServiceDurations} ELSE {<<>>}
    IN  UNION {{Reaction(next, calls \o <<ArrivesAfter(arrival)>>) :
                    arrival \in ArrivalDurations} : calls \in starts}

CustomerDeparts(model, now) ==
    LET left == IF model.queue = <<>> THEN model ELSE
                    [model EXCEPT !.queue = Tail(@),
                                  !.total_stay_duration = @ + (now - Head(model.queue)),
                                  !.total_served_customers = @ + 1]
    IN  IF left.queue = <<>>
        THEN {Reaction(left, <<>>)}
        ELSE {Reaction(left, <<ServesFor(service)>>) : service \in ServiceDurations}

LittleHandleEvent(model, event, now) ==
    IF now > EndTicks
    THEN {Reaction(model, <<>>)}
    ELSE LET counted == UpdateStatistics(model, now)
         IN  IF event = Arrival THEN CustomerArrives(counted, now)
             ELSE CustomerDeparts(counted, now)

(***************************************************************************)
(* What main computes of the model at end_time.                            *)
(***************************************************************************)
FinalModel(model, end_time) ==
    IF model.last_event_time < end_time THEN UpdateStatistics(model, end_time) ELSE model

(* total_stay_ticks: those still in the queue have stayed until end_time. *)
TotalStayTicks(model, end_time) ==
    model.total_stay_duration +
    Total([k \in DOMAIN model.queue |-> end_time - model.queue[k]])
==============================================================================
