-------------------------------- MODULE Traffic --------------------------------
(***************************************************************************)
(* The cars of examples/agent_run.rs: each drives itself down one lane to a *)
(* signal, by a continuation that puts the step to come in front of those   *)
(* it has.  A ticket is executed once, so that the continuation is kept     *)
(* with its car; a step is its tag and its delay.  Positions are whole      *)
(* numbers of metres.                                                      *)
(***************************************************************************)
EXTENDS UserCode
LOCAL INSTANCE FiniteSetsExt

SafeDistance == 15
CarSpeed == 10
IntersectionLimit == -10
FollowDistance == 16         \* SAFE_DISTANCE + 1.5, of whole positions
TickInterval == 1
ToggleTickInterval == 15
CrossingTime == 3
SpawnPosition == -100
PassedPosition == 50

AgentStep(tag, delay) == [tag |-> tag, delay |-> delay]
ToggleSignal == [event |-> "ToggleSignal"]
SpawnCar(car) == [event |-> "SpawnCar", car |-> car]
Resume(car) == [event |-> "Resume", car |-> car]

EmptyRoad == [signal |-> "Green", cars |-> <<>>, lane |-> <<>>, steps |-> <<>>]

(* `on_registered` and `fire` of ToggleSignalSource. *)
ToggleCalls ==
    <<Schedules(ToggleTickInterval, MinimumPriority, ToggleSignal),
      Returns({ToggleTickInterval})>>

Toggled(model) ==
    [model EXCEPT !.signal = IF model.signal = "Green" THEN "Red" ELSE "Green"]

(* `create_car_scenario`: its start delay is that of a first step which runs at once. *)
CarScenario == <<AgentStep("approach_loop", 5), AgentStep("passing_executed", 1)>>

(* Cars spawn in the order of their ids, which makes functions of sequences. *)
Spawned(model, car) ==
    [model EXCEPT !.cars = Append(@, [position |-> SpawnPosition, is_stopped |-> FALSE]),
                  !.lane = Append(@, car),
                  !.steps = Append(@, CarScenario)]

(* `get_front_car`, an Option. *)
FrontCar(model, car) ==
    {model.cars[model.lane[k - 1]] : k \in {j \in 2 .. Len(model.lane) : model.lane[j] = car}}

TargetLimit(model, car) ==
    Max({IntersectionLimit} \cup {front.position - SafeDistance : front \in FrontCar(model, car)})

(* What `evaluate_approach_step` makes of the car, and of its time: the next step. *)
Directive(position, is_stopped, step) ==
    [car |-> [position |-> position, is_stopped |-> is_stopped], step |-> step]
ScheduleNextTick == AgentStep("approach_loop", TickInterval)
InterruptImmediate == AgentStep("approach_loop", 0)
SpendPhysicalTime == AgentStep("passing_execution", CrossingTime)

(* A car that stands: it starts when the signal or the car in front lets it. *)
MayStart(model, car) ==
    \/ model.cars[car].position = IntersectionLimit /\ model.signal = "Green"
    \/ \A front \in FrontCar(model, car) :
          front.position - model.cars[car].position > FollowDistance

EvaluateStanding(model, car) ==
    LET position == model.cars[car].position
    IN  IF MayStart(model, car) THEN Directive(position, FALSE, InterruptImmediate)
        ELSE Directive(position, TRUE, ScheduleNextTick)

(* A car that reaches its limit: a red signal or a jam stops it, else it crosses. *)
EvaluateAtLimit(model, car) ==
    LET limit == TargetLimit(model, car)
        red == limit = IntersectionLimit /\ model.signal = "Red"
        jam == \E front \in FrontCar(model, car) :
                   /\ front.is_stopped
                   /\ front.position - limit \in -FollowDistance .. FollowDistance
    IN  IF red \/ jam THEN Directive(limit, TRUE, ScheduleNextTick)
        ELSE Directive(limit, FALSE, SpendPhysicalTime)

EvaluateApproachStep(model, car) ==
    LET next == model.cars[car].position + CarSpeed
    IN  IF model.cars[car].is_stopped THEN EvaluateStanding(model, car)
        ELSE IF next >= TargetLimit(model, car) THEN EvaluateAtLimit(model, car)
        ELSE Directive(next, FALSE, ScheduleNextTick)

(* `dispatch_smooth_approach`, future_steps being what is left of the steps. *)
DispatchSmoothApproach(model, car, future_steps) ==
    LET directive == EvaluateApproachStep(model, car)
    IN  [model EXCEPT !.cars[car] = directive.car,
                      !.steps[car] = <<directive.step>> \o future_steps]

(* `execute_passing_step`. *)
ExecutePassingStep(model, car, future_steps) ==
    IF model.signal = "Red"
    THEN [model EXCEPT !.cars[car].is_stopped = TRUE,
                       !.steps[car] = <<InterruptImmediate>> \o future_steps]
    ELSE [model EXCEPT !.cars[car] = [position |-> PassedPosition, is_stopped |-> FALSE],
                       !.steps[car] = future_steps]

(* `retain` of all ids but one, a loop over the lane. *)
Retained(lane, car) ==
    LET kept[n \in 0 .. Len(lane)] ==
            IF n = 0 THEN <<>>
            ELSE IF lane[n] = car THEN kept[n - 1] ELSE Append(kept[n - 1], lane[n])
    IN  kept[Len(lane)]

PassingExecuted(model, car, future_steps) ==
    [model EXCEPT !.lane = Retained(@, car), !.steps[car] = future_steps]

(* `execute_and_schedule` of the car's continuation. *)
Resumed(model, car) ==
    LET step == Head(model.steps[car])
        future_steps == Tail(model.steps[car])
        left == CASE step.tag = "approach_loop" -> DispatchSmoothApproach(model, car, future_steps)
                  [] step.tag = "passing_execution" -> ExecutePassingStep(model, car, future_steps)
                  [] step.tag = "passing_executed" -> PassingExecuted(model, car, future_steps)
    IN  Reaction(left,
                 IF left.steps[car] = <<>> THEN <<>>
                 ELSE <<Schedules(Head(left.steps[car]).delay, MinimumPriority, Resume(car))>>)

TrafficHandleEvent(model, event) ==
    {CASE event.event = "ToggleSignal" -> Reaction(Toggled(model), <<>>)
       [] event.event = "SpawnCar" ->
             Reaction(Spawned(model, event.car),
                      <<Schedules(0, MinimumPriority, Resume(event.car))>>)
       [] event.event = "Resume" -> Resumed(model, event.car)}
==============================================================================
