---------------------------- MODULE AgentSimulation ----------------------------
(***************************************************************************)
(* Agents (modeling/agent.rs) in a run of Simulation: continuations that    *)
(* put themselves back into the event queue, carried by tickets.            *)
(*                                                                         *)
(* The model's handler is the one of the tests and the example: it executes *)
(* the ticket of the event, and the continuation if it got one.  Several    *)
(* events may carry one ticket, an action and its timeout for instance.     *)
(* A step's `logic` is user code: it may do what a handler may, and may     *)
(* change the steps to come.  Cancelled events are dropped by the caller.   *)
(* No sources are registered.                                              *)
(***************************************************************************)
EXTENDS Simulation, SequencesExt

CONSTANTS Agents,     \* names of the continuations users start
          MaxSteps    \* bound on the steps a continuation holds

ASSUME AgentAssumption == MaxSteps \in Nat

VARIABLES tickets,        \* the `action` of each AgentActionTicket, an Option
          payload,        \* the ticket an event carries, an Option
          future_steps,   \* of the continuations started so far
          current_event,  \* the id of the event being handled, an Option
          running,        \* whose `execute_and_schedule` is open, an Option
          due             \* history: when the next step is due, by its delay

agentVars == <<tickets, payload, future_steps, current_event, running, due>>

Steps == [delay : Delays, priority : Priorities]
StepQueues == UNION {[1 .. n -> Steps] : n \in 0 .. MaxSteps}

AgentInit ==
    /\ Init
    /\ tickets = <<>>
    /\ payload = <<>>
    /\ future_steps = [a \in {} |-> <<>>]
    /\ current_event = {} /\ running = {}
    /\ due = [a \in {} |-> 0]

(* The event scheduled next carries ticket.  Ids count from 0. *)
Carry(ticket) == payload' = IF phase' = "panicked" THEN payload ELSE Append(payload, ticket)

(* `AgentActionTicket::issue`: the ticket of the event scheduled next. *)
Issue(agent) ==
    /\ tickets' = Append(tickets, {agent})
    /\ Carry({Len(tickets) + 1})

(* `AgentContinuation::new` and `then_after`, as often as there are steps. *)
NewContinuation(agent, steps) ==
    /\ agent \notin DOMAIN future_steps
    /\ future_steps' = [a \in DOMAIN future_steps \cup {agent} |->
                           IF a = agent THEN steps ELSE future_steps[a]]

(* `schedule_event_at` of the Engine, or `schedule_event` of a handler. *)
ScheduleAny(delay, priority) ==
    \/ ScheduleEventAt(delay, priority)
    \/ phase = "handling" /\ ContextScheduleEvent(delay, priority)

(* The caller schedules the first event of a continuation.  The delay is the *)
(* caller's, not the first step's.                                          *)
StartAgent(agent, steps, delay, priority) ==
    /\ ScheduleAny(delay, priority)
    /\ NewContinuation(agent, steps)
    /\ Issue(agent)
    /\ due' = [a \in DOMAIN future_steps' |->
                  IF a = agent THEN now + delay ELSE due[a]]
    /\ UNCHANGED <<current_event, running>>

(* Another event with a ticket that exists, or an event without one. *)
ScheduleWith(ticket, delay, priority) ==
    /\ ScheduleAny(delay, priority)
    /\ Carry(ticket)
    /\ UNCHANGED <<tickets, future_steps, current_event, running, due>>

CarriedNow == UNION {payload[id + 1] : id \in current_event}

AgentHandleEvent(event) ==
    /\ HandleEvent(event)
    /\ current_event' = {event.event_id}
    /\ UNCHANGED <<tickets, payload, future_steps, running, due>>

Taken_Borrowed(ticket) == tickets

(* `AgentActionTicket::execute` takes the continuation out of the ticket. *)
Taken(ticket) == [tickets EXCEPT ![ticket] = {}]

(* `ticket.execute()` yields a continuation: `execute_and_schedule` pops its *)
(* first step, if there is one, and calls its logic.                         *)
ExecuteTicket(ticket, agent) ==
    /\ phase = "handling"
    /\ running = {}
    /\ agent \in tickets[ticket]
    /\ tickets' = Taken(ticket)
    /\ IF future_steps[agent] = <<>>
       THEN UNCHANGED <<future_steps, running>>
       ELSE /\ future_steps' = [future_steps EXCEPT ![agent] = Tail(@)]
            /\ running' = {agent}
    /\ UNCHANGED <<vars, payload, current_event, due>>

(* The logic changes the steps to come. *)
ChangeSteps(agent, steps) ==
    /\ phase = "handling"
    /\ future_steps' = [future_steps EXCEPT ![agent] = steps]
    /\ UNCHANGED <<vars, tickets, payload, current_event, running, due>>

NextStep_LastAdded(steps) == IF steps = <<>> THEN {} ELSE {Last(steps)}
NextStep_MoreThanOne(steps) == IF Len(steps) <= 1 THEN {} ELSE {Head(steps)}

(* `self.future_steps.front()`. *)
NextStep(steps) == IF steps = <<>> THEN {} ELSE {Head(steps)}

(* The logic returns: the rest of the continuation is scheduled, in a new    *)
(* ticket, with the delay and the priority of its first step.                *)
FinishStep(agent) ==
    /\ phase = "handling"
    /\ running' = {}
    /\ IF NextStep(future_steps[agent]) = {}
       THEN UNCHANGED <<vars, tickets, payload, due>>
       ELSE \E step \in NextStep(future_steps[agent]) :
               /\ ContextScheduleEvent(step.delay, step.priority)
               /\ Issue(agent)
               /\ due' = [due EXCEPT ![agent] = now + Head(future_steps[agent]).delay]
    /\ UNCHANGED <<future_steps, current_event>>

(* The handler returns, having executed the ticket. *)
AgentFinishHandleEvent ==
    /\ FinishHandleEvent
    /\ running = {}
    /\ \A ticket \in CarriedNow : tickets[ticket] = {}
    /\ current_event' = {}
    /\ UNCHANGED <<tickets, payload, future_steps, running, due>>

(* The rest of the program does not touch agents. *)
OtherStep ==
    /\ \/ BeginSimulation
       \/ FinishRegistration
       \/ StopRun
       \/ BeginTick
       \/ StartSourcePhase
       \/ StartEventPhase
       \/ EndMicroStep
       \/ ContinueMicroSteps
       \/ DiscardAtLimit
       \/ EndTickWithIncrementTick
       \/ EndTickWithJumpToNextTick
       \/ \E cancelled \in SUBSET (event_ready \cup event_pending) :
             CancelScheduledEvents(cancelled)
    /\ UNCHANGED agentVars

AgentStep ==
    \/ \E agent \in Agents, steps \in StepQueues, d \in Delays, p \in Priorities :
          StartAgent(agent, steps, d, p)
    \/ \E ticket \in Options(DOMAIN tickets), d \in Delays, p \in Priorities :
          ScheduleWith(ticket, d, p)
    \/ \E event \in event_batch : AgentHandleEvent(event)
    \/ \E ticket \in CarriedNow, agent \in Agents : ExecuteTicket(ticket, agent)
    \/ \E agent \in running, steps \in StepQueues : ChangeSteps(agent, steps)
    \/ \E agent \in running : FinishStep(agent)
    \/ AgentFinishHandleEvent

AgentNext == AgentStep \/ OtherStep

AgentSpec == AgentInit /\ [][AgentNext]_<<vars, agentVars>>
==============================================================================
