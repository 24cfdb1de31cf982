----------------------------- MODULE AgentProperties -----------------------------
(***************************************************************************)
(* What the agents of a run may rely on.                                   *)
(***************************************************************************)
EXTENDS AgentSimulation, SimulationProperties

Holding(agent) == {t \in DOMAIN tickets : agent \in tickets[t]}
Carriers(ticket) == {id \in 0 .. Len(payload) - 1 : ticket \in payload[id + 1]}
Alive == IdsOf(AllEvents) \cup current_event
HasStepsLeft(agent) == future_steps[agent] # <<>>

(* The agent's event was cancelled, or discarded by the strategy. *)
Dropped(agent) == \E t \in Holding(agent) : Carriers(t) \subseteq dropped

(* Every variable has the type of the Rust value it stands for. *)
AgentTypeOK ==
    /\ TypeOK
    /\ \A t \in DOMAIN tickets : tickets[t] \in Options(Agents)
    /\ Len(payload) = next_event_id
    /\ \A i \in DOMAIN payload : payload[i] \in Options(DOMAIN tickets)
    /\ DOMAIN future_steps \subseteq Agents /\ DOMAIN due = DOMAIN future_steps
    /\ \A a \in DOMAIN future_steps : future_steps[a] \in StepQueues /\ due[a] \in Nat
    /\ current_event \subseteq handled /\ running \in Options(Agents)

(* A continuation is in one place: in one ticket, or running, however many   *)
(* events share a ticket.  So no step runs twice, and no two at once.       *)
AgentIsInOnePlace ==
    \A agent \in DOMAIN future_steps :
        Cardinality(Holding(agent)) + Cardinality(running \cap {agent}) <= 1

(* An agent with steps left is running, or an event to come carries it, or  *)
(* all events that carried it were dropped: none is forgotten.              *)
NoAgentIsForgotten ==
    \A agent \in DOMAIN future_steps :
        HasStepsLeft(agent) =>
            \/ agent \in running
            \/ \E t \in Holding(agent) : Carriers(t) \cap Alive # {}
            \/ Dropped(agent)

(* The doc of AgentStep::delay and then_after: a step waits for its delay.   *)
(* Events that share its ticket may be earlier; but it never runs later,     *)
(* unless the event that would have been in time was dropped.               *)
StepsAreNeverLate ==
    [][\A agent \in running' \ running :
          \/ now <= due[agent]
          \/ \E t \in Holding(agent) : Carriers(t) \cap dropped # {}]_<<vars, agentVars>>

(* run_until_idle returns when all agents are through, unless its strategy    *)
(* gave up with an error.                                                   *)
IdleMeansAgentsAreDone ==
    phase = "stopped" /\ ~runner_error /\ StopRule = "idle" =>
        \A agent \in DOMAIN future_steps : HasStepsLeft(agent) => Dropped(agent)
==============================================================================
