------------------------------ MODULE Agent_proofs ------------------------------
(***************************************************************************)
(* Proofs about agents: continuations carried through the event queue.     *)
(***************************************************************************)
EXTENDS AgentProperties, Ticks_proofs, SequenceTheorems,
        FiniteSetTheorems

USE DEF vars, schedulerVars, sourceVars, executorVars, batchVars, runnerVars, historyVars
USE DEF agentVars

agentRunVars == <<vars, agentVars>>

(***************************************************************************)
(* Options and queues of steps.                                            *)
(***************************************************************************)

(* An Option over a set is one over every larger set. *)
LEMMA OptionsGrow ==
    ASSUME NEW S, NEW T, S \subseteq T
    PROVE  Options(S) \subseteq Options(T)
BY DEF Options

(* The queues of steps are the sequences that are no longer than MaxSteps. *)
LEMMA QueueIsSeq ==
    ASSUME NEW q
    PROVE  q \in StepQueues <=> q \in Seq(Steps) /\ Len(q) <= MaxSteps
<1>1. ASSUME q \in StepQueues
      PROVE  q \in Seq(Steps) /\ Len(q) <= MaxSteps
    <2>1. PICK n \in 0 .. MaxSteps : q \in [1 .. n -> Steps]
        BY <1>1 DEF StepQueues
    <2>2. n \in Nat /\ n <= MaxSteps
        BY <2>1, AgentAssumption
    <2>3. q \in Seq(Steps)
        BY <2>1, <2>2, SeqDef
    <2>4. Len(q) = n
        BY <2>1, <2>2, <2>3, LenProperties
    <2>5. QED
        BY <2>2, <2>3, <2>4
<1>2. ASSUME q \in Seq(Steps), Len(q) <= MaxSteps
      PROVE  q \in StepQueues
    <2>1. Len(q) \in 0 .. MaxSteps /\ q \in [1 .. Len(q) -> Steps]
        BY <1>2, LenProperties, AgentAssumption
    <2>2. QED
        BY <2>1 DEF StepQueues
<1>3. QED
    BY <1>1, <1>2

(* Popping the first step leaves a queue of steps. *)
LEMMA PopStep ==
    ASSUME NEW q \in StepQueues, q # <<>>
    PROVE  Head(q) \in Steps /\ Tail(q) \in StepQueues
<1>1. q \in Seq(Steps) /\ Len(q) <= MaxSteps
    BY QueueIsSeq
<1>2. Head(q) \in Steps /\ Tail(q) \in Seq(Steps) /\ Len(Tail(q)) = Len(q) - 1
    BY <1>1, HeadTailProperties
<1>3. Len(Tail(q)) <= MaxSteps
    <2>1. Len(q) \in Nat
        BY <1>1, LenProperties
    <2>2. QED
        BY <1>1, <1>2, <2>1, AgentAssumption
<1>4. QED
    BY <1>2, <1>3, QueueIsSeq

(* What appending does, entry by entry. *)
LEMMA AppendAt ==
    ASSUME NEW S, NEW s \in Seq(S), NEW x \in S
    PROVE  /\ Append(s, x) \in Seq(S)
           /\ DOMAIN s = 1 .. Len(s) /\ Len(s) \in Nat
           /\ Len(Append(s, x)) = Len(s) + 1
           /\ DOMAIN Append(s, x) = DOMAIN s \cup {Len(s) + 1}
           /\ Len(s) + 1 \notin DOMAIN s
           /\ \A i \in DOMAIN s : Append(s, x)[i] = s[i]
           /\ Append(s, x)[Len(s) + 1] = x
<1>1. Append(s, x) \in Seq(S) /\ Len(Append(s, x)) = Len(s) + 1
    BY AppendProperties
<1>2. DOMAIN s = 1 .. Len(s) /\ Len(s) \in Nat
    BY LenProperties
<1>3. DOMAIN Append(s, x) = 1 .. Len(s) + 1
    BY <1>1, LenProperties
<1>4. 1 .. Len(s) + 1 = (1 .. Len(s)) \cup {Len(s) + 1} /\ Len(s) + 1 \notin 1 .. Len(s)
    BY <1>2
<1>5. \A i \in 1 .. Len(s) : Append(s, x)[i] = s[i]
    BY AppendProperties
<1>6. Append(s, x)[Len(s) + 1] = x
    BY AppendProperties
<1>7. QED
    BY <1>1, <1>2, <1>3, <1>4, <1>5, <1>6

(***************************************************************************)
(* The invariant.  What AgentProperties promises is not inductive: that a   *)
(* continuation is in one place needs to know that tickets, the event being *)
(* handled and the open call fit the phase, that no agent is forgotten      *)
(* needs to know that a ticket still full has not been handled, and that    *)
(* none is late needs to know which event will be in time.                  *)
(***************************************************************************)

(* Every variable of the agents has its type. *)
AgentTyped ==
    /\ future_steps \in [DOMAIN future_steps -> StepQueues]
    /\ DOMAIN future_steps \subseteq Agents
    /\ due \in [DOMAIN future_steps -> Nat]
    /\ running \in Options(DOMAIN future_steps)
    /\ tickets \in Seq(Options(DOMAIN future_steps))
    /\ payload \in Seq(Options(DOMAIN tickets))
    /\ Len(payload) = next_event_id

(* An event is current and a continuation is running only inside a handler. *)
Attended ==
    /\ current_event \in Options(handled)
    /\ current_event # {} \/ running # {} => phase \in {"handling", "panicked"}

(* A ticket that holds a continuation is the only place it is in. *)
Alone ==
    \A t \in DOMAIN tickets : \A agent \in tickets[t] :
        /\ agent \notin running
        /\ \A u \in DOMAIN tickets : agent \in tickets[u] => u = t

(* A continuation with steps left is somewhere. *)
Placed ==
    \A agent \in DOMAIN future_steps :
        HasStepsLeft(agent) => agent \in running \/ Holding(agent) # {}

(* A ticket that still holds a continuation was carried by no event that was *)
(* handled, unless it is being handled now.                                  *)
Unhandled ==
    \A t \in DOMAIN tickets : tickets[t] # {} => Carriers(t) \cap handled \subseteq current_event

(* The events that carry agent in ticket t will be in time. *)
InTime(agent, t) ==
    \/ phase = "panicked"
    \/ Carriers(t) \cap dropped # {}
    \/ \E e \in AllEvents : e.event_id \in Carriers(t) /\ e.scheduled_at <= due[agent]
    \/ Carriers(t) \cap current_event # {} /\ now <= due[agent]

OnTime == \A t \in DOMAIN tickets : \A agent \in tickets[t] : InTime(agent, t)

Agentive == AgentTyped /\ Attended /\ Alone /\ Placed /\ Unhandled /\ OnTime

(***************************************************************************)
(* A run with agents is a run.                                             *)
(***************************************************************************)

(* The step a continuation is scheduled by has a delay and a priority. *)
LEMMA NextStepType ==
    ASSUME AgentTyped, NEW agent \in running, NEW step \in NextStep(future_steps[agent])
    PROVE  /\ agent \in DOMAIN future_steps /\ future_steps[agent] # <<>>
           /\ step = Head(future_steps[agent])
           /\ step.delay \in Delays /\ step.priority \in Priorities
<1>1. agent \in DOMAIN future_steps /\ future_steps[agent] \in StepQueues
    BY DEF AgentTyped, Options
<1>2. future_steps[agent] # <<>> /\ step = Head(future_steps[agent])
    BY DEF NextStep
<1>3. step \in Steps
    BY <1>1, <1>2, PopStep
<1>4. QED
    BY <1>1, <1>2, <1>3 DEF Steps

(* `schedule_event` of the Engine or of a handler is an operation of users. *)
LEMMA ScheduleAnyIsStep ==
    ASSUME NEW d \in Delays, NEW p \in Priorities, ScheduleAny(d, p)
    PROVE  Next
<1>1. CASE ScheduleEventAt(d, p)
    BY <1>1, DelaysAssumption DEF Next, Configure
<1>2. CASE ContextScheduleEvent(d, p)
    BY <1>2 DEF Next, UserOperation
<1>3. QED
    BY <1>1, <1>2 DEF ScheduleAny

(* Scheduling for an agent is scheduling; the rest is invisible to the runner. *)
LEMMA AgentStepIsStep ==
    ASSUME AgentTyped, AgentNext
    PROVE  [Next]_vars
<1>1. ASSUME NEW agent, NEW steps, NEW d \in Delays, NEW p \in Priorities,
             StartAgent(agent, steps, d, p)
      PROVE  Next
    BY <1>1, ScheduleAnyIsStep DEF StartAgent
<1>2. ASSUME NEW ticket, NEW d \in Delays, NEW p \in Priorities, ScheduleWith(ticket, d, p)
      PROVE  Next
    BY <1>2, ScheduleAnyIsStep DEF ScheduleWith
<1>3. ASSUME NEW event \in event_batch, AgentHandleEvent(event)
      PROVE  Next
    BY <1>3 DEF AgentHandleEvent, Next, RunnerStep
<1>4. ASSUME NEW ticket, NEW agent, ExecuteTicket(ticket, agent)
      PROVE  UNCHANGED vars
    BY <1>4 DEF ExecuteTicket
<1>5. ASSUME NEW agent, NEW steps, ChangeSteps(agent, steps)
      PROVE  UNCHANGED vars
    BY <1>5 DEF ChangeSteps
<1>6. ASSUME NEW agent \in running, FinishStep(agent)
      PROVE  [Next]_vars
    <2>1. CASE NextStep(future_steps[agent]) = {}
        BY <1>6, <2>1 DEF FinishStep
    <2>2. CASE NextStep(future_steps[agent]) # {}
        <3>1. PICK step \in NextStep(future_steps[agent]) :
                  ContextScheduleEvent(step.delay, step.priority)
            BY <1>6, <2>2 DEF FinishStep
        <3>2. step.delay \in Delays /\ step.priority \in Priorities
            BY NextStepType
        <3>3. QED
            BY <3>1, <3>2 DEF Next, UserOperation
    <2>3. QED
        BY <2>1, <2>2
<1>7. CASE AgentFinishHandleEvent
    BY <1>7 DEF AgentFinishHandleEvent, Next, UserReturn
<1>8. CASE OtherStep
    BY <1>8 DEF OtherStep, Next, RunnerStep, UserOperation
<1>9. QED
    BY <1>1, <1>2, <1>3, <1>4, <1>5, <1>6, <1>7, <1>8 DEF AgentNext, AgentStep

(***************************************************************************)
(* Scheduling.                                                             *)
(***************************************************************************)

(* A new event, due after delay; or a panic, in a handler, that adds nothing. *)
NewEvent(delay) ==
    /\ phase' = phase
    /\ next_event_id' = next_event_id + 1
    /\ \E e : /\ AllEvents' = AllEvents \cup {e}
              /\ e.event_id = next_event_id /\ e.scheduled_at = now + delay
Unwound ==
    /\ phase' = "panicked"
    /\ next_event_id' = next_event_id
    /\ AllEvents' = AllEvents

LEMMA ContextScheduleAdds ==
    ASSUME NEW d, NEW p, ContextScheduleEvent(d, p), phase = "handling"
    PROVE  /\ UNCHANGED <<tick_status, handled, dropped>>
           /\ NewEvent(d) \/ Unwound
<1>1. CASE AddOverflows(now, d)
    BY <1>1 DEF ContextScheduleEvent, Panic, Unwound, AllEvents
<1>2. CASE ~AddOverflows(now, d)
    <2>1. Schedule(now, d, p) /\ UNCHANGED <<phase, tick_status, event_batch, handled, dropped>>
        BY <1>2 DEF ContextScheduleEvent
    <2> DEFINE e == [event_id |-> next_event_id, scheduled_at |-> now + d, priority |-> p]
    <2>2. AllEvents' = AllEvents \cup {e}
        BY <2>1 DEF Schedule, AllEvents
    <2>3. e.event_id = next_event_id /\ e.scheduled_at = now + d
        OBVIOUS
    <2> HIDE DEF e
    <2>4. QED
        BY <2>1, <2>2, <2>3 DEF Schedule, NewEvent
<1>3. QED
    BY <1>1, <1>2

LEMMA ScheduleAnyAdds ==
    ASSUME Timely, NEW d \in Delays, NEW p, ScheduleAny(d, p)
    PROVE  /\ phase \in {"configure", "handling"}
           /\ UNCHANGED <<tick_status, handled, dropped>>
           /\ NewEvent(d) \/ Unwound
<1>1. CASE ScheduleEventAt(d, p)
    <2>1. /\ Schedule(d, 0, p) /\ phase = "configure"
          /\ UNCHANGED <<phase, tick_status, event_batch, handled, dropped>>
        BY <1>1 DEF ScheduleEventAt
    <2>2. now = 0
        BY <2>1 DEF Timely, StartsAtZero
    <2>3. d \in Nat /\ d + 0 = now + d
        BY <2>2, DelaysAssumption, MaxTimeAssumption DEF Time
    <2> DEFINE e == [event_id |-> next_event_id, scheduled_at |-> d + 0, priority |-> p]
    <2>4. AllEvents' = AllEvents \cup {e}
        BY <2>1 DEF Schedule, AllEvents
    <2>5. e.event_id = next_event_id /\ e.scheduled_at = now + d
        BY <2>3
    <2> HIDE DEF e
    <2>6. QED
        BY <2>1, <2>4, <2>5 DEF Schedule, NewEvent
<1>2. CASE phase = "handling" /\ ContextScheduleEvent(d, p)
    BY <1>2, ContextScheduleAdds
<1>3. QED
    BY <1>1, <1>2 DEF ScheduleAny

(* The new event carries option and no other event changes what it carries.  *)
LEMMA CarryCarries ==
    ASSUME NEW T, payload \in Seq(Options(T)), next_event_id \in Nat, Len(payload) = next_event_id,
           NEW option \in Options(T), NEW delay, Carry(option),
           (NewEvent(delay) /\ phase # "panicked") \/ Unwound
    PROVE  /\ payload' \in Seq(Options(T))
           /\ Len(payload') = next_event_id'
           /\ \A i \in 1 .. next_event_id : payload'[i] = payload[i]
           /\ \A t : Carriers(t)' = Carriers(t) \cup
                         {id \in {next_event_id} : phase' # "panicked" /\ t \in option}
<1>1. CASE Unwound
    <2>1. payload' = payload /\ phase' = "panicked" /\ next_event_id' = next_event_id
        BY <1>1 DEF Unwound, Carry
    <2>2. \A t : Carriers(t)' = Carriers(t)
        BY <2>1 DEF Carriers
    <2>3. QED
        BY <2>1, <2>2
<1>2. CASE NewEvent(delay) /\ phase # "panicked"
    <2>1. /\ payload' = Append(payload, option) /\ phase' # "panicked"
          /\ next_event_id' = next_event_id + 1
        BY <1>2 DEF NewEvent, Carry
    <2>2. /\ payload' \in Seq(Options(T)) /\ Len(payload') = next_event_id + 1
          /\ \A i \in 1 .. next_event_id : payload'[i] = payload[i]
          /\ payload'[next_event_id + 1] = option
        BY <2>1, AppendProperties
    <2>3. ASSUME NEW t
          PROVE  Carriers(t)' = Carriers(t) \cup {id \in {next_event_id} : t \in option}
        <3>1. Carriers(t) = {id \in 0 .. next_event_id - 1 : t \in payload[id + 1]}
            BY DEF Carriers
        <3>2. Carriers(t)' = {id \in 0 .. next_event_id : t \in payload'[id + 1]}
            BY <2>2 DEF Carriers
        <3>3. \A id \in 0 .. next_event_id - 1 : payload'[id + 1] = payload[id + 1]
            BY <2>2
        <3>4. 0 .. next_event_id = (0 .. next_event_id - 1) \cup {next_event_id}
            OBVIOUS
        <3>5. QED
            BY <2>2, <3>1, <3>2, <3>3, <3>4
    <2>4. QED
        BY <2>1, <2>2, <2>3
<1>3. QED
    BY <1>1, <1>2

(* Ids that events carry were issued, and carriers of a ticket know it. *)
LEMMA CarriersType ==
    ASSUME AgentTyped
    PROVE  \A t : /\ Carriers(t) \subseteq 0 .. next_event_id - 1
                  /\ t \notin DOMAIN tickets => Carriers(t) = {}
<1>1. \A i \in 1 .. Len(payload) : payload[i] \in Options(DOMAIN tickets)
    BY ElementOfSeq DEF AgentTyped
<1>2. next_event_id = Len(payload) /\ Len(payload) \in Nat
    BY LenProperties DEF AgentTyped
<1>3. \A id \in 0 .. Len(payload) - 1 : id + 1 \in 1 .. Len(payload)
    BY <1>2
<1>4. \A t : t \notin DOMAIN tickets => \A id \in 0 .. Len(payload) - 1 : t \notin payload[id + 1]
    BY <1>1, <1>3 DEF Options
<1>5. QED
    BY <1>2, <1>4 DEF Carriers

(* A new ticket holds the agent and disturbs no other. *)
LEMMA IssueIssues ==
    ASSUME NEW F, tickets \in Seq(Options(F)), NEW agent \in F, Issue(agent)
    PROVE  /\ tickets' \in Seq(Options(F))
           /\ DOMAIN tickets' = DOMAIN tickets \cup {Len(tickets) + 1}
           /\ Len(tickets) + 1 \notin DOMAIN tickets
           /\ \A t \in DOMAIN tickets : tickets'[t] = tickets[t]
           /\ tickets'[Len(tickets) + 1] = {agent}
<1>1. {agent} \in Options(F)
    BY DEF Options
<1>2. tickets' = Append(tickets, {agent})
    BY DEF Issue
<1>3. QED
    BY <1>1, <1>2, AppendAt

(* What tickets hold: agents that were started. *)
LEMMA HoldersType ==
    ASSUME AgentTyped
    PROVE  /\ \A t \in DOMAIN tickets : tickets[t] \in Options(DOMAIN future_steps)
           /\ DOMAIN tickets = 1 .. Len(tickets) /\ Len(tickets) \in Nat
<1>1. tickets \in Seq(Options(DOMAIN future_steps))
    BY DEF AgentTyped
<1>2. QED
    BY <1>1, ElementOfSeq, LenProperties

(***************************************************************************)
(* Types.                                                                  *)
(***************************************************************************)

(* Starting a continuation keeps the types. *)
LEMMA StartTyped ==
    ASSUME TypeOK, Timely, AgentTyped, NEW agent \in Agents, NEW steps \in StepQueues,
           NEW d \in Delays, NEW p, StartAgent(agent, steps, d, p)
    PROVE  AgentTyped'
<1> DEFINE F == DOMAIN future_steps \cup {agent}
           T == DOMAIN tickets \cup {Len(tickets) + 1}
<1>1. /\ phase \in {"configure", "handling"} /\ (NewEvent(d) \/ Unwound)
    BY ScheduleAnyAdds DEF StartAgent
<1>2. future_steps' = [a \in F |-> IF a = agent THEN steps ELSE future_steps[a]]
    BY DEF StartAgent, NewContinuation
<1>3. DOMAIN future_steps' = F /\ future_steps' \in [F -> StepQueues] /\ F \subseteq Agents
    BY <1>2 DEF AgentTyped
<1>4. now + d \in Nat
    BY NowType, DelaysAssumption, MaxTimeAssumption DEF Time
<1>5. due' \in [F -> Nat]
    <2>1. due' = [a \in F |-> IF a = agent THEN now + d ELSE due[a]]
        BY <1>3 DEF StartAgent
    <2>2. QED
        BY <1>4, <2>1 DEF AgentTyped
<1>6. running' \in Options(F)
    BY OptionsGrow DEF StartAgent, AgentTyped
<1>7. tickets \in Seq(Options(F)) /\ agent \in F /\ Issue(agent)
    BY OptionsGrow, SeqMonotonic DEF StartAgent, AgentTyped
<1>8. tickets' \in Seq(Options(F)) /\ DOMAIN tickets' = T
    BY <1>7, IssueIssues
<1>9. payload' \in Seq(Options(T)) /\ Len(payload') = next_event_id'
    <2>1. payload \in Seq(Options(T)) /\ Len(payload) = next_event_id
        BY OptionsGrow, SeqMonotonic DEF AgentTyped
    <2>2. {Len(tickets) + 1} \in Options(T) /\ Carry({Len(tickets) + 1})
        BY <1>7 DEF Options, Issue
    <2>3. next_event_id \in Nat
        BY DEF TypeOK, SchedulerTypeOK
    <2> HIDE DEF T
    <2>4. QED
        BY <1>1, <2>1, <2>2, <2>3, CarryCarries
<1>10. QED
    BY <1>3, <1>5, <1>6, <1>8, <1>9 DEF AgentTyped

(* Scheduling another event keeps the types. *)
LEMMA ScheduleWithTyped ==
    ASSUME TypeOK, Timely, AgentTyped, NEW ticket \in Options(DOMAIN tickets),
           NEW d \in Delays, NEW p, ScheduleWith(ticket, d, p)
    PROVE  AgentTyped'
<1>1. phase \in {"configure", "handling"} /\ (NewEvent(d) \/ Unwound)
    BY ScheduleAnyAdds DEF ScheduleWith
<1>2. Carry(ticket) /\ UNCHANGED <<tickets, future_steps, running, due>>
    BY DEF ScheduleWith
<1>3. next_event_id \in Nat
    BY DEF TypeOK, SchedulerTypeOK
<1>4. payload' \in Seq(Options(DOMAIN tickets)) /\ Len(payload') = next_event_id'
    BY <1>1, <1>2, <1>3, CarryCarries DEF AgentTyped
<1>5. QED
    BY <1>2, <1>4 DEF AgentTyped

(* Executing a ticket keeps the types. *)
LEMMA ExecuteTyped ==
    ASSUME AgentTyped, NEW ticket \in DOMAIN tickets, NEW agent, ExecuteTicket(ticket, agent)
    PROVE  AgentTyped'
<1> DEFINE F == DOMAIN future_steps
<1>1. agent \in F
    BY HoldersType DEF ExecuteTicket, Options
<1>2. DOMAIN future_steps' = F /\ future_steps' \in [F -> StepQueues]
    <2>1. CASE future_steps[agent] = <<>>
        BY <2>1 DEF ExecuteTicket, AgentTyped
    <2>2. CASE future_steps[agent] # <<>>
        <3>1. Tail(future_steps[agent]) \in StepQueues
            BY <1>1, <2>2, PopStep DEF AgentTyped
        <3>2. QED
            BY <1>1, <2>2, <3>1 DEF ExecuteTicket, AgentTyped
    <2>3. QED
        BY <2>1, <2>2
<1>3. running' \in Options(F)
    BY <1>1 DEF ExecuteTicket, AgentTyped, Options
<1>4. tickets' \in Seq(Options(F)) /\ DOMAIN tickets' = DOMAIN tickets
    <2>1. tickets' = [tickets EXCEPT ![ticket] = {}] /\ {} \in Options(F)
        BY DEF ExecuteTicket, Taken, Options
    <2>2. tickets \in Seq(Options(F)) /\ ticket \in 1 .. Len(tickets)
        BY HoldersType DEF AgentTyped
    <2>3. QED
        BY <2>1, <2>2, ExceptSeq
<1>5. UNCHANGED <<due, payload, next_event_id>>
    BY DEF ExecuteTicket
<1>6. QED
    BY <1>2, <1>3, <1>4, <1>5 DEF AgentTyped

(* The return of a step's logic keeps the types. *)
LEMMA FinishTyped ==
    ASSUME TypeOK, Timely, AgentTyped, NEW agent \in running, FinishStep(agent)
    PROVE  AgentTyped'
<1>1. CASE NextStep(future_steps[agent]) = {}
    BY <1>1 DEF FinishStep, AgentTyped, Options
<1>2. CASE NextStep(future_steps[agent]) # {}
    <2> DEFINE F == DOMAIN future_steps
               T == DOMAIN tickets \cup {Len(tickets) + 1}
    <2>1. PICK step \in NextStep(future_steps[agent]) :
              /\ ContextScheduleEvent(step.delay, step.priority)
              /\ Issue(agent)
              /\ due' = [due EXCEPT ![agent] = now + Head(future_steps[agent]).delay]
        BY <1>2 DEF FinishStep
    <2>2. /\ agent \in F /\ step = Head(future_steps[agent]) /\ step.delay \in Delays
        BY NextStepType
    <2>3. phase = "handling" /\ (NewEvent(step.delay) \/ Unwound)
        BY <2>1, ContextScheduleAdds DEF FinishStep
    <2>4. now + step.delay \in Nat
        <3>1. now \in Nat
            BY NowType, MaxTimeAssumption DEF Time
        <3>2. step.delay \in Nat
            BY <2>2, DelayType
        <3>3. QED
            BY <3>1, <3>2
    <2>5. due' \in [F -> Nat]
        BY <2>1, <2>2, <2>4 DEF AgentTyped
    <2>6. tickets' \in Seq(Options(F)) /\ DOMAIN tickets' = T
        BY <2>1, <2>2, IssueIssues DEF AgentTyped
    <2>7. payload' \in Seq(Options(T)) /\ Len(payload') = next_event_id'
        <3>1. payload \in Seq(Options(T)) /\ Len(payload) = next_event_id
            BY OptionsGrow, SeqMonotonic DEF AgentTyped
        <3>2. {Len(tickets) + 1} \in Options(T) /\ Carry({Len(tickets) + 1})
            BY <2>1 DEF Options, Issue
        <3>3. next_event_id \in Nat
            BY DEF TypeOK, SchedulerTypeOK
        <3> HIDE DEF T
        <3>4. QED
            BY <2>3, <3>1, <3>2, <3>3, CarryCarries
    <2>8. running' = {} /\ future_steps' = future_steps
        BY DEF FinishStep
    <2>9. QED
        BY <2>5, <2>6, <2>7, <2>8 DEF AgentTyped, Options
<1>3. QED
    BY <1>1, <1>2

(* Steps outside the agents schedule nothing and handle nothing. *)
LEMMA OtherStepSchedulesNothing ==
    ASSUME OtherStep
    PROVE  UNCHANGED <<next_event_id, handled, agentVars>>
<1>1. UNCHANGED agentVars
    BY DEF OtherStep
<1>2. CASE \/ BeginSimulation \/ FinishRegistration \/ StopRun \/ BeginTick
           \/ StartSourcePhase \/ StartEventPhase \/ EndMicroStep \/ ContinueMicroSteps
    BY <1>1, <1>2
       DEF BeginSimulation, FinishRegistration, StopRun, BeginTick, StartSourcePhase,
           StartEventPhase, EndMicroStep, ContinueMicroSteps, FlushPendingEvents,
           DrainReadyEvents, Panic
<1>3. CASE DiscardAtLimit
    <2>1. CASE Overdue(source_ready, now) \/ Overdue(event_ready, now)
        BY <1>1, <1>3, <2>1 DEF DiscardAtLimit, Panic
    <2>2. CASE ~Overdue(source_ready, now) /\ ~Overdue(event_ready, now)
        <3>1. DiscardRemainMicroStep /\ handled' = handled
            BY <1>3, <2>2, Zenon DEF DiscardAtLimit
        <3>2. QED
            BY <1>1, <3>1 DEF DiscardRemainMicroStep, DrainReadyEvents
    <2>3. QED
        BY <2>1, <2>2
<1>4. CASE EndTickWithIncrementTick
    BY <1>1, <1>4 DEF EndTickWithIncrementTick, EndTickWith, Panic
<1>5. CASE EndTickWithJumpToNextTick
    BY <1>1, <1>5 DEF EndTickWithJumpToNextTick, JumpTo, EndTickWith, Panic
<1>6. ASSUME NEW cancelled, CancelScheduledEvents(cancelled)
      PROVE  UNCHANGED <<next_event_id, handled, agentVars>>
    BY <1>1, <1>6 DEF CancelScheduledEvents, DrainCancelScheduledEvents
<1>7. QED
    BY <1>2, <1>3, <1>4, <1>5, <1>6 DEF OtherStep

(* What the current event carries are tickets that exist. *)
LEMMA CarriedNowType ==
    ASSUME AgentTyped, Attended, Conserved
    PROVE  /\ CarriedNow \subseteq DOMAIN tickets
           /\ \A t : t \in CarriedNow <=> Carriers(t) \cap current_event # {}
<1>1. current_event \subseteq 0 .. Len(payload) - 1
    BY DEF Attended, Options, Conserved, EventsAreConserved, AgentTyped
<1>2. \A t : t \in CarriedNow <=> \E id \in current_event : t \in payload[id + 1]
    BY DEF CarriedNow
<1>3. \A t : t \in CarriedNow <=> Carriers(t) \cap current_event # {}
    BY <1>1, <1>2 DEF Carriers
<1>4. QED
    BY <1>3, CarriersType

(* Every step keeps the types. *)
LEMMA StepTyped ==
    ASSUME TypeOK, Timely, Conserved, AgentTyped, Attended, [AgentNext]_agentRunVars
    PROVE  AgentTyped'
<1>1. CASE UNCHANGED agentRunVars
    BY <1>1 DEF AgentTyped, agentRunVars
<1>2. ASSUME NEW event, AgentHandleEvent(event)
      PROVE  AgentTyped'
    BY <1>2 DEF AgentHandleEvent, HandleEvent, AgentTyped
<1>3. ASSUME NEW ticket \in CarriedNow, NEW agent, ExecuteTicket(ticket, agent)
      PROVE  AgentTyped'
    BY <1>3, CarriedNowType, ExecuteTyped
<1>4. ASSUME NEW agent \in running, NEW steps \in StepQueues, ChangeSteps(agent, steps)
      PROVE  AgentTyped'
    <2>1. future_steps' = [future_steps EXCEPT ![agent] = steps]
        BY <1>4 DEF ChangeSteps
    <2>2. DOMAIN future_steps' = DOMAIN future_steps
        BY <2>1
    <2>3. future_steps' \in [DOMAIN future_steps -> StepQueues]
        BY <2>1 DEF AgentTyped
    <2>4. UNCHANGED <<due, running, tickets, payload, next_event_id>>
        BY <1>4 DEF ChangeSteps
    <2>5. QED
        BY <2>2, <2>3, <2>4 DEF AgentTyped
<1>5. CASE AgentFinishHandleEvent
    BY <1>5 DEF AgentFinishHandleEvent, FinishHandleEvent, AgentTyped
<1>6. CASE OtherStep
    BY <1>6, OtherStepSchedulesNothing DEF AgentTyped
<1>7. QED
    BY <1>1, <1>2, <1>3, <1>4, <1>5, <1>6, StartTyped, ScheduleWithTyped, FinishTyped
       DEF AgentNext, AgentStep

(***************************************************************************)
(* The event being handled and the open call.                              *)
(***************************************************************************)

(* Within a handler, the rest of the program only cancels events. *)
LEMMA OtherStepInHandler ==
    ASSUME OtherStep, phase \in {"handling", "panicked"}
    PROVE  phase = "handling" /\ UNCHANGED <<phase, tick_status>>
<1>1. /\ ~BeginSimulation /\ ~FinishRegistration /\ ~StopRun /\ ~BeginTick
      /\ ~StartSourcePhase /\ ~StartEventPhase /\ ~EndMicroStep /\ ~ContinueMicroSteps
    BY DEF BeginSimulation, FinishRegistration, StopRun, BeginTick, StartSourcePhase,
           StartEventPhase, EndMicroStep, ContinueMicroSteps
<1>2. ~DiscardAtLimit /\ ~EndTickWithIncrementTick /\ ~EndTickWithJumpToNextTick
    BY DEF DiscardAtLimit, EndTickWithIncrementTick, EndTickWithJumpToNextTick
<1>3. \E cancelled : CancelScheduledEvents(cancelled)
    BY <1>1, <1>2 DEF OtherStep
<1>4. QED
    BY <1>3 DEF CancelScheduledEvents

(* Nothing happens after a panic. *)
LEMMA NothingAfterPanic ==
    ASSUME AgentNext
    PROVE  phase # "panicked"
<1>1. CASE OtherStep
    BY <1>1, OtherStepInHandler
<1>2. CASE AgentStep
    BY <1>2 DEF AgentStep, StartAgent, ScheduleWith, ScheduleAny, ScheduleEventAt,
                AgentHandleEvent, HandleEvent, ExecuteTicket, ChangeSteps, FinishStep,
                AgentFinishHandleEvent, FinishHandleEvent
<1>3. QED
    BY <1>1, <1>2 DEF AgentNext

(* Every step keeps Attended. *)
LEMMA StepAttended ==
    ASSUME Timely, AgentTyped, Attended, [AgentNext]_agentRunVars
    PROVE  Attended'
<1>1. CASE UNCHANGED agentRunVars
    BY <1>1 DEF Attended, agentRunVars
<1>2. ASSUME NEW d \in Delays, NEW p, ScheduleAny(d, p), UNCHANGED <<current_event, running>>
      PROVE  Attended'
    <2>1. handled' = handled /\ phase' \in {phase, "panicked"}
        BY <1>2, ScheduleAnyAdds DEF NewEvent, Unwound
    <2>2. QED
        BY <1>2, <2>1 DEF Attended
<1>3. ASSUME NEW event, AgentHandleEvent(event)
      PROVE  Attended'
    <2>1. /\ current_event' = {event.event_id} /\ phase' = "handling"
          /\ handled' = handled \cup {event.event_id}
        BY <1>3 DEF AgentHandleEvent, HandleEvent
    <2>2. QED
        BY <2>1 DEF Attended, Options
<1>4. ASSUME NEW ticket, NEW agent, ExecuteTicket(ticket, agent)
      PROVE  Attended'
    BY <1>4 DEF ExecuteTicket, Attended
<1>5. ASSUME NEW agent, NEW steps, ChangeSteps(agent, steps)
      PROVE  Attended'
    BY <1>5 DEF ChangeSteps, Attended
<1>6. ASSUME NEW agent \in running, FinishStep(agent)
      PROVE  Attended'
    <2>1. phase = "handling" /\ UNCHANGED current_event /\ running' = {}
        BY <1>6 DEF FinishStep
    <2>2. handled' = handled /\ phase' \in {phase, "panicked"}
        <3>1. CASE NextStep(future_steps[agent]) = {}
            BY <1>6, <3>1 DEF FinishStep
        <3>2. CASE NextStep(future_steps[agent]) # {}
            <4>1. \E d, p : ContextScheduleEvent(d, p)
                BY <1>6, <3>2 DEF FinishStep
            <4>2. QED
                BY <2>1, <4>1, ContextScheduleAdds DEF NewEvent, Unwound
        <3>3. QED
            BY <3>1, <3>2
    <2>3. QED
        BY <2>1, <2>2 DEF Attended
<1>7. CASE AgentFinishHandleEvent
    BY <1>7 DEF AgentFinishHandleEvent, Attended, Options
<1>8. CASE OtherStep
    BY <1>8, OtherStepSchedulesNothing, OtherStepInHandler DEF Attended
<1>9. QED
    BY <1>1, <1>2, <1>3, <1>4, <1>5, <1>6, <1>7, <1>8
       DEF AgentNext, AgentStep, StartAgent, ScheduleWith

(***************************************************************************)
(* Where a continuation is.                                                *)
(***************************************************************************)

(* A step that changes neither tickets nor who runs moves no continuation. *)
LEMMA StillAlone ==
    ASSUME Alone, UNCHANGED <<tickets, running>>
    PROVE  Alone'
BY DEF Alone

(* A new ticket for an agent that no ticket holds. *)
LEMMA IssueAlone ==
    ASSUME Alone, NEW F, tickets \in Seq(Options(F)), NEW agent \in F, Issue(agent),
           Holding(agent) = {}, agent \notin running', running' \subseteq running
    PROVE  Alone'
<1> DEFINE n == Len(tickets) + 1
<1>1. /\ DOMAIN tickets' = DOMAIN tickets \cup {n} /\ n \notin DOMAIN tickets
      /\ \A t \in DOMAIN tickets : tickets'[t] = tickets[t]
      /\ tickets'[n] = {agent}
    BY IssueIssues
<1>2. \A t \in DOMAIN tickets : agent \notin tickets[t]
    BY DEF Holding
<1> HIDE DEF n
<1>3. QED
    BY <1>1, <1>2 DEF Alone

(* Every step keeps each continuation in one place. *)
LEMMA StepAlone ==
    ASSUME Conserved, AgentTyped, Attended, Alone, [AgentNext]_agentRunVars
    PROVE  Alone'
<1>1. CASE UNCHANGED agentRunVars
    BY <1>1, StillAlone DEF agentRunVars
<1>2. ASSUME NEW agent \in Agents, NEW steps, NEW d, NEW p, StartAgent(agent, steps, d, p)
      PROVE  Alone'
    <2> DEFINE F == DOMAIN future_steps \cup {agent}
    <2>1. agent \notin DOMAIN future_steps /\ Issue(agent) /\ running' = running
        BY <1>2 DEF StartAgent, NewContinuation
    <2>2. Holding(agent) = {} /\ agent \notin running
        BY <2>1, HoldersType DEF Holding, AgentTyped, Options
    <2>3. tickets \in Seq(Options(F)) /\ agent \in F
        BY OptionsGrow, SeqMonotonic DEF AgentTyped
    <2> HIDE DEF F
    <2>4. QED
        BY <2>1, <2>2, <2>3, IssueAlone
<1>3. ASSUME NEW ticket, NEW d, NEW p, ScheduleWith(ticket, d, p)
      PROVE  Alone'
    BY <1>3, StillAlone DEF ScheduleWith
<1>4. ASSUME NEW event, AgentHandleEvent(event)
      PROVE  Alone'
    BY <1>4, StillAlone DEF AgentHandleEvent
<1>5. ASSUME NEW ticket \in CarriedNow, NEW agent, ExecuteTicket(ticket, agent)
      PROVE  Alone'
    <2>1. ticket \in DOMAIN tickets
        BY CarriedNowType
    <2>2. /\ DOMAIN tickets' = DOMAIN tickets /\ tickets'[ticket] = {}
          /\ \A t \in DOMAIN tickets : t # ticket => tickets'[t] = tickets[t]
          /\ running' \subseteq {agent} /\ agent \in tickets[ticket]
        BY <1>5, <2>1 DEF ExecuteTicket, Taken
    <2>3. QED
        BY <2>1, <2>2 DEF Alone
<1>6. ASSUME NEW agent, NEW steps, ChangeSteps(agent, steps)
      PROVE  Alone'
    BY <1>6, StillAlone DEF ChangeSteps
<1>7. ASSUME NEW agent \in running, FinishStep(agent)
      PROVE  Alone'
    <2>1. running' = {}
        BY <1>7 DEF FinishStep
    <2>2. CASE NextStep(future_steps[agent]) = {}
        BY <1>7, <2>1, <2>2 DEF FinishStep, Alone
    <2>3. CASE NextStep(future_steps[agent]) # {}
        <3>1. Issue(agent)
            BY <1>7, <2>3 DEF FinishStep
        <3>2. Holding(agent) = {} /\ agent \in DOMAIN future_steps
            BY DEF Alone, Holding, AgentTyped, Options
        <3>3. tickets \in Seq(Options(DOMAIN future_steps))
            BY DEF AgentTyped
        <3>4. QED
            BY <2>1, <3>1, <3>2, <3>3, IssueAlone
    <2>4. QED
        BY <2>2, <2>3
<1>8. CASE AgentFinishHandleEvent
    BY <1>8, StillAlone DEF AgentFinishHandleEvent
<1>9. CASE OtherStep
    BY <1>9, OtherStepSchedulesNothing, StillAlone
<1>10. QED
    BY <1>1, <1>2, <1>3, <1>4, <1>5, <1>6, <1>7, <1>8, <1>9 DEF AgentNext, AgentStep

(* Every step leaves each continuation that has steps left somewhere. *)
LEMMA StepPlaced ==
    ASSUME Conserved, AgentTyped, Attended, Alone, Placed, [AgentNext]_agentRunVars
    PROVE  Placed'
<1>1. ASSUME UNCHANGED <<tickets, running, future_steps>>
      PROVE  Placed'
    BY <1>1 DEF Placed, Holding, HasStepsLeft
<1>2. ASSUME NEW agent \in Agents, NEW steps, NEW d, NEW p, StartAgent(agent, steps, d, p)
      PROVE  Placed'
    <2> DEFINE F == DOMAIN future_steps \cup {agent}
    <2>1. /\ DOMAIN future_steps' = F /\ Issue(agent) /\ running' = running
          /\ \A a \in F : a # agent => future_steps'[a] = future_steps[a]
        BY <1>2 DEF StartAgent, NewContinuation
    <2>2. tickets \in Seq(Options(F)) /\ agent \in F
        BY OptionsGrow, SeqMonotonic DEF AgentTyped
    <2>3. \A a : Holding(a) \subseteq Holding(a)'
        BY <2>1, <2>2, IssueIssues DEF Holding
    <2>4. Holding(agent)' # {}
        BY <2>1, <2>2, IssueIssues DEF Holding
    <2>5. QED
        BY <2>1, <2>3, <2>4 DEF Placed, HasStepsLeft
<1>3. ASSUME NEW ticket \in CarriedNow, NEW agent, ExecuteTicket(ticket, agent)
      PROVE  Placed'
    <2>1. ticket \in DOMAIN tickets /\ agent \in DOMAIN future_steps
        BY <1>3, CarriedNowType, HoldersType DEF ExecuteTicket, Options
    <2>2. /\ DOMAIN tickets' = DOMAIN tickets
          /\ \A t \in DOMAIN tickets : t # ticket => tickets'[t] = tickets[t]
          /\ running = {} /\ agent \in tickets[ticket]
        BY <1>3, <2>1 DEF ExecuteTicket, Taken
    <2>3. \A a : a # agent => Holding(a) \subseteq Holding(a)'
        <3>1. tickets[ticket] = {agent}
            BY <2>1, <2>2, HoldersType DEF Options
        <3>2. QED
            BY <2>1, <2>2, <3>1 DEF Holding
    <2>4. CASE future_steps[agent] = <<>>
        <3>1. future_steps' = future_steps /\ running' = running
            BY <1>3, <2>4 DEF ExecuteTicket
        <3>2. QED
            BY <2>3, <2>4, <3>1 DEF Placed, HasStepsLeft
    <2>5. CASE future_steps[agent] # <<>>
        <3>1. /\ running' = {agent} /\ DOMAIN future_steps' = DOMAIN future_steps
              /\ \A a \in DOMAIN future_steps : a # agent => future_steps'[a] = future_steps[a]
            BY <1>3, <2>1, <2>5 DEF ExecuteTicket
        <3>2. QED
            BY <2>2, <2>3, <3>1 DEF Placed, HasStepsLeft
    <2>6. QED
        BY <2>4, <2>5
<1>4. ASSUME NEW agent \in running, NEW steps, ChangeSteps(agent, steps)
      PROVE  Placed'
    <2>1. /\ DOMAIN future_steps' = DOMAIN future_steps
          /\ \A a \in DOMAIN future_steps : a # agent => future_steps'[a] = future_steps[a]
          /\ UNCHANGED <<tickets, running>>
        BY <1>4 DEF ChangeSteps
    <2>2. \A a : Holding(a)' = Holding(a)
        BY <2>1 DEF Holding
    <2>3. QED
        BY <2>1, <2>2 DEF Placed, HasStepsLeft
<1>5. ASSUME NEW agent \in running, FinishStep(agent)
      PROVE  Placed'
    <2>1. running = {agent} /\ running' = {} /\ future_steps' = future_steps
        BY <1>5 DEF FinishStep, AgentTyped, Options
    <2>2. CASE NextStep(future_steps[agent]) = {}
        <3>1. future_steps[agent] = <<>> /\ tickets' = tickets
            BY <1>5, <2>2 DEF FinishStep, NextStep
        <3>2. \A a : Holding(a)' = Holding(a)
            BY <3>1 DEF Holding
        <3>3. QED
            BY <2>1, <3>1, <3>2 DEF Placed, HasStepsLeft
    <2>3. CASE NextStep(future_steps[agent]) # {}
        <3>1. /\ tickets \in Seq(Options(DOMAIN future_steps))
              /\ agent \in DOMAIN future_steps /\ Issue(agent)
            BY <1>5, <2>3 DEF FinishStep, AgentTyped, Options
        <3>2. \A a : Holding(a) \subseteq Holding(a)'
            BY <3>1, IssueIssues DEF Holding
        <3>3. Holding(agent)' # {}
            BY <3>1, IssueIssues DEF Holding
        <3>4. QED
            BY <2>1, <3>2, <3>3 DEF Placed, HasStepsLeft
    <2>4. QED
        BY <2>2, <2>3
<1>6. CASE UNCHANGED agentRunVars
    BY <1>1, <1>6 DEF agentRunVars
<1>7. CASE OtherStep
    BY <1>1, <1>7, OtherStepSchedulesNothing
<1>8. QED
    BY <1>1, <1>2, <1>3, <1>4, <1>5, <1>6, <1>7
       DEF AgentNext, AgentStep, ScheduleWith, AgentHandleEvent, AgentFinishHandleEvent

(***************************************************************************)
(* Which events carry a continuation.                                      *)
(***************************************************************************)

(* An event that is scheduled was not handled yet. *)
LEMMA ScheduleCarries ==
    ASSUME TypeOK, Conserved, AgentTyped, NEW T, DOMAIN tickets \subseteq T,
           NEW option \in Options(T), NEW delay, Carry(option),
           (NewEvent(delay) /\ phase # "panicked") \/ Unwound, handled' = handled
    PROVE  /\ \A t : Carriers(t)' \cap handled' = Carriers(t) \cap handled
           /\ \A t : Carriers(t) \subseteq Carriers(t)'
           /\ NewEvent(delay) => \A t \in option : \/ phase' = "panicked"
                                                  \/ next_event_id \in Carriers(t)'
<1>1. payload \in Seq(Options(T)) /\ Len(payload) = next_event_id
    BY OptionsGrow, SeqMonotonic DEF AgentTyped
<1>2. next_event_id \in Nat
    BY DEF TypeOK, SchedulerTypeOK
<1>3. \A t : Carriers(t)' = Carriers(t) \cup
                 {id \in {next_event_id} : phase' # "panicked" /\ t \in option}
    BY <1>1, <1>2, CarryCarries
<1>4. next_event_id \notin handled
    <2>1. handled \subseteq 0 .. next_event_id - 1
        BY DEF Conserved, EventsAreConserved
    <2>2. QED
        BY <1>2, <2>1
<1>5. QED
    BY <1>3, <1>4

(* A step after which no ticket is fuller and no event new keeps Unhandled. *)
LEMMA StillUnhandled ==
    ASSUME Unhandled, UNCHANGED <<payload, handled, current_event>>,
           DOMAIN tickets' = DOMAIN tickets,
           \A t \in DOMAIN tickets : tickets'[t] \subseteq tickets[t]
    PROVE  Unhandled'
<1>1. \A t : Carriers(t)' = Carriers(t)
    BY DEF Carriers
<1>2. QED
    BY <1>1 DEF Unhandled

(* A new ticket that the next event carries keeps Unhandled. *)
LEMMA IssueUnhandled ==
    ASSUME TypeOK, Conserved, AgentTyped, Unhandled, NEW F, tickets \in Seq(Options(F)),
           NEW agent \in F, Issue(agent),
           NEW delay, (NewEvent(delay) /\ phase # "panicked") \/ Unwound,
           UNCHANGED <<handled, current_event>>
    PROVE  Unhandled'
<1> DEFINE n == Len(tickets) + 1
           T == DOMAIN tickets \cup {n}
<1>1. /\ DOMAIN tickets' = T /\ n \notin DOMAIN tickets
      /\ \A t \in DOMAIN tickets : tickets'[t] = tickets[t]
    BY IssueIssues
<1>2. {n} \in Options(T) /\ DOMAIN tickets \subseteq T /\ Carry({n})
    BY DEF Options, Issue
<1> HIDE DEF n, T
<1>3. \A t : Carriers(t)' \cap handled' = Carriers(t) \cap handled
    BY <1>2, ScheduleCarries
<1>4. Carriers(n) = {}
    BY <1>1, CarriersType
<1>5. QED
    BY <1>1, <1>3, <1>4 DEF Unhandled, T

(* Every step keeps Unhandled: a handler returns only when its tickets are empty. *)
LEMMA StepUnhandled ==
    ASSUME TypeOK, Timely, Conserved, AgentTyped, Attended, Unhandled,
           [AgentNext]_agentRunVars
    PROVE  Unhandled'
<1>1. ASSUME UNCHANGED <<payload, handled, current_event, tickets>>
      PROVE  Unhandled'
    BY <1>1, StillUnhandled
<1>2. ASSUME NEW agent \in Agents, NEW steps, NEW d \in Delays, NEW p,
             StartAgent(agent, steps, d, p)
      PROVE  Unhandled'
    <2> DEFINE F == DOMAIN future_steps \cup {agent}
    <2>1. tickets \in Seq(Options(F)) /\ agent \in F
        BY OptionsGrow, SeqMonotonic DEF AgentTyped
    <2>2. Issue(agent) /\ current_event' = current_event
        BY <1>2 DEF StartAgent
    <2>3. handled' = handled /\ ((NewEvent(d) /\ phase # "panicked") \/ Unwound)
        BY <1>2, ScheduleAnyAdds DEF StartAgent
    <2> HIDE DEF F
    <2>4. QED
        BY <2>1, <2>2, <2>3, IssueUnhandled
<1>3. ASSUME NEW ticket \in Options(DOMAIN tickets), NEW d \in Delays, NEW p,
             ScheduleWith(ticket, d, p)
      PROVE  Unhandled'
    <2>1. Carry(ticket) /\ UNCHANGED <<tickets, current_event>>
        BY <1>3 DEF ScheduleWith
    <2>2. handled' = handled /\ ((NewEvent(d) /\ phase # "panicked") \/ Unwound)
        BY <1>3, ScheduleAnyAdds DEF ScheduleWith
    <2>3. \A t : Carriers(t)' \cap handled' = Carriers(t) \cap handled
        BY <2>1, <2>2, ScheduleCarries
    <2>4. QED
        BY <2>1, <2>3 DEF Unhandled
<1>4. ASSUME NEW event, AgentHandleEvent(event)
      PROVE  Unhandled'
    <2>1. /\ phase = "event_phase" /\ handled' = handled \cup {event.event_id}
          /\ current_event' = {event.event_id} /\ UNCHANGED <<tickets, payload>>
        BY <1>4 DEF AgentHandleEvent, HandleEvent
    <2>2. current_event = {}
        BY <2>1 DEF Attended
    <2>3. \A t : Carriers(t)' = Carriers(t)
        BY <2>1 DEF Carriers
    <2>4. QED
        BY <2>1, <2>2, <2>3 DEF Unhandled
<1>5. ASSUME NEW ticket \in CarriedNow, NEW agent, ExecuteTicket(ticket, agent)
      PROVE  Unhandled'
    <2>1. ticket \in DOMAIN tickets
        BY CarriedNowType
    <2>2. /\ DOMAIN tickets' = DOMAIN tickets
          /\ \A t \in DOMAIN tickets : tickets'[t] \subseteq tickets[t]
          /\ UNCHANGED <<payload, handled, current_event>>
        BY <1>5, <2>1 DEF ExecuteTicket, Taken
    <2>3. QED
        BY <2>2, StillUnhandled
<1>6. ASSUME NEW agent \in running, FinishStep(agent)
      PROVE  Unhandled'
    <2>1. CASE NextStep(future_steps[agent]) = {}
        BY <1>1, <1>6, <2>1 DEF FinishStep
    <2>2. CASE NextStep(future_steps[agent]) # {}
        <3>1. PICK step \in NextStep(future_steps[agent]) :
                  ContextScheduleEvent(step.delay, step.priority) /\ Issue(agent)
            BY <1>6, <2>2 DEF FinishStep
        <3>2. phase = "handling" /\ current_event' = current_event
            BY <1>6 DEF FinishStep
        <3>3. handled' = handled /\ ((NewEvent(step.delay) /\ phase # "panicked") \/ Unwound)
            BY <3>1, <3>2, ContextScheduleAdds
        <3>4. tickets \in Seq(Options(DOMAIN future_steps)) /\ agent \in DOMAIN future_steps
            BY DEF AgentTyped, Options
        <3>5. QED
            BY <3>1, <3>2, <3>3, <3>4, IssueUnhandled
    <2>3. QED
        BY <2>1, <2>2
<1>7. CASE AgentFinishHandleEvent
    <2>1. /\ \A t \in CarriedNow : tickets[t] = {}
          /\ UNCHANGED <<tickets, payload, handled>>
        BY <1>7 DEF AgentFinishHandleEvent, FinishHandleEvent
    <2>2. \A t : Carriers(t)' = Carriers(t)
        BY <2>1 DEF Carriers
    <2>3. \A t : t \notin CarriedNow => Carriers(t) \cap current_event = {}
        BY CarriedNowType
    <2>4. QED
        BY <2>1, <2>2, <2>3 DEF Unhandled
<1>8. CASE UNCHANGED agentRunVars
    BY <1>1, <1>8 DEF agentRunVars
<1>9. CASE OtherStep
    BY <1>1, <1>9, OtherStepSchedulesNothing
<1>10. QED
    BY <1>1, <1>2, <1>3, <1>4, <1>5, <1>6, <1>7, <1>8, <1>9 DEF AgentNext, AgentStep,
       ChangeSteps

(***************************************************************************)
(* When a continuation is carried.                                         *)
(***************************************************************************)

(* An event of the run stays where it is, unless it is handled or dropped. *)
LEMMA OtherStepKeepsEvents ==
    ASSUME TypeOK, Timely, Conserved, Ordered, OtherStep
    PROVE  /\ dropped \subseteq dropped'
           /\ \A e \in AllEvents : e \in AllEvents' \/ e.event_id \in dropped'
<1>1. UNCHANGED <<next_event_id, handled>> /\ next_event_id # next_event_id + 1
    BY OtherStepSchedulesNothing DEF TypeOK, SchedulerTypeOK
<1>2. RunnerStep \/ UserOperation
    BY DEF OtherStep, RunnerStep, UserOperation
<1>3. ListStep
    BY <1>2, RunnerListed, UserListed
<1>4. CASE UNCHANGED List!listVars
    BY <1>4 DEF List!listVars
<1>5. ASSUME NEW at, NEW rank, List!Issue(at, rank)
      PROVE  FALSE
    BY <1>1, <1>5 DEF List!Issue
<1>6. ASSUME NEW e \in AllEvents, List!Execute(e)
      PROVE  FALSE
    BY <1>1, <1>6 DEF List!Execute
<1>7. ASSUME NEW events \in SUBSET AllEvents, List!Drop(events)
      PROVE  /\ dropped \subseteq dropped'
             /\ \A e \in AllEvents : e \in AllEvents' \/ e.event_id \in dropped'
    BY <1>7 DEF List!Drop
<1>8. ASSUME NEW time, List!Advance(time)
      PROVE  AllEvents' = AllEvents /\ dropped' = dropped
    BY <1>8 DEF List!Advance
<1>9. QED
    BY <1>3, <1>4, <1>5, <1>6, <1>7, <1>8 DEF ListStep, List!ListNext

(* What may change without making an agent late. *)
LEMMA StillInTime ==
    ASSUME NEW agent, NEW t, InTime(agent, t),
           UNCHANGED <<tick_status, current_event>>, phase = "panicked" => phase' = "panicked",
           Carriers(t) \subseteq Carriers(t)', dropped \subseteq dropped',
           \A e \in AllEvents : e \in AllEvents' \/ e.event_id \in dropped',
           due'[agent] = due[agent]
    PROVE  InTime(agent, t)'
<1>1. CASE phase = "panicked" \/ Carriers(t) \cap dropped # {}
    BY <1>1 DEF InTime
<1>2. CASE \E e \in AllEvents : e.event_id \in Carriers(t) /\ e.scheduled_at <= due[agent]
    BY <1>2 DEF InTime
<1>3. CASE Carriers(t) \cap current_event # {} /\ now <= due[agent]
    BY <1>3 DEF InTime, now
<1>4. QED
    BY <1>1, <1>2, <1>3 DEF InTime

(* A step that moves no continuation makes none late that StillInTime allows. *)
LEMMA StillOnTime ==
    ASSUME OnTime, DOMAIN tickets' = DOMAIN tickets,
           \A t \in DOMAIN tickets : tickets'[t] \subseteq tickets[t],
           UNCHANGED <<tick_status, current_event, due>>,
           phase = "panicked" => phase' = "panicked",
           \A t : Carriers(t) \subseteq Carriers(t)', dropped \subseteq dropped',
           \A e \in AllEvents : e \in AllEvents' \/ e.event_id \in dropped'
    PROVE  OnTime'
<1>1. \A t \in DOMAIN tickets : \A agent \in tickets[t] : InTime(agent, t)'
    BY StillInTime DEF OnTime
<1>2. QED
    BY <1>1 DEF OnTime

(* An agent scheduled after its delay is in time. *)
LEMMA IssueOnTime ==
    ASSUME TypeOK, Conserved, AgentTyped, OnTime, NEW F, tickets \in Seq(Options(F)),
           NEW agent \in F, Issue(agent),
           NEW delay, (NewEvent(delay) /\ phase # "panicked") \/ Unwound,
           UNCHANGED <<tick_status, current_event, handled, dropped>>,
           due'[agent] = now + delay, now + delay \in Nat,
           \A t \in DOMAIN tickets : \A a \in tickets[t] : due'[a] = due[a]
    PROVE  OnTime'
<1>n. PICK n : n = Len(tickets) + 1
    OBVIOUS
<1> DEFINE T == DOMAIN tickets \cup {n}
<1>1. /\ DOMAIN tickets' = T /\ n \notin DOMAIN tickets
      /\ \A t \in DOMAIN tickets : tickets'[t] = tickets[t]
      /\ tickets'[n] = {agent}
    BY <1>n, IssueIssues
<1>2. {n} \in Options(T) /\ DOMAIN tickets \subseteq T /\ Carry({n})
    BY <1>n DEF Options, Issue
<1> HIDE DEF T
<1>3. /\ \A t : Carriers(t) \subseteq Carriers(t)'
      /\ NewEvent(delay) => phase' = "panicked" \/ next_event_id \in Carriers(n)'
    <2>1. n \in {n}
        OBVIOUS
    <2>2. /\ \A t : Carriers(t) \subseteq Carriers(t)'
          /\ NewEvent(delay) => \A t \in {n} : \/ phase' = "panicked"
                                              \/ next_event_id \in Carriers(t)'
        BY <1>2, ScheduleCarries
    <2>3. QED
        BY <2>1, <2>2
<1>4. AllEvents \subseteq AllEvents' /\ (phase = "panicked" => phase' = "panicked")
    BY DEF NewEvent, Unwound
<1>5. \A t \in DOMAIN tickets : \A a \in tickets[t] : InTime(a, t)'
    BY <1>3, <1>4, StillInTime DEF OnTime
<1>6. InTime(agent, n)'
    <2>1. CASE phase' = "panicked"
        BY <2>1 DEF InTime
    <2>2. CASE phase' # "panicked"
        <3>1. NewEvent(delay)
            BY <2>2 DEF Unwound
        <3>2. PICK e : /\ AllEvents' = AllEvents \cup {e}
                       /\ e.event_id = next_event_id /\ e.scheduled_at = now + delay
            BY <3>1 DEF NewEvent
        <3>3. e \in AllEvents' /\ e.event_id \in Carriers(n)' /\ e.scheduled_at <= due'[agent]
            BY <1>3, <2>2, <3>1, <3>2
        <3>4. QED
            BY <3>3 DEF InTime
    <2>3. QED
        BY <2>1, <2>2
<1>7. SUFFICES ASSUME NEW t \in DOMAIN tickets', NEW a \in tickets'[t]
               PROVE  InTime(a, t)'
    BY DEF OnTime
<1>8. CASE t \in DOMAIN tickets
    BY <1>1, <1>5, <1>8
<1>9. CASE t = n
    BY <1>1, <1>6, <1>9
<1>10. QED
    BY <1>1, <1>8, <1>9 DEF T

(* Every step keeps each continuation in time. *)
LEMMA StepOnTime ==
    ASSUME TypeOK, Timely, Conserved, Ordered, AgentTyped, Attended, Alone, OnTime,
           [AgentNext]_agentRunVars
    PROVE  OnTime'
<1>1. ASSUME UNCHANGED <<vars, payload, current_event, due, tickets>>
      PROVE  OnTime'
    <2>1. \A t : Carriers(t)' = Carriers(t)
        BY <1>1 DEF Carriers
    <2>2. AllEvents' = AllEvents
        BY <1>1 DEF AllEvents
    <2>3. QED
        BY <1>1, <2>1, <2>2, StillOnTime
<1>2. ASSUME NEW agent \in Agents, NEW steps, NEW d \in Delays, NEW p,
             StartAgent(agent, steps, d, p)
      PROVE  OnTime'
    <2> DEFINE F == DOMAIN future_steps \cup {agent}
    <2>1. tickets \in Seq(Options(F)) /\ agent \in F
        BY OptionsGrow, SeqMonotonic DEF AgentTyped
    <2>2. /\ Issue(agent) /\ current_event' = current_event /\ agent \notin DOMAIN future_steps
          /\ DOMAIN future_steps' = F
          /\ due' = [a \in F |-> IF a = agent THEN now + d ELSE due[a]]
        BY <1>2 DEF StartAgent, NewContinuation
    <2>3. /\ UNCHANGED <<tick_status, handled, dropped>>
          /\ (NewEvent(d) /\ phase # "panicked") \/ Unwound
        BY <1>2, ScheduleAnyAdds DEF StartAgent
    <2>4. now + d \in Nat
        <3>1. now \in Nat /\ d \in Nat
            BY NowType, DelayType, MaxTimeAssumption DEF Time
        <3>2. QED
            BY <3>1
    <2>5. \A t \in DOMAIN tickets : \A a \in tickets[t] : a \in DOMAIN future_steps
        BY HoldersType DEF Options
    <2>6. \A t \in DOMAIN tickets : \A a \in tickets[t] : due'[a] = due[a]
        BY <2>2, <2>5
    <2>7. due'[agent] = now + d
        BY <2>2
    <2> HIDE DEF F
    <2>8. QED
        BY <2>1, <2>2, <2>3, <2>4, <2>6, <2>7, IssueOnTime
<1>3. ASSUME NEW ticket \in Options(DOMAIN tickets), NEW d \in Delays, NEW p,
             ScheduleWith(ticket, d, p)
      PROVE  OnTime'
    <2>1. Carry(ticket) /\ UNCHANGED <<tickets, current_event, due>>
        BY <1>3 DEF ScheduleWith
    <2>2. /\ UNCHANGED <<tick_status, handled, dropped>>
          /\ (NewEvent(d) /\ phase # "panicked") \/ Unwound
        BY <1>3, ScheduleAnyAdds DEF ScheduleWith
    <2>3. \A t : Carriers(t) \subseteq Carriers(t)'
        BY <2>1, <2>2, ScheduleCarries
    <2>4. AllEvents \subseteq AllEvents' /\ (phase = "panicked" => phase' = "panicked")
        BY <2>2 DEF NewEvent, Unwound
    <2>5. QED
        BY <2>1, <2>2, <2>3, <2>4, StillOnTime
<1>4. ASSUME NEW event \in event_batch, AgentHandleEvent(event)
      PROVE  OnTime'
    <2>1. /\ phase = "event_phase" /\ HandleEvent(event) /\ current_event' = {event.event_id}
          /\ UNCHANGED <<tickets, payload, due, tick_status, dropped>>
        BY <1>4 DEF AgentHandleEvent, HandleEvent
    <2>2. current_event = {} /\ event.scheduled_at = now
        BY <2>1 DEF Attended, Ordered, Handling
    <2>3. \A e \in AllEvents : e = event \/ e \in AllEvents'
        BY <2>1 DEF HandleEvent, AllEvents
    <2>4. \A t : Carriers(t)' = Carriers(t)
        BY <2>1 DEF Carriers
    <2>5. ASSUME NEW t \in DOMAIN tickets, NEW agent \in tickets[t]
          PROVE  InTime(agent, t)'
        <3>1. InTime(agent, t) /\ phase # "panicked"
            BY <2>1 DEF OnTime
        <3>2. CASE Carriers(t) \cap dropped # {}
            BY <2>1, <2>4, <3>2 DEF InTime
        <3>3. ASSUME NEW e \in AllEvents, e.event_id \in Carriers(t), e.scheduled_at <= due[agent]
              PROVE  InTime(agent, t)'
            <4>1. CASE e = event
                <5>1. Carriers(t)' \cap current_event' # {}
                    BY <2>1, <2>4, <3>3, <4>1
                <5>2. now' <= due'[agent]
                    BY <2>1, <2>2, <3>3, <4>1 DEF now
                <5>3. QED
                    BY <5>1, <5>2 DEF InTime
            <4>2. CASE e \in AllEvents'
                BY <2>1, <2>4, <3>3, <4>2 DEF InTime
            <4>3. QED
                BY <2>3, <4>1, <4>2
        <3>4. QED
            BY <2>2, <3>1, <3>2, <3>3 DEF InTime
    <2>6. QED
        BY <2>1, <2>5 DEF OnTime
<1>5. ASSUME NEW ticket \in CarriedNow, NEW agent, ExecuteTicket(ticket, agent)
      PROVE  OnTime'
    <2>1. ticket \in DOMAIN tickets
        BY CarriedNowType
    <2>2. /\ DOMAIN tickets' = DOMAIN tickets
          /\ \A t \in DOMAIN tickets : tickets'[t] \subseteq tickets[t]
        BY <1>5, <2>1 DEF ExecuteTicket, Taken
    <2>3. UNCHANGED <<vars, payload, current_event, due>>
        BY <1>5 DEF ExecuteTicket
    <2>4. (\A t : Carriers(t)' = Carriers(t)) /\ AllEvents' = AllEvents
        BY <2>3 DEF Carriers, AllEvents
    <2>5. QED
        BY <2>2, <2>3, <2>4, StillOnTime
<1>6. ASSUME NEW agent \in running, FinishStep(agent)
      PROVE  OnTime'
    <2>1. phase = "handling" /\ UNCHANGED <<current_event, future_steps>>
        BY <1>6 DEF FinishStep
    <2>2. CASE NextStep(future_steps[agent]) = {}
        BY <1>1, <1>6, <2>1, <2>2 DEF FinishStep
    <2>3. CASE NextStep(future_steps[agent]) # {}
        <3>1. PICK step \in NextStep(future_steps[agent]) :
                  /\ ContextScheduleEvent(step.delay, step.priority)
                  /\ Issue(agent)
                  /\ due' = [due EXCEPT ![agent] = now + Head(future_steps[agent]).delay]
            BY <1>6, <2>3 DEF FinishStep
        <3>2. /\ agent \in DOMAIN future_steps /\ step = Head(future_steps[agent])
              /\ step.delay \in Delays
            BY NextStepType
        <3>3. /\ UNCHANGED <<tick_status, handled, dropped>>
              /\ (NewEvent(step.delay) /\ phase # "panicked") \/ Unwound
            BY <2>1, <3>1, ContextScheduleAdds
        <3>4. now + step.delay \in Nat
            <4>1. now \in Nat /\ step.delay \in Nat
                BY <3>2, NowType, DelayType, MaxTimeAssumption DEF Time
            <4>2. QED
                BY <4>1
        <3>5. \A t \in DOMAIN tickets : \A a \in tickets[t] : a # agent
            BY DEF Alone
        <3>6. /\ due'[agent] = now + step.delay
              /\ \A a : a # agent => due'[a] = due[a]
            BY <3>1, <3>2 DEF AgentTyped
        <3>7. tickets \in Seq(Options(DOMAIN future_steps))
            BY DEF AgentTyped
        <3>8. QED
            BY <2>1, <3>1, <3>2, <3>3, <3>4, <3>5, <3>6, <3>7, IssueOnTime
    <2>4. QED
        BY <2>2, <2>3
<1>7. CASE AgentFinishHandleEvent
    <2>1. /\ phase = "handling" /\ \A t \in CarriedNow : tickets[t] = {}
          /\ UNCHANGED <<tickets, payload, due, dropped, event_ready, event_pending, event_batch>>
        BY <1>7 DEF AgentFinishHandleEvent, FinishHandleEvent
    <2>2. (\A t : Carriers(t)' = Carriers(t)) /\ AllEvents' = AllEvents
        BY <2>1 DEF Carriers, AllEvents
    <2>3. ASSUME NEW t \in DOMAIN tickets, NEW agent \in tickets[t]
          PROVE  InTime(agent, t)'
        <3>1. Carriers(t) \cap current_event = {}
            BY <2>1, CarriedNowType
        <3>2. InTime(agent, t)
            BY DEF OnTime
        <3>3. QED
            BY <2>1, <2>2, <3>1, <3>2 DEF InTime
    <2>4. QED
        BY <2>1, <2>3 DEF OnTime
<1>8. CASE OtherStep
    <2>1. UNCHANGED agentVars
        BY <1>8, OtherStepSchedulesNothing
    <2>2. \A t : Carriers(t)' = Carriers(t)
        BY <2>1 DEF Carriers
    <2>3. /\ dropped \subseteq dropped'
          /\ \A e \in AllEvents : e \in AllEvents' \/ e.event_id \in dropped'
        BY <1>8, OtherStepKeepsEvents
    <2>4. CASE phase \in {"handling", "panicked"}
        BY <1>8, <2>1, <2>2, <2>3, <2>4, OtherStepInHandler, StillOnTime
    <2>5. CASE phase \notin {"handling", "panicked"}
        <3>1. current_event = {}
            BY <2>5 DEF Attended
        <3>2. ASSUME NEW t \in DOMAIN tickets, NEW agent \in tickets[t]
              PROVE  InTime(agent, t)'
            <4>1. \/ Carriers(t) \cap dropped # {}
                  \/ \E e \in AllEvents : /\ e.event_id \in Carriers(t)
                                          /\ e.scheduled_at <= due[agent]
                BY <2>5, <3>1 DEF OnTime, InTime
            <4>2. QED
                BY <2>1, <2>2, <2>3, <4>1 DEF InTime
        <3>3. QED
            BY <2>1, <3>2 DEF OnTime
    <2>6. QED
        BY <2>4, <2>5
<1>9. CASE UNCHANGED agentRunVars
    BY <1>1, <1>9 DEF agentRunVars
<1>10. QED
    BY <1>1, <1>2, <1>3, <1>4, <1>5, <1>6, <1>7, <1>8, <1>9
       DEF AgentNext, AgentStep, ChangeSteps

(***************************************************************************)
(* The theorems.                                                           *)
(***************************************************************************)

(* No continuation and no ticket exists yet. *)
LEMMA InitAgentive == AgentInit => Agentive
<1> SUFFICES ASSUME AgentInit PROVE Agentive
    OBVIOUS
<1>1. /\ Init /\ tickets = <<>> /\ payload = <<>> /\ future_steps = [a \in {} |-> <<>>]
      /\ current_event = {} /\ running = {} /\ due = [a \in {} |-> 0]
    BY DEF AgentInit
<1>2. \A S : <<>> \in Seq(S) /\ Len(<<>>) = 0
    BY EmptySeq
<1>3. DOMAIN tickets = {}
    <2>1. tickets \in Seq({}) /\ Len(tickets) = 0
        BY <1>1, <1>2
    <2>2. DOMAIN tickets = 1 .. 0
        BY <2>1, LenProperties
    <2>3. QED
        BY <2>2
<1>4. AgentTyped
    <2>1. next_event_id = 0
        BY <1>1 DEF Init, SchedulerInit
    <2>2. DOMAIN future_steps = {} /\ DOMAIN due = {}
        BY <1>1
    <2>3. future_steps \in [{} -> StepQueues] /\ due \in [{} -> Nat]
        BY <1>1
    <2>4. {} \in Options({})
        BY DEF Options
    <2>5. tickets \in Seq(Options({})) /\ payload \in Seq(Options({})) /\ Len(payload) = 0
        BY <1>1, <1>2
    <2>6. QED
        BY <1>1, <1>3, <2>1, <2>2, <2>3, <2>4, <2>5 DEF AgentTyped
<1>5. Attended
    BY <1>1 DEF Attended, Options
<1>6. Alone /\ Unhandled /\ OnTime
    BY <1>3 DEF Alone, Unhandled, OnTime
<1>7. Placed
    BY <1>1 DEF Placed
<1>8. QED
    BY <1>4, <1>5, <1>6, <1>7 DEF Agentive

(* What was proved of runs, together. *)
Sound == TypeOK /\ Timely /\ Conserved /\ Ordered

LEMMA StepSound ==
    ASSUME Sound, [Next]_vars
    PROVE  Sound'
<1>1. TypeOK' /\ Timely'
    BY StepType, StepTimely DEF Sound
<1>2. CASE UNCHANGED vars
    <2>1. Conserved'
        BY <1>2, StillConserved DEF Sound, eventVars, InEventPhase
    <2>2. Ordered'
        BY <1>2, QuietOrdered DEF Sound, eventVars, Quiet, Stepping, Handling
    <2>3. QED
        BY <1>1, <2>1, <2>2 DEF Sound
<1>3. CASE Next
    <2>1. Conserved'
        BY <1>3, UserConserved, RunnerConserved DEF Sound, Next
    <2>2. Ordered'
        BY <1>3, UserOrdered, RunnerOrdered DEF Sound, Next
    <2>3. QED
        BY <1>1, <2>1, <2>2 DEF Sound
<1>4. QED
    BY <1>2, <1>3

(* A run with agents is a run, and Agentive is an inductive invariant of it: *)
(* the two are shown together, since what agents schedule is a user's        *)
(* operation only because their steps have the right types.                 *)
THEOREM AlwaysAgentive == AgentSpec => Spec /\ [](Sound /\ Agentive)
<1>1. AgentInit => Init /\ Sound /\ Agentive
    BY InitAgentive, InitType, InitTimely, InitConserved, InitOrdered DEF AgentInit, Sound
<1>2. Agentive /\ [AgentNext]_agentRunVars => [Next]_vars
    BY AgentStepIsStep DEF Agentive, agentRunVars
<1>3. Sound /\ [Next]_vars => Sound'
    BY StepSound
<1>4. Sound /\ Agentive /\ [AgentNext]_agentRunVars => Agentive'
    BY StepTyped, StepAttended, StepAlone, StepPlaced, StepUnhandled, StepOnTime
       DEF Agentive, Sound
<1>5. agentRunVars = <<vars, agentVars>>
    BY DEF agentRunVars
<1>6. QED
    BY <1>1, <1>2, <1>3, <1>4, <1>5, PTL DEF AgentSpec, Spec, agentRunVars

(* Every variable has its type: an index into the tickets never misses. *)
THEOREM AgentTypeCorrect == AgentSpec => []AgentTypeOK
<1>1. Sound /\ Agentive => AgentTypeOK
    <2> SUFFICES ASSUME Sound, Agentive PROVE AgentTypeOK
        OBVIOUS
    <2>1. AgentTyped /\ Attended /\ TypeOK
        BY DEF Sound, Agentive
    <2> DEFINE F == DOMAIN future_steps
    <2>2. F \subseteq Agents /\ future_steps \in [F -> StepQueues] /\ due \in [F -> Nat]
        BY <2>1 DEF AgentTyped
    <2>3. DOMAIN due = F /\ \A a \in F : future_steps[a] \in StepQueues /\ due[a] \in Nat
        BY <2>2
    <2>4. \A t \in DOMAIN tickets : tickets[t] \in Options(Agents)
        BY <2>1, <2>2, HoldersType, OptionsGrow
    <2>5. \A i \in DOMAIN payload : payload[i] \in Options(DOMAIN tickets)
        BY <2>1, ElementOfSeq, LenProperties DEF AgentTyped
    <2>6. Len(payload) = next_event_id /\ running \in Options(Agents)
        BY <2>1, <2>2, OptionsGrow DEF AgentTyped
    <2>7. current_event \subseteq handled
        BY <2>1 DEF Attended, Options
    <2>8. QED
        BY <2>1, <2>2, <2>3, <2>4, <2>5, <2>6, <2>7 DEF AgentTypeOK
<1>2. QED
    BY <1>1, AlwaysAgentive, PTL

(* `execute` takes the continuation out of its ticket, and it comes back in a *)
(* new one: however many events share a ticket and however user code          *)
(* interleaves, no step runs twice and no two steps of an agent at once.      *)
THEOREM AgentIsAlwaysInOnePlace == AgentSpec => []AgentIsInOnePlace
<1>1. Agentive => AgentIsInOnePlace
    <2> SUFFICES ASSUME Agentive, NEW agent
                 PROVE  Cardinality(Holding(agent)) + Cardinality(running \cap {agent}) <= 1
        BY DEF AgentIsInOnePlace
    <2>1. CASE Holding(agent) = {}
        <3>1. Cardinality(Holding(agent)) = 0
            BY <2>1, FS_EmptySet
        <3>2. running \cap {agent} = {} \/ running \cap {agent} = {agent}
            OBVIOUS
        <3>3. Cardinality(running \cap {agent}) \in {0, 1}
            <4>1. CASE running \cap {agent} = {}
                BY <4>1, FS_EmptySet
            <4>2. CASE running \cap {agent} = {agent}
                BY <4>2, FS_Singleton
            <4>3. QED
                BY <3>2, <4>1, <4>2
        <3>4. QED
            BY <3>1, <3>3
    <2>2. CASE Holding(agent) # {}
        <3>1. PICK t \in DOMAIN tickets : agent \in tickets[t]
            BY <2>2 DEF Holding
        <3>2. Holding(agent) = {t} /\ running \cap {agent} = {}
            BY <3>1 DEF Agentive, Alone, Holding
        <3>3. Cardinality(Holding(agent)) = 1 /\ Cardinality(running \cap {agent}) = 0
            BY <3>2, FS_Singleton, FS_EmptySet
        <3>4. QED
            BY <3>3
    <2>3. QED
        BY <2>1, <2>2
<1>2. QED
    BY <1>1, AlwaysAgentive, PTL

(* An event that carries a ticket still full is to come, or was dropped. *)
LEMMA CarriersAreAliveOrDropped ==
    ASSUME Sound, Agentive, NEW t \in DOMAIN tickets, tickets[t] # {}
    PROVE  Carriers(t) \subseteq Alive \cup dropped
<1>1. Carriers(t) \subseteq 0 .. next_event_id - 1
    BY CarriersType DEF Agentive
<1>2. Carriers(t) \subseteq IdsOf(AllEvents) \cup handled \cup dropped
    BY <1>1 DEF Sound, Conserved, EventsAreConserved
<1>3. Carriers(t) \cap handled \subseteq current_event
    BY DEF Agentive, Unhandled
<1>4. QED
    BY <1>2, <1>3 DEF Alive

(* An agent with steps left is running or an event to come carries it, unless *)
(* each event that carried it was cancelled or discarded.                     *)
LEMMA RememberedOrDropped ==
    ASSUME Sound, Agentive
    PROVE  NoAgentIsForgotten
<1>1. SUFFICES ASSUME NEW agent \in DOMAIN future_steps, HasStepsLeft(agent),
                      agent \notin running,
                      \A t \in Holding(agent) : Carriers(t) \cap Alive = {}
               PROVE  Dropped(agent)
    BY DEF NoAgentIsForgotten
<1>2. PICK t \in Holding(agent) : TRUE
    BY <1>1 DEF Agentive, Placed
<1>3. Carriers(t) \subseteq dropped
    BY <1>1, <1>2, CarriersAreAliveOrDropped DEF Holding
<1>4. QED
    BY <1>2, <1>3 DEF Dropped

THEOREM NoAgentIsEverForgotten == AgentSpec => []NoAgentIsForgotten
BY RememberedOrDropped, AlwaysAgentive, PTL

(* `run_until_idle` returns when every agent is through, but for those whose  *)
(* events were dropped and for a run its strategy aborted.                    *)
THEOREM IdleAlwaysMeansAgentsAreDone == AgentSpec => []IdleMeansAgentsAreDone
<1>1. Sound /\ Agentive /\ IdleLeavesNoEvent => IdleMeansAgentsAreDone
    <2> SUFFICES ASSUME Sound, Agentive, IdleLeavesNoEvent, phase = "stopped", ~runner_error,
                        StopRule = "idle", NEW agent \in DOMAIN future_steps,
                        HasStepsLeft(agent)
                 PROVE  Dropped(agent)
        BY DEF IdleMeansAgentsAreDone
    <2>1. AllEvents = {} /\ current_event = {} /\ running = {}
        BY DEF IdleLeavesNoEvent, Agentive, Attended
    <2>2. Alive = {}
        BY <2>1 DEF Alive, IdsOf
    <2>3. NoAgentIsForgotten
        BY RememberedOrDropped
    <2>4. QED
        BY <2>1, <2>2, <2>3 DEF NoAgentIsForgotten
<1>2. QED
    BY <1>1, AlwaysAgentive, IdleAlwaysLeavesNoEvent, PTL

(* Only executing a ticket makes a continuation run. *)
LEMMA OnlyExecuteRuns ==
    ASSUME Sound, Agentive, [AgentNext]_agentRunVars, NEW agent \in running' \ running
    PROVE  \E ticket \in CarriedNow : ExecuteTicket(ticket, agent)
<1>1. ~ UNCHANGED running
    OBVIOUS
<1>2. ~OtherStep /\ ~UNCHANGED agentRunVars
    BY <1>1 DEF OtherStep, agentRunVars
<1>3. \A a : ~FinishStep(a)
    BY DEF FinishStep
<1>4. PICK ticket \in CarriedNow, other \in Agents : ExecuteTicket(ticket, other)
    BY <1>1, <1>2, <1>3
       DEF AgentNext, AgentStep, StartAgent, ScheduleWith, AgentHandleEvent, ChangeSteps,
           AgentFinishHandleEvent
<1>5. other = agent
    BY <1>4 DEF ExecuteTicket
<1>6. QED
    BY <1>4, <1>5

(* `then_after` schedules a step by its delay: it runs by then at the latest, *)
(* or one of the events that were to run it was dropped.                      *)
THEOREM StepsAreAlwaysTimely == AgentSpec => StepsAreNeverLate
<1>1. Sound /\ Agentive /\ [AgentNext]_agentRunVars
        => [\A agent \in running' \ running :
              \/ now <= due[agent]
              \/ \E t \in Holding(agent) : Carriers(t) \cap dropped # {}]_agentRunVars
    <2> SUFFICES ASSUME Sound, Agentive, [AgentNext]_agentRunVars,
                        NEW agent \in running' \ running,
                        \A t \in Holding(agent) : Carriers(t) \cap dropped = {}
                 PROVE  now <= due[agent]
        OBVIOUS
    <2>1. PICK ticket \in CarriedNow : ExecuteTicket(ticket, agent)
        BY OnlyExecuteRuns
    <2>2. ticket \in DOMAIN tickets
        BY CarriedNowType DEF Sound, Agentive
    <2>3. agent \in tickets[ticket] /\ ticket \in Holding(agent) /\ phase = "handling"
        BY <2>1, <2>2 DEF ExecuteTicket, Holding
    <2>4. InTime(agent, ticket)
        BY <2>2, <2>3 DEF Agentive, OnTime
    <2>5. CASE Carriers(ticket) \cap current_event # {} /\ now <= due[agent]
        BY <2>5
    <2>6. ASSUME NEW e \in AllEvents, e.scheduled_at <= due[agent]
          PROVE  now <= due[agent]
        <3>1. e.scheduled_at >= now
            <4>1. CASE e \in event_ready \cup event_pending
                BY <4>1 DEF Sound, Timely, NothingIsOverdue
            <4>2. CASE e \in event_batch
                <5>1. e.scheduled_at = now /\ now \in Nat
                    BY <2>3, <4>2, NowType, MaxTimeAssumption DEF Sound, Ordered, Handling, Time
                <5>2. QED
                    BY <5>1
            <4>3. QED
                BY <4>1, <4>2 DEF AllEvents
        <3>2. agent \in DOMAIN future_steps
            BY <2>2, <2>3, HoldersType DEF Agentive, Options
        <3>3. due[agent] \in Nat
            BY <3>2 DEF Agentive, AgentTyped
        <3>4. now \in Nat /\ e.scheduled_at \in Nat
            BY NowType, MaxTimeAssumption
               DEF Sound, TypeOK, SchedulerTypeOK, AllEvents, ScheduledEvents, Time
        <3>5. QED
            BY <2>6, <3>1, <3>3, <3>4
    <2>7. QED
        BY <2>3, <2>4, <2>5, <2>6 DEF InTime
<1>2. QED
    BY <1>1, AlwaysAgentive, PTL DEF AgentSpec, StepsAreNeverLate, agentRunVars
==============================================================================
