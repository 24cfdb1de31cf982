\* Two agents under run_until_idle.
SPECIFICATION AgentSpec
CONSTANTS
    MaxTime = 2
    MaxMicroStep = 2
    Priorities = {0}
    MaxEvents = 3
    MaxSources = 0
    Delays = {0, 1}
    Runners <- IdleRunners
    Agents = {a, b}
    MaxSteps = 2
INVARIANTS
    AgentIsInOnePlace
    NoAgentIsForgotten
    IdleMeansAgentsAreDone
PROPERTIES
    StepsAreNeverLate
CHECK_DEADLOCK FALSE
