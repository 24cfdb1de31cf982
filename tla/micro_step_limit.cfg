\* LimitAbortStrategy with a limit of one micro-step per tick.
SPECIFICATION Spec
CONSTANTS
    MaxTime = 2
    MaxMicroStep = 2
    Priorities = {0}
    MaxEvents = 2
    MaxSources = 0
    Delays = {0, 1}
    Runners <- OneMicroStepRunners
INVARIANTS
    MicroStepsArePermitted
CHECK_DEADLOCK FALSE
