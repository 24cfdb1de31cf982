\* Two sources, of which any may decline its initial firing.
SPECIFICATION Spec
CONSTANTS
    MaxTime = 2
    MaxMicroStep = 2
    Priorities = {0}
    MaxEvents = 0
    MaxSources = 2
    Delays = {0, 1}
    Runners <- AnyRunners
INVARIANTS
    FiresTheSourceThatAsked
CHECK_DEADLOCK FALSE
