\* A source that asks to fire at once, when the simulation begins.
SPECIFICATION Spec
CONSTANTS
    MaxTime = 2
    MaxMicroStep = 2
    Priorities = {0}
    MaxEvents = 0
    MaxSources = 1
    Delays = {0, 1}
    Runners <- AnyRunners
INVARIANTS
    DueSourcesAreReady
CHECK_DEADLOCK FALSE
