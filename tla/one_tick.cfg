\* run_do_ticks asked for one tick, the zero-th included.
SPECIFICATION Spec
CONSTANTS
    MaxTime = 2
    MaxMicroStep = 2
    Priorities = {0, 1}
    MaxEvents = 1
    MaxSources = 0
    Delays = {0, 1, 2}
    Runners <- OneTickRunners
INVARIANTS
    CountedTicksAreDone
CHECK_DEADLOCK FALSE
