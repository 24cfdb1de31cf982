\* RealtimeRunner with a cast narrower than the ticks it is given.
SPECIFICATION RealtimeSpec
CONSTANTS
    MaxTime = 3
    MaxMicroStep = 2
    Priorities = {0}
    MaxEvents = 2
    MaxSources = 1
    Delays = {0, 1, 2}
    Runners <- AnyRunners
    TickUnit = 2
    CastModulus = 2
    MaxElapsed = 4
    MaxWall = 5
INVARIANTS
    NeverEarly
CHECK_DEADLOCK FALSE
