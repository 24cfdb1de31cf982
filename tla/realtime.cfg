\* RealtimeRunner with ticks within the width of the cast.
SPECIFICATION FairRealtimeSpec
CONSTANTS
    MaxTime = 3
    MaxMicroStep = 2
    Priorities = {0}
    MaxEvents = 2
    MaxSources = 1
    Delays = {0, 1, 2}
    Runners <- AnyRunners
    TickUnit = 2
    CastModulus = 4
    MaxElapsed = 4
    MaxWall = 5
INVARIANTS
    NeverEarly
    NoDrift
PROPERTIES
    WaitEnds
CHECK_DEADLOCK FALSE
