\* StandardRunner: skipping without a limit, and every tick with one; any should_stop.
SPECIFICATION Spec
CONSTANTS
    MaxTime = 2
    MaxMicroStep = 2
    Priorities = {0, 1}
    MaxEvents = 3
    MaxSources = 2
    Delays = {0, 1, 2}
    Runners <- OppositeRunners
INVARIANTS
    TypeOK
    OnlyOverflowPanics
    JumpIsExact
    EventsAreConserved
    ZeroDelayIsDeferred
    AdvanceEventsGoFirst
    StatusIsAccurate
    SourceScheduledOnce
PROPERTIES
    NoOvertaking
    ImplementsEventList
CHECK_DEADLOCK FALSE
