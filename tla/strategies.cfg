\* Two hooks over runs of every strategy and stop rule: safety and termination.
SPECIFICATION FairHookedSpec
CONSTANTS
    MaxTime = 3
    MaxMicroStep = 3
    Priorities = {0}
    MaxEvents = 2
    MaxSources = 2
    Delays = {0, 2}
    Runners <- StrategyRunners
    HookCount = 2
INVARIANTS
    NothingIsOverdue
    CountedTicksAreDone
    NoExtraTick
    MicroStepsAreBounded
    AbortIsFinal
    IdleLeavesNoEvent
    HooksNest
    EveryScopeIsClosed
    LastMicroStepIsTold
PROPERTIES
    TicksEnd
    RunReturns
CHECK_DEADLOCK FALSE
