\* ParallelRunner: two synchronous priorities and a parallel one, two threads.
SPECIFICATION FairParallelSpec
CONSTANTS
    MaxTime = 1
    MaxMicroStep = 2
    Priorities = {0, 1, 2}
    MaxEvents = 3
    MaxSources = 1
    Delays = {0, 1}
    Runners <- AnyRunners
    SyncPriorityThreshold = 1
    Workers = 2
    MaxCommands = 2
INVARIANTS
    ParallelEventsAreConserved
    SyncStaysOnMainThread
    ModelIsShared
    CommandsAreApplied
    CommandsInOrder
PROPERTIES
    CommandsGetApplied
    ImplementsParallelList
CHECK_DEADLOCK FALSE
