\* The crate's tests of whole runs, and its examples.
SPECIFICATION ProgramSpec
CONSTANTS
    MaxTime = 200
    MaxMicroStep = 20
    Priorities = {0, 5, 10}
    MaxEvents = 400
    MaxSources = 4
    Delays <- EveryDelay
    Runners <- AllRunners
    HookCount = 1
    SyncPriorityThreshold = 5
    Workers = 2
    MaxCommands = 1
    TickUnit = 1
    CastModulus = 1000
    MaxElapsed = 1000
    MaxWall = 200
    EndTicks = 10
    ArrivalDurations = {1, 3}
    ServiceDurations = {0, 2}
    Programs <- AllPrograms
INVARIANTS
    TracesAreExpected
    NoJobIsStranded
    LittlesLaw
    CarsAreDrivenAndDated
