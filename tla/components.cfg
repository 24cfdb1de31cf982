\* The unit tests of the components.
SPECIFICATION ScenarioSpec
CONSTANTS
    MaxTime = 1000
    MaxMicroStep = 1000
    Priorities = {0, 5, 10, 20, 30}
    MaxEvents = 4
    MaxSources = 4
    Tick = 10
    HookCount = 3
    Scenarios <- AllScenarios
INVARIANTS
    AnswersAreExpected
