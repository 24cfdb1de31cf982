----------------------------- MODULE MCComponents -----------------------------
(* The unit tests of the components, all of them. *)
EXTENDS ComponentScenarios, ComponentTests

AllScenarios ==
    EventSchedulerScenarios \o SourceHandlerScenarios \o PhaseScenarios \o
    SamplerScenarios \o TimeScenarios \o DelegateScenarios
==============================================================================
