CONSTANTS
    None = None
    Faults <- AllFaults
    MaxBoots = 2
    Budgets <- AllScenarios
    Nonces <- Salts
    Arm = "local"
    Drawn <- DrawnFixtures
    Fixtures <- AllFixtures
    MaxRuns = 3
    MaxWakes = 1
SPECIFICATION Spec
INVARIANTS
    LiveProcessKeepsItsRoot
    ScoredOnSeededFacts
    SecondPhaseIsAnotherProcess
    ScoredSampleLeavesNothing
    GateAdmits
    OnlyOwnAnswerPasses
PROPERTIES
    SettledEpisodeIsNoticed
