CONSTANTS
    Sources <- MCSources
    Openings <- MCOpenings
    MaxEvals = 2
    Plans <- MCPlans
    PlanForms <- MCPlanForms
    MaxSteps = 3
    MaxActs = 3
    MaxClock = 3
    MinPreSteps = 2
    MaxTx = 4
    MaxReports = 2
    Episodes <- MCEpisodes
    MaxForms = 2
    Agents = {a1, a2}
    MaxEvents = 7
    Draws <- MCDraws
    Selections <- MCSelections
    MaxWrites = 2
    Values <- MCValues
    Prose <- MCProse
    Strays <- MCStrays
    MaxPieces = 3
    Samples <- MCSamples
    Fates <- MCFates
    LedgerArms = {"baseline", "thinking"}
    MaxRows = 3
    NRows = 4
    Exemplars = {2}
    Concurrency = 2
    Batch = 2
    Patience = 2
    Limits = {0, 2}
    MaxStarts = 4
    TrainingPlans <- MCTrainingPlans
    TokenBudget = 6
    ValEvery = 2
    SaveEvery = 3
    Losses = {1, 2, 3}
    Infinity = 9
    MaxKills = 2
    SnakeCase <- MCSnakeCase
    Index <- MCIndex
    Cards <- MCCards
    Forms <- MCForms
    MaxCards = 2
    MaxSaid = 2
    SlotBudget = 9
    Functions <- MCFunctions
    Dumps <- MCDumps
    EvalCases <- MCEvalCases
    Situations <- MCSituations
    Published <- MCPublished
    Bank <- MCBank
    QueryLength = 1
    MaxEncoder = 8
    MenuSizes = {1, 3}
    SmallestMenu = 2
    NHeldOut = 1
    MaxDataRows = 1
INIT MeasurementInit
NEXT MeasurementNext
CHECK_DEADLOCK FALSE
INVARIANTS
    PassIsEarned
    ScoreIsOfTheEpisode
    OfflineRunsAreWhole
    OfflineDataIsFaithful
