CONSTANTS
    Sources = {inspect}
    Runs <- MCRuns
    KindOf <- MCKinds
    Chains <- MCChains
    Machines <- MCMachines
    Evidences <- MCEvidences
    MaxChanges = 2
    Samples = {s1, s2, s3}
    EmptyInput = {s3}
    MaxWrites = 3
    Corpora <- MCCorpora
    Specs <- MCSpecs
    Generators = {1, 2}
    Shuffle <- MCShuffle
    MaxServes = 2
    MaxCanaries = 2
    MaxEdits = 1
    Tasks = {1, 2}
    Portfolio <- MCPortfolio
    Expressions = {"hourly", "daily", "unreadable"}
    Nominal <- MCNominal
    Functions = {"footprint", "compact"}
    MaxTime = 2
    MaxMishaps = 2
INIT HarnessInit
NEXT HarnessNext
CHECK_DEADLOCK FALSE
INVARIANTS
    AcceptedIsOneAdmittedAnswer
    RejectedRunKeepsItsLog
    GrowthIsAttributed
    BlindStaysBlind
    FiresAreAccounted
