\* A checkpoint is vouched for by the development checks of the other one.
SPECIFICATION RegressionSpec
CONSTANTS
    Requests <- MCRequests
    Passages <- MCPassages
    Stop = Stop
    Numbers <- MCNumbers
    PolicyRules <- MCRules
    AnalysisTiers <- MCTiers
    Prohibited = {}
    Material <- MCMaterial
    Outputs <- MCOutputs
    Verdicts <- MCVerdicts
    Lineages <- MCLineages
    StableSplit <- MCStableSplit
    Cutoffs = {2, 3}
    MaxServed = 2
    MaxFeedback = 2
    MaxExports = 2
    Nothing = Nothing
    Examples = 3
    Epochs = 1
    Batch = 1
    Accumulation = 2
    Patience = 2
    MinDelta = 1
    Losses = {1, 2, 3}
    Attachers = {a1, a2}
    Queued = {j1}
    NoWeights = NoWeights
    Curated <- MCCurated
    Answers <- MCAnswers
    Corrections <- MCCorrections
    Paraphrases <- MCParaphrases
    Percent = 34
    MaxPerFamily = 4
    Versions = {v1, v2}
    Builders = {b1, b2}
    Registrars = {r1}
    MaxCorrections = 2
    Absent = Absent
    Started = Started
    Cases <- MCCases
    Behaviours <- MCBehaviours
    VerifiedAnswers = {"a1"}
    Interactions = {"i1"}
    Minimum <- MCMinimum
    SplitChoices <- MCSplitChoices
    MaxWaiting = 2
    MaxReports = 1
    None = None
    GoldSets <- MCGoldSets
    ResponsesTo <- MCResponsesTo
    Champions <- MCChampions
    Bundles <- MCBundles
    Thresholds <- MCThresholds
    Convincing <- MCConvincing
    MinEligible = 2
    Tolerance = 2
    Target = "driver_recall"
    Undecided = Undecided
INVARIANT NoCheckNewlyFails
CHECK_DEADLOCK FALSE
