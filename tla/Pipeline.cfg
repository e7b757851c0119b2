\* the software pipeline and a review of a model, levels of two tiers
SPECIFICATION PhasesSpec
CONSTANTS
    Pipelines <- MCPipelines
    Detected <- Software
    Chain <- MCChain
    MaxPhaseTurns = 1
    RetriesToEscalate = 1
    RetriesToSkip = 2
    PlateauToEscalate = 1
    PlateauToSkip = 2
    StallEscalates = TRUE
    MaxFindings = 3
    maxPipelineCycles = 2
    maxRedirects = 2
    \* reviews by one, in turn and by two or three at a time
    PhasesInTurn <- ReviewPhases
    LevelProviders <- LevelsOf3
    Reports <- ReviewReports
    Changes <- ReviewChanges
    Noise = {"go.sum"}
    PerFile = 2
    PerReview = 3
    MaxReviews = 2
    \* research, with a budget below and above that of its depth
    Configured <- ConfiguredBackends
    TagsOf <- Tags
    CostOf <- CostTiers
    Depths <- DepthsOf
    Budgets = {2, 50}
    Answers <- URLs
    PageOf <- Pages
    Blank = {"none"}
    FewNew = 2
    MaxCited = 1
    \* the terminal: two lines and three interrupts
    Loops <- CodeAndChat
    AgentPipelines = {{}, {"plan", "review"}}
    CommandPhases = {"plan", "check"}
    DefaultPhases = {"plan", "check"}
    MaxPhase = 1
    TopLevel = 1
    MaxLine = 1
    MaxSignals = 3
    MaxGiven = 2
INVARIANTS
    CyclesBounded IndependentReview
    FixesReviewed ReviewsHold
    ResearchHolds TerminalHolds
PROPERTIES EndsWithEvidence PhasesEnd
CHECK_DEADLOCK FALSE
