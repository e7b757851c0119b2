SPECIFICATION PartsSpec
CONSTANTS
    \* a task of the manager, with two runners
    TaskIds <- OneTask
    MaxSteps = 2
    Runners = {r1, r2}
    \* a conversation with two turns of tools
    Upstreams <- FourUpstreams
    FamilyOf <- Families
    KeysOf <- Keys
    Dialects = {"agent", "anthropic", "responses", "stream"}
    Tools = {"bash", "grep"}
    Resends = 1
    MaxCalls = 2
    MaxSaid = 5
    \* searches
    Backends = {"duckduckgo", "searxng", "serper", "kagi"}
    Cost <- Costs
    Documents = {"x", "y", "z"}
    Confidential = {"z"}
    MaxBackends = 3
    MaxResults = 2
    \* evaluations: suites that are imported, and what a run is limited to
    Library <- SmallLibrary
    Answers = {"x", "y"}
    Providers <- ShortChain
    Links = {"l1", "l2", "l3"}
    Planners = {"plan"}
    Picks = 2
    Suites = {"ds1000", "dare-bench", "writingbench", "pptarena"}
    MaxChosen = 2
    MaxTurns = 3
    Outside = {"gemini"}
    \* steps that call the manager's tools
    MaxTasks = 2
    Goroutines = {g1, g2}
    Helpers = {h1, h2}
    Rounds = 2
    CallsPerAnswer = 1
INVARIANTS
    PauseTakesHold DatabaseCurrent CompletedHasOutputs
    SentFaithfully
    RankingHolds
    ImportsHold ResultsHold
    CallsServed NoneForgotten
PROPERTIES
    CompletedIsFinal
    EveryKeyTried
    ToolsEnd
CHECK_DEADLOCK FALSE
