SPECIFICATION FairSpec
CONSTANTS
    None = None
    Adapters = {"gepa", "copro"}
    Rows = 2
    MaxSteps = 3
    MaxEpisodes = 2
    OpeningStops = TRUE
    MaxCrashes = 5
    MaxReplays = 2
    CrashFrom = 1
    MixedFaults = FALSE
INVARIANTS HistoryHasNoPlaceholder RetriesSucceed ChainReachesTerminal NoEvaluationDropped
PROPERTIES HeadOnlyAdvances RunCompletes
