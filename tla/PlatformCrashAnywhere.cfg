SPECIFICATION Spec
CONSTANTS
    None = None
    Adapters = {"gepa", "copro"}
    Rows = 2
    MaxSteps = 3
    MaxEpisodes = 2
    OpeningStops = TRUE
    MaxCrashes = 5
    MaxReplays = 2
    CrashFrom = 0
    MixedFaults = TRUE
INVARIANTS ParkedOnOwnIntents
PROPERTIES FinalResultsSurvive
