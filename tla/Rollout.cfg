SPECIFICATION Spec
CONSTANTS
    NumTasks = 2
    NumSeeds = 2
    Width = 2
    MaxRowAttempts = 2
    Modes = {"threads", "pool"}
    Answers = {"text", "rejection"}
    Scores = {0, 4}
    Plans <- MCPlans
    MaxEvals = 1
    MaxFaults = 1
    None = None
INVARIANTS
    DeadlineRowsTruthful
    EvidenceRederives
