SPECIFICATION Spec
CONSTANTS
    Seed = Seed
    Invalid = Invalid
    None = None
    a = a
    b = b
    Breadth = 2
    Depth = 3
    Valset <- MCValset
    Minibatch <- MCMinibatch
    Runs <- MCRuns
    Drafts <- MCDrafts
    Reflections <- MCReflections
    Rewards = {0, 1}
    Repeats <- MCRepeats
    MaxCrashes = 1
    MaxFaults = 1
INVARIANTS WinnerIsBest SpendCountedOnce
PROPERTY RunEnds
