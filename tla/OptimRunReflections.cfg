SPECIFICATION Spec
CONSTANTS
    Seed = Seed
    Invalid = Invalid
    None = None
    a = a
    b = b
    Breadth = 2
    Depth = 2
    Valset <- MCValset
    Minibatch <- MCMinibatch
    Runs <- MCPlatformGepa
    Drafts <- MCDrafts
    Reflections <- MCReflections
    Rewards = {0, 1}
    Repeats <- MCRepeats
    MaxCrashes = 0
    MaxFaults = 0
INVARIANT ReflectionSpendRecorded
