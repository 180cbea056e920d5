SPECIFICATION Spec
CONSTANTS
    TotalSteps = 5
    Ranks = {r0, r1}
    Rank0 = r0
    Critic = TRUE
    SaveFreq = 2
    TestFreq = 1
    MaxBests = 2
    Limits = {2}
    MaxCrashes = 0
INVARIANT BestKept
