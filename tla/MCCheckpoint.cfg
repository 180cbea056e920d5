SPECIFICATION FairSpec
CONSTANTS
    TotalSteps = 5
    Ranks = {r0, r1}
    Rank0 = r0
    Critic = TRUE
    SaveFreq = 2
    TestFreq = 2
    MaxBests = 2
    Limits = {0, 1, 2}
    MaxCrashes = 2
INVARIANTS TrackerNamesCheckpoint LoaderMatchesWeights DiskBounded
PROPERTIES ImplementsDurability TrainingEnds
