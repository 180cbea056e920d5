SPECIFICATION FairSpec
CONSTANTS
    TotalRolloutSteps = 7
    RequiredSamples = 2
    TriggerSyncStep = 2
    MaxRequiredSamples = 4
    MaxConcurrentSamples = 2
    PendingCapacity = 1
    PartialRollout = TRUE
    MaxFaults = 1
    TestFreq = 2
INVARIANTS OnPolicy
PROPERTIES RunEnds ImplementsPipeline
