SPECIFICATION FairSpec
CONSTANTS
    TotalRolloutSteps = 3
    RequiredSamples = 1
    TriggerSyncStep = 1
    MaxRequiredSamples = 2
    MaxConcurrentSamples = 2
    PendingCapacity = 1
    PartialRollout = TRUE
    MaxFaults = 1
    TestFreq = 2
INVARIANTS SampleInOnePlace
PROPERTIES SyncEnds
