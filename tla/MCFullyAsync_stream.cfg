SPECIFICATION Spec
CONSTANTS
    TotalRolloutSteps = 5
    RequiredSamples = 1
    TriggerSyncStep = 1
    MaxRequiredSamples = 2
    MaxConcurrentSamples = 2
    PendingCapacity = 1
    PartialRollout = FALSE
    MaxFaults = 1
    TestFreq = 2
INVARIANTS LockDiscipline VersionsInOrder ConcurrencyBounded
    RolloutAheadBounded StalenessBounded StreamIsClosed ValidationLogged
PROPERTIES GatherIsComplete
