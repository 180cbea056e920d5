CONSTANTS
    Rollouts = {r1, r2}
    Servers = {s1, s2}
    Workers = {w1}
    NoServer = NoServer
    Kinds = {"call"}
    ResponseLength = 3
    MaxModelLen = 3
    MaxSyncs = 1
SPECIFICATION FairSpec
INVARIANTS Aligned QuietTransfer ScoredOnce VersionsOrdered
PROPERTIES ImplementsTranscripts PauseCompletes SampleReleased
CHECK_DEADLOCK FALSE
