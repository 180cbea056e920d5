CONSTANTS
    Rollouts = {r1}
    Servers = {s1}
    Workers = {w1}
    NoServer = NoServer
    Kinds = {"text", "open", "close"}
    ResponseLength = 4
    MaxModelLen = 4
    MaxSyncs = 1
SPECIFICATION Spec
INVARIANT ToolCallsExecuted
CHECK_DEADLOCK FALSE
