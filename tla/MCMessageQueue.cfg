SPECIFICATION MQSpec
CONSTANTS
    Sample <- MCSample
    Version <- MCVersion
    Consumer = {c1, c2}
    MaxQueueSize = 2
    MaxProduced = 5
INVARIANTS NothingUnaccounted NoLostWakeup
