CONSTANTS
    BufLen = 3
    FifoLen = 2
    WriteThreshold = 1
    ReadThreshold = 0
    IntMax = 4
    DefaultTimeout = 2
    Timeouts <- MCTimeouts
    MaxCount = 2
    ByteMod = 3
    Sessions <- MCSessions
CHECK_DEADLOCK FALSE
SPECIFICATION FairSpec
INVARIANTS TypeOK NoLostWakeup
PROPERTIES InOrder CallsReturn Arrives
