SPECIFICATION FairSpec
CONSTANTS
    HalfBits = 1
    tpb = 8
    MaxOver = 1
    MaxPrint = 2
    ErrorLen = 1
    FifoDepth = 1
    BitTimes <- MCBitTimes
INVARIANTS
    DigitsInMap
