SPECIFICATION FairSpec
CONSTANTS
    DivMod = 4
    BitsMod = 4
    SrLen = 5
    Divisor = 2
    DataBits = 2
    StopBits = 1
    BitTimes <- MCBitTimes
INVARIANTS
    TypeOK
    StartsOnStartBit
    SamplesInTheirBits
    FrameCaptured
PROPERTIES
    FrameEnds
    Recovers
    ImplementsRx
