SPECIFICATION FairSpec
CONSTANTS
    Half = 4
    LoadValue = 3
    tpb = 6
    MaxGap = 3
INVARIANTS
    TypeOK
    ReadingIsElapsed
    WaitIsExact
PROPERTIES
    WaitEnds
