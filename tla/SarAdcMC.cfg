SPECIFICATION Spec
CONSTANTS
    Width = 3
    CountMod = 4
    Weight <- MCWeight
    NBits <- MCNBits
    Vin <- MCVin
INVARIANTS
    TypeOK
    ResultBracketed
    ConversionBracketed
    LowBitsClear
    ResolutionAsSelected
