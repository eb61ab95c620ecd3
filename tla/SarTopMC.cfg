SPECIFICATION TopFairSpec
CONSTANTS
    Width = 2
    CountMod = 4
    Weight <- MCWeight
    NBits <- MCNBits
    Vin <- MCVin
    DivMod = 4
    Divisors <- MCDivisors
INVARIANTS
    DividerTypeOK
PROPERTIES
    SlowClockPeriod
    KeepsConverting
    ZeroDivisorStops
