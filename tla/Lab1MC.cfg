CONSTANTS
    NBIT = 3
    CountBits = 4
    IntBits = 4
    Weight <- MCWeight
SPECIFICATION Spec
INVARIANTS SumOfTwoEdges EdgesCounted
