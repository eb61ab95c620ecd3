SPECIFICATION FairSpec
CONSTANTS
    Ports <- MCPorts
    Unmapped = "unmapped"
INVARIANTS
    GrantsExclusive
    ReadsAnswered
    OvertakenOnce
PROPERTIES
    RequestServed
