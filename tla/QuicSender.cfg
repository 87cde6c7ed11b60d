SPECIFICATION FairSpec
CONSTANTS
    MaxPkts = 6
    Cwnd = 2
    AckCap = 2
    Mode = "ANY"
    Large = {5}
    Required = {6}
CHECK_DEADLOCK FALSE
INVARIANTS CallbackNeverBlocks OnePhantom
PROPERTIES CycleTurns
