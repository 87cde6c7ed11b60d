SPECIFICATION FairSpec
CONSTANTS
    a = a
    b = b
    Ssrcs = {a, b}
    Supported = {a}
    MaxPkts = 2
    MaxBinds = 2
    Ops = {"Close", "Unbind"}
INVARIANTS CloseMeansQuiet
PROPERTIES EventuallyReported CloseReturns ReadReturns
CHECK_DEADLOCK FALSE
