SPECIFICATION FairSpec
CONSTANTS
    c1 = c1
    d1 = d1
    d2 = d2
    x1 = x1
    x2 = x2
    Conns = {c1}
    Dgrams = {d1, d2}
    Streams = {x1, x2}
    Of <- Owner
    NoFlowID = {d2}
CHECK_DEADLOCK FALSE
INVARIANTS WholeAndOnce QuietAfterStart
PROPERTIES StreamsRead ServerStops
