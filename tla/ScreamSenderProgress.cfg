SPECIFICATION FairSpec
CONSTANTS
    a = a
    b = b
    Streams <- OneStream
    Ssrc <- OwnSsrc
    MaxPkts = 3
    Cwnd = 1
    Ops = {"Close"}
    NoStream = NoStream
CHECK_DEADLOCK FALSE
PROPERTIES NoPacketForgotten CallsReturn CloseReturnsIfRunning
