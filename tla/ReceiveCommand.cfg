SPECIFICATION FairSpec
CONSTANTS
    p1 = p1
    p2 = p2
    Transports = {"quic", "tcp", "udp"}
    Peers = {p1, p2}
    Host <- OneHost
    MaxPkts <- MCMaxPkts
CHECK_DEADLOCK FALSE
INVARIANTS OwnSink LogKept
PROPERTIES PeersServed ServerReturns
