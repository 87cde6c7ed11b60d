SPECIFICATION FairSpec
CONSTANTS
    Transports = {"quic", "tcp", "udp"}
    Cwnd = 5
    MaxPkts <- MCMaxPkts
    RtpCap <- MCRtpCap
    RtcpCap <- MCRtcpCap
    Reports <- MCReports
CHECK_DEADLOCK FALSE
INVARIANTS NoCycle
PROPERTIES WindowReopens BatchesArrive WholeBatchesOnQuic
