SPECIFICATION Spec
CONSTANTS
    a = a
    b = b
    Streams <- TwoStreams
    Ssrc <- OwnSsrc
    MaxPkts = 2
    Cwnd = 2
    Ops = {"Close", "Unbind"}
    NoStream = NoStream
SYMMETRY Symmetric
CHECK_DEADLOCK FALSE
INVARIANTS InOrder TimerClosedOnce WindowOvershoot CloseMeansQuiet FeedbackMeetsRunningLoop
