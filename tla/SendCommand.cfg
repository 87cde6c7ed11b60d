SPECIFICATION FairSpec
CONSTANTS
    Rates <- MCRates
    Initial = 1000
    Unit = 1000
    UintSpan = 65536
    Frames <- MCFrames
    MaxBuffers = 3
    MaxPackets = 2
CHECK_DEADLOCK FALSE
INVARIANTS NoMediaRace EndIsComplete KeyFramesReliable
PROPERTIES BuildReturns RateFollows BuffersTaken
