SPECIFICATION UnwrapSpec
CONSTANTS
    Firsts <- MCFirsts
    Jumps <- MCJumps
    MaxSeen = 6
CHECK_DEADLOCK FALSE
INVARIANTS Recovers KeepsLowBits
