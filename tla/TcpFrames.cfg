SPECIFICATION FairSpec
CONSTANTS
    w1 = w1
    w2 = w2
    Writers = {w1, w2}
    Msgs <- Payloads
    B = 2
    Sides = {"handler", "sender"}
    BufSize = 2
    MaxWrites = 3
CHECK_DEADLOCK FALSE
PROPERTIES ImplementsChannel Delivered HandlerLeaves
