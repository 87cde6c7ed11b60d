SPECIFICATION QueueSpec
CONSTANTS
    Sizes = {1, 3}
    MaxSeq = 5
    MaxTime = 4
CHECK_DEADLOCK FALSE
INVARIANTS BytesMatch AnswersFit
