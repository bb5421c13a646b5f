SPECIFICATION Spec
CONSTANTS
    LongBits = 8
    Replies <- ArrayReplies
    MaxReplies = 1
INVARIANTS Faithful
CHECK_DEADLOCK FALSE
