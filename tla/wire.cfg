\* Two replies, or two commands.
SPECIFICATION WireSpec
CONSTANTS
    LongBits = 8
    Replies <- MCReplies
    MaxReplies = 2
    Commands <- MCCommands
    MaxCommands = 2
INVARIANTS TypeOK Faithful ExactConsumption RejectsOnlyMalformed Prompt BulkAssert CommandsArrive CompleteWithLastByte
CHECK_DEADLOCK FALSE
