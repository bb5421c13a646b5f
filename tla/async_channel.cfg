\* Three commands, the reply to the last not understood, and a reconnect.
SPECIFICATION Spec
CONSTANTS
    MaxCmd = 3
    Unparsable = {3}
    MaxConnects = 2
    MaxCloses = 1
INVARIANTS SingleWriter WireOrder Belt QueueDrains
PROPERTIES PairedReplies ImplementsChannel
CHECK_DEADLOCK FALSE
