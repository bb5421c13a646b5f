\* Two handlers of one channel.
SPECIFICATION Spec
CONSTANTS
    Channels = {c}
    Star = star
    MaxCalls = 3
    MaxMsgs = 0
    MaxConnects = 1
INVARIANTS StaysSubscribed
CHECK_DEADLOCK FALSE
