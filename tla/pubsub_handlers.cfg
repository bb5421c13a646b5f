\* Any three calls on two connections, one message.
SPECIFICATION Spec
CONSTANTS
    Channels = {c}
    Star = star
    MaxCalls = 3
    MaxMsgs = 1
    MaxConnects = 2
INVARIANTS TypeOK MessageBelt SingleShotOnce
PROPERTIES ConfirmationsPaired
CHECK_DEADLOCK FALSE
