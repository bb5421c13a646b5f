\* Two calls on two connections, two messages, under the fairness of FairSpec.
SPECIFICATION FairSpec
CONSTANTS
    Channels = {c}
    Star = star
    MaxCalls = 2
    MaxMsgs = 2
    MaxConnects = 2
INVARIANTS MessageBelt
PROPERTIES EveryMessageHeard
CHECK_DEADLOCK FALSE
