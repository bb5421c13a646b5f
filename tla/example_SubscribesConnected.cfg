\* One break.
SPECIFICATION ExampleSpec
CONSTANTS
    Roles = {"subscriber"}
    MaxBreaks = 1
    MaxRefusals = 0
    MaxCmd = 4
    Unparsable = {}
    MaxConnects = 14
    MaxCloses = 14
INVARIANTS SubscribesConnected
CHECK_DEADLOCK FALSE
