\* Two commands, a break and a refused connect.
SPECIFICATION ExampleFairSpec
CONSTANTS
    Roles = {"publisher", "subscriber"}
    MaxBreaks = 1
    MaxRefusals = 1
    MaxCmd = 2
    Unparsable = {}
    MaxConnects = 14
    MaxCloses = 14
INVARIANTS NoReconnectStorm
PROPERTIES GivesUpBroken PublishesAgain
CHECK_DEADLOCK FALSE
