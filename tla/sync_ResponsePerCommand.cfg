\* A time limit passes and the next command is issued.
SPECIFICATION Spec
CONSTANTS
    MaxCmd = 2
    MaxPipe = 1
    Unparsable = {}
    OptionsFail = FALSE
    MaxConnects = 1
    MaxCloses = 0
INVARIANTS ResponsePerCommand
CHECK_DEADLOCK FALSE
