\* A connect that failed is tried again.
SPECIFICATION Spec
CONSTANTS
    MaxCmd = 1
    MaxPipe = 1
    Unparsable = {}
    OptionsFail = FALSE
    MaxConnects = 2
    MaxCloses = 0
INVARIANTS ConnectedWhenSucceeded
CHECK_DEADLOCK FALSE
