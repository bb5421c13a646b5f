\* Pipelines of up to three commands, failures of every call, a reconnect; that
\* time limits pass is all the fairness there is.
SPECIFICATION FairSpec
CONSTANTS
    MaxCmd = 4
    MaxPipe = 3
    Unparsable = {3}
    OptionsFail = TRUE
    MaxConnects = 3
    MaxCloses = 1
INVARIANTS TypeOK NothingLeftBehind
PROPERTIES OwnReplies ImplementsChannel CallReturns
CHECK_DEADLOCK FALSE
