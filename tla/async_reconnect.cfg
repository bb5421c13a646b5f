\* Three connection attempts and two disconnects, between or during them, under
\* the fairness of FairSpec.
SPECIFICATION FairSpec
CONSTANTS
    MaxCmd = 2
    Unparsable = {}
    MaxConnects = 3
    MaxCloses = 2
INVARIANTS TypeOK SingleWriter WireOrder OneReader NotSilentlyDeaf AnsweredOnce Belt UndefinedOnlyByClose
PROPERTIES PairedReplies EveryCommandEnds ConnectEventuallyEnds
CHECK_DEADLOCK FALSE
