\* Two alerts, with no retry or the default two, over three instants.
SPECIFICATION FairSpec
CONSTANTS
    RetrySettings = {0, 2}
    MaxCalls = 2
    MaxTime = 2
INVARIANTS
    TypeOK
    ReturnedMeansReceived
    CopiesAreRecognizable
    TransientMeansAllAttempts
PROPERTY
    CallEnds
CHECK_DEADLOCK FALSE
