\* Two processes with caps that may differ, around one midnight.
SPECIFICATION FairSpec
CONSTANTS
    Callers = {c1, c2}
    Caps = {0, 1, 2}
    MaxAttempts = 2
    MaxCalls = 2
    MaxDay = 1
    None = None
INVARIANTS
    TypeOK
    CountIsCharges
    WithinCap
    ChargedIffRequested
PROPERTIES
    CallEnds
    ImplementsDailyQuota
CHECK_DEADLOCK FALSE
