\* Days of four hours of six minutes; a run every three minutes, up to two late.
SPECIFICATION Spec
CONSTANTS
    Day = 24
    Hour = 6
    KstOffset = 6
    Period = 3
    MaxDelay = 2
    PollEvery = 3
    PollAfter <- EarlyAndLate
    Targets = {"pipeline_silver", "pipeline_b", "pipeline_a", "pipeline_x"}
    MaxTime = 72
    Never = Never
INVARIANT
    MicrobatchEveryCycle
CHECK_DEADLOCK FALSE
