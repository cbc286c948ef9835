\* The parts that share nothing.  The watchdog has days of four hours of six minutes,
\* and a run every three minutes, up to two late.
SPECIFICATION PartsSpec
CONSTANTS
    Day = 24
    Hour = 6
    KstOffset = 6
    Period = 3
    MaxDelay = 2
    PollEvery = 3
    PollAfter <- EarlyAndLate
    Targets = {"pipeline_silver", "pipeline_b", "pipeline_a", "pipeline_x"}
    MaxTime = 72
    Never = Never
    BadRecordSet <- Records
    MaxTypeCount = 2
    MaxSamplesPerType = 2
    MaxRecords = 5
    Unknown <- UnknownText
    Blank <- Spaces
    Absent = Absent
    None = None
    Merged <- Pulls
    AiGenerated <- Labelled
    PerPage = 2
    MaxPages = 2
    MaxTouches = 2
    Detections <- TwoFailures
    MaxDetections = 2
    Null = Null
INVARIANTS
    TypeOK
    PolledInTime
    NothingLeftOutSilently
    MostFrequentTypesShown
    EndedAnswersStay
    EnvironmentOverridesScope
    MissingOnlyBehindOlder
    OneRepeatPerTouch
    OneHiddenPerTouch
    FingerprintNamesFailure
CHECK_DEADLOCK FALSE
