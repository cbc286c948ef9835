\* One process that makes two calls beside a foreign run, in the worst environment.
SPECIFICATION FairSpec
CONSTANTS
    Callers = {c1}
    ForeignRuns = {f1}
    MaxTimeoutRetries = 1
    Max5xxRetries = 1
    MaxCalls = 2
    ProbeMayFail = TRUE
    LateApply = TRUE
    None = None
INVARIANTS
    TypeOK
    RetriesPayForPosts
    SubmittedIffRunKnown
PROPERTIES
    CallEnds
    ImplementsJobLaunch
CHECK_DEADLOCK FALSE
