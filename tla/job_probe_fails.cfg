\* One process whose probe may fail; no request is applied late.
SPECIFICATION Spec
CONSTANTS
    Callers = {c1}
    ForeignRuns = {}
    MaxTimeoutRetries = 1
    Max5xxRetries = 1
    MaxCalls = 1
    ProbeMayFail = TRUE
    LateApply = FALSE
    None = None
INVARIANTS
    NoDuplicateActiveRun
CHECK_DEADLOCK FALSE
