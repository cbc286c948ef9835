\* Two processes, the configured retry budgets; the probe answers and no
\* request is applied after its client gave it up.
SPECIFICATION Spec
CONSTANTS
    Callers = {c1, c2}
    ForeignRuns = {f1}
    MaxTimeoutRetries = 2
    Max5xxRetries = 2
    MaxCalls = 1
    ProbeMayFail = FALSE
    LateApply = FALSE
    None = None
SYMMETRY
    CallerSymmetry
INVARIANTS
    NoDuplicateActiveRun
    ExhaustedLeavesNothingRunning
CHECK_DEADLOCK FALSE
