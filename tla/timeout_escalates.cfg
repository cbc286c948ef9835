\* One process, finished nodes: nobody answers the approval request.
SPECIFICATION Spec
CONSTANTS
    Workers = {w1}
    Incidents = {i1}
    Backends = {"shim", "langgraph"}
    Plans <- RetryOrSkip
    FinalStatuses = {"resolved", "escalated"}
    Observations <- AllObservations
    StubSets <- NoStubs
    MaxSteps = 9
    MaxRuns = 2
    None = None
INVARIANT
    TimeoutEscalates
CHECK_DEADLOCK FALSE
