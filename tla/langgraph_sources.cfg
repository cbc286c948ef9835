\* One process on LangGraph, with the nodes as they are today.
SPECIFICATION Spec
CONSTANTS
    Workers = {w1}
    Incidents = {i1}
    Backends = {"langgraph"}
    Plans <- RetryOrSkip
    FinalStatuses = {"resolved", "escalated"}
    Observations <- AllObservations
    StubSets <- AllStubs
    MaxSteps = 9
    MaxRuns = 2
    None = None
INVARIANT
    IssuesDetected
CHECK_DEADLOCK FALSE
