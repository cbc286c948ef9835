\* Two processes on one incident, every backend, with and without the skeletons.
SPECIFICATION Spec
CONSTANTS
    Workers = {w1, w2}
    Incidents = {i1}
    Backends = {"shim", "langgraph"}
    Plans <- RetryOrSkip
    FinalStatuses = {"resolved", "pending"}
    Observations <- AllObservations
    StubSets <- NoneOrAllStubs
    MaxSteps = 9
    MaxRuns = 2
    None = None
SYMMETRY WorkerSymmetry
INVARIANTS
    TypeOK
    OneApprovedSubmissionPerRun
    SkeletonsBlockRemediation
    RegisteredThreadsAreCheckpointed
PROPERTY
    ImplementsIncidentRegistry
CHECK_DEADLOCK FALSE
