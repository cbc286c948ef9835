\* One process, two runs of either backend one after the other, calling the job.
SPECIFICATION FairAgentSpec
CONSTANTS
    Workers = {w1}
    Incidents = {i1}
    Backends = {"shim", "langgraph"}
    Plans <- AllPlans
    FinalStatuses = {"resolved", "failed", "escalated", "pending"}
    Observations <- AllObservations
    StubSets <- NoneOrAllStubs
    MaxSteps = 9
    MaxRuns = 2
    ForeignRuns = {f1}
    Limit = 2
    None = None
INVARIANTS
    AgentTypeOK
    SubmittedPlansMeetContract
    JobsPaidByApprovals
    ResultsTellOfCalls
PROPERTIES
    RunEnds
    OnlyStandingApprovalsSubmit
    RegistryMatchesCheckpoint
CHECK_DEADLOCK FALSE
