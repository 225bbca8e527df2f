SPECIFICATION BatchSpec
CONSTANTS
    w1 = w1
    w2 = w2
    w3 = w3
    request1 = request1
    result1 = result1
    None = None
    Agent = "apm-validation-agent"
    Worker = {w1}
    WorkflowRun = {"run1"}
    MutationId <- Mutations
    ExternalReference = {request1}
    ResultReference = {result1}
    RunOf <- SameRun
    RequestId = request1
    Reference = result1
    Change <- SavedProgress
    Failures = {""}
    PendingPolls = 0
    LeaseSeconds = 1
    MaxClock = 2
    MaxFaults = 2
INVARIANTS
    FailureIsRecorded
CHECK_DEADLOCK FALSE
