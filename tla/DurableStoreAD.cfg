SPECIFICATION Spec
CONSTANTS
    m1 = m1
    m2 = m2
    x1 = x1
    x2 = x2
    r1 = r1
    None = None
    Agent = "ad-provisioning-agent"
    WorkflowRun = {"run1", "run2"}
    MutationId = {m1, m2}
    ExternalReference = {x1, x2}
    ResultReference = {r1}
    Change <- ADChanges
    LeaseSeconds = 1
    MaxClock = 2
SYMMETRY Symmetry
INVARIANTS
    TypeOK
    OneRunningExecution
    VersionsAcknowledgedOnce
    AuditLeadsToRow
PROPERTIES
    LiveLeaseIsSafe
    ProgressMovesForward
    ImplementsRegister
CHECK_DEADLOCK FALSE
