SPECIFICATION FairWorkflowSpec
CONSTANTS
    Client = {c1, c2}
    c1 = c1
    c2 = c2
    request = request
    reference = reference
    ExternalReference = {request}
    ResultReference = {reference}
    RequestId = request
    Reference = reference
    None = None
    LocksRows = FALSE
    LeaseSeconds = 1
    MaxClock = 1
    Journeys <- StartingJourneys
    PendingPolls = 1
    MaxPolls <- OnceOrTwice
    MaxFaults = 1
INVARIANTS
    JobsInOrder
    OutcomeIsHonest
    WaitingRunsObserve
    TrailLeadsToRow
PROPERTIES
    LiveLeaseStands
    SilentAfterOutcome
    ImplementsFence
    EveryRunEnds
CHECK_DEADLOCK FALSE
