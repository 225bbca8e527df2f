SPECIFICATION FairSpec
CONSTANTS
    owner = owner
    reviewer1 = reviewer1
    reviewer2 = reviewer2
    None = None
    User = {owner, reviewer1}
    Approver = {reviewer1}
    Method <- BatchMethods
    Batch = TRUE
    PendingPolls = 1
    MaxPolls = 1
INVARIANTS
    NothingBuiltUnapproved
    ResultsMatchHistory
    PendingRequestCanComplete
PROPERTIES
    EveryCallEnds
CHECK_DEADLOCK FALSE
