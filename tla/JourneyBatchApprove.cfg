SPECIFICATION Spec
CONSTANTS
    owner = owner
    reviewer1 = reviewer1
    reviewer2 = reviewer2
    None = None
    User = {owner, reviewer1}
    Approver = {reviewer1}
    Method <- StartAndApprove
    Batch = TRUE
    PendingPolls = 1
    MaxPolls = 1
INVARIANTS
    NothingBuiltUnapproved
CHECK_DEADLOCK FALSE
