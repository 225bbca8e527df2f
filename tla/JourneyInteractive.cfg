SPECIFICATION Spec
CONSTANTS
    owner = owner
    reviewer1 = reviewer1
    reviewer2 = reviewer2
    None = None
    User = {owner, reviewer1, reviewer2}
    Approver = {reviewer1, reviewer2}
    Method <- ReviewedMethods
    Batch = FALSE
    PendingPolls = 1
    MaxPolls = 0
SYMMETRY Symmetry
INVARIANTS
    TypeOK
    DecisionStands
    ReviewHasPlan
    ApprovedCanBeResumed
CHECK_DEADLOCK FALSE
