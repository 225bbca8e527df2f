SPECIFICATION ConversationSpec
CONSTANTS
    scope1 = scope1
    t1 = t1
    t2 = t2
    d1 = d1
    old = old
    new = new
    None = None
    Deleted = Deleted
    Scope = {scope1}
    UserOf <- OneUser
    MutationId <- Mutations
    EventId <- Events
    Claims = {old, new}
    Turn = {t1, t2, d1}
    Deletion = {d1}
    ScopeOf <- OneConversation
    ClaimsOf <- VerifiedClaims
    MaxFaults = 2
INVARIANTS
    ConversationTypeOK
    RetiredLeavesNothing
    AnswersFollowMessages
    AnsweredIsRecorded
    RefusedIsNotApplied
PROPERTIES
    ImplementsLog
    AppendsToWhatWasSeen
CHECK_DEADLOCK FALSE
