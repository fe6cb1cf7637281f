\* One crash.
CONSTANTS
    owner = owner
    u1 = u1
    u2 = u2
    w1 = w1
    w2 = w2
    None = None
    Users = {owner, u1}
    Owner = owner
    Joined = {owner, u1}
    MayLeave = {}
    RoundsCount = 1
    Prompts = {p1}
    MinimumParticipantsToStart = 2
    VoteValues = {"LIKE"}
    Workers = {w1, w2}
    FaultKinds = {"crash"}
    MaxFaults = 1
    RepliesInOrder = TRUE
    TimersMayFireEarly = FALSE
SPECIFICATION FairSpec
PROPERTIES FinalizationIsFollowedUp
CHECK_DEADLOCK FALSE
