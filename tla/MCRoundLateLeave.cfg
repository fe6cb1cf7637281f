\* Leaving overtakes the start.
CONSTANTS
    owner = owner
    u1 = u1
    u2 = u2
    w1 = w1
    w2 = w2
    None = None
    Users = {owner, u1}
    Owner = owner
    Joined = {owner}
    MayLeave = {u1}
    RoundsCount = 2
    Prompts = {p1, p2}
    MinimumParticipantsToStart = 1
    VoteValues = {"LIKE"}
    Workers = {w1, w2}
    FaultKinds = {}
    MaxFaults = 0
    RepliesInOrder = TRUE
    TimersMayFireEarly = FALSE
SPECIFICATION Spec
SYMMETRY Symmetry
PROPERTIES NobodyLeavesAfterStart
CHECK_DEADLOCK FALSE
