\* The last two voters' handlers interleave.
CONSTANTS
    owner = owner
    u1 = u1
    u2 = u2
    w1 = w1
    w2 = w2
    None = None
    Users = {owner, u1, u2}
    Owner = owner
    Joined = {owner, u1, u2}
    MayLeave = {}
    RoundsCount = 1
    Prompts = {p1}
    MinimumParticipantsToStart = 3
    VoteValues = {"LIKE"}
    Workers = {w1, w2}
    FaultKinds = {}
    MaxFaults = 0
    RepliesInOrder = TRUE
    TimersMayFireEarly = FALSE
SPECIFICATION Spec
SYMMETRY Symmetry
PROPERTIES AllActiveEligibleVotersVoted
CHECK_DEADLOCK FALSE
