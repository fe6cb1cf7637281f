\* One crash or failed request, and a participant who may leave, under fairness.
CONSTANTS
    owner = owner
    u1 = u1
    u2 = u2
    w1 = w1
    w2 = w2
    None = None
    Users = {owner, u1}
    Owner = owner
    Joined = {owner, u1}
    MayLeave = {u1}
    RoundsCount = 1
    Prompts = {p1}
    MinimumParticipantsToStart = 2
    VoteValues = {"LIKE"}
    Workers = {w1, w2}
    FaultKinds = {"crash", "requestFails"}
    MaxFaults = 1
    RepliesInOrder = TRUE
    TimersMayFireEarly = FALSE
SPECIFICATION FairSpec
PROPERTIES SubmissionPhaseEnds VotingStepEnds TournamentFinishes
CHECK_DEADLOCK FALSE
