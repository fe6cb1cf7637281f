\* The owner and two users who join at any time, one round, one reply that may be lost.
CONSTANTS
    owner = owner
    u1 = u1
    u2 = u2
    w1 = w1
    w2 = w2
    None = None
    Users = {owner, u1, u2}
    Owner = owner
    Joined = {owner}
    MayLeave = {}
    RoundsCount = 1
    Prompts = {p1}
    MinimumParticipantsToStart = 1
    VoteValues = {"LIKE"}
    Workers = {w1, w2}
    FaultKinds = {"replyLost"}
    MaxFaults = 1
    RepliesInOrder = TRUE
    TimersMayFireEarly = FALSE
SPECIFICATION Spec
SYMMETRY Symmetry
INVARIANTS TypeOK BallotsAreLegal ScoreLedger NoBallotMissing
PROPERTIES ClosedIsFrozen
CHECK_DEADLOCK FALSE
