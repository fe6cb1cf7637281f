\* Two rounds, a participant who joins at any time, and one fault.
CONSTANTS
    owner = owner
    u1 = u1
    u2 = u2
    w1 = w1
    w2 = w2
    p1 = p1
    p2 = p2
    None = None
    Users = {owner, u1}
    Owner = owner
    Joined = {owner}
    MayLeave = {}
    RoundsCount = 2
    Prompts = {p1, p2}
    MinimumParticipantsToStart = 1
    VoteValues = {"LIKE"}
    Workers = {w1, w2}
    FaultKinds = {"crash", "requestFails", "replyLost"}
    MaxFaults = 1
    RepliesInOrder = TRUE
    TimersMayFireEarly = FALSE
SPECIFICATION EventsSpec
SYMMETRY Symmetry
INVARIANTS EventsTypeOK ViewCatchesUp FinalTalliesStand StandingsAddUp
PROPERTIES WinnerHadLed NeverBackwards
CHECK_DEADLOCK FALSE
