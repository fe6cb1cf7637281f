\* Two faults of any kind, replies in any order, early timers.
CONSTANTS
    owner = owner
    u1 = u1
    w1 = w1
    w2 = w2
    p1 = p1
    None = None
    Users = {owner, u1}
    Owner = owner
    Joined = {owner}
    MayLeave = {u1}
    RoundsCount = 1
    Prompts = {p1}
    MinimumParticipantsToStart = 1
    VoteValues = {"LIKE", "DISLIKE"}
    Workers = {w1, w2}
    FaultKinds = {"crash", "requestFails", "replyLost"}
    MaxFaults = 2
    RepliesInOrder = FALSE
    TimersMayFireEarly = TRUE
SPECIFICATION QueriesSpec
SYMMETRY Symmetry
INVARIANTS VotingCursor BallotsAreLegal ScoreLedger WinnerOnTop StandingsPrecedeRound CompletedIsFinal
PROPERTIES ClosedIsFrozen
CHECK_DEADLOCK FALSE
