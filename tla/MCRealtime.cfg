CONSTANTS
    owner = owner
    u1 = u1
    s1 = s1
    s2 = s2
    None = None
    Users = {owner, u1}
    Owner = owner
    Sockets = {s1, s2}
    MaxHandlers = 2
    MaxQueue = 1
    MaxJoined = 2

SPECIFICATION Spec

INVARIANTS
    TypeOK
    PresenceExact
    PresenceShown
    RoomIsForParticipants
    CancelHeard

SYMMETRY Symmetry
CHECK_DEADLOCK FALSE
