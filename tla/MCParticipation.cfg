CONSTANTS
    t1 = t1
    t2 = t2
    None = None
    Creators = {1, 2}
    Users = {1, 2, 3}
    Tournaments = {t1, t2}
    Private = {t1, t2}
    KeyOf <- MCKeyOf
    MinimumParticipantsToStart = 2
    Workers = {w1, w2}

SPECIFICATION Spec

INVARIANTS
    TypeOK
    OneActiveTournament
    OneOpenOwnedTournament
    DeadlockNeedsCollision
    DraftDetailsShowOwner
PROPERTIES
    MembershipSpec
SYMMETRY Symmetry
