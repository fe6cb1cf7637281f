CONSTANTS
    c1 = c1
    c2 = c2
    e1 = e1
    e2 = e2
    n1 = n1
    n2 = n2
    w1 = w1
    w2 = w2
    None = None
    Clients = {c1, c2}
    Emails = {e1, e2}
    Usernames = {n1, n2}
    Workers = {w1, w2}
    Expires = 1
    RefreshExpires = 2
    MaxUsers = 2
    MaxTime = 2

SPECIFICATION Spec

INVARIANTS
    TypeOK
    AccountsAreUnique
    TakenIsTold
    LogoutSticks
    AnsweredTokenIsLive

SYMMETRY Symmetry
CHECK_DEADLOCK FALSE
