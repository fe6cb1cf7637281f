-------------------------------- MODULE Auth --------------------------------
(***************************************************************************)
(* Accounts and sessions: register, login, refresh and logout requests     *)
(* (auth.service, token.service, user.service) that run concurrently over  *)
(* the users table and the refresh tokens in Redis.                        *)
(*                                                                         *)
(* A step is one query or Redis command with the synchronous code around   *)
(* it.  The password hash only takes time, so it is no step of its own.    *)
(***************************************************************************)
EXTENDS Integers, FiniteSets, Sequences

CONSTANTS
    Emails, Usernames, \* bound: what is registered with
    Clients,           \* browsers; each has a fingerprint cookie
    Expires,           \* JWT_EXPIRES, in seconds
    RefreshExpires,    \* JWT_REFRESH_EXPIRES
    Workers,           \* bound: requests in flight at the same time
    MaxUsers,          \* bound: rows of the users table
    MaxTime,           \* bound: seconds that pass
    None

ASSUME AuthAssumption ==
    /\ {Expires, RefreshExpires} \subseteq Nat \ {0}
    /\ {MaxUsers, MaxTime} \subseteq Nat
    /\ None \notin Emails \cup Usernames \cup Clients

VARIABLES
    now,      \* the clock, in seconds
    users,    \* rows of the users table; a user's id is its position
    stored,   \* Redis: the refresh token under each key, with its end
    holding,  \* the tokens each client was answered last
    requests, \* the request each worker is executing
    history   \* see TypeOK

vars == <<now, users, stored, holding, requests, history>>

UserIds == 1..MaxUsers

(* jsonwebtoken stamps a token with the second it is signed in: two tokens *)
(* signed for one user in one second are the same string.                  *)
Tokens == [user : UserIds, iat : 0..MaxTime]

ASSUME NullAssumption == None \notin Tokens

Sign(u) == [user |-> u, iat |-> now]

(* The strategies accept any token signed with the one secret, an access   *)
(* or a refresh token, while it has not expired.                           *)
Authenticates(token, time) == time < token.iat + Expires \/ time < token.iat + RefreshExpires

(* The middleware makes request.fp an object and the decorator wraps it in *)
(* another, so that what is put into the key `${userId}:${hash}` is the    *)
(* text of an object, the same for every client.                           *)
RefreshTokenKey(u, c) == <<u, "[object Object]">>

Keys == UserIds \X {"[object Object]"}

NoEntry == [token |-> None, until |-> 0]

Forever == MaxTime + RefreshExpires + 1 \* variant: stored without a TTL

EndOfEntry == now + RefreshExpires

Steps == {"idle", "checking", "inserting", "validating", "verifying",
          "generating", "deleting", "answering"}

(* taken: at its arrival the email or the username was in use; early: it   *)
(* had been verified when its user logged out; overtaken: the entry it     *)
(* stored was replaced or deleted before it answered.                      *)
Request == [pc : Steps, op : {"none", "register", "login", "refresh", "logout"},
            client : Clients \cup {None}, user : 0..MaxUsers,
            email : Emails \cup {None}, username : Usernames \cup {None},
            checked : SUBSET {"email", "username"}, found : SUBSET {"email", "username"},
            token : Tokens \cup {None}, status : {0, 200, 201, 400, 401, 500},
            taken : BOOLEAN, early : BOOLEAN, overtaken : BOOLEAN]

NoRequest == [pc |-> "idle", op |-> "none", client |-> None, user |-> 0,
              email |-> None, username |-> None, checked |-> {}, found |-> {},
              token |-> None, status |-> 0, taken |-> FALSE, early |-> FALSE, overtaken |-> FALSE]

Init ==
    /\ now = 0
    /\ users = <<>>
    /\ stored = [k \in Keys |-> NoEntry]
    /\ holding = [c \in Clients |-> None]
    /\ requests = [w \in Workers |-> NoRequest]
    /\ history = [loggedOut |-> {}, revived |-> {}]

At(w, pc) == requests[w].pc = pc
Becomes(w, request) == requests' = [requests EXCEPT ![w] = request]

(* What is left of a request once its user is known, and once it answers.  *)
Generates(r, u) ==
    [NoRequest EXCEPT !.pc = "generating", !.op = r.op, !.client = r.client, !.user = u]

Fails(r, status) ==
    [NoRequest EXCEPT !.pc = "answering", !.client = r.client, !.taken = r.taken, !.status = status]

Succeeds(r, status, token) ==
    [Fails(r, status) EXCEPT !.user = r.user, !.token = token]

-----------------------------------------------------------------------------
(* Registering                                                             *)

EmailInUse(email) == \E i \in DOMAIN users : users[i].email = email
UsernameInUse(username) == \E i \in DOMAIN users : users[i].username = username

AskToRegister(w, c, email, username) ==
    /\ At(w, "idle")
    /\ Becomes(w, [NoRequest EXCEPT !.pc = "checking", !.op = "register", !.client = c,
                      !.email = email, !.username = username,
                      !.taken = EmailInUse(email) \/ UsernameInUse(username)])
    /\ UNCHANGED <<now, users, stored, holding, history>>

EmailOnly == {"email"} \* variant: the username is left to the index

Checks == {"email", "username"}

(* The two queries of Promise.all run in any order.                        *)
CheckName(w) ==
    LET r == requests[w] IN
    /\ At(w, "checking") /\ r.checked # Checks
    /\ \E what \in Checks \ r.checked :
         Becomes(w, [r EXCEPT !.checked = @ \cup {what},
            !.found = IF (what = "email" /\ EmailInUse(r.email))
                           \/ (what = "username" /\ UsernameInUse(r.username))
                        THEN @ \cup {what} ELSE @])
    /\ UNCHANGED <<now, users, stored, holding, history>>

DecideToInsert(w) ==
    LET r == requests[w] IN
    /\ At(w, "checking") /\ r.checked = Checks
    /\ Becomes(w, IF r.found = {} THEN [r EXCEPT !.pc = "inserting"] ELSE Fails(r, 400))
    /\ UNCHANGED <<now, users, stored, holding, history>>

EmailIsNew(row) == ~EmailInUse(row.email) \* variant: no index on the username

(* The unique indexes of the table.                                        *)
Insertable(row) == ~EmailInUse(row.email) /\ ~UsernameInUse(row.username)

(* A row that is not: the QueryFailedError becomes a 500 in the filter.    *)
Insert(w) ==
    LET r == requests[w]
        row == [email |-> r.email, username |-> r.username]
    IN
    /\ At(w, "inserting")
    /\ IF Insertable(row)
         THEN /\ Len(users) < MaxUsers
              /\ users' = Append(users, row)
              /\ Becomes(w, [Generates(r, Len(users) + 1) EXCEPT !.taken = r.taken])
         ELSE Becomes(w, Fails(r, 500)) /\ UNCHANGED users
    /\ UNCHANGED <<now, stored, holding, history>>

-----------------------------------------------------------------------------
(* Signing in, refreshing, signing out                                     *)

AskToLogin(w, c, email) ==
    /\ At(w, "idle")
    /\ Becomes(w, [NoRequest EXCEPT !.pc = "validating", !.op = "login",
                                    !.client = c, !.email = email])
    /\ UNCHANGED <<now, users, stored, holding, history>>

(* The user is looked up and the password compared, which may not match.   *)
Validate(w) ==
    LET r == requests[w] IN
    /\ At(w, "validating")
    /\ \/ \E u \in DOMAIN users :
            users[u].email = r.email /\ Becomes(w, Generates(r, u))
       \/ Becomes(w, Fails(r, 400))
    /\ UNCHANGED <<now, users, stored, holding, history>>

(* refresh and logout, past their guards, with the tokens the client holds *)
AskWithTokens(w, c, op) ==
    /\ At(w, "idle")
    /\ holding[c] # None /\ Authenticates(holding[c], now)
    /\ Becomes(w, [NoRequest EXCEPT !.pc = IF op = "refresh" THEN "verifying" ELSE "deleting",
                      !.op = op, !.client = c, !.user = holding[c].user,
                      !.token = IF op = "refresh" THEN holding[c] ELSE None])
    /\ UNCHANGED <<now, users, stored, holding, history>>

AnyToken(token, key) == TRUE \* variant: the JWT alone is enough

IsStored(token, key) == stored[key].token = token

VerifyRefresh(w) ==
    LET r == requests[w] IN
    /\ At(w, "verifying")
    /\ Becomes(w, IF IsStored(r.token, RefreshTokenKey(r.user, r.client))
                    THEN Generates(r, r.user) ELSE Fails(r, 401))
    /\ UNCHANGED <<now, users, stored, holding, history>>

(* History: what w does to the key k overtakes the answers about it.       *)
Overtake(w, k, request) == requests' = [x \in Workers |->
    IF x = w THEN request
    ELSE IF /\ At(x, "answering") /\ requests[x].user # 0
            /\ RefreshTokenKey(requests[x].user, requests[x].client) = k
      THEN [requests[x] EXCEPT !.overtaken = TRUE]
    ELSE requests[x]]

KeepFirst(k, entry) == \* variant: a token that is there is not replaced
    IF stored[k] = NoEntry THEN [stored EXCEPT ![k] = entry] ELSE stored

Store(k, entry) == [stored EXCEPT ![k] = entry]

Generate(w) ==
    LET r == requests[w]
        k == RefreshTokenKey(r.user, r.client)
    IN
    /\ At(w, "generating")
    /\ stored' = Store(k, [token |-> Sign(r.user), until |-> EndOfEntry])
    /\ Overtake(w, k, Succeeds(r, 201, Sign(r.user)))
    /\ history' = IF r.op = "refresh"
                    THEN [history EXCEPT !.revived = IF r.early THEN @ \cup {r.user} ELSE @]
                    ELSE [loggedOut |-> history.loggedOut \ {r.user},
                          revived |-> history.revived \ {r.user}]
    /\ UNCHANGED <<now, users, holding>>

(* Requests of the user that are past their verification are early.        *)
DeleteRefresh(w) ==
    LET r == requests[w]
        k == RefreshTokenKey(r.user, r.client)
        overtaken == [x \in Workers |->
            IF At(x, "generating") /\ requests[x].user = r.user
              THEN [requests[x] EXCEPT !.early = TRUE]
            ELSE IF At(x, "answering") /\ requests[x].user = r.user
              THEN [requests[x] EXCEPT !.overtaken = TRUE]
            ELSE requests[x]]
    IN
    /\ At(w, "deleting")
    /\ stored' = [stored EXCEPT ![k] = NoEntry]
    /\ requests' = [overtaken EXCEPT ![w] = Succeeds(r, 200, None)]
    /\ history' = [loggedOut |-> history.loggedOut \cup {r.user},
                   revived |-> history.revived \ {r.user}]
    /\ UNCHANGED <<now, users, holding>>

-----------------------------------------------------------------------------

(* A client keeps the tokens it is answered; the answer may be lost.       *)
AnswerArrives(w) ==
    LET r == requests[w] IN
    /\ At(w, "answering")
    /\ holding' = CASE r.status = 201 -> [holding EXCEPT ![r.client] = r.token]
                    [] r.status = 200 -> [holding EXCEPT ![r.client] = None]
                    [] OTHER -> holding
    /\ Becomes(w, NoRequest)
    /\ UNCHANGED <<now, users, stored, history>>

RequestLost(w) ==
    /\ ~At(w, "idle")
    /\ Becomes(w, NoRequest)
    /\ UNCHANGED <<now, users, stored, holding, history>>

(* Redis drops the entries whose time is up; tokens that authenticate      *)
(* nobody any more are of no use to a client.                              *)
Tick ==
    /\ now < MaxTime
    /\ now' = now + 1
    /\ stored' = [k \in Keys |-> IF stored[k].until <= now' THEN NoEntry ELSE stored[k]]
    /\ holding' = [c \in Clients |->
          IF holding[c] # None /\ Authenticates(holding[c], now') THEN holding[c] ELSE None]
    /\ UNCHANGED <<users, requests, history>>

Next ==
    \/ \E w \in Workers :
         \/ \E c \in Clients :
              \/ \E email \in Emails :
                   \/ \E username \in Usernames : AskToRegister(w, c, email, username)
                   \/ AskToLogin(w, c, email)
              \/ \E op \in {"refresh", "logout"} : AskWithTokens(w, c, op)
         \/ CheckName(w) \/ DecideToInsert(w) \/ Insert(w)
         \/ Validate(w) \/ VerifyRefresh(w) \/ Generate(w) \/ DeleteRefresh(w)
         \/ AnswerArrives(w) \/ RequestLost(w)
    \/ Tick

Spec == Init /\ [][Next]_vars

-----------------------------------------------------------------------------
(* Properties                                                              *)

(* Types; and no token is stored for longer than it is valid.  In history, *)
(* loggedOut: the users who have not signed in since their last logout;    *)
(* revived: those of them for whom a refresh that had been verified before *)
(* the logout has stored a token since.                                    *)
TypeOK ==
    /\ now \in 0..MaxTime
    /\ users \in Seq([email : Emails, username : Usernames])
    /\ \A k \in Keys : stored[k] # NoEntry =>
         stored[k].token \in Tokens /\ stored[k].until = stored[k].token.iat + RefreshExpires
    /\ holding \in [Clients -> Tokens \cup {None}]
    /\ requests \in [Workers -> Request]
    /\ history \in [loggedOut : SUBSET UserIds, revived : SUBSET UserIds]

(* However registrations interleave, no two accounts share a name.         *)
AccountsAreUnique == \A i, j \in DOMAIN users : i # j =>
    users[i].email # users[j].email /\ users[i].username # users[j].username

(* Who registers with a name already in use is told so: the 500 of the     *)
(* index is only for those who are overtaken while they register.          *)
TakenIsTold == \A w \in Workers :
    LET r == requests[w] IN
    At(w, "answering") /\ r.taken => r.status = 400

(* After a logout no token of the user can be refreshed, on any client,    *)
(* until the next sign-in: only a refresh that was verified before the     *)
(* logout, and stores its token after it, undoes it.                       *)
LogoutSticks == \A u \in history.loggedOut \ history.revived :
    \A k \in Keys : k[1] = u => stored[k] = NoEntry

(* A refresh token that is answered can be used, unless another request of *)
(* the same user has overtaken the answer or it has expired on the way.    *)
AnsweredTokenIsLive == \A w \in Workers :
    LET r == requests[w] IN
    At(w, "answering") /\ r.status = 201 /\ ~r.overtaken
        => \/ now >= r.token.iat + RefreshExpires
           \/ IsStored(r.token, RefreshTokenKey(r.user, r.client))

=============================================================================
