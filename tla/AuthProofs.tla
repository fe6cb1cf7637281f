----------------------------- MODULE AuthProofs -----------------------------
(***************************************************************************)
(* What Auth promises holds for any number of users, clients and requests  *)
(* in flight, and for any lifetime of the tokens.                          *)
(***************************************************************************)
EXTENDS Auth, SequenceTheorems, TLAPS

-----------------------------------------------------------------------------
(* The requests, column by column.                                         *)

Ops == {"none", "register", "login", "refresh", "logout"}
Codes == {0, 200, 201, 400, 401, 500}
Names == SUBSET {"email", "username"}

(* Request, with its sets named.                                           *)
LEMMA RequestIs ==
    Request = [pc : Steps, op : Ops, client : Clients \cup {None}, user : 0..MaxUsers,
               email : Emails \cup {None}, username : Usernames \cup {None},
               checked : Names, found : Names, token : Tokens \cup {None}, status : Codes,
               taken : BOOLEAN, early : BOOLEAN, overtaken : BOOLEAN]
BY Zenon DEF Request, Ops, Codes, Names

(* A request with another value in one column is a request.                *)
LEMMA RequestColumns ==
    ASSUME NEW r \in Request
    PROVE  /\ \A x \in Steps : [r EXCEPT !.pc = x] \in Request
           /\ \A x \in Ops : [r EXCEPT !.op = x] \in Request
           /\ \A x \in Clients \cup {None} : [r EXCEPT !.client = x] \in Request
           /\ \A x \in 0..MaxUsers : [r EXCEPT !.user = x] \in Request
           /\ \A x \in Emails \cup {None} : [r EXCEPT !.email = x] \in Request
           /\ \A x \in Usernames \cup {None} : [r EXCEPT !.username = x] \in Request
           /\ \A x \in Names : [r EXCEPT !.checked = x] \in Request
           /\ \A x \in Names : [r EXCEPT !.found = x] \in Request
           /\ \A x \in Codes : [r EXCEPT !.status = x] \in Request
           /\ \A x \in Tokens \cup {None} : [r EXCEPT !.token = x] \in Request
           /\ \A x \in BOOLEAN : [r EXCEPT !.taken = x] \in Request
           /\ \A x \in BOOLEAN : [r EXCEPT !.early = x] \in Request
           /\ \A x \in BOOLEAN : [r EXCEPT !.overtaken = x] \in Request
BY RequestIs

(* A worker that executes nothing.                                         *)
LEMMA NoRequestType ==
    /\ NoRequest \in Request
    /\ NoRequest.pc = "idle" /\ NoRequest.taken = FALSE
BY AuthAssumption DEF NoRequest, Request, Steps

(* A request whose user is known.                                          *)
LEMMA GeneratesType ==
    ASSUME NEW r \in Request, NEW u \in 0..MaxUsers
    PROVE  /\ Generates(r, u) \in Request
           /\ Generates(r, u).pc = "generating"
           /\ Generates(r, u).op = r.op
           /\ Generates(r, u).client = r.client
           /\ Generates(r, u).user = u
           /\ Generates(r, u).taken = FALSE
           /\ Generates(r, u).early = FALSE
<1>. DEFINE a == [NoRequest EXCEPT !.pc = "generating"]
            b == [a EXCEPT !.op = r.op]
            c == [b EXCEPT !.client = r.client]
            d == [c EXCEPT !.user = u]
<1>1. /\ NoRequest \in Request /\ "generating" \in Steps
      /\ r.op \in Ops /\ r.client \in Clients \cup {None}
    BY NoRequestType, RequestIs DEF Steps
<1>2. a \in Request
    BY <1>1, RequestColumns
<1>3. b \in Request
    <2>. HIDE DEF a
    <2>. QED
        BY <1>1, <1>2, RequestColumns
<1>4. c \in Request
    <2>. HIDE DEF b
    <2>. QED
        BY <1>1, <1>3, RequestColumns
<1>5. d \in Request
    <2>. HIDE DEF c
    <2>. QED
        BY <1>1, <1>4, RequestColumns
<1>6. /\ Generates(r, u).pc = "generating"
      /\ Generates(r, u).op = r.op
      /\ Generates(r, u).client = r.client
      /\ Generates(r, u).user = u
      /\ Generates(r, u).taken = FALSE
      /\ Generates(r, u).early = FALSE
    BY DEF Generates, NoRequest
<1>7. Generates(r, u) \in Request
    BY <1>5, Zenon DEF Generates
<1>. QED
    BY <1>6, <1>7

(* A request that answers.                                                 *)
LEMMA FailsType ==
    ASSUME NEW r \in Request, NEW status \in Codes
    PROVE  /\ Fails(r, status) \in Request
           /\ Fails(r, status).pc = "answering"
           /\ Fails(r, status).client = r.client
           /\ Fails(r, status).taken = r.taken
           /\ Fails(r, status).status = status
           /\ Fails(r, status).overtaken = FALSE
           /\ Fails(r, status).user = 0
           /\ Fails(r, status).token = None
<1>. DEFINE a == [NoRequest EXCEPT !.pc = "answering"]
            b == [a EXCEPT !.client = r.client]
            c == [b EXCEPT !.taken = r.taken]
            d == [c EXCEPT !.status = status]
<1>1. /\ NoRequest \in Request /\ "answering" \in Steps
      /\ r.client \in Clients \cup {None} /\ r.taken \in BOOLEAN
    BY NoRequestType, RequestIs DEF Steps
<1>2. a \in Request
    BY <1>1, RequestColumns
<1>3. b \in Request
    <2>. HIDE DEF a
    <2>. QED
        BY <1>1, <1>2, RequestColumns
<1>4. c \in Request
    <2>. HIDE DEF b
    <2>. QED
        BY <1>1, <1>3, RequestColumns
<1>5. d \in Request
    <2>. HIDE DEF c
    <2>. QED
        BY <1>1, <1>4, RequestColumns
<1>6. /\ Fails(r, status).pc = "answering"
      /\ Fails(r, status).client = r.client
      /\ Fails(r, status).taken = r.taken
      /\ Fails(r, status).status = status
      /\ Fails(r, status).overtaken = FALSE
      /\ Fails(r, status).user = 0
      /\ Fails(r, status).token = None
    BY DEF Fails, NoRequest
<1>7. Fails(r, status) \in Request
    BY <1>5, Zenon DEF Fails
<1>. QED
    BY <1>6, <1>7

(* A request that succeeds.                                                *)
LEMMA SucceedsType ==
    ASSUME NEW r \in Request, NEW status \in Codes, NEW token \in Tokens \cup {None}
    PROVE  /\ Succeeds(r, status, token) \in Request
           /\ Succeeds(r, status, token).pc = "answering"
           /\ Succeeds(r, status, token).client = r.client
           /\ Succeeds(r, status, token).taken = r.taken
           /\ Succeeds(r, status, token).status = status
           /\ Succeeds(r, status, token).user = r.user
           /\ Succeeds(r, status, token).token = token
           /\ Succeeds(r, status, token).overtaken = FALSE
<1>. DEFINE a == Fails(r, status)
            b == [a EXCEPT !.user = r.user]
            c == [b EXCEPT !.token = token]
<1>1. a \in Request /\ r.user \in 0..MaxUsers
    BY FailsType, RequestIs
<1>2. b \in Request
    <2>. HIDE DEF a
    <2>. QED
        BY <1>1, RequestColumns
<1>3. c \in Request
    <2>. HIDE DEF b
    <2>. QED
        BY <1>2, RequestColumns
<1>4. Succeeds(r, status, token) \in Request
    BY <1>3, Zenon DEF Succeeds
<1>. QED
    BY <1>4 DEF Succeeds, Fails, NoRequest

(* The requests as they arrive: register, login, refresh and logout.       *)
Registers(c, email, username, taken) ==
    [NoRequest EXCEPT !.pc = "checking", !.op = "register", !.client = c,
                      !.email = email, !.username = username, !.taken = taken]

SignsIn(c, email) ==
    [NoRequest EXCEPT !.pc = "validating", !.op = "login", !.client = c, !.email = email]

Brings(op, c, pc, user, token) ==
    [NoRequest EXCEPT !.pc = pc, !.op = op, !.client = c, !.user = user, !.token = token]

(* A registration.                                                         *)
LEMMA RegistersType ==
    ASSUME NEW client \in Clients, NEW email \in Emails, NEW username \in Usernames, NEW taken \in BOOLEAN
    PROVE  /\ Registers(client, email, username, taken) \in Request
           /\ Registers(client, email, username, taken).pc = "checking"
           /\ Registers(client, email, username, taken).op = "register"
           /\ Registers(client, email, username, taken).client = client
           /\ Registers(client, email, username, taken).email = email
           /\ Registers(client, email, username, taken).username = username
           /\ Registers(client, email, username, taken).taken = taken
           /\ Registers(client, email, username, taken).checked = {}
           /\ Registers(client, email, username, taken).found = {}
<1>. DEFINE a == [NoRequest EXCEPT !.pc = "checking"]
            b == [a EXCEPT !.op = "register"]
            c == [b EXCEPT !.client = client]
            d == [c EXCEPT !.email = email]
            e == [d EXCEPT !.username = username]
            f == [e EXCEPT !.taken = taken]
<1>1. NoRequest \in Request /\ "checking" \in Steps /\ "register" \in Ops
    BY NoRequestType DEF Steps, Ops
<1>2. a \in Request
    BY <1>1, RequestColumns
<1>3. b \in Request
    <2>. HIDE DEF a
    <2>. QED
        BY <1>1, <1>2, RequestColumns
<1>4. c \in Request
    <2>. HIDE DEF b
    <2>. QED
        BY <1>1, <1>3, RequestColumns
<1>5. d \in Request
    <2>. HIDE DEF c
    <2>. QED
        BY <1>1, <1>4, RequestColumns
<1>6. e \in Request
    <2>. HIDE DEF d
    <2>. QED
        BY <1>1, <1>5, RequestColumns
<1>7. f \in Request
    <2>. HIDE DEF e
    <2>. QED
        BY <1>1, <1>6, RequestColumns
<1>8. /\ Registers(client, email, username, taken).pc = "checking"
      /\ Registers(client, email, username, taken).op = "register"
      /\ Registers(client, email, username, taken).client = client
      /\ Registers(client, email, username, taken).email = email
      /\ Registers(client, email, username, taken).username = username
      /\ Registers(client, email, username, taken).taken = taken
      /\ Registers(client, email, username, taken).checked = {}
      /\ Registers(client, email, username, taken).found = {}
    BY DEF Registers, NoRequest
<1>9. Registers(client, email, username, taken) \in Request
    BY <1>7, Zenon DEF Registers
<1>. QED
    BY <1>8, <1>9

(* A login.                                                                *)
LEMMA SignsInType ==
    ASSUME NEW client \in Clients, NEW email \in Emails
    PROVE  /\ SignsIn(client, email) \in Request
           /\ SignsIn(client, email).pc = "validating"
           /\ SignsIn(client, email).op = "login"
           /\ SignsIn(client, email).client = client
           /\ SignsIn(client, email).email = email
           /\ SignsIn(client, email).taken = FALSE
<1>. DEFINE a == [NoRequest EXCEPT !.pc = "validating"]
            b == [a EXCEPT !.op = "login"]
            c == [b EXCEPT !.client = client]
            d == [c EXCEPT !.email = email]
<1>1. NoRequest \in Request /\ "validating" \in Steps /\ "login" \in Ops
    BY NoRequestType DEF Steps, Ops
<1>2. a \in Request
    BY <1>1, RequestColumns
<1>3. b \in Request
    <2>. HIDE DEF a
    <2>. QED
        BY <1>1, <1>2, RequestColumns
<1>4. c \in Request
    <2>. HIDE DEF b
    <2>. QED
        BY <1>1, <1>3, RequestColumns
<1>5. d \in Request
    <2>. HIDE DEF c
    <2>. QED
        BY <1>1, <1>4, RequestColumns
<1>6. /\ SignsIn(client, email).pc = "validating"
      /\ SignsIn(client, email).op = "login"
      /\ SignsIn(client, email).client = client
      /\ SignsIn(client, email).email = email
      /\ SignsIn(client, email).taken = FALSE
    BY DEF SignsIn, NoRequest
<1>7. SignsIn(client, email) \in Request
    BY <1>5, Zenon DEF SignsIn
<1>. QED
    BY <1>6, <1>7

(* A refresh or a logout, with a token.                                    *)
LEMMA BringsType ==
    ASSUME NEW op \in Ops, NEW client \in Clients, NEW pc \in Steps, NEW user \in 0..MaxUsers,
           NEW token \in Tokens \cup {None}
    PROVE  /\ Brings(op, client, pc, user, token) \in Request
           /\ Brings(op, client, pc, user, token).pc = pc
           /\ Brings(op, client, pc, user, token).op = op
           /\ Brings(op, client, pc, user, token).client = client
           /\ Brings(op, client, pc, user, token).user = user
           /\ Brings(op, client, pc, user, token).token = token
           /\ Brings(op, client, pc, user, token).taken = FALSE
<1>. DEFINE a == [NoRequest EXCEPT !.pc = pc]
            b == [a EXCEPT !.op = op]
            c == [b EXCEPT !.client = client]
            d == [c EXCEPT !.user = user]
            e == [d EXCEPT !.token = token]
<1>1. NoRequest \in Request
    BY NoRequestType
<1>2. a \in Request
    BY <1>1, RequestColumns
<1>3. b \in Request
    <2>. HIDE DEF a
    <2>. QED
        BY <1>1, <1>2, RequestColumns
<1>4. c \in Request
    <2>. HIDE DEF b
    <2>. QED
        BY <1>1, <1>3, RequestColumns
<1>5. d \in Request
    <2>. HIDE DEF c
    <2>. QED
        BY <1>1, <1>4, RequestColumns
<1>6. e \in Request
    <2>. HIDE DEF d
    <2>. QED
        BY <1>1, <1>5, RequestColumns
<1>7. /\ Brings(op, client, pc, user, token).pc = pc
      /\ Brings(op, client, pc, user, token).op = op
      /\ Brings(op, client, pc, user, token).client = client
      /\ Brings(op, client, pc, user, token).user = user
      /\ Brings(op, client, pc, user, token).token = token
      /\ Brings(op, client, pc, user, token).taken = FALSE
    BY DEF Brings, NoRequest
<1>8. Brings(op, client, pc, user, token) \in Request
    BY <1>6, Zenon DEF Brings
<1>. QED
    BY <1>7, <1>8

-----------------------------------------------------------------------------
(* The invariant.                                                          *)

(* Why the steps that a request still has to do are right.                 *)
Grounds(r) ==
    /\ r.pc \in {"checking", "inserting"} =>
          r.email \in Emails /\ r.username \in Usernames /\ r.op = "register"
    /\ r.pc \in {"verifying", "generating", "deleting"} => r.user \in UserIds
    /\ r.pc = "verifying" => r.token \in Tokens
    /\ r.pc = "validating" => r.op = "login"
    /\ r.pc = "checking" /\ r.taken =>
          \/ EmailInUse(r.email) /\ ("email" \in r.checked => "email" \in r.found)
          \/ UsernameInUse(r.username) /\ ("username" \in r.checked => "username" \in r.found)
    /\ r.pc \in {"inserting", "validating", "verifying", "generating", "deleting"} => ~r.taken
    /\ r.pc = "answering" /\ r.taken => r.status = 400
    /\ r.pc = "generating" /\ r.op = "refresh" /\ ~r.early =>
          r.user \notin history.loggedOut \ history.revived
    /\ r.pc = "answering" /\ r.status = 201 =>
          /\ r.user \in UserIds /\ r.token \in Tokens
          /\ \/ r.overtaken
             \/ now >= r.token.iat + RefreshExpires
             \/ IsStored(r.token, RefreshTokenKey(r.user, r.client))

Entries == [token : Tokens \cup {None}, until : Nat]

Inv ==
    /\ TypeOK /\ stored \in [Keys -> Entries] /\ Len(users) <= MaxUsers
    /\ AccountsAreUnique /\ LogoutSticks
    /\ \A w \in Workers : Grounds(requests[w])

-----------------------------------------------------------------------------
(* The steps that only move a request on.                                  *)

(* A step that touches neither accounts nor entries, and whose request has *)
(* its grounds.                                                            *)
LEMMA GoesOn ==
    ASSUME Inv, NEW w \in Workers, NEW r \in Request, Grounds(r), Becomes(w, r),
           UNCHANGED <<now, users, stored, history>>, holding' \in [Clients -> Tokens \cup {None}]
    PROVE  Inv'
<1>1. /\ requests' \in [Workers -> Request] /\ requests'[w] = r
      /\ \A x \in Workers \ {w} : requests'[x] = requests[x]
    BY DEF Becomes, Inv, TypeOK
<1>2. TypeOK' /\ (stored \in [Keys -> Entries])' /\ (Len(users) <= MaxUsers)'
    BY <1>1 DEF Inv, TypeOK
<1>3. AccountsAreUnique' /\ LogoutSticks'
    BY DEF Inv, AccountsAreUnique, LogoutSticks
<1>4. ASSUME NEW x \in Workers PROVE Grounds(requests[x])'
    <2>1. requests'[x] \in {r, requests[x]} /\ (Grounds(r) /\ Grounds(requests[x]))
        BY <1>1 DEF Inv
    <2>. QED
        BY <2>1 DEF Grounds, EmailInUse, UsernameInUse, IsStored
<1>. QED
    BY <1>2, <1>3, <1>4 DEF Inv

(* A user's id is a row of the table, and the key of its token an entry.   *)
LEMMA Ids ==
    ASSUME Inv
    PROVE  /\ DOMAIN users \subseteq UserIds /\ DOMAIN users = 1..Len(users)
           /\ Len(users) \in 0..MaxUsers
           /\ \A u \in UserIds : \A c : RefreshTokenKey(u, c) \in Keys
           /\ \A k \in Keys : k[1] \in UserIds /\ \A c : k = RefreshTokenKey(k[1], c)
           /\ UserIds \subseteq 0..MaxUsers
<1>1. DOMAIN users = 1..Len(users) /\ Len(users) \in Nat
    BY LenProperties DEF Inv, TypeOK
<1>2. Len(users) \in 0..MaxUsers /\ DOMAIN users \subseteq UserIds
    BY <1>1, AuthAssumption DEF Inv, UserIds
<1>3. \A u \in UserIds : \A c : RefreshTokenKey(u, c) \in Keys
    BY DEF Keys, RefreshTokenKey
<1>4. ASSUME NEW k \in Keys, NEW c PROVE k[1] \in UserIds /\ k = RefreshTokenKey(k[1], c)
    <2>1. \A S, T : k \in S \X T => k = <<k[1], k[2]>>
        OBVIOUS
    <2>2. k[1] \in UserIds /\ k[2] = "[object Object]"
        BY DEF Keys
    <2>3. k = <<k[1], k[2]>>
        BY <2>1 DEF Keys
    <2>. QED
        BY <2>2, <2>3 DEF RefreshTokenKey
<1>5. UserIds \subseteq 0..MaxUsers
    BY DEF UserIds
<1>. QED
    BY <1>1, <1>2, <1>3, <1>4, <1>5

(* A user has one key, whatever the client.                                *)
LEMMA OneKey == \A u, c, d : RefreshTokenKey(u, c) = RefreshTokenKey(u, d)
BY DEF RefreshTokenKey

(* The requests that arrive.                                               *)
LEMMA Asks ==
    ASSUME Inv, NEW w \in Workers, NEW c \in Clients,
           \/ \E email \in Emails, username \in Usernames : AskToRegister(w, c, email, username)
           \/ \E email \in Emails : AskToLogin(w, c, email)
           \/ \E op \in {"refresh", "logout"} : AskWithTokens(w, c, op)
    PROVE  Inv'
<1>0. holding \in [Clients -> Tokens \cup {None}]
    BY DEF Inv, TypeOK
<1>1. ASSUME NEW email \in Emails, NEW username \in Usernames, AskToRegister(w, c, email, username)
      PROVE  Inv'
    <2>. DEFINE taken == EmailInUse(email) \/ UsernameInUse(username)
                r == Registers(c, email, username, taken)
    <2>1. taken \in BOOLEAN
        OBVIOUS
    <2>. HIDE DEF taken
    <2>2. /\ r \in Request /\ r.pc = "checking" /\ r.email = email /\ r.username = username
          /\ r.checked = {} /\ r.taken = taken /\ r.op = "register"
        BY <2>1, RegistersType
    <2>3. Becomes(w, r) /\ UNCHANGED <<now, users, stored, holding, history>>
        BY <1>1 DEF AskToRegister, Registers, taken
    <2>. HIDE DEF r
    <2>4. Grounds(r)
        BY <2>2 DEF Grounds, taken
    <2>. QED
        BY <1>0, <2>2, <2>3, <2>4, GoesOn
<1>2. ASSUME NEW email \in Emails, AskToLogin(w, c, email) PROVE Inv'
    <2>. DEFINE r == SignsIn(c, email)
    <2>1. r \in Request /\ r.pc = "validating" /\ r.op = "login" /\ r.taken = FALSE
        BY SignsInType DEF SignsIn, NoRequest
    <2>2. Becomes(w, r) /\ UNCHANGED <<now, users, stored, holding, history>>
        BY <1>2 DEF AskToLogin, SignsIn
    <2>. HIDE DEF r
    <2>3. Grounds(r)
        BY <2>1 DEF Grounds
    <2>. QED
        BY <1>0, <2>1, <2>2, <2>3, GoesOn
<1>3. ASSUME NEW op \in {"refresh", "logout"}, AskWithTokens(w, c, op) PROVE Inv'
    <2>. DEFINE pc == IF op = "refresh" THEN "verifying" ELSE "deleting"
                token == IF op = "refresh" THEN holding[c] ELSE None
                r == Brings(op, c, pc, holding[c].user, token)
    <2>1. /\ holding[c] \in Tokens /\ holding[c].user \in UserIds
          /\ holding[c].user \in 0..MaxUsers
        BY <1>0, <1>3, Ids DEF AskWithTokens, Tokens
    <2>2. pc \in Steps /\ op \in Ops /\ token \in Tokens \cup {None}
          /\ pc \in {"verifying", "deleting"} /\ (pc = "verifying" => token \in Tokens)
        BY <2>1 DEF Steps, Ops
    <2>3. Becomes(w, r) /\ UNCHANGED <<now, users, stored, holding, history>>
        BY <1>3 DEF AskWithTokens, Brings
    <2>. HIDE DEF pc, token
    <2>4. /\ r \in Request /\ r.pc = pc /\ r.user = holding[c].user /\ r.token = token
          /\ r.taken = FALSE
        <3>1. r \in Request
            BY <2>1, <2>2, BringsType
        <3>. QED
            BY <3>1 DEF Brings, NoRequest
    <2>. HIDE DEF r
    <2>5. Grounds(r)
        BY <2>1, <2>2, <2>4 DEF Grounds
    <2>. QED
        BY <1>0, <2>3, <2>4, <2>5, GoesOn
<1>. QED
    BY <1>1, <1>2, <1>3

(* The two queries for names in use.                                       *)
LEMMA Checking ==
    ASSUME Inv, NEW w \in Workers, CheckName(w)
    PROVE  Inv'
<1>. DEFINE q == requests[w]
<1>1. PICK what \in Checks \ q.checked :
          Becomes(w, [q EXCEPT !.checked = @ \cup {what},
              !.found = IF (what = "email" /\ EmailInUse(q.email))
                             \/ (what = "username" /\ UsernameInUse(q.username))
                          THEN @ \cup {what} ELSE @])
    BY DEF CheckName
<1>. DEFINE checked == q.checked \cup {what}
            found == IF (what = "email" /\ EmailInUse(q.email))
                           \/ (what = "username" /\ UsernameInUse(q.username))
                       THEN q.found \cup {what} ELSE q.found
            a == [q EXCEPT !.checked = checked]
            r == [a EXCEPT !.found = found]
<1>2. q \in Request /\ Grounds(q) /\ q.pc = "checking"
    BY DEF Inv, TypeOK, CheckName, At
<1>3. checked \in Names /\ found \in Names
    BY <1>2, RequestIs DEF Checks, Names
<1>4. a \in Request /\ a.found = q.found /\ a.pc = "checking" /\ a.email = q.email
      /\ a.username = q.username /\ a.taken = q.taken /\ a.checked = checked
      /\ a.op = q.op
    <2>. HIDE DEF checked
    <2>1. a \in Request
        BY <1>2, <1>3, RequestColumns
    <2>. QED
        BY <1>2, <2>1, RequestIs
<1>5. r \in Request /\ r.found = found /\ r.pc = "checking" /\ r.email = q.email
      /\ r.username = q.username /\ r.taken = q.taken /\ r.checked = checked
      /\ r.op = q.op
    <2>. HIDE DEF a, found
    <2>1. r \in Request
        BY <1>3, <1>4, RequestColumns
    <2>. QED
        BY <1>4, <2>1, RequestIs
<1>6. Becomes(w, r)
    BY <1>1, Zenon
<1>. HIDE DEF r
<1>7. Grounds(r)
    BY <1>2, <1>5 DEF Grounds
<1>. QED
    BY <1>5, <1>6, <1>7, GoesOn DEF CheckName, Inv, TypeOK

(* Who has found no name in use had none in use at the arrival.            *)
LEMMA Deciding ==
    ASSUME Inv, NEW w \in Workers, DecideToInsert(w)
    PROVE  Inv'
<1>. DEFINE q == requests[w]
            r == IF q.found = {} THEN [q EXCEPT !.pc = "inserting"] ELSE Fails(q, 400)
<1>1. q \in Request /\ Grounds(q) /\ q.pc = "checking" /\ q.checked = Checks
    BY DEF Inv, TypeOK, DecideToInsert, At
<1>2. CASE q.found = {}
    <2>1. r = [q EXCEPT !.pc = "inserting"] /\ "inserting" \in Steps
        BY <1>2 DEF Steps
    <2>2. r \in Request
        BY <1>1, <2>1, RequestColumns
    <2>3. r.pc = "inserting" /\ r.email = q.email /\ r.username = q.username /\ r.taken = q.taken
          /\ r.op = q.op
        BY <1>1, <2>1, RequestIs
    <2>. HIDE DEF r
    <2>4. Grounds(r)
        BY <1>1, <1>2, <2>3 DEF Grounds, Checks
    <2>. QED
        BY <2>2, <2>4, GoesOn DEF DecideToInsert, Inv, TypeOK, r
<1>3. CASE q.found # {}
    <2>0. r = Fails(q, 400) /\ 400 \in Codes
        BY <1>3 DEF Codes
    <2>1. r = Fails(q, 400) /\ r \in Request /\ r.pc = "answering" /\ r.status = 400
        <3>1. Fails(q, 400) \in Request
            BY ZenonT(30), <1>1, <2>0, FailsType
        <3>2. Fails(q, 400).pc = "answering" /\ Fails(q, 400).status = 400
            BY DEF Fails, NoRequest
        <3>. HIDE DEF r
        <3>. QED
            BY <2>0, <3>1, <3>2
    <2>. HIDE DEF r
    <2>2. Grounds(r)
        BY <2>1 DEF Grounds
    <2>. QED
        BY <2>1, <2>2, GoesOn DEF DecideToInsert, Inv, TypeOK, r
<1>. QED
    BY <1>2, <1>3

(* What happens to the answers of others keeps their grounds.              *)
LEMMA NamesStay ==
    ASSUME Inv, NEW w \in Workers, NEW r \in Request, Grounds(r)', Becomes(w, r),
           UNCHANGED <<now, stored, holding, history>>,
           users' \in Seq([email : Emails, username : Usernames]), Len(users') <= MaxUsers,
           \A i \in DOMAIN users : i \in DOMAIN users' /\ users'[i] = users[i],
           AccountsAreUnique'
    PROVE  Inv'
<1>1. /\ requests' \in [Workers -> Request] /\ requests'[w] = r
      /\ \A x \in Workers \ {w} : requests'[x] = requests[x]
    BY DEF Becomes, Inv, TypeOK
<1>2. TypeOK' /\ (stored \in [Keys -> Entries])' /\ LogoutSticks'
    BY <1>1 DEF Inv, TypeOK, LogoutSticks
<1>3. \A name : (EmailInUse(name) => EmailInUse(name)') /\ (UsernameInUse(name) => UsernameInUse(name)')
    BY DEF EmailInUse, UsernameInUse
<1>4. ASSUME NEW x \in Workers \ {w} PROVE Grounds(requests[x])'
    <2>1. Grounds(requests[x]) /\ requests'[x] = requests[x]
        BY <1>1 DEF Inv
    <2>. QED
        BY <1>3, <2>1 DEF Grounds, IsStored
<1>5. Grounds(requests[w])'
    BY <1>1 DEF Grounds, EmailInUse, UsernameInUse, IsStored
<1>. QED
    BY <1>2, <1>4, <1>5 DEF Inv

(* The unique indexes, and the account they let through.                   *)
LEMMA Inserting ==
    ASSUME Inv, NEW w \in Workers, Insert(w)
    PROVE  Inv'
<1>. DEFINE q == requests[w]
            row == [email |-> q.email, username |-> q.username]
<1>1. q \in Request /\ Grounds(q) /\ q.pc = "inserting" /\ q.taken = FALSE
    <2>1. q \in Request /\ Grounds(q) /\ q.pc = "inserting"
        BY DEF Inv, TypeOK, Insert, At
    <2>. QED
        BY <2>1, RequestIs DEF Grounds
<1>2. CASE Insertable(row)
    <2>. DEFINE u == Len(users) + 1
                g == Generates(q, u)
                r == [g EXCEPT !.taken = q.taken]
    <2>1. /\ Len(users) < MaxUsers /\ users' = Append(users, row) /\ Becomes(w, r)
          /\ UNCHANGED <<now, stored, holding, history>>
        BY <1>2 DEF Insert
    <2>2. /\ users \in Seq([email : Emails, username : Usernames])
          /\ row \in [email : Emails, username : Usernames] /\ Len(users) \in Nat
        BY <1>1, Ids DEF Inv, TypeOK, Grounds
    <2>. HIDE DEF row
    <2>3. /\ users' \in Seq([email : Emails, username : Usernames])
          /\ Len(users') = Len(users) + 1 /\ users'[Len(users) + 1] = row
          /\ \A i \in 1..Len(users) : users'[i] = users[i]
          /\ DOMAIN users = 1..Len(users) /\ DOMAIN users' = 1..(Len(users) + 1)
        BY <2>1, <2>2, AppendProperties, LenProperties
    <2>4. AccountsAreUnique'
        <3>. SUFFICES ASSUME NEW i \in 1..(Len(users) + 1), NEW j \in 1..(Len(users) + 1), i # j
                      PROVE  users'[i].email # users'[j].email /\ users'[i].username # users'[j].username
            BY <2>3 DEF AccountsAreUnique
        <3>1. \A k \in 1..Len(users) : users[k].email # row.email /\ users[k].username # row.username
            BY <1>2, <2>3 DEF Insertable, EmailInUse, UsernameInUse
        <3>2. \A k \in 1..(Len(users) + 1) : k \in 1..Len(users) \/ k = Len(users) + 1
            BY <2>2
        <3>3. \A k, l \in 1..Len(users) : k # l =>
                  users[k].email # users[l].email /\ users[k].username # users[l].username
            BY <2>3 DEF Inv, AccountsAreUnique
        <3>. QED
            BY <2>3, <3>1, <3>2, <3>3
    <2>5. u \in 0..MaxUsers /\ u \in UserIds /\ Len(users') <= MaxUsers
        BY <2>1, <2>2, <2>3, AuthAssumption DEF UserIds
    <2>6. g \in Request
        BY <1>1, <2>5, GeneratesType
    <2>7. /\ g.pc = "generating" /\ g.user = u /\ g.op = q.op
        BY DEF Generates, NoRequest
    <2>. HIDE DEF g, u
    <2>8. r \in Request
        BY <1>1, <2>6, RequestColumns
    <2>9. r.pc = "generating" /\ r.user = u /\ r.op = q.op /\ r.taken = FALSE
        BY <1>1, <2>6, <2>7, RequestIs
    <2>. HIDE DEF r
    <2>10. q.op # "refresh"
        BY <1>1 DEF Grounds
    <2>11. PICK n \in UserIds, next \in Request : n = u /\ next = r
        BY <2>5, <2>8
    <2>12. /\ next.pc = "generating" /\ next.user = n /\ next.op # "refresh"
           /\ next.taken = FALSE /\ Becomes(w, next)
        BY <2>1, <2>9, <2>10, <2>11 DEF r
    <2>13. Grounds(next)'
        BY <2>12 DEF Grounds
    <2>14. DOMAIN users = 1..Len(users) /\ DOMAIN users' = 1..(Len(users) + 1) /\ Len(users) \in Nat
        BY <2>2, <2>3
    <2>15. \A i \in DOMAIN users : i \in DOMAIN users' /\ users'[i] = users[i]
        BY <2>3, <2>14
    <2>. QED
        BY <2>1, <2>3, <2>4, <2>5, <2>12, <2>13, <2>15, NamesStay
<1>3. CASE ~Insertable(row)
    <2>. DEFINE r == Fails(q, 500)
    <2>1. Becomes(w, r) /\ UNCHANGED <<now, users, stored, holding, history>>
        BY <1>3 DEF Insert
    <2>2. 500 \in Codes
        BY DEF Codes
    <2>3. r \in Request
        BY ZenonT(30), <1>1, <2>2, FailsType
    <2>4. r.pc = "answering" /\ r.status = 500 /\ r.taken = FALSE
        BY <1>1 DEF Fails, NoRequest
    <2>. HIDE DEF r
    <2>5. Grounds(r)
        BY <2>4 DEF Grounds
    <2>. QED
        BY <2>1, <2>3, <2>5, GoesOn DEF Inv, TypeOK
<1>. QED
    BY <1>2, <1>3

(* A user who is told their login failed, or whose session goes on.        *)
LEMMA Validating ==
    ASSUME Inv, NEW w \in Workers, Validate(w)
    PROVE  Inv'
<1>. DEFINE q == requests[w]
<1>1. q \in Request /\ Grounds(q) /\ q.pc = "validating" /\ q.op # "refresh" /\ q.taken = FALSE
    <2>1. q \in Request /\ Grounds(q) /\ q.pc = "validating"
        BY DEF Inv, TypeOK, Validate, At
    <2>. QED
        BY <2>1, RequestIs DEF Grounds
<1>2. ASSUME NEW u \in DOMAIN users, Becomes(w, Generates(q, u)) PROVE Inv'
    <2>. DEFINE r == Generates(q, u)
    <2>1. r \in Request /\ u \in UserIds
        BY <1>1, Ids, GeneratesType
    <2>2. /\ r.pc = "generating" /\ r.user = u /\ r.op = q.op /\ r.taken = FALSE
        BY DEF Generates, NoRequest
    <2>. HIDE DEF r
    <2>3. Grounds(r)
        BY <1>1, <2>1, <2>2 DEF Grounds
    <2>. QED
        BY <1>2, <2>1, <2>3, GoesOn DEF Validate, Inv, TypeOK, r
<1>3. ASSUME Becomes(w, Fails(q, 400)) PROVE Inv'
    <2>. DEFINE r == Fails(q, 400)
    <2>0. 400 \in Codes
        BY DEF Codes
    <2>1. r \in Request
        BY ZenonT(30), <1>1, <2>0, FailsType
    <2>2. r.pc = "answering" /\ r.status = 400
        BY DEF Fails, NoRequest
    <2>. HIDE DEF r
    <2>3. Grounds(r)
        BY <2>2 DEF Grounds
    <2>. QED
        BY <1>3, <2>1, <2>3, GoesOn DEF Validate, Inv, TypeOK, r
<1>. QED
    BY <1>2, <1>3 DEF Validate

(* A refresh token that is still stored is one of a user who is not logged *)
(* out, or whose logout was undone.                                        *)
LEMMA Verifying ==
    ASSUME Inv, NEW w \in Workers, VerifyRefresh(w)
    PROVE  Inv'
<1>. DEFINE q == requests[w]
            k == RefreshTokenKey(q.user, q.client)
<1>1. q \in Request /\ Grounds(q) /\ q.pc = "verifying" /\ q.taken = FALSE
    <2>1. q \in Request /\ Grounds(q) /\ q.pc = "verifying"
        BY DEF Inv, TypeOK, VerifyRefresh, At
    <2>. QED
        BY <2>1, RequestIs DEF Grounds
<1>2. q.user \in UserIds /\ q.token \in Tokens /\ k \in Keys /\ k[1] = q.user
    BY <1>1, Ids DEF Grounds, RefreshTokenKey
<1>3. CASE IsStored(q.token, k)
    <2>. DEFINE r == Generates(q, q.user)
    <2>1. Becomes(w, r) /\ r \in Request
        BY <1>1, <1>2, <1>3, Ids, GeneratesType DEF VerifyRefresh
    <2>2. /\ r.pc = "generating" /\ r.user = q.user /\ r.taken = FALSE
        BY DEF Generates, NoRequest
    <2>3. stored[k] # NoEntry
        BY <1>2, <1>3, NullAssumption DEF IsStored, NoEntry
    <2>4. q.user \notin history.loggedOut \ history.revived
        BY <1>2, <2>3 DEF Inv, LogoutSticks
    <2>. HIDE DEF r
    <2>5. Grounds(r)
        BY <1>2, <2>2, <2>4 DEF Grounds
    <2>. QED
        BY <2>1, <2>5, GoesOn DEF VerifyRefresh, Inv, TypeOK
<1>4. CASE ~IsStored(q.token, k)
    <2>. DEFINE r == Fails(q, 401)
    <2>0. 401 \in Codes
        BY DEF Codes
    <2>1. Becomes(w, r) /\ r \in Request
        BY ZenonT(30), <1>1, <1>4, <2>0, FailsType DEF VerifyRefresh
    <2>2. r.pc = "answering" /\ r.status = 401 /\ r.taken = FALSE
        BY <1>1 DEF Fails, NoRequest
    <2>. HIDE DEF r
    <2>3. Grounds(r)
        BY <2>2 DEF Grounds
    <2>. QED
        BY <2>1, <2>3, GoesOn DEF VerifyRefresh, Inv, TypeOK
<1>. QED
    BY <1>3, <1>4

(* An answer that arrives or a request that is lost leaves the worker idle.*)
LEMMA Ending ==
    ASSUME Inv, NEW w \in Workers, AnswerArrives(w) \/ RequestLost(w)
    PROVE  Inv'
<1>. DEFINE q == requests[w]
<1>1. NoRequest \in Request /\ Grounds(NoRequest)
    BY NoRequestType DEF Grounds, NoRequest
<1>2. holding \in [Clients -> Tokens \cup {None}] /\ q \in Request /\ Grounds(q)
    BY DEF Inv, TypeOK
<1>3. holding' \in [Clients -> Tokens \cup {None}]
    <2>1. q.token \in Tokens \cup {None}
        BY <1>2, RequestIs
    <2>2. \A c, t : t \in Tokens \cup {None} =>
              [holding EXCEPT ![c] = t] \in [Clients -> Tokens \cup {None}]
        BY <1>2
    <2>. QED
        BY <1>2, <2>1, <2>2 DEF AnswerArrives, RequestLost
<1>. QED
    BY <1>1, <1>3, GoesOn DEF AnswerArrives, RequestLost

-----------------------------------------------------------------------------
(* The steps that change what is stored.                                   *)

(* Users who have logged out for good, as far as they know.                *)
SignedOut == history.loggedOut \ history.revived

(* A step of the user u's request that writes the entry of u: the others   *)
(* keep their grounds, if those of u that were past their verification are *)
(* early now, or u does not sign out, and if the answers of u are overtaken.*)
LEMMA OthersKeepGrounds ==
    ASSUME Inv, NEW x \in Workers, NEW u \in UserIds, UNCHANGED <<now, users>>,
           SignedOut' \subseteq SignedOut \cup {u},
           \A k \in Keys : k[1] # u => stored'[k] = stored[k],
           \/ /\ requests'[x] = requests[x]
              /\ requests[x].pc = "answering" => requests[x].user # u
              /\ u \notin SignedOut' \/ ~(requests[x].pc = "generating" /\ requests[x].user = u)
           \/ requests[x].pc = "answering" /\ requests'[x] = [requests[x] EXCEPT !.overtaken = TRUE]
           \/ requests[x].pc = "generating" /\ requests'[x] = [requests[x] EXCEPT !.early = TRUE]
    PROVE  requests'[x] \in Request /\ Grounds(requests[x])'
<1>. DEFINE q == requests[x]
            n == requests'[x]
<1>1. q \in Request /\ Grounds(q)
    BY DEF Inv, TypeOK
<1>2. \A name : /\ EmailInUse(name) => EmailInUse(name)'
                /\ UsernameInUse(name) => UsernameInUse(name)'
    BY DEF EmailInUse, UsernameInUse
<1>3. CASE /\ n = q
           /\ q.pc = "answering" => q.user # u
           /\ u \notin SignedOut' \/ ~(q.pc = "generating" /\ q.user = u)
    <2>1. ASSUME q.pc = "answering", q.status = 201, ~q.overtaken, ~(now >= q.token.iat + RefreshExpires)
          PROVE  IsStored(q.token, RefreshTokenKey(q.user, q.client))'
        <3>. DEFINE k == RefreshTokenKey(q.user, q.client)
        <3>1. q.user \in UserIds /\ k \in Keys /\ k[1] = q.user /\ q.user # u
            BY <1>1, <1>3, <2>1, Ids DEF Grounds, RefreshTokenKey
        <3>2. stored'[k] = stored[k] /\ IsStored(q.token, k)
            BY <1>1, <2>1, <3>1 DEF Grounds
        <3>3. RefreshTokenKey(n.user, n.client) = k /\ n.token = q.token
            BY <1>3
        <3>. QED
            BY <1>3, <3>2 DEF IsStored, RefreshTokenKey
    <2>2. ASSUME q.pc = "generating", q.op = "refresh", ~q.early PROVE q.user \notin SignedOut'
        BY <1>1, <1>3, <2>2 DEF Grounds, SignedOut
    <2>3. PICK next \in Request : next = q
        BY <1>1
    <2>4. Grounds(next)'
        <3>1. \A token, key : IsStored(token, key)' <=> stored'[key].token = token
            BY DEF IsStored
        <3>2. \/ next.overtaken \/ now >= next.token.iat + RefreshExpires
              \/ ~(next.pc = "answering" /\ next.status = 201)
              \/ IsStored(next.token, RefreshTokenKey(next.user, next.client))'
            BY <1>3, <2>1, <2>3, <3>1 DEF RefreshTokenKey
        <3>. QED
            BY <1>1, <1>2, <1>3, <2>2, <2>3, <3>2 DEF Grounds, SignedOut
    <2>. QED
        BY <1>1, <1>3, <2>3, <2>4
<1>4. CASE q.pc = "answering" /\ n = [q EXCEPT !.overtaken = TRUE]
    <2>1. n \in Request
        BY <1>1, <1>4, RequestColumns
    <2>2. n.pc = q.pc /\ n.taken = q.taken /\ n.status = q.status /\ n.user = q.user
          /\ n.token = q.token /\ n.overtaken = TRUE
        BY <1>1, <1>4, RequestIs
    <2>. QED
        BY <1>1, <1>4, <2>1, <2>2 DEF Grounds
<1>5. CASE q.pc = "generating" /\ n = [q EXCEPT !.early = TRUE]
    <2>1. n \in Request
        BY <1>1, <1>5, RequestColumns
    <2>2. n.pc = q.pc /\ n.taken = q.taken /\ n.user = q.user /\ n.early = TRUE
        BY <1>1, <1>5, RequestIs
    <2>. QED
        BY <1>1, <1>5, <2>1, <2>2 DEF Grounds
<1>. QED
    BY <1>3, <1>4, <1>5

(* A token is signed and stored: only a refresh that had been verified     *)
(* before the logout stores one for a user who has logged out.             *)
LEMMA Generating ==
    ASSUME Inv, NEW w \in Workers, Generate(w)
    PROVE  Inv'
<1>. DEFINE q == requests[w]
            u == q.user
            k == RefreshTokenKey(q.user, q.client)
            token == Sign(q.user)
            entry == [token |-> token, until |-> EndOfEntry]
            r == Succeeds(q, 201, token)
<1>1. /\ q \in Request /\ Grounds(q) /\ q.pc = "generating"
      /\ stored' = [stored EXCEPT ![k] = entry] /\ Overtake(w, k, r)
      /\ UNCHANGED <<now, users, holding>>
    BY DEF Inv, TypeOK, Generate, At, Store
<1>2. /\ u \in UserIds /\ k \in Keys /\ k[1] = u /\ 201 \in Codes /\ ~q.taken
      /\ now \in 0..MaxTime /\ RefreshExpires \in Nat \ {0}
      /\ stored \in [Keys -> Entries]
    BY <1>1, Ids, AuthAssumption DEF Grounds, RefreshTokenKey, Codes, Inv, TypeOK
<1>3. /\ token \in Tokens /\ entry \in Entries /\ entry.until = token.iat + RefreshExpires
      /\ token.iat = now
    BY <1>2 DEF Sign, Tokens, Entries, EndOfEntry
<1>4. r \in Request
    BY <1>1, <1>2, <1>3, SucceedsType
<1>5. /\ r.pc = "answering" /\ r.status = 201 /\ r.user = u /\ r.token = token
      /\ r.client = q.client /\ r.taken = q.taken
    BY DEF Succeeds, Fails, NoRequest
<1>6. /\ stored' \in [Keys -> Entries] /\ stored'[k] = entry
      /\ \A j \in Keys \ {k} : stored'[j] = stored[j]
    BY <1>1, <1>2, <1>3
<1>7. /\ \A j \in Keys : j[1] # u => stored'[j] = stored[j]
      /\ \A j \in Keys : stored'[j] # NoEntry =>
            /\ stored'[j].token \in Tokens
            /\ stored'[j].until = stored'[j].token.iat + RefreshExpires
    BY <1>2, <1>3, <1>6 DEF Inv, TypeOK
<1>8. /\ history' \in [loggedOut : SUBSET UserIds, revived : SUBSET UserIds]
      /\ SignedOut' \subseteq SignedOut \ {u}
    <2>1. history \in [loggedOut : SUBSET UserIds, revived : SUBSET UserIds]
        BY DEF Inv, TypeOK
    <2>2. CASE q.op = "refresh" /\ q.early
        BY <1>2, <2>1, <2>2 DEF Generate, SignedOut
    <2>3. CASE q.op = "refresh" /\ ~q.early
        BY <1>1, <2>1, <2>3 DEF Generate, SignedOut, Grounds
    <2>4. CASE q.op # "refresh"
        BY <1>2, <2>1, <2>4 DEF Generate, SignedOut
    <2>. QED
        BY <2>2, <2>3, <2>4
<1>9. LogoutSticks' /\ AccountsAreUnique'
    <2>1. \A v \in SignedOut' : \A j \in Keys : j[1] = v => stored'[j] = NoEntry
        BY <1>7, <1>8 DEF Inv, LogoutSticks, SignedOut
    <2>. QED
        BY <1>1, <2>1 DEF LogoutSticks, SignedOut, Inv, AccountsAreUnique
<1>10. ASSUME NEW x \in Workers \ {w} PROVE requests'[x] \in Request /\ Grounds(requests[x])'
    <2>1. CASE At(x, "answering") /\ requests[x].user # 0
               /\ RefreshTokenKey(requests[x].user, requests[x].client) = k
        <3>1. requests'[x] = [requests[x] EXCEPT !.overtaken = TRUE]
            BY <1>1, <2>1 DEF Overtake
        <3>. HIDE DEF k, entry, r
        <3>. QED
            BY <1>1, <1>2, <1>7, <1>8, <2>1, <3>1, OthersKeepGrounds DEF At
    <2>2. CASE ~(At(x, "answering") /\ requests[x].user # 0
                 /\ RefreshTokenKey(requests[x].user, requests[x].client) = k)
        <3>1. requests'[x] = requests[x]
            BY <1>1, <2>2 DEF Overtake
        <3>2. requests[x].pc = "answering" => requests[x].user # u
            <4>1. u # 0
                BY <1>2, AuthAssumption DEF UserIds
            <4>2. requests[x].user = u => RefreshTokenKey(requests[x].user, requests[x].client) = k
                BY OneKey
            <4>. QED
                BY <2>2, <4>1, <4>2 DEF At
        <3>3. u \notin SignedOut'
            BY <1>8
        <3>. HIDE DEF k, entry, r
        <3>. QED
            BY <1>1, <1>2, <1>7, <1>8, <3>1, <3>2, <3>3, OthersKeepGrounds
    <2>. QED
        BY <2>1, <2>2
<1>11. requests'[w] = r /\ requests' \in [Workers -> Request]
    BY <1>1, <1>4, <1>10 DEF Overtake
<1>12. Grounds(requests[w])'
    <2>1. PICK next \in Request, t \in Tokens, v \in UserIds : next = r /\ t = token /\ v = u
        BY <1>2, <1>3, <1>4
    <2>2. next.pc = "answering" /\ next.user = v /\ next.token = t
          /\ next.client = q.client /\ ~next.taken /\ next.status = 201
        BY <1>2, <1>5, <2>1
    <2>3. stored'[RefreshTokenKey(v, next.client)].token = t
        <3>1. RefreshTokenKey(v, next.client) = k
            BY <2>1, OneKey
        <3>. QED
            BY <1>6, <2>1, <3>1
    <2>4. Grounds(next)'
        <3>1. stored'[RefreshTokenKey(next.user, next.client)].token = next.token
            BY <2>2, <2>3
        <3>2. IsStored(next.token, RefreshTokenKey(next.user, next.client))'
            BY <3>1, OneKey DEF IsStored, RefreshTokenKey
        <3>. QED
            BY <2>2, <3>2 DEF Grounds
    <2>. QED
        BY <1>11, <2>1, <2>4
<1>13. TypeOK'
    BY <1>1, <1>7, <1>8, <1>11 DEF Inv, TypeOK
<1>. QED
    BY <1>1, <1>6, <1>9, <1>10, <1>12, <1>13 DEF Inv

(* The user's entry is deleted; requests of the user that have been        *)
(* verified by now are early.                                              *)
LEMMA Deleting ==
    ASSUME Inv, NEW w \in Workers, DeleteRefresh(w)
    PROVE  Inv'
<1>. DEFINE q == requests[w]
            u == q.user
            k == RefreshTokenKey(q.user, q.client)
            r == Succeeds(q, 200, None)
<1>1. /\ q \in Request /\ Grounds(q) /\ q.pc = "deleting"
      /\ stored' = [stored EXCEPT ![k] = NoEntry]
      /\ UNCHANGED <<now, users, holding>>
    BY DEF Inv, TypeOK, DeleteRefresh, At
<1>2. /\ u \in UserIds /\ k \in Keys /\ k[1] = u /\ 200 \in Codes /\ ~q.taken
      /\ stored \in [Keys -> Entries] /\ NoEntry \in Entries
    BY <1>1, Ids DEF Grounds, RefreshTokenKey, Codes, Inv, NoEntry, Entries
<1>3. r \in Request
    BY <1>1, <1>2, SucceedsType
<1>4. r.pc = "answering" /\ r.status = 200 /\ r.taken = q.taken
    BY DEF Succeeds, Fails, NoRequest
<1>5. /\ requests'[w] = r
      /\ \A x \in Workers \ {w} :
            requests'[x] = IF At(x, "generating") /\ requests[x].user = u
                             THEN [requests[x] EXCEPT !.early = TRUE]
                           ELSE IF At(x, "answering") /\ requests[x].user = u
                             THEN [requests[x] EXCEPT !.overtaken = TRUE]
                           ELSE requests[x]
      /\ DOMAIN requests' = Workers
    <2>. HIDE DEF r
    <2>. QED
        BY DEF DeleteRefresh, r
<1>6. /\ stored' \in [Keys -> Entries] /\ stored'[k] = NoEntry
      /\ \A j \in Keys \ {k} : stored'[j] = stored[j]
    BY <1>1, <1>2
<1>7. /\ \A j \in Keys : j[1] # u => stored'[j] = stored[j]
      /\ \A j \in Keys : j[1] = u => stored'[j] = NoEntry
    <2>1. \A j \in Keys : j[1] = u => j = k
        BY Ids DEF RefreshTokenKey
    <2>. QED
        BY <1>2, <1>6, <2>1
<1>8. /\ history' \in [loggedOut : SUBSET UserIds, revived : SUBSET UserIds]
      /\ SignedOut' \subseteq SignedOut \cup {u}
    <2>1. history \in [loggedOut : SUBSET UserIds, revived : SUBSET UserIds]
        BY DEF Inv, TypeOK
    <2>. QED
        BY <1>2, <2>1 DEF DeleteRefresh, SignedOut
<1>9. LogoutSticks' /\ AccountsAreUnique'
    <2>1. \A v \in SignedOut' : \A j \in Keys : j[1] = v => stored'[j] = NoEntry
        BY <1>7, <1>8 DEF Inv, LogoutSticks, SignedOut
    <2>. QED
        BY <1>1, <2>1 DEF LogoutSticks, SignedOut, Inv, AccountsAreUnique
<1>10. ASSUME NEW x \in Workers \ {w} PROVE requests'[x] \in Request /\ Grounds(requests[x])'
    <2>. HIDE DEF k, r
    <2>1. CASE At(x, "generating") /\ requests[x].user = u
        BY <1>1, <1>2, <1>5, <1>7, <1>8, <2>1, OthersKeepGrounds DEF At
    <2>2. CASE At(x, "answering") /\ requests[x].user = u
        <3>1. requests'[x] = [requests[x] EXCEPT !.overtaken = TRUE]
            BY <1>5, <2>2 DEF At
        <3>. QED
            BY <1>1, <1>2, <1>7, <1>8, <2>2, <3>1, OthersKeepGrounds DEF At
    <2>3. CASE ~(At(x, "generating") /\ requests[x].user = u)
               /\ ~(At(x, "answering") /\ requests[x].user = u)
        <3>1. requests'[x] = requests[x]
            BY <1>5, <2>3
        <3>. QED
            BY <1>1, <1>2, <1>7, <1>8, <2>3, <3>1, OthersKeepGrounds DEF At
    <2>. QED
        BY <2>1, <2>2, <2>3
<1>11. requests' \in [Workers -> Request]
    <2>1. requests \in [Workers -> Request]
        BY DEF Inv, TypeOK
    <2>2. \E f : requests' = [x \in Workers |-> f[x]]
        BY <2>1 DEF DeleteRefresh
    <2>. QED
        BY <1>3, <1>5, <1>10, <2>2
<1>12. Grounds(requests[w])'
    BY <1>2, <1>4, <1>5 DEF Grounds
<1>13. TypeOK'
    BY <1>1, <1>2, <1>6, <1>7, <1>8, <1>11 DEF Inv, TypeOK
<1>. QED
    BY <1>1, <1>6, <1>9, <1>10, <1>12, <1>13 DEF Inv

(* Redis drops an entry no sooner than its token ends.                     *)
LEMMA Ticking ==
    ASSUME Inv, Tick
    PROVE  Inv'
<1>1. /\ now \in 0..MaxTime /\ now' \in 0..MaxTime /\ now' = now + 1 /\ MaxTime \in Nat
      /\ UNCHANGED <<users, requests, history>>
    BY AuthAssumption DEF Inv, TypeOK, Tick
<1>2. /\ stored \in [Keys -> Entries]
      /\ stored' = [k \in Keys |-> IF stored[k].until <= now' THEN NoEntry ELSE stored[k]]
      /\ NoEntry \in Entries
    BY DEF Inv, Tick, NoEntry, Entries
<1>3. stored' \in [Keys -> Entries]
    BY <1>2
<1>4. \A k \in Keys : \/ stored'[k] = stored[k]
                      \/ stored'[k] = NoEntry /\ stored[k].until <= now'
    BY <1>2
<1>5. holding' \in [Clients -> Tokens \cup {None}]
    BY DEF Inv, TypeOK, Tick
<1>6. TypeOK' /\ LogoutSticks' /\ AccountsAreUnique'
    BY <1>1, <1>3, <1>4, <1>5 DEF Inv, TypeOK, LogoutSticks, AccountsAreUnique
<1>7. ASSUME NEW x \in Workers PROVE Grounds(requests[x])'
    <2>. DEFINE q == requests[x]
                k == RefreshTokenKey(q.user, q.client)
    <2>1. q \in Request /\ Grounds(q) /\ requests'[x] = q
        BY <1>1 DEF Inv, TypeOK
    <2>2. \A name : /\ EmailInUse(name) => EmailInUse(name)'
                    /\ UsernameInUse(name) => UsernameInUse(name)'
        BY <1>1 DEF EmailInUse, UsernameInUse
    <2>3. ASSUME q.pc = "answering", q.status = 201, ~q.overtaken
          PROVE  now' >= q.token.iat + RefreshExpires \/ stored'[k].token = q.token
        <3>1. /\ q.user \in UserIds /\ q.token \in Tokens /\ k \in Keys
              /\ now >= q.token.iat + RefreshExpires \/ stored[k].token = q.token
            BY <2>1, <2>3, Ids DEF Grounds, IsStored
        <3>2. q.token.iat \in Nat /\ RefreshExpires \in Nat
            BY <3>1, AuthAssumption DEF Tokens
        <3>3. CASE now >= q.token.iat + RefreshExpires
            BY <1>1, <3>2, <3>3
        <3>4. CASE stored[k].token = q.token
            <4>1. stored[k] # NoEntry
                BY <3>1, <3>4, NullAssumption DEF NoEntry
            <4>2. stored[k].until = q.token.iat + RefreshExpires
                BY <3>1, <3>4, <4>1 DEF Inv, TypeOK
            <4>. QED
                BY <1>1, <1>4, <3>1, <3>2, <3>4, <4>2
        <3>. QED
            BY <3>1, <3>3, <3>4
    <2>4. PICK next \in Request : next = q
        BY <2>1
    <2>5. Grounds(next)'
        <3>1. \A token, key : IsStored(token, key)' <=> stored'[key].token = token
            BY DEF IsStored
        <3>2. \/ next.overtaken \/ now' >= next.token.iat + RefreshExpires
              \/ ~(next.pc = "answering" /\ next.status = 201)
              \/ IsStored(next.token, RefreshTokenKey(next.user, next.client))'
            BY <2>3, <2>4, <3>1 DEF RefreshTokenKey
        <3>. QED
            BY <1>1, <2>1, <2>2, <2>4, <3>2 DEF Grounds
    <2>. QED
        BY <2>1, <2>4, <2>5
<1>. QED
    BY <1>1, <1>3, <1>6, <1>7 DEF Inv

-----------------------------------------------------------------------------

(* Nothing is registered, stored or asked at first.                        *)
LEMMA InvInit ==
    ASSUME Init
    PROVE  Inv
<1>1. now \in 0..MaxTime /\ users \in Seq([email : Emails, username : Usernames]) /\ Len(users) <= MaxUsers
    BY AuthAssumption DEF Init
<1>2. stored \in [Keys -> Entries] /\ (\A k \in Keys : stored[k] = NoEntry)
    BY DEF Init, NoEntry, Entries
<1>3. holding \in [Clients -> Tokens \cup {None}] /\ requests \in [Workers -> Request]
    BY NoRequestType DEF Init
<1>4. history \in [loggedOut : SUBSET UserIds, revived : SUBSET UserIds]
    BY DEF Init
<1>5. AccountsAreUnique
    BY DEF Init, AccountsAreUnique
<1>6. LogoutSticks
    BY <1>2 DEF LogoutSticks
<1>7. Grounds(NoRequest)
    BY DEF Grounds, NoRequest
<1>8. \A w \in Workers : Grounds(requests[w])
    BY <1>7 DEF Init
<1>. QED
    BY <1>1, <1>2, <1>3, <1>4, <1>5, <1>6, <1>8 DEF Inv, TypeOK

(* Every step keeps the invariant.                                         *)
LEMMA InvStep ==
    ASSUME Inv, [Next]_vars
    PROVE  Inv'
<1>1. ASSUME NEW w \in Workers, NEW c \in Clients,
             \/ \E email \in Emails :
                   \/ \E username \in Usernames : AskToRegister(w, c, email, username)
                   \/ AskToLogin(w, c, email)
             \/ \E op \in {"refresh", "logout"} : AskWithTokens(w, c, op)
      PROVE  Inv'
    BY <1>1, Asks
<1>2. ASSUME NEW w \in Workers,
             \/ CheckName(w) \/ DecideToInsert(w) \/ Insert(w)
             \/ Validate(w) \/ VerifyRefresh(w) \/ Generate(w) \/ DeleteRefresh(w)
             \/ AnswerArrives(w) \/ RequestLost(w)
      PROVE  Inv'
    BY <1>2, Checking, Deciding, Inserting, Validating, Verifying, Generating, Deleting, Ending
<1>3. CASE Tick
    BY <1>3, Ticking
<1>4. CASE UNCHANGED vars
    <2>1. TypeOK' /\ (stored \in [Keys -> Entries])' /\ (Len(users) <= MaxUsers)'
          /\ AccountsAreUnique' /\ LogoutSticks'
        BY <1>4 DEF vars, Inv, TypeOK, AccountsAreUnique, LogoutSticks
    <2>2. \A w \in Workers : Grounds(requests[w])'
        BY <1>4 DEF vars, Inv, Grounds, EmailInUse, UsernameInUse, IsStored
    <2>. QED
        BY <2>1, <2>2 DEF Inv
<1>. QED
    BY <1>1, <1>2, <1>3, <1>4 DEF Next

(* So it always holds.                                                     *)
LEMMA Invariance == Spec => []Inv
<1>1. Init => Inv
    BY InvInit
<1>2. Inv /\ [Next]_vars => Inv'
    BY InvStep
<1>. QED
    BY <1>1, <1>2, PTL DEF Spec

(* Accounts, entries, tokens and requests are what they are taken for, and *)
(* an entry ends when its token does.                                      *)
THEOREM AuthTypes == Spec => []TypeOK
<1>1. Inv => TypeOK
    BY DEF Inv
<1>. QED
    BY <1>1, Invariance, PTL

(* No two accounts ever share an email or a username, however many         *)
(* registrations of the same names interleave.                             *)
THEOREM AccountsUnique == Spec => []AccountsAreUnique
<1>1. Inv => AccountsAreUnique
    BY DEF Inv
<1>. QED
    BY <1>1, Invariance, PTL

(* A name that was in use when a registration arrived is answered with a   *)
(* 400, never with the 500 of the unique index.                            *)
THEOREM TakenTold == Spec => []TakenIsTold
<1>1. Inv => TakenIsTold
    BY DEF Inv, Grounds, TakenIsTold, At
<1>. QED
    BY <1>1, Invariance, PTL

(* Between a logout and the next sign-in no client can refresh, unless a   *)
(* refresh that had been verified before the logout stores its token after.*)
THEOREM LogoutHolds == Spec => []LogoutSticks
<1>1. Inv => LogoutSticks
    BY DEF Inv
<1>. QED
    BY <1>1, Invariance, PTL

(* A refresh token that is on its way to a client is the one that is       *)
(* stored, unless it was overtaken or has expired.                         *)
THEOREM AnswerLives == Spec => []AnsweredTokenIsLive
<1>1. Inv => AnsweredTokenIsLive
    BY DEF Inv, Grounds, AnsweredTokenIsLive, At
<1>. QED
    BY <1>1, Invariance, PTL

=============================================================================
