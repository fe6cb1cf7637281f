------------------------ MODULE ParticipationProofs ------------------------
(***************************************************************************)
(* What TLAPS proves of Participation, for any number of users,            *)
(* tournaments and requests, and any assignment of keys to users.          *)
(*                                                                         *)
(* A request reads, and later writes on the strength of what it has read,  *)
(* while others commit.  Grounds says what of it still holds: because the  *)
(* row lock keeps others from the tournament, and the locks on users keep  *)
(* others from putting these users into an ACTIVE tournament.  That locks  *)
(* exclude is Apart; who holds which at what step is Shape.                *)
(***************************************************************************)
EXTENDS Participation, TLAPS, FiniteSetTheorems

-----------------------------------------------------------------------------
(* The inductive invariant                                                 *)

RowOperations == {"join", "start", "cancel"}

(* The steps of each operation.                                            *)
InItsPlace(r) ==
    \/ r.op = "none" /\ r = NoRequest
    \/ r.op = "create" /\ r.pc \in {"lockingUsers", "checkingOwned", "saving"}
    \/ r.op = "join" /\ r.pc \in {"lockingRow", "checkingMember", "lockingUsers",
                                  "checkingUsers", "saving"}
    \/ r.op = "start" /\ r.pc \in {"lockingRow", "countingParticipants", "readingParticipants",
                                   "lockingUsers", "checkingUsers", "saving"}
    \/ r.op = "cancel" /\ r.pc \in {"lockingRow", "readingParticipants", "saving"}
    \/ r.op = "leave" /\ r.pc \in {"readingTournament", "findingParticipant", "deleting"}
    \/ r.op = "details" /\ r.pc \in {"readingTournament", "readingDetails", "answering"}

(* What a request holds and has gone through when it is where it is.       *)
Shape(r) ==
    /\ InItsPlace(r)
    /\ r.op # "none" => r.user \in Users /\ r.tournament \in Tournaments
    /\ r.row <=> r.op \in RowOperations /\ r.pc # "lockingRow"
    /\ r.checked \subseteq r.locked /\ r.locked \subseteq r.users
    /\ r.locked # {} => r.pc \in {"lockingUsers", "checkingUsers", "checkingOwned", "saving"}
    /\ \A v \in r.locked, u \in r.users \ r.locked : v < u
    /\ r.op = "create" => r.users = {r.user}
    /\ r.op = "join" /\ r.pc \notin {"lockingRow", "checkingMember"} => r.users = {r.user}
    /\ r.pc \in {"checkingUsers", "checkingOwned"} => r.users \subseteq r.locked
    /\ r.op = "create" /\ r.pc = "saving" => r.user \in r.locked
    /\ r.op = "start" /\ r.pc = "saving" => r.users \subseteq r.checked

(* Two requests never hold the same lock, and draw different ids.          *)
Apart(r, q) ==
    /\ r.row /\ q.row => r.tournament # q.tournament
    /\ \A u \in r.locked, v \in q.locked : KeyOf[u] # KeyOf[v]
    /\ r.op = "create" \/ q.op = "create" => r.tournament # q.tournament

OwnsNothingOpen(u) == \A t \in Tournaments : ~(owner[t] = u /\ status[t] \in OpenStatuses)

(* What a request knows of the tables, although others change them.        *)
Grounds(r) ==
    /\ r.op = "create" => status[r.tournament] = "NONE"
    /\ r.op \notin {"none", "create"} => status[r.tournament] # "NONE"
    /\ r.row => status[r.tournament] \in OpenStatuses
    /\ r.row /\ r.op # "join" => status[r.tournament] = "DRAFT"
    /\ r.row /\ r.op = "join" /\ r.pc = "saving"
         => status[r.tournament] = "DRAFT" \/ r.user \in r.checked
    /\ r.row /\ r.op = "start" /\ r.pc \in {"lockingUsers", "checkingUsers", "saving"}
         => participants[r.tournament] \subseteq r.users
    /\ \A u \in r.checked : ~PlaysElsewhere(u, r.tournament)
    /\ r.op = "create" /\ r.pc = "saving" => OwnsNothingOpen(r.user)
    /\ r.pc \in {"findingParticipant", "deleting"} => r.user # owner[r.tournament]
    /\ r.pc = "answering"
         => owner[r.tournament] \in r.users \/ status[r.tournament] = "CANCELLED"

Rules ==
    /\ Promise!OneActiveTournament
    /\ Promise!OneOpenOwnedTournament
    /\ Promise!OwnerTakesPart

Inv ==
    /\ TypeOK
    /\ \A w \in Workers : Shape(requests[w]) /\ Grounds(requests[w])
    /\ \A w, x \in Workers : w # x => Apart(requests[w], requests[x])
    /\ Rules

-----------------------------------------------------------------------------
(* One request changes and no table does                                   *)

(* What has to be looked at when a request goes on: that its new state is  *)
(* well-founded, and apart from those of the others.                       *)
LEMMA GoesOn ==
    ASSUME Inv, NEW w \in Workers, NEW r \in Request, Shape(r), Grounds(r),
           Becomes(w, r), UNCHANGED tournamentVars,
           \A x \in Workers \ {w} : Apart(r, requests[x])
    PROVE  Inv'
<1>1. /\ requests' \in [Workers -> Request]
      /\ requests'[w] = r
      /\ \A x \in Workers \ {w} : requests'[x] = requests[x]
    BY DEF Inv, TypeOK, Becomes
<1>2. TypeOK'
    BY <1>1 DEF Inv, TypeOK, tournamentVars, Shape
<1>3. ASSUME NEW x \in Workers PROVE Shape(requests'[x]) /\ Grounds(requests[x])'
    <2>1. CASE x = w
        BY <1>1, <2>1 DEF Grounds, PlaysElsewhere, OwnsNothingOpen, tournamentVars
    <2>2. CASE x # w
        BY <1>1, <2>2 DEF Inv, Grounds, PlaysElsewhere, OwnsNothingOpen, tournamentVars
    <2>. QED
        BY <2>1, <2>2
<1>4. ASSUME NEW x \in Workers, NEW y \in Workers, x # y
      PROVE  Apart(requests'[x], requests'[y])
    <2>1. CASE x = w
        BY <1>1, <1>4, <2>1
    <2>2. CASE y = w
        <3>1. Apart(r, requests[x])
            BY <1>4, <2>2
        <3>. QED
            BY <1>1, <1>4, <2>2, <3>1 DEF Apart
    <2>3. CASE x # w /\ y # w
        BY <1>1, <1>4, <2>3 DEF Inv
    <2>. QED
        BY <2>1, <2>2, <2>3
<1>5. Rules'
    BY DEF Inv, Rules, tournamentVars, Promise!OneActiveTournament,
           Promise!OneOpenOwnedTournament, Promise!OwnerTakesPart
<1>. QED
    BY <1>2, <1>3, <1>4, <1>5 DEF Inv, Shape

(* A worker without a request holds nothing and knows nothing.             *)
LEMMA NothingHeld ==
    ASSUME Inv
    PROVE  /\ NoRequest \in Request /\ Shape(NoRequest) /\ Grounds(NoRequest)
           /\ \A x \in Workers : Apart(NoRequest, requests[x])
<1>1. NoRequest \in Request
    BY DEF NoRequest, Request, Steps, Operations
<1>2. Shape(NoRequest) /\ Grounds(NoRequest)
    BY DEF NoRequest, Shape, InItsPlace, RowOperations, Grounds
<1>3. ASSUME NEW x \in Workers PROVE Apart(NoRequest, requests[x])
    BY ParticipationAssumption DEF NoRequest, Apart, Inv, Shape
<1>. QED
    BY <1>1, <1>2, <1>3

(* A request may end anywhere: its locks go with it.                       *)
LEMMA Ends ==
    ASSUME Inv, NEW w \in Workers, End(w), UNCHANGED tournamentVars
    PROVE  Inv'
BY NothingHeld, GoesOn DEF End

-----------------------------------------------------------------------------
(* The steps that change no table                                          *)

(* A request is what TypeOK and the invariant say of it.                   *)
LEMMA Known ==
    ASSUME Inv, NEW w \in Workers
    PROVE  /\ requests[w] \in Request /\ Shape(requests[w]) /\ Grounds(requests[w])
           /\ \A x \in Workers \ {w} : Apart(requests[w], requests[x])
BY DEF Inv, TypeOK

(* A request that begins holds nothing and has read nothing.              *)
LEMMA Asked ==
    ASSUME Inv, NEW w \in Workers, NEW u \in Users, NEW t \in Tournaments,
           \/ AskToCreate(w, u, t)
           \/ \E op \in Operations \ {"none", "create"} : Ask(w, op, u, t)
    PROVE  Inv'
<1>1. CASE AskToCreate(w, u, t)
    <2>. DEFINE r == [NoRequest EXCEPT !.pc = AfterCreateAsked, !.op = "create",
                                       !.user = u, !.tournament = t, !.users = {u}]
    <2>1. r \in Request
        BY DEF NoRequest, Request, Steps, Operations, AfterCreateAsked
    <2>2. Shape(r) /\ Grounds(r)
        BY <1>1 DEF AskToCreate, NoRequest, Shape, InItsPlace, RowOperations, Grounds, AfterCreateAsked
    <2>3. \A x \in Workers \ {w} : Apart(r, requests[x])
        BY <1>1 DEF AskToCreate, NoRequest, Apart
    <2>. QED
        BY <1>1, <2>1, <2>2, <2>3, GoesOn DEF AskToCreate
<1>2. ASSUME NEW op \in Operations \ {"none", "create"}, Ask(w, op, u, t) PROVE Inv'
    <2>. DEFINE r == [NoRequest EXCEPT !.pc = FirstStep(op), !.op = op,
                                       !.user = u, !.tournament = t]
    <2>1. r \in Request
        BY DEF NoRequest, Request, Steps, Operations, FirstStep
    <2>2. Shape(r) /\ Grounds(r)
        BY <1>2 DEF Ask, NoRequest, Shape, InItsPlace, RowOperations, Grounds, FirstStep, Operations
    <2>3. ASSUME NEW x \in Workers \ {w} PROVE Apart(r, requests[x])
        BY <1>2, Known DEF Ask, NoRequest, Apart, Grounds, Operations
    <2>. QED
        BY <1>2, <2>1, <2>2, <2>3, GoesOn DEF Ask
<1>. QED
    BY <1>1, <1>2

(* The lock of the row is granted only to a request that finds the status *)
(* it needs, and this is then its ground until it writes.                 *)
LEMMA RowLocked ==
    ASSUME Inv, NEW w \in Workers, LockRow(w)
    PROVE  Inv'
<1>. DEFINE q == requests[w]
            r == [q EXCEPT !.row = TRUE, !.pc = AfterRowLocked(q.op)]
<1>1. CASE Admitted(q.op, q.user, q.tournament)
    <2>1. q.op \in RowOperations /\ q.pc = "lockingRow" /\ q.locked = {} /\ q.checked = {}
        BY Known DEF LockRow, At, Shape, InItsPlace, RowOperations, NoRequest
    <2>2. r \in Request
        BY <2>1, Known DEF Request, Steps, AfterRowLocked, RowOperations
    <2>3. Shape(r)
        BY <2>1, Known DEF Shape, InItsPlace, RowOperations, AfterRowLocked, Request
    <2>4. status[q.tournament] \in Statuses
        BY <2>1, Known DEF Inv, TypeOK, Shape, RowOperations
    <2>5. Grounds(r)
        BY <1>1, <2>1, <2>4, Known DEF Grounds, Admitted, RowOperations, AfterRowLocked, Request,
            OpenStatuses, Statuses
    <2>6. ASSUME NEW x \in Workers \ {w} PROVE Apart(r, requests[x])
        BY <2>1, Known DEF Apart, LockRow, RowFree, Request
    <2>7. Becomes(w, r) /\ UNCHANGED tournamentVars
        BY <1>1 DEF LockRow
    <2>. QED
        BY <2>2, <2>3, <2>5, <2>6, <2>7, GoesOn
<1>2. CASE ~Admitted(q.op, q.user, q.tournament)
    BY <1>2, Ends DEF LockRow
<1>. QED
    BY <1>1, <1>2

(* Who joins a draft needs no other ground to write than the row.         *)
LEMMA MemberChecked ==
    ASSUME Inv, NEW w \in Workers, CheckMember(w)
    PROVE  Inv'
<1>. DEFINE q == requests[w]
            r == [q EXCEPT !.users = {q.user}, !.pc = AfterMemberCheck(q.tournament)]
<1>1. CASE Becomes(w, r)
    <2>1. /\ q.op = "join" /\ q.pc = "checkingMember" /\ q.locked = {} /\ q.checked = {}
          /\ q.row /\ q.user \in Users /\ q.tournament \in Tournaments
        BY Known DEF CheckMember, At, Shape, InItsPlace, RowOperations, NoRequest
    <2>2. r \in Request
        BY ZenonT(30), <2>1, Known DEF Request, Steps, AfterMemberCheck
    <2>3. Shape(r)
        BY <2>1, Known DEF Shape, InItsPlace, RowOperations, AfterMemberCheck, Request
    <2>4. Grounds(r)
        BY <2>1, Known DEF Grounds, AfterMemberCheck, Request, OpenStatuses
    <2>5. ASSUME NEW x \in Workers \ {w} PROVE Apart(r, requests[x])
        BY <2>1, Known DEF Apart, Request
    <2>. QED
        BY <1>1, <2>2, <2>3, <2>4, <2>5, GoesOn DEF CheckMember
<1>2. CASE End(w)
    BY <1>2, Ends DEF CheckMember
<1>. QED
    BY <1>1, <1>2 DEF CheckMember

(* The count of start is no ground of anything that follows.              *)
LEMMA ParticipantsCounted ==
    ASSUME Inv, NEW w \in Workers, CountParticipants(w)
    PROVE  Inv'
<1>. DEFINE q == requests[w]
            r == [q EXCEPT !.pc = "readingParticipants"]
<1>1. CASE Becomes(w, r)
    <2>1. q.op = "start" /\ q.pc = "countingParticipants" /\ q.locked = {} /\ q.checked = {}
        BY Known DEF CountParticipants, At, Shape, InItsPlace, RowOperations, NoRequest
    <2>2. r \in Request
        BY <2>1, Known DEF Request, Steps
    <2>3. Shape(r)
        BY <2>1, Known DEF Shape, InItsPlace, RowOperations, Request
    <2>4. Grounds(r)
        BY <2>1, Known DEF Grounds, Request
    <2>5. ASSUME NEW x \in Workers \ {w} PROVE Apart(r, requests[x])
        BY <2>1, Known DEF Apart, Request
    <2>. QED
        BY <1>1, <2>2, <2>3, <2>4, <2>5, GoesOn DEF CountParticipants
<1>2. CASE End(w)
    BY <1>2, Ends DEF CountParticipants
<1>. QED
    BY <1>1, <1>2, Known DEF CountParticipants, Goto, Becomes, Inv, TypeOK, Request

(* start and cancel have read the participants under the lock of the row, *)
(* where only leaving can change them.                                    *)
LEMMA ParticipantsRead ==
    ASSUME Inv, NEW w \in Workers, ReadParticipants(w)
    PROVE  Inv'
<1>. DEFINE q == requests[w]
            r == [q EXCEPT !.users = participants[q.tournament],
                           !.pc = IF q.op = "start" THEN "lockingUsers" ELSE "saving"]
<1>1. /\ q.op \in {"start", "cancel"} /\ q.pc = "readingParticipants"
      /\ q.locked = {} /\ q.checked = {} /\ q.row
      /\ q.tournament \in Tournaments /\ participants[q.tournament] \subseteq Users
    BY Known DEF ReadParticipants, At, Shape, InItsPlace, RowOperations, NoRequest, Inv, TypeOK
<1>2. r \in Request
    BY ZenonT(30), <1>1, Known DEF Request, Steps
<1>3. Shape(r)
    BY <1>1, Known DEF Shape, InItsPlace, RowOperations, Request
<1>4. Grounds(r)
    BY <1>1, Known DEF Grounds, Request
<1>5. ASSUME NEW x \in Workers \ {w} PROVE Apart(r, requests[x])
    BY <1>1, Known DEF Apart, Request
<1>. QED
    BY <1>2, <1>3, <1>4, <1>5, GoesOn DEF ReadParticipants

(* The ids are locked in their order, which is that of Int.                *)
LEMMA UserLocked ==
    ASSUME Inv, NEW w \in Workers, LockUser(w)
    PROVE  Inv'
<1>. DEFINE q == requests[w]
<1>1. PICK u \in NextToLock(q.users \ q.locked) :
        /\ KeyFree(w, u)
        /\ Becomes(w, [q EXCEPT !.locked = @ \cup {u},
               !.pc = IF q.users \subseteq q.locked \cup {u}
                        THEN IF q.op = "create" THEN "checkingOwned" ELSE "checkingUsers"
                        ELSE "lockingUsers"])
    BY DEF LockUser
<1>. DEFINE r == [q EXCEPT !.locked = @ \cup {u},
                    !.pc = IF q.users \subseteq q.locked \cup {u}
                             THEN IF q.op = "create" THEN "checkingOwned" ELSE "checkingUsers"
                             ELSE "lockingUsers"]
<1>2. q.op \in {"create", "join", "start"} /\ q.pc = "lockingUsers" /\ q \in Request
    BY Known DEF LockUser, At, Shape, InItsPlace, RowOperations, NoRequest
<1>3. /\ u \in q.users \ q.locked /\ q.users \subseteq Int
      /\ \A v \in q.users \ q.locked : u <= v
    BY <1>2, ParticipationAssumption DEF NextToLock, Request
<1>4. \A v \in q.locked \cup {u}, v2 \in q.users \ (q.locked \cup {u}) : v < v2
    BY <1>3, Known DEF Shape
<1>5. r \in Request
    BY <1>2, <1>3 DEF Request, Steps
<1>6. Shape(r)
    BY <1>2, <1>3, <1>4, Known DEF Shape, InItsPlace, RowOperations, Request
<1>7. Grounds(r)
    BY <1>2, Known DEF Grounds, Request
<1>8. ASSUME NEW x \in Workers \ {w} PROVE Apart(r, requests[x])
    BY <1>1, <1>2, Known DEF Apart, Request, KeyFree
<1>. QED
    BY <1>1, <1>5, <1>6, <1>7, <1>8, GoesOn DEF LockUser

(* A user who was found to play nowhere else is locked, and so stays out  *)
(* of every other ACTIVE tournament until the request ends.               *)
LEMMA UserChecked ==
    ASSUME Inv, NEW w \in Workers, CheckUser(w)
    PROVE  Inv'
<1>. DEFINE q == requests[w]
<1>1. PICK u \in q.users \ q.checked :
        IF PlaysElsewhere(u, q.tournament)
          THEN End(w)
          ELSE Becomes(w, [q EXCEPT !.checked = @ \cup {u},
                   !.pc = IF q.users \subseteq q.checked \cup {u} THEN "saving" ELSE "checkingUsers"])
    BY DEF CheckUser
<1>. DEFINE r == [q EXCEPT !.checked = @ \cup {u},
                    !.pc = IF q.users \subseteq q.checked \cup {u} THEN "saving" ELSE "checkingUsers"]
<1>2. CASE PlaysElsewhere(u, q.tournament)
    BY <1>1, <1>2, Ends DEF CheckUser
<1>3. CASE ~PlaysElsewhere(u, q.tournament)
    <2>1. q.op \in {"join", "start"} /\ q.pc = "checkingUsers" /\ q \in Request
        BY Known DEF CheckUser, At, Shape, InItsPlace, RowOperations, NoRequest
    <2>2. r \in Request
        BY <2>1 DEF Request, Steps
    <2>3. Shape(r)
        BY <2>1, Known DEF Shape, InItsPlace, RowOperations, Request
    <2>4. Grounds(r)
        BY <1>3, <2>1, Known DEF Grounds, Shape, Request
    <2>5. ASSUME NEW x \in Workers \ {w} PROVE Apart(r, requests[x])
        BY <2>1, Known DEF Apart, Request
    <2>. QED
        BY <1>1, <1>3, <2>2, <2>3, <2>4, <2>5, GoesOn DEF CheckUser
<1>. QED
    BY <1>2, <1>3

(* create has seen, under the lock of its user, that they own no other    *)
(* open tournament.                                                       *)
LEMMA OwnedChecked ==
    ASSUME Inv, NEW w \in Workers, CheckOwned(w)
    PROVE  Inv'
<1>. DEFINE q == requests[w]
            r == [q EXCEPT !.pc = "saving"]
<1>1. CASE End(w)
    BY <1>1, Ends DEF CheckOwned
<1>2. CASE OwnsNothingOpen(q.user) /\ Becomes(w, r)
    <2>1. q.op = "create" /\ q.pc = "checkingOwned" /\ q \in Request
        BY Known DEF CheckOwned, At, Shape, InItsPlace, RowOperations, NoRequest
    <2>2. r \in Request
        BY <2>1 DEF Request, Steps
    <2>3. Shape(r)
        BY <2>1, Known DEF Shape, InItsPlace, RowOperations, Request
    <2>4. Grounds(r)
        BY <1>2, <2>1, Known DEF Grounds, Request, Shape, RowOperations
    <2>5. ASSUME NEW x \in Workers \ {w} PROVE Apart(r, requests[x])
        BY <2>1, Known DEF Apart, Request
    <2>. QED
        BY <1>2, <2>2, <2>3, <2>4, <2>5, GoesOn DEF CheckOwned
<1>3. End(w) \/ (OwnsNothingOpen(q.user) /\ Becomes(w, r))
    BY Known DEF CheckOwned, OwnsNothingOpen, Goto, Becomes, Inv, TypeOK
<1>. QED
    BY <1>1, <1>2, <1>3

(* Outside transactions a request holds nothing.                           *)
LEMMA ReadOutside ==
    ASSUME Inv, NEW w \in Workers,
           LeaveRead(w) \/ LeaveFind(w) \/ DetailsRead(w) \/ DetailsParticipants(w) \/ DetailsAnswered(w)
    PROVE  Inv'
<1>. DEFINE q == requests[w]
<1>1. ASSUME NEW r \in Request, Becomes(w, r), UNCHANGED tournamentVars,
             r.op = q.op, r.user = q.user, r.tournament = q.tournament,
             ~r.row, r.locked = {}, Shape(r), Grounds(r)
      PROVE  Inv'
    <2>1. \A x \in Workers \ {w} : Apart(r, requests[x])
        BY <1>1, Known DEF Apart
    <2>. QED
        BY <1>1, <2>1, GoesOn
<1>2. CASE End(w)
    <2>1. UNCHANGED tournamentVars
        BY DEF LeaveRead, LeaveFind, DetailsRead, DetailsParticipants, DetailsAnswered
    <2>. QED
        BY <1>2, <2>1, Ends
<1>3. CASE LeaveRead(w) /\ ~End(w)
    <2>. DEFINE r == [q EXCEPT !.pc = "findingParticipant"]
    <2>1. /\ q \in Request /\ q.pc = "readingTournament" /\ q.op = "leave"
          /\ q.locked = {} /\ q.checked = {} /\ ~q.row /\ q.user \in Users \ {owner[q.tournament]}
        BY <1>3, Known DEF LeaveRead, At, Shape, RowOperations, MayLeave
    <2>2. r \in Request
        BY <2>1 DEF Request, Steps
    <2>3. Shape(r)
        BY <2>1, Known DEF Shape, InItsPlace, RowOperations, Request
    <2>4. Grounds(r)
        BY <2>1, Known DEF Grounds, Request
    <2>5. Becomes(w, r) /\ UNCHANGED tournamentVars
        BY <1>3, Known DEF LeaveRead, Goto, Becomes, Inv, TypeOK
    <2>. QED
        BY <1>1, <2>1, <2>2, <2>3, <2>4, <2>5 DEF Request
<1>4. CASE LeaveFind(w) /\ ~End(w)
    <2>. DEFINE r == [q EXCEPT !.pc = "deleting"]
    <2>1. /\ q \in Request /\ q.pc = "findingParticipant" /\ q.op = "leave"
          /\ q.locked = {} /\ q.checked = {} /\ ~q.row
        BY <1>4, Known DEF LeaveFind, At, Shape, InItsPlace, NoRequest, RowOperations
    <2>2. r \in Request
        BY <2>1 DEF Request, Steps
    <2>3. Shape(r)
        BY <2>1, Known DEF Shape, InItsPlace, RowOperations, Request
    <2>4. Grounds(r)
        BY <2>1, Known DEF Grounds, Request
    <2>5. Becomes(w, r) /\ UNCHANGED tournamentVars
        BY <1>4, Known DEF LeaveFind, Goto, Becomes, Inv, TypeOK
    <2>. QED
        BY <1>1, <2>1, <2>2, <2>3, <2>4, <2>5 DEF Request
<1>5. CASE DetailsRead(w) /\ ~End(w)
    <2>. DEFINE r == [q EXCEPT !.pc = "readingDetails"]
    <2>1. /\ q \in Request /\ q.pc = "readingTournament" /\ q.op = "details"
          /\ q.locked = {} /\ q.checked = {} /\ ~q.row
        BY <1>5, Known DEF DetailsRead, At, Shape, RowOperations
    <2>2. r \in Request
        BY <2>1 DEF Request, Steps
    <2>3. Shape(r)
        BY <2>1, Known DEF Shape, InItsPlace, RowOperations, Request
    <2>4. Grounds(r)
        BY <2>1, Known DEF Grounds, Request
    <2>5. Becomes(w, r) /\ UNCHANGED tournamentVars
        BY <1>5, Known DEF DetailsRead, Goto, Becomes, Inv, TypeOK
    <2>. QED
        BY <1>1, <2>1, <2>2, <2>3, <2>4, <2>5 DEF Request
<1>6. CASE DetailsParticipants(w)
    <2>. DEFINE r == [q EXCEPT !.users = participants[q.tournament], !.pc = "answering"]
    <2>1. /\ q \in Request /\ q.pc = "readingDetails" /\ q.op = "details"
          /\ q.locked = {} /\ q.checked = {} /\ ~q.row
          /\ q.tournament \in Tournaments /\ participants[q.tournament] \subseteq Users
        BY <1>6, Known DEF DetailsParticipants, At, Shape, InItsPlace, NoRequest, RowOperations, Inv, TypeOK
    <2>2. r \in Request
        BY <2>1 DEF Request, Steps
    <2>3. Shape(r)
        BY <2>1, Known DEF Shape, InItsPlace, RowOperations, Request
    <2>4. owner[q.tournament] \in participants[q.tournament] \/ status[q.tournament] = "CANCELLED"
        BY <2>1, Known DEF Grounds, Inv, Rules, Promise!OwnerTakesPart
    <2>5. Grounds(r)
        BY <2>1, <2>4, Known DEF Grounds, Request
    <2>. QED
        BY <1>1, <1>6, <2>1, <2>2, <2>3, <2>5 DEF Request, DetailsParticipants
<1>. QED
    BY <1>2, <1>3, <1>4, <1>5, <1>6 DEF DetailsAnswered

-----------------------------------------------------------------------------
(* The steps that write                                                    *)

(* What has to be shown of a step that writes: the tables keep the rules, *)
(* and every other request its grounds.                                   *)
LEMMA Writes ==
    ASSUME Inv, NEW w \in Workers, End(w),
           status' \in [Tournaments -> Statuses],
           owner' \in [Tournaments -> Users \cup {None}],
           participants' \in [Tournaments -> SUBSET Users],
           \A x \in Workers \ {w} : Grounds(requests[x])',
           Rules'
    PROVE  Inv'
<1>1. /\ requests' \in [Workers -> Request]
      /\ requests'[w] = NoRequest
      /\ \A x \in Workers \ {w} : requests'[x] = requests[x]
    BY NothingHeld DEF Inv, TypeOK, End, Becomes
<1>2. \A x \in Workers : Shape(requests'[x])
    BY <1>1, NothingHeld DEF Inv
<1>3. \A x \in Workers : Grounds(requests[x])'
    <2>1. Grounds(requests[w])'
        BY <1>1 DEF Grounds, NoRequest
    <2>. QED
        BY <2>1
<1>4. ASSUME NEW x \in Workers, NEW y \in Workers, x # y
      PROVE  Apart(requests'[x], requests'[y])
    <2>1. CASE x = w
        BY <1>1, <1>4, <2>1, NothingHeld
    <2>2. CASE y = w
        BY <1>1, <1>4, <2>2, NothingHeld DEF Apart
    <2>3. CASE x # w /\ y # w
        BY <1>1, <1>4, <2>3 DEF Inv
    <2>. QED
        BY <2>1, <2>2, <2>3
<1>5. TypeOK'
    BY <1>1, <1>2 DEF TypeOK, Shape
<1>. QED
    BY <1>2, <1>3, <1>4, <1>5 DEF Inv

(* The new tournament is nobody else's subject, and its owner is locked.   *)
LEMMA CreateSaved ==
    ASSUME Inv, NEW w \in Workers, SaveCreate(w)
    PROVE  Inv' /\ Promise!Create(requests[w].user, requests[w].tournament)
<1>. DEFINE q == requests[w]
            t == q.tournament
<1>1. /\ q.op = "create" /\ q.pc = "saving" /\ q.user \in Users /\ t \in Tournaments
      /\ status[t] = "NONE" /\ OwnsNothingOpen(q.user) /\ q.user \in q.locked
    BY Known DEF SaveCreate, At, Shape, Grounds
<1>2. /\ status' = [status EXCEPT ![t] = "DRAFT"]
      /\ owner' = [owner EXCEPT ![t] = q.user]
      /\ participants' = [participants EXCEPT ![t] = {q.user}]
      /\ End(w)
    BY DEF SaveCreate
<1>3. /\ status \in [Tournaments -> Statuses]
      /\ owner \in [Tournaments -> Users \cup {None}]
      /\ participants \in [Tournaments -> SUBSET Users]
    BY DEF Inv, TypeOK
<1>4. /\ status' \in [Tournaments -> Statuses]
      /\ owner' \in [Tournaments -> Users \cup {None}]
      /\ participants' \in [Tournaments -> SUBSET Users]
    BY <1>1, <1>2, <1>3 DEF Statuses
<1>5. ASSUME NEW x \in Workers \ {w} PROVE Grounds(requests[x])'
    <2>. DEFINE r == requests[x]
    <2>1. requests'[x] = r
        BY <1>2 DEF End, Becomes, Inv, TypeOK
    <2>2. r.op # "none" => r.tournament # t /\ r.tournament \in Tournaments
        BY <1>1, Known DEF Apart, Grounds, Shape
    <2>3. \A u, s : PlaysElsewhere(u, s)' => PlaysElsewhere(u, s)
        BY <1>1, <1>2, <1>3 DEF PlaysElsewhere
    <2>4. r.op = "create" /\ r.pc = "saving" => r.user # q.user
        BY <1>1, Known DEF Apart, Shape
    <2>5. r.op = "create" /\ r.pc = "saving" => OwnsNothingOpen(r.user)'
        BY <1>1, <1>2, <1>3, <2>1, <2>4, Known DEF Grounds, OwnsNothingOpen
    <2>6. r.op # "none" => /\ status'[r.tournament] = status[r.tournament]
                           /\ owner'[r.tournament] = owner[r.tournament]
                           /\ participants'[r.tournament] = participants[r.tournament]
        BY <1>2, <1>3, <2>2
    <2>7. CASE r.op # "none"
        BY <2>1, <2>3, <2>5, <2>6, <2>7, Known DEF Grounds
    <2>8. CASE r.op = "none"
        BY <2>1, <2>8, Known DEF Grounds, Shape, InItsPlace, NoRequest
    <2>. QED
        BY <2>7, <2>8
<1>6. Rules'
    <2>1. Promise!OneActiveTournament'
        BY <1>1, <1>2, <1>3 DEF Inv, Rules, Promise!OneActiveTournament
    <2>2. Promise!OneOpenOwnedTournament'
        BY <1>1, <1>2, <1>3 DEF Inv, Rules, Promise!OneOpenOwnedTournament, OwnsNothingOpen, OpenStatuses
    <2>3. Promise!OwnerTakesPart'
        BY <1>1, <1>2, <1>3 DEF Inv, Rules, Promise!OwnerTakesPart
    <2>. QED
        BY <2>1, <2>2, <2>3 DEF Rules
<1>7. Promise!Create(q.user, t)
    BY <1>1, <1>2 DEF Promise!Create, Promise!OwnsAnOpenOne, OwnsNothingOpen, OpenStatuses
<1>. QED
    BY <1>2, <1>4, <1>5, <1>6, <1>7, Writes

(* In a tournament that is ACTIVE the joining user is locked.              *)
LEMMA JoinSaved ==
    ASSUME Inv, NEW w \in Workers, SaveJoin(w)
    PROVE  Inv' /\ Promise!Join(requests[w].user, requests[w].tournament)
<1>. DEFINE q == requests[w]
            t == q.tournament
<1>1. /\ q.op = "join" /\ q.row /\ q.user \in Users /\ t \in Tournaments
      /\ status[t] \in OpenStatuses
      /\ status[t] # "DRAFT" => q.user \in q.locked /\ ~PlaysElsewhere(q.user, t)
    BY Known DEF SaveJoin, At, Shape, Grounds, RowOperations
<1>2. /\ UNCHANGED <<status, owner>>
      /\ participants' = [participants EXCEPT ![t] = @ \cup {q.user}]
      /\ End(w)
    BY DEF SaveJoin
<1>3. /\ status \in [Tournaments -> Statuses]
      /\ owner \in [Tournaments -> Users \cup {None}]
      /\ participants \in [Tournaments -> SUBSET Users]
    BY DEF Inv, TypeOK
<1>4. participants' \in [Tournaments -> SUBSET Users]
    BY <1>1, <1>2, <1>3
<1>5. ASSUME NEW x \in Workers \ {w} PROVE Grounds(requests[x])'
    <2>. DEFINE r == requests[x]
    <2>1. requests'[x] = r
        BY <1>2 DEF End, Becomes, Inv, TypeOK
    <2>2. r.row => r.tournament # t /\ r.tournament \in Tournaments
        BY <1>1, Known DEF Apart, Shape, RowOperations
    <2>3. \A u \in r.checked : ~PlaysElsewhere(u, r.tournament)'
        <3>. SUFFICES ASSUME NEW u \in r.checked, NEW s \in Tournaments \ {r.tournament},
                             status[s] = "ACTIVE", u \in participants'[s]
                      PROVE  FALSE
            BY <1>2, <2>1 DEF PlaysElsewhere
        <3>1. u \notin participants[s]
            BY Known DEF Grounds, PlaysElsewhere
        <3>2. s = t /\ u = q.user
            BY <1>1, <1>2, <1>3, <3>1
        <3>. QED
            BY <1>1, <3>2, Known DEF Apart, Shape
    <2>4. r.row => participants'[r.tournament] = participants[r.tournament]
        BY <1>2, <1>3, <2>2
    <2>. QED
        BY <1>2, <2>1, <2>3, <2>4, Known DEF Grounds, OwnsNothingOpen
<1>6. Rules'
    <2>1. Promise!OneActiveTournament'
        BY <1>1, <1>2, <1>3 DEF Inv, Rules, Promise!OneActiveTournament, PlaysElsewhere
    <2>2. Promise!OneOpenOwnedTournament'
        BY <1>2 DEF Inv, Rules, Promise!OneOpenOwnedTournament
    <2>3. Promise!OwnerTakesPart'
        BY <1>1, <1>2, <1>3 DEF Inv, Rules, Promise!OwnerTakesPart
    <2>. QED
        BY <2>1, <2>2, <2>3 DEF Rules
<1>7. Promise!Join(q.user, t)
    BY <1>1, <1>2 DEF Promise!Join, Promise!PlaysElsewhere, PlaysElsewhere, OpenStatuses
<1>. QED
    BY <1>2, <1>3, <1>4, <1>5, <1>6, <1>7, Writes

(* Everybody in the tournament is locked, and has been checked.            *)
LEMMA StartSaved ==
    ASSUME Inv, NEW w \in Workers, SaveStart(w)
    PROVE  Inv' /\ Promise!Start(requests[w].tournament)
<1>. DEFINE q == requests[w]
            t == q.tournament
<1>1. /\ q.op = "start" /\ q.row /\ t \in Tournaments /\ status[t] = "DRAFT"
      /\ \A u \in participants[t] : u \in q.locked /\ ~PlaysElsewhere(u, t)
    BY Known DEF SaveStart, At, Shape, Grounds, RowOperations
<1>2. /\ UNCHANGED <<owner, participants>>
      /\ status' = [status EXCEPT ![t] = "ACTIVE"]
      /\ End(w)
    BY DEF SaveStart
<1>3. /\ status \in [Tournaments -> Statuses]
      /\ owner \in [Tournaments -> Users \cup {None}]
      /\ participants \in [Tournaments -> SUBSET Users]
    BY DEF Inv, TypeOK
<1>4. status' \in [Tournaments -> Statuses]
    BY <1>2, <1>3 DEF Statuses
<1>5. ASSUME NEW x \in Workers \ {w} PROVE Grounds(requests[x])'
    <2>. DEFINE r == requests[x]
    <2>1. requests'[x] = r
        BY <1>2 DEF End, Becomes, Inv, TypeOK
    <2>2. r.row => r.tournament # t
        BY <1>1, Known DEF Apart
    <2>3. \A u \in r.checked : ~PlaysElsewhere(u, r.tournament)'
        <3>. SUFFICES ASSUME NEW u \in r.checked, NEW s \in Tournaments \ {r.tournament},
                             status'[s] = "ACTIVE", u \in participants[s]
                      PROVE  FALSE
            BY <1>2, <2>1 DEF PlaysElsewhere
        <3>1. status[s] # "ACTIVE"
            BY Known DEF Grounds, PlaysElsewhere
        <3>2. s = t
            BY <1>2, <1>3, <3>1
        <3>. QED
            BY <1>1, <3>2, Known DEF Apart, Shape
    <2>4. r.op \notin {"none"} => r.tournament \in Tournaments
        BY Known DEF Shape
    <2>5. r.op = "create" /\ r.pc = "saving" => OwnsNothingOpen(r.user)'
        BY <1>1, <1>2, <1>3, <2>1, Known DEF Grounds, OwnsNothingOpen, OpenStatuses
    <2>6. CASE r.op = "none"
        BY <2>1, <2>6, Known DEF Grounds, Shape, InItsPlace, NoRequest
    <2>7. CASE r.op # "none" /\ r.tournament # t
        <3>1. status'[r.tournament] = status[r.tournament]
            BY <1>2, <1>3, <2>4, <2>7
        <3>. QED
            BY <1>2, <2>1, <2>3, <2>5, <3>1, Known DEF Grounds
    <2>8. CASE r.op # "none" /\ r.tournament = t
        <3>1. status'[t] = "ACTIVE" /\ ~r.row /\ r.op # "create"
            BY <1>1, <1>2, <1>3, <2>2, <2>8, Known DEF Grounds
        <3>. QED
            BY <1>1, <1>2, <2>1, <2>3, <2>8, <3>1, Known DEF Grounds
    <2>. QED
        BY <2>6, <2>7, <2>8
<1>6. Rules'
    <2>1. Promise!OneActiveTournament'
        BY <1>1, <1>2, <1>3 DEF Inv, Rules, Promise!OneActiveTournament, PlaysElsewhere
    <2>2. Promise!OneOpenOwnedTournament'
        BY <1>1, <1>2, <1>3 DEF Inv, Rules, Promise!OneOpenOwnedTournament
    <2>3. Promise!OwnerTakesPart'
        BY <1>1, <1>2, <1>3 DEF Inv, Rules, Promise!OwnerTakesPart
    <2>. QED
        BY <2>1, <2>2, <2>3 DEF Rules
<1>7. Promise!Start(t)
    BY <1>1, <1>2 DEF Promise!Start, Promise!PlaysElsewhere, PlaysElsewhere
<1>. QED
    BY <1>2, <1>3, <1>4, <1>5, <1>6, <1>7, Writes

(* cancel writes under the lock of the row, in a tournament still DRAFT.  *)
LEMMA CancelSaved ==
    ASSUME Inv, NEW w \in Workers, SaveCancel(w)
    PROVE  Inv' /\ Promise!Cancel(requests[w].tournament)
<1>. DEFINE q == requests[w]
            t == q.tournament
<1>1. q.op = "cancel" /\ q.row /\ t \in Tournaments /\ status[t] = "DRAFT"
    BY Known DEF SaveCancel, At, Shape, Grounds, RowOperations
<1>2. /\ UNCHANGED owner
      /\ status' = [status EXCEPT ![t] = "CANCELLED"]
      /\ participants' = [participants EXCEPT ![t] = {}]
      /\ End(w)
    BY DEF SaveCancel
<1>3. /\ status \in [Tournaments -> Statuses]
      /\ owner \in [Tournaments -> Users \cup {None}]
      /\ participants \in [Tournaments -> SUBSET Users]
    BY DEF Inv, TypeOK
<1>4. status' \in [Tournaments -> Statuses] /\ participants' \in [Tournaments -> SUBSET Users]
    BY <1>2, <1>3 DEF Statuses
<1>5. ASSUME NEW x \in Workers \ {w} PROVE Grounds(requests[x])'
    <2>. DEFINE r == requests[x]
    <2>1. requests'[x] = r
        BY <1>2 DEF End, Becomes, Inv, TypeOK
    <2>2. r.row => r.tournament # t
        BY <1>1, Known DEF Apart
    <2>3. \A u \in r.checked : ~PlaysElsewhere(u, r.tournament)'
        BY <1>1, <1>2, <1>3, <2>1, Known DEF Grounds, PlaysElsewhere
    <2>4. r.op = "create" /\ r.pc = "saving" => OwnsNothingOpen(r.user)'
        BY <1>1, <1>2, <1>3, <2>1, Known DEF Grounds, OwnsNothingOpen, OpenStatuses
    <2>5. r.op # "none" => r.tournament \in Tournaments
        BY Known DEF Shape
    <2>6. CASE r.op = "none"
        BY <2>1, <2>6, Known DEF Grounds, Shape, InItsPlace, NoRequest
    <2>7. CASE r.op # "none" /\ r.tournament # t
        <3>1. /\ status'[r.tournament] = status[r.tournament]
              /\ participants'[r.tournament] = participants[r.tournament]
            BY <1>2, <1>3, <2>5, <2>7
        <3>. QED
            BY <1>2, <2>1, <2>3, <2>4, <3>1, Known DEF Grounds
    <2>8. CASE r.op # "none" /\ r.tournament = t
        <3>1. status'[t] = "CANCELLED" /\ ~r.row /\ r.op # "create"
            BY <1>1, <1>2, <1>3, <2>2, <2>8, Known DEF Grounds
        <3>. QED
            BY <1>2, <2>1, <2>3, <2>8, <3>1, Known DEF Grounds
    <2>. QED
        BY <2>6, <2>7, <2>8
<1>6. Rules'
    <2>1. Promise!OneActiveTournament'
        BY <1>1, <1>2, <1>3 DEF Inv, Rules, Promise!OneActiveTournament
    <2>2. Promise!OneOpenOwnedTournament'
        BY <1>1, <1>2, <1>3 DEF Inv, Rules, Promise!OneOpenOwnedTournament
    <2>3. Promise!OwnerTakesPart'
        BY <1>1, <1>2, <1>3 DEF Inv, Rules, Promise!OwnerTakesPart
    <2>. QED
        BY <2>1, <2>2, <2>3 DEF Rules
<1>7. Promise!Cancel(t)
    BY <1>1, <1>2 DEF Promise!Cancel
<1>. QED
    BY <1>2, <1>3, <1>4, <1>5, <1>6, <1>7, Writes

(* However late it comes, a leave only takes participants away.            *)
LEMMA LeaveSaved ==
    ASSUME Inv, NEW w \in Workers, LeaveDelete(w)
    PROVE  Inv' /\ Promise!Leave(requests[w].user, requests[w].tournament)
<1>. DEFINE q == requests[w]
            t == q.tournament
<1>1. q.user \in Users /\ q.user # owner[t] /\ t \in Tournaments
    BY Known DEF LeaveDelete, At, Shape, InItsPlace, NoRequest, Grounds
<1>2. /\ UNCHANGED <<status, owner>>
      /\ participants' = [participants EXCEPT ![t] = @ \ {q.user}]
      /\ End(w)
    BY DEF LeaveDelete
<1>3. /\ status \in [Tournaments -> Statuses]
      /\ owner \in [Tournaments -> Users \cup {None}]
      /\ participants \in [Tournaments -> SUBSET Users]
    BY DEF Inv, TypeOK
<1>4. /\ participants' \in [Tournaments -> SUBSET Users]
      /\ \A s \in Tournaments : participants'[s] \subseteq participants[s]
    BY <1>1, <1>2, <1>3
<1>5. ASSUME NEW x \in Workers \ {w} PROVE Grounds(requests[x])'
    <2>1. requests'[x] = requests[x]
        BY <1>2 DEF End, Becomes, Inv, TypeOK
    <2>2. \A u \in requests[x].checked : ~PlaysElsewhere(u, requests[x].tournament)'
        BY <1>2, <1>4, <2>1, Known DEF Grounds, PlaysElsewhere
    <2>3. requests[x].row => participants'[requests[x].tournament] \subseteq participants[requests[x].tournament]
        BY <1>4, Known DEF Shape, RowOperations
    <2>. QED
        BY <1>2, <2>1, <2>2, <2>3, Known DEF Grounds, OwnsNothingOpen
<1>6. Rules'
    <2>1. Promise!OneActiveTournament'
        BY <1>2, <1>4 DEF Inv, Rules, Promise!OneActiveTournament
    <2>2. Promise!OneOpenOwnedTournament'
        BY <1>2 DEF Inv, Rules, Promise!OneOpenOwnedTournament
    <2>3. Promise!OwnerTakesPart'
        BY <1>1, <1>2, <1>3 DEF Inv, Rules, Promise!OwnerTakesPart
    <2>. QED
        BY <2>1, <2>2, <2>3 DEF Rules
<1>7. Promise!Leave(q.user, t)
    BY <1>1, <1>2 DEF Promise!Leave
<1>. QED
    BY <1>2, <1>3, <1>4, <1>5, <1>6, <1>7, Writes

(* The end of a tournament takes nothing from a request: none holds its    *)
(* row, and what the others rely on is that a tournament is not open.      *)
LEMMA Completed ==
    ASSUME Inv, NEW t \in Tournaments, TournamentCompletes(t)
    PROVE  Inv' /\ Promise!Complete(t)
<1>1. /\ status[t] = "ACTIVE" /\ RowFree(t)
      /\ status' = [status EXCEPT ![t] = "COMPLETED"]
      /\ UNCHANGED <<owner, participants, requests>>
    BY DEF TournamentCompletes
<1>2. status \in [Tournaments -> Statuses]
    BY DEF Inv, TypeOK
<1>3. TypeOK'
    BY <1>1, <1>2 DEF Inv, TypeOK, Statuses
<1>4. ASSUME NEW x \in Workers PROVE Grounds(requests[x])'
    <2>. DEFINE r == requests[x]
    <2>1. \A u \in r.checked : ~PlaysElsewhere(u, r.tournament)'
        BY <1>1, <1>2, Known DEF Grounds, PlaysElsewhere
    <2>2. r.op = "create" /\ r.pc = "saving" => OwnsNothingOpen(r.user)'
        BY <1>1, <1>2, Known DEF Grounds, OwnsNothingOpen, OpenStatuses
    <2>3. r.op # "none" => r.tournament \in Tournaments
        BY Known DEF Shape
    <2>4. CASE r.op = "none"
        BY <1>1, <2>4, Known DEF Grounds, Shape, InItsPlace, NoRequest
    <2>5. CASE r.op # "none" /\ r.tournament # t
        <3>1. status'[r.tournament] = status[r.tournament]
            BY <1>1, <1>2, <2>3, <2>5
        <3>. QED
            BY <1>1, <2>1, <2>2, <3>1, Known DEF Grounds
    <2>6. CASE r.op # "none" /\ r.tournament = t
        <3>1. status'[t] = "COMPLETED" /\ ~r.row /\ r.op # "create"
            BY <1>1, <1>2, <2>6, Known DEF Grounds, RowFree
        <3>. QED
            BY <1>1, <2>1, <2>6, <3>1, Known DEF Grounds
    <2>. QED
        BY <2>4, <2>5, <2>6
<1>5. Rules'
    <2>1. Promise!OneActiveTournament'
        BY <1>1, <1>2 DEF Inv, Rules, Promise!OneActiveTournament
    <2>2. Promise!OneOpenOwnedTournament'
        BY <1>1, <1>2 DEF Inv, Rules, Promise!OneOpenOwnedTournament
    <2>3. Promise!OwnerTakesPart'
        BY <1>1, <1>2 DEF Inv, Rules, Promise!OwnerTakesPart
    <2>. QED
        BY <2>1, <2>2, <2>3 DEF Rules
<1>6. (\A w \in Workers : Shape(requests[w]))' /\ (\A w, x \in Workers : w # x => Apart(requests[w], requests[x]))'
    BY <1>1 DEF Inv
<1>. QED
    BY <1>1, <1>3, <1>4, <1>5, <1>6 DEF Inv, Promise!Complete

-----------------------------------------------------------------------------
(* Every step                                                              *)

(* No request is in flight at first, and no tournament is ACTIVE.         *)
LEMMA InitInv == Init => Inv
<1>. SUFFICES ASSUME Init PROVE Inv
    OBVIOUS
<1>1. NoRequest \in Request /\ Shape(NoRequest) /\ Grounds(NoRequest)
    BY DEF NoRequest, Request, Steps, Operations, Shape, InItsPlace, RowOperations, Grounds
<1>2. TypeOK
    BY <1>1 DEF Init, TypeOK, Statuses, NoRequest
<1>3. \A w, x \in Workers : Apart(requests[w], requests[x])
    BY DEF Init, NoRequest, Apart
<1>4. Rules
    BY DEF Init, Rules, Promise!OneActiveTournament, Promise!OneOpenOwnedTournament, Promise!OwnerTakesPart
<1>. QED
    BY <1>1, <1>2, <1>3, <1>4 DEF Init, Inv

(* A step keeps the invariant, and is one of Membership's or changes none  *)
(* of its variables.                                                       *)
LEMMA EveryStep == Inv /\ [Next]_vars => Inv' /\ [Promise!Next]_(Promise!vars)
<1>. SUFFICES ASSUME Inv, [Next]_vars PROVE Inv' /\ [Promise!Next]_(Promise!vars)
    OBVIOUS
<1>1. CASE UNCHANGED vars
    BY <1>1 DEF vars, tournamentVars, Promise!vars, Inv, TypeOK, Shape, InItsPlace, Grounds,
        PlaysElsewhere, OwnsNothingOpen, Apart, Rules, Promise!OneActiveTournament,
        Promise!OneOpenOwnedTournament, Promise!OwnerTakesPart
<1>2. ASSUME NEW w \in Workers, NEW t \in Tournaments,
             \/ \E u \in Creators : AskToCreate(w, u, t)
             \/ \E u \in Users, op \in Operations \ {"none", "create"} : Ask(w, op, u, t)
      PROVE  Inv' /\ UNCHANGED Promise!vars
    BY <1>2, Asked, ParticipationAssumption DEF AskToCreate, Ask, tournamentVars, Promise!vars
<1>3. ASSUME NEW w \in Workers,
             \/ LockRow(w) \/ LockUser(w) \/ RequestFails(w) \/ CheckMember(w)
             \/ CountParticipants(w) \/ ReadParticipants(w) \/ CheckUser(w) \/ CheckOwned(w)
             \/ LeaveRead(w) \/ LeaveFind(w)
             \/ DetailsRead(w) \/ DetailsParticipants(w) \/ DetailsAnswered(w)
      PROVE  Inv' /\ UNCHANGED Promise!vars
    <2>1. UNCHANGED tournamentVars
        BY <1>3 DEF LockRow, LockUser, RequestFails, CheckMember, CountParticipants,
            ReadParticipants, CheckUser, CheckOwned, LeaveRead, LeaveFind, DetailsRead,
            DetailsParticipants, DetailsAnswered
    <2>2. Inv'
        BY <1>3, RowLocked, UserLocked, Ends, MemberChecked, ParticipantsCounted,
            ParticipantsRead, UserChecked, OwnedChecked, ReadOutside DEF RequestFails
    <2>. QED
        BY <2>1, <2>2 DEF tournamentVars, Promise!vars
<1>4. ASSUME NEW w \in Workers,
             SaveJoin(w) \/ SaveStart(w) \/ SaveCancel(w) \/ SaveCreate(w) \/ LeaveDelete(w)
      PROVE  Inv' /\ Promise!Next
    <2>1. requests[w].user \in Users /\ requests[w].tournament \in Tournaments
        BY <1>4, Known DEF SaveJoin, SaveStart, SaveCancel, SaveCreate, LeaveDelete, At, Shape,
            InItsPlace, NoRequest
    <2>. QED
        BY <1>4, <2>1, JoinSaved, StartSaved, CancelSaved, CreateSaved, LeaveSaved DEF Promise!Next
<1>5. ASSUME NEW t \in Tournaments, TournamentCompletes(t)
      PROVE  Inv' /\ Promise!Next
    BY <1>5, Completed DEF Promise!Next
<1>. QED
    BY <1>1, <1>2, <1>3, <1>4, <1>5 DEF Next, Advance

(* The invariant of Participation, from which its theorems follow.        *)
LEMMA Invariance == Spec => []Inv
<1>. QED
    BY InitInv, EveryStep, PTL DEF Spec

-----------------------------------------------------------------------------
(* Theorems                                                                *)

(* Types, and nobody is checked without being locked.                      *)
THEOREM TypeCorrect == Spec => []TypeOK
<1>1. Inv => TypeOK
    BY DEF Inv
<1>. QED
    BY <1>1, Invariance, PTL

(* Nobody is ever in two ACTIVE tournaments, however joins and starts      *)
(* interleave: each checks those it locks, and the locks last until the    *)
(* commit.                                                                 *)
THEOREM OneActive == Spec => []OneActiveTournament
<1>1. Inv => OneActiveTournament
    BY DEF Inv, Rules, OneActiveTournament
<1>. QED
    BY <1>1, Invariance, PTL

(* Nobody ever owns two open tournaments: create locks the owner, whom     *)
(* nothing in the schema keeps from owning two.                            *)
THEOREM OneOpenOwned == Spec => []OneOpenOwnedTournament
<1>1. Inv => OneOpenOwnedTournament
    BY DEF Inv, Rules, OneOpenOwnedTournament
<1>. QED
    BY <1>1, Invariance, PTL

(* The two queries of the draft details do not contradict each other but   *)
(* in a tournament that was cancelled between them.                        *)
THEOREM DetailsCorrect == Spec => []DraftDetailsShowOwner
<1>1. Inv => DraftDetailsShowOwner
    BY DEF Inv, Grounds, DraftDetailsShowOwner, At
<1>. QED
    BY <1>1, Invariance, PTL

(* create, join, start, leave and cancel are atomic to whoever looks at    *)
(* the tables, although they read, check and write in steps.               *)
THEOREM Atomic == Spec => MembershipSpec
<1>1. Init => Promise!Init
    BY DEF Init, Promise!Init
<1>. QED
    BY <1>1, EveryStep, Invariance, PTL DEF Spec, MembershipSpec, Promise!Spec

-----------------------------------------------------------------------------
(* Deadlock                                                                *)

(* Among finitely many users one comes last.  (Otherwise the sets of those *)
(* who come after another would have no smallest one.)                     *)
LEMMA SomeUserIsLast ==
    ASSUME NEW S \in SUBSET Users, S # {}
    PROVE  \E m \in S : \A u \in S : u <= m
<1>. SUFFICES ASSUME \A m \in S : \E u \in S : ~(u <= m) PROVE FALSE
    OBVIOUS
<1>. DEFINE After(m) == {u \in S : u > m}
            R == StrictSubsetOrdering(S)
            T == {After(m) : m \in S}
<1>1. S \subseteq Int /\ IsFiniteSet(S)
    BY ParticipationAssumption, FS_Subset
<1>2. IsWellFoundedOn(R, SUBSET S)
    BY <1>1, FS_StrictSubsetOrderingWellFounded, FS_FiniteSubsetsOfFinite
<1>3. T \subseteq SUBSET S /\ T # {}
    OBVIOUS
<1>. HIDE DEF T, R
<1>4. PICK X \in T : \A Y \in T : ~(<<Y, X>> \in R)
    BY <1>2, <1>3, WFMin
<1>5. PICK m \in S : X = After(m)
    BY <1>4 DEF T
<1>6. PICK u \in S : u > m
    BY <1>1
<1>7. After(u) \in T /\ After(u) \subseteq X /\ u \in X /\ u \notin After(u)
    <2>1. After(u) \in T
        BY DEF T
    <2>2. After(u) \subseteq After(m) /\ u \in After(m) /\ u \notin After(u)
        <3>1. m \in Int /\ u \in Int
            BY <1>1
        <3>2. ASSUME NEW v \in After(u) PROVE v \in S /\ v > m
            <4>1. v \in S /\ v \in Int /\ v > u
                BY <1>1
            <4>. QED
                BY <1>6, <3>1, <4>1
        <3>3. ~(u > u)
            BY <3>1
        <3>. QED
            BY <1>6, <3>2, <3>3
    <2>. HIDE DEF After
    <2>. QED
        BY <1>5, <2>1, <2>2
<1>8. <<After(u), X>> \in R
    BY <1>3, <1>4, <1>7 DEF R, StrictSubsetOrdering
<1>. QED
    BY <1>4, <1>7, <1>8

(* A request that waits for a user's lock waits, unless the keys of two    *)
(* users collide, for one that waits for a user who sorts after this one;  *)
(* and one that waits for a row holds nothing that others wait for.  So    *)
(* the user who sorts last among those waited for is free.                 *)
LEMMA NoCircle == Inv => DeadlockNeedsCollision
<1>. SUFFICES ASSUME Inv, NEW group \in SUBSET Workers, Deadlocked(group),
                     \A u, v \in UNION {requests[w].users : w \in group} :
                         u # v => KeyOf[u] # KeyOf[v]
              PROVE  FALSE
    BY DEF DeadlockNeedsCollision
<1>. DEFINE Waited(w) == NextToLock(requests[w].users \ requests[w].locked)
            waiting == {w \in group : At(w, "lockingUsers")}
            S == {u \in Users : \E w \in waiting : u \in Waited(w)}
<1>1. ASSUME NEW w \in group
      PROVE  \E x \in group :
               /\ x # w
               /\ \/ At(w, "lockingRow") /\ requests[x].row
                  \/ At(w, "lockingUsers") /\ \E u \in Waited(w) :
                        \E v \in requests[x].locked : KeyOf[v] = KeyOf[u]
    BY DEF Deadlocked, Blockers
<1>2. ASSUME NEW x \in group, requests[x].row \/ requests[x].locked # {}
      PROVE  x \in waiting
    BY <1>1, <1>2, Known DEF At, Shape
<1>3. waiting # {}
    BY <1>1, <1>2 DEF Deadlocked, At
<1>4. ASSUME NEW w \in waiting
      PROVE  \E x \in waiting, u \in Waited(w) : u \in requests[x].locked
    <2>1. PICK x \in group, u \in Waited(w) : \E v \in requests[x].locked : KeyOf[v] = KeyOf[u]
        BY <1>1, <1>4 DEF At
    <2>2. PICK v \in requests[x].locked : KeyOf[v] = KeyOf[u]
        BY <2>1
    <2>3. x \in waiting
        BY <1>2, <2>2
    <2>4. u \in requests[w].users /\ v \in requests[x].users
        BY <2>2, Known DEF NextToLock, Shape
    <2>5. u = v
        BY <2>2, <2>4
    <2>. QED
        BY <2>2, <2>3, <2>5
<1>5. \A w \in waiting : Waited(w) \subseteq Users
    BY Known DEF NextToLock, Request
<1>6. S # {}
    <2>1. PICK w \in waiting : TRUE
        BY <1>3
    <2>. QED
        BY <1>4, <1>5, <2>1
<1>7. PICK m \in S : \A u \in S : u <= m
    BY <1>6, SomeUserIsLast
<1>8. PICK w \in waiting : m \in Waited(w)
    OBVIOUS
<1>9. PICK x \in waiting : m \in requests[x].locked
    <2>1. \A u \in Waited(w) : u = m
        <3>. SUFFICES ASSUME NEW u \in Waited(w) PROVE u = m
            OBVIOUS
        <3>1. u <= m /\ m <= u
            BY <1>8 DEF NextToLock
        <3>2. u \in Int /\ m \in Int
            BY <1>5, <1>8, ParticipationAssumption
        <3>. QED
            BY <3>1, <3>2
    <2>. QED
        BY <1>4, <2>1
<1>10. PICK y \in waiting, u \in Waited(x) : u \in requests[y].locked
    BY <1>4
<1>11. m < u
    BY <1>9, <1>10, Known DEF Shape, NextToLock
<1>12. u \in S /\ m \in Int /\ u \in Int
    BY <1>5, <1>10, ParticipationAssumption
<1>. QED
    BY <1>7, <1>11, <1>12

(* The sort of acquireActiveParticipationLocks suffices, with row locks    *)
(* taken before: requests deadlock only over users whose keys collide.     *)
THEOREM NoDeadlock == Spec => []DeadlockNeedsCollision
<1>. QED
    BY NoCircle, Invariance, PTL

=============================================================================
