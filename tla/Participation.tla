--------------------------- MODULE Participation ---------------------------
(***************************************************************************)
(* Who takes part in which tournament: create, join, start, leave and      *)
(* cancel (tournament.service) of several tournaments by requests that run *)
(* concurrently, with the row lock of a tournament, the per-user advisory  *)
(* locks and the active-participation policy; and the draft details query. *)
(*                                                                         *)
(* A step of a request is one SQL statement with the checks that follow    *)
(* it, under READ COMMITTED: it sees what others have committed.  What a   *)
(* transaction writes it writes last, and commits in the same step.  Locks *)
(* are fields of the request that holds them, so they end with it, whether *)
(* it commits, fails, or its process dies.                                 *)
(***************************************************************************)
EXTENDS Integers, FiniteSets

CONSTANTS
    Users,                      \* numbered in the order their ids sort in
    Tournaments,                \* the ids that create may draw
    Private,                    \* those created with visibility PRIVATE
    KeyOf,                      \* hashtext of a user id; not injective
    MinimumParticipantsToStart, \* 4 in the code, smaller in small instances
    Workers,                    \* bound: requests in flight at the same time
    Creators,                   \* bound: the users who ever ask to create
    None

ASSUME ParticipationAssumption ==
    /\ Users \subseteq Int
    /\ None \notin Users \cup Tournaments
    /\ Private \subseteq Tournaments /\ Creators \subseteq Users
    /\ IsFiniteSet(Users) /\ DOMAIN KeyOf = Users
    /\ MinimumParticipantsToStart \in Nat

VARIABLES
    status,       \* tournaments.status, NONE while there is no such row
    owner,        \* tournaments.owner_id
    participants, \* user ids of the tournament_participants rows
    requests      \* the request each worker is executing

tournamentVars == <<status, owner, participants>>
vars == <<tournamentVars, requests>>

Statuses == {"NONE", "DRAFT", "ACTIVE", "COMPLETED", "CANCELLED"}

Operations == {"none", "create", "join", "start", "cancel", "leave", "details"}

Steps == {"idle", "lockingRow", "checkingMember", "countingParticipants",
          "readingParticipants", "lockingUsers", "checkingUsers", "checkingOwned",
          "saving", "readingTournament", "findingParticipant", "deleting",
          "readingDetails", "answering"}

(* row: it holds the row lock of its tournament; users: the user ids it    *)
(* works through, of which it holds the keys of locked and has found       *)
(* checked in no other ACTIVE tournament.                                  *)
Request == [pc : Steps, op : Operations, user : Users \cup {None},
            tournament : Tournaments \cup {None}, row : BOOLEAN,
            users : SUBSET Users, locked : SUBSET Users, checked : SUBSET Users]

NoRequest == [pc |-> "idle", op |-> "none", user |-> None, tournament |-> None,
              row |-> FALSE, users |-> {}, locked |-> {}, checked |-> {}]

Init ==
    /\ status = [t \in Tournaments |-> "NONE"]
    /\ owner = [t \in Tournaments |-> None]
    /\ participants = [t \in Tournaments |-> {}]
    /\ requests = [w \in Workers |-> NoRequest]

At(w, pc) == requests[w].pc = pc
Becomes(w, request) == requests' = [requests EXCEPT ![w] = request]
Goto(w, pc) == requests' = [requests EXCEPT ![w].pc = pc]
End(w) == Becomes(w, NoRequest)

-----------------------------------------------------------------------------
(* Locks                                                                   *)

RowFree(t) == \A w \in Workers : requests[w].row => requests[w].tournament # t

(* A key may be locked again by the transaction that holds it.             *)
KeyFree(w, u) == \A x \in Workers \ {w} :
    \A v \in requests[x].locked : KeyOf[v] # KeyOf[u]

AnyOf(users) == users \* variant: the ids are not sorted

(* acquireActiveParticipationLocks sorts the ids and locks them in turn.   *)
NextToLock(users) == {u \in users : \A v \in users : u <= v}

Blockers(w) ==
    LET r == requests[w]
    IN  {x \in Workers \ {w} :
            \/ At(w, "lockingRow") /\ requests[x].row /\ requests[x].tournament = r.tournament
            \/ At(w, "lockingUsers") /\ \E u \in NextToLock(r.users \ r.locked) :
                   \E v \in requests[x].locked : KeyOf[v] = KeyOf[u]}

Deadlocked(group) ==
    group # {} /\ \A w \in group : Blockers(w) \cap group # {}

-----------------------------------------------------------------------------
(* Requests arrive                                                         *)

CreateUnlocked == "checkingOwned" \* variant: create takes no advisory lock

AfterCreateAsked == "lockingUsers"

AskToCreate(w, u, t) ==
    /\ At(w, "idle")
    /\ status[t] = "NONE" /\ \A x \in Workers : requests[x].tournament # t
    /\ Becomes(w, [NoRequest EXCEPT !.pc = AfterCreateAsked, !.op = "create",
                                    !.user = u, !.tournament = t, !.users = {u}])
    /\ UNCHANGED tournamentVars

FirstStep(op) == IF op \in {"leave", "details"} THEN "readingTournament" ELSE "lockingRow"

Ask(w, op, u, t) ==
    /\ At(w, "idle")
    /\ status[t] # "NONE"
    /\ Becomes(w, [NoRequest EXCEPT !.pc = FirstStep(op), !.op = op,
                                    !.user = u, !.tournament = t])
    /\ UNCHANGED tournamentVars

-----------------------------------------------------------------------------
(* Transactions on an existing tournament: join, start and cancel          *)

(* What the code checks of the row it has just locked.                     *)
Admitted(op, u, t) ==
    CASE op = "join"   -> status[t] \notin {"COMPLETED", "CANCELLED"}
      [] op = "start"  -> owner[t] = u /\ status[t] = "DRAFT"
      [] op = "cancel" -> owner[t] = u /\ status[t] = "DRAFT"

AfterRowLocked(op) ==
    CASE op = "join"   -> "checkingMember"
      [] op = "start"  -> "countingParticipants"
      [] op = "cancel" -> "readingParticipants"

LockRow(w) ==
    LET r == requests[w] IN
    /\ At(w, "lockingRow")
    /\ RowFree(r.tournament)
    /\ IF Admitted(r.op, r.user, r.tournament)
         THEN Becomes(w, [r EXCEPT !.row = TRUE, !.pc = AfterRowLocked(r.op)])
         ELSE End(w)
    /\ UNCHANGED tournamentVars

JoinUnchecked(t) == "saving" \* variant: joining ACTIVE is like joining DRAFT

JoinUnlocked(t) == \* variant: the user is checked but not locked
    IF status[t] = "ACTIVE" THEN "checkingUsers" ELSE "saving"

AfterMemberCheck(t) == IF status[t] = "ACTIVE" THEN "lockingUsers" ELSE "saving"

(* invited: the request carries the invite token of the tournament.        *)
CheckMember(w) ==
    LET r == requests[w]
        t == r.tournament
    IN
    /\ At(w, "checkingMember")
    /\ \E invited \in BOOLEAN :
         IF r.user \notin participants[t] /\ (t \in Private => invited)
           THEN Becomes(w, [r EXCEPT !.users = {r.user}, !.pc = AfterMemberCheck(t)])
           ELSE End(w)
    /\ UNCHANGED tournamentVars

CountParticipants(w) ==
    /\ At(w, "countingParticipants")
    /\ IF Cardinality(participants[requests[w].tournament]) < MinimumParticipantsToStart
         THEN End(w)
         ELSE Goto(w, "readingParticipants")
    /\ UNCHANGED tournamentVars

(* cancel reads them to eject them, start to lock and check them.          *)
ReadParticipants(w) ==
    LET r == requests[w] IN
    /\ At(w, "readingParticipants")
    /\ Becomes(w, [r EXCEPT !.users = participants[r.tournament],
                            !.pc = IF r.op = "start" THEN "lockingUsers" ELSE "saving"])
    /\ UNCHANGED tournamentVars

LockUser(w) ==
    LET r == requests[w] IN
    /\ At(w, "lockingUsers")
    /\ \E u \in NextToLock(r.users \ r.locked) :
         /\ KeyFree(w, u)
         /\ Becomes(w, [r EXCEPT !.locked = @ \cup {u},
                !.pc = IF r.users \subseteq r.locked \cup {u}
                         THEN IF r.op = "create" THEN "checkingOwned" ELSE "checkingUsers"
                         ELSE "lockingUsers"])
    /\ UNCHANGED tournamentVars

(* findActiveTournamentParticipationByUserId                               *)
PlaysElsewhere(u, t) == \E s \in Tournaments \ {t} : status[s] = "ACTIVE" /\ u \in participants[s]

(* In the order of the query result, which is any.                         *)
CheckUser(w) ==
    LET r == requests[w] IN
    /\ At(w, "checkingUsers")
    /\ \E u \in r.users \ r.checked :
         IF PlaysElsewhere(u, r.tournament)
           THEN End(w)
           ELSE Becomes(w, [r EXCEPT !.checked = @ \cup {u},
                    !.pc = IF r.users \subseteq r.checked \cup {u} THEN "saving" ELSE "checkingUsers"])
    /\ UNCHANGED tournamentVars

SaveJoin(w) ==
    LET r == requests[w] IN
    /\ At(w, "saving") /\ r.op = "join"
    /\ participants' = [participants EXCEPT ![r.tournament] = @ \cup {r.user}]
    /\ End(w)
    /\ UNCHANGED <<status, owner>>

SaveStart(w) ==
    LET r == requests[w] IN
    /\ At(w, "saving") /\ r.op = "start"
    /\ status' = [status EXCEPT ![r.tournament] = "ACTIVE"]
    /\ End(w)
    /\ UNCHANGED <<owner, participants>>

SaveCancel(w) ==
    LET r == requests[w] IN
    /\ At(w, "saving") /\ r.op = "cancel"
    /\ status' = [status EXCEPT ![r.tournament] = "CANCELLED"]
    /\ participants' = [participants EXCEPT ![r.tournament] = {}]
    /\ End(w)
    /\ UNCHANGED owner

-----------------------------------------------------------------------------
(* Creating                                                                *)

OpenStatuses == {"DRAFT", "ACTIVE"}

CheckOwned(w) ==
    /\ At(w, "checkingOwned")
    /\ IF \E t \in Tournaments : owner[t] = requests[w].user /\ status[t] \in OpenStatuses
         THEN End(w)
         ELSE Goto(w, "saving")
    /\ UNCHANGED tournamentVars

SaveCreate(w) ==
    LET r == requests[w] IN
    /\ At(w, "saving") /\ r.op = "create"
    /\ status' = [status EXCEPT ![r.tournament] = "DRAFT"]
    /\ owner' = [owner EXCEPT ![r.tournament] = r.user]
    /\ participants' = [participants EXCEPT ![r.tournament] = {r.user}]
    /\ End(w)

-----------------------------------------------------------------------------
(* Outside transactions: leave, and the details of a draft                 *)

AnyMember(t) == Users \* variant: the owner may leave too

MayLeave(t) == Users \ {owner[t]}

LeaveRead(w) ==
    LET r == requests[w] IN
    /\ At(w, "readingTournament") /\ r.op = "leave"
    /\ IF r.user \in MayLeave(r.tournament) /\ status[r.tournament] = "DRAFT"
         THEN Goto(w, "findingParticipant")
         ELSE End(w)
    /\ UNCHANGED tournamentVars

LeaveFind(w) ==
    LET r == requests[w] IN
    /\ At(w, "findingParticipant")
    /\ IF r.user \in participants[r.tournament] THEN Goto(w, "deleting") ELSE End(w)
    /\ UNCHANGED tournamentVars

LeaveDelete(w) ==
    LET r == requests[w] IN
    /\ At(w, "deleting")
    /\ participants' = [participants EXCEPT ![r.tournament] = @ \ {r.user}]
    /\ End(w)
    /\ UNCHANGED <<status, owner>>

DetailsRead(w) ==
    LET r == requests[w] IN
    /\ At(w, "readingTournament") /\ r.op = "details"
    /\ IF status[r.tournament] = "DRAFT" THEN Goto(w, "readingDetails") ELSE End(w)
    /\ UNCHANGED tournamentVars

DetailsParticipants(w) ==
    LET r == requests[w] IN
    /\ At(w, "readingDetails")
    /\ Becomes(w, [r EXCEPT !.users = participants[r.tournament], !.pc = "answering"])
    /\ UNCHANGED tournamentVars

DetailsAnswered(w) == At(w, "answering") /\ End(w) /\ UNCHANGED tournamentVars

-----------------------------------------------------------------------------
(* The rest of the system                                                  *)

(* The follow-up of the last round: RoundLifecycle has it in detail.       *)
TournamentCompletes(t) ==
    /\ status[t] = "ACTIVE" /\ RowFree(t)
    /\ status' = [status EXCEPT ![t] = "COMPLETED"]
    /\ UNCHANGED <<owner, participants, requests>>

(* A query fails, PostgreSQL aborts the transaction to end a deadlock, a   *)
(* connection is lost or the process dies: rolled back.                    *)
RequestFails(w) == ~At(w, "idle") /\ End(w) /\ UNCHANGED tournamentVars

Advance(w) ==
    \/ CheckMember(w) \/ CountParticipants(w) \/ ReadParticipants(w) \/ CheckUser(w)
    \/ SaveJoin(w) \/ SaveStart(w) \/ SaveCancel(w) \/ CheckOwned(w) \/ SaveCreate(w)
    \/ LeaveRead(w) \/ LeaveFind(w) \/ LeaveDelete(w)
    \/ DetailsRead(w) \/ DetailsParticipants(w) \/ DetailsAnswered(w)

Next ==
    \/ \E w \in Workers :
         \/ \E t \in Tournaments :
              \/ \E u \in Creators : AskToCreate(w, u, t)
              \/ \E u \in Users, op \in Operations \ {"none", "create"} : Ask(w, op, u, t)
         \/ LockRow(w) \/ LockUser(w) \/ Advance(w) \/ RequestFails(w)
    \/ \E t \in Tournaments : TournamentCompletes(t)

Spec == Init /\ [][Next]_vars

-----------------------------------------------------------------------------
(* Properties                                                              *)

(* Types; and whoever is checked for another tournament is locked first.   *)
TypeOK ==
    /\ status \in [Tournaments -> Statuses]
    /\ owner \in [Tournaments -> Users \cup {None}]
    /\ participants \in [Tournaments -> SUBSET Users]
    /\ requests \in [Workers -> Request]
    /\ \A w \in Workers : requests[w].checked \subseteq requests[w].locked

(* However requests interleave, the stored state only changes as if each   *)
(* took effect at once; see Membership.                                    *)
Promise == INSTANCE Membership
MembershipSpec == Promise!Spec

(* Two tournaments that are both ACTIVE have no participant in common.     *)
OneActiveTournament == Promise!OneActiveTournament

(* findOpenOwnedTournamentByOwnerId: nobody owns two open tournaments.     *)
OneOpenOwnedTournament == Promise!OneOpenOwnedTournament

(* Requests wait for one another in a circle only when two users they lock *)
(* share a key: the sort of acquireActiveParticipationLocks prevents every *)
(* other deadlock, also with the row locks taken before.                   *)
DeadlockNeedsCollision ==
    \A group \in SUBSET Workers : Deadlocked(group) =>
        LET users == UNION {requests[w].users : w \in group}
        IN  \E u, v \in users : u # v /\ KeyOf[u] = KeyOf[v]

(* The details of a draft, read by two queries, show a draft with its      *)
(* owner in it unless it has meanwhile been cancelled.                     *)
DraftDetailsShowOwner == \A w \in Workers :
    LET r == requests[w] IN
    At(w, "answering") => owner[r.tournament] \in r.users \/ status[r.tournament] = "CANCELLED"

=============================================================================
