----------------------------- MODULE Membership -----------------------------
(***************************************************************************)
(* What the participation rules promise, each request taking effect at     *)
(* once: nobody owns two open tournaments, nobody is in two ACTIVE ones,   *)
(* and the owner stays a participant until the tournament is cancelled.    *)
(***************************************************************************)
CONSTANTS Users, Tournaments, None

VARIABLES status, owner, participants

vars == <<status, owner, participants>>

TypeOK ==
    /\ status \in [Tournaments -> {"NONE", "DRAFT", "ACTIVE", "COMPLETED", "CANCELLED"}]
    /\ owner \in [Tournaments -> Users \cup {None}]
    /\ participants \in [Tournaments -> SUBSET Users]

Init ==
    /\ status = [t \in Tournaments |-> "NONE"]
    /\ owner = [t \in Tournaments |-> None]
    /\ participants = [t \in Tournaments |-> {}]

OwnsAnOpenOne(u) == \E t \in Tournaments : owner[t] = u /\ status[t] \in {"DRAFT", "ACTIVE"}

PlaysElsewhere(u, t) == \E s \in Tournaments \ {t} : status[s] = "ACTIVE" /\ u \in participants[s]

Create(u, t) ==
    /\ status[t] = "NONE"
    /\ ~OwnsAnOpenOne(u)
    /\ status' = [status EXCEPT ![t] = "DRAFT"]
    /\ owner' = [owner EXCEPT ![t] = u]
    /\ participants' = [participants EXCEPT ![t] = {u}]

Join(u, t) ==
    /\ \/ status[t] = "DRAFT"
       \/ status[t] = "ACTIVE" /\ ~PlaysElsewhere(u, t)
    /\ participants' = [participants EXCEPT ![t] = @ \cup {u}]
    /\ UNCHANGED <<status, owner>>

Start(t) ==
    /\ status[t] = "DRAFT"
    /\ \A u \in participants[t] : ~PlaysElsewhere(u, t)
    /\ status' = [status EXCEPT ![t] = "ACTIVE"]
    /\ UNCHANGED <<owner, participants>>

(* Not only in a draft: the status is checked before, without a lock.      *)
Leave(u, t) ==
    /\ u # owner[t]
    /\ participants' = [participants EXCEPT ![t] = @ \ {u}]
    /\ UNCHANGED <<status, owner>>

Cancel(t) ==
    /\ status[t] = "DRAFT"
    /\ status' = [status EXCEPT ![t] = "CANCELLED"]
    /\ participants' = [participants EXCEPT ![t] = {}]
    /\ UNCHANGED owner

Complete(t) ==
    /\ status[t] = "ACTIVE"
    /\ status' = [status EXCEPT ![t] = "COMPLETED"]
    /\ UNCHANGED <<owner, participants>>

Next == \E t \in Tournaments :
    \/ \E u \in Users : Create(u, t) \/ Join(u, t) \/ Leave(u, t)
    \/ Start(t) \/ Cancel(t) \/ Complete(t)

Spec == Init /\ [][Next]_vars

-----------------------------------------------------------------------------

(* A user takes part in at most one ACTIVE tournament: what the active     *)
(* participation policy is there for.                                      *)
OneActiveTournament == \A s, t \in Tournaments :
    s # t /\ status[s] = "ACTIVE" /\ status[t] = "ACTIVE"
        => participants[s] \cap participants[t] = {}

(* A user owns at most one tournament that is DRAFT or ACTIVE.             *)
OneOpenOwnedTournament == \A s, t \in Tournaments :
    s # t /\ {status[s], status[t]} \subseteq {"DRAFT", "ACTIVE"} => owner[s] # owner[t]

(* The owner of a tournament that was not cancelled takes part in it.      *)
OwnerTakesPart == \A t \in Tournaments :
    status[t] \notin {"NONE", "CANCELLED"} => owner[t] \in participants[t]

=============================================================================
