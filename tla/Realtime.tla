------------------------------ MODULE Realtime ------------------------------
(***************************************************************************)
(* The sockets of one tournament: the gateway that lets them into the room *)
(* (tournament.gateway, tournament-room-access), who is online according   *)
(* to Redis (tournament-presence), and the queue whose worker broadcasts   *)
(* to the room and puts sockets out of it (tournament-events, its worker,  *)
(* tournament-socket-emitter), beside the REST requests that change who    *)
(* takes part.  Of the events, those two are modelled that say something   *)
(* about the room itself; the others travel the same way.                  *)
(*                                                                         *)
(* A step of a handler is the code between two awaits.  The commands of    *)
(* the process reach Redis in the order they are issued, over one          *)
(* connection, so a command takes effect in the step that issues it; its   *)
(* reply is seen by the next step.                                         *)
(***************************************************************************)
EXTENDS Integers, FiniteSets, Sequences

CONSTANTS
    Users,       \* users with sockets or a place in the tournament
    Owner,       \* who created it: cannot leave
    Sockets,     \* bound: the sockets ever opened
    None,
    MaxHandlers, \* bound: gateway handlers in flight at the same time
    MaxQueue,    \* bound: jobs waiting
    MaxJoined    \* bound: times a socket joins without leaving

ASSUME RealtimeAssumption ==
    /\ IsFiniteSet(Users) /\ IsFiniteSet(Sockets)
    /\ Owner \in Users /\ None \notin Users
    /\ {MaxHandlers, MaxQueue, MaxJoined} \subseteq Nat

VARIABLES
    members,   \* user ids of the tournament_participants rows
    cancelled, \* tournaments.status = CANCELLED
    requests,  \* what the REST requests leave and cancel still have to do
    state,     \* of a socket: "new", "open", "closed"
    user,      \* client.data.user
    joined,    \* how often client.data.joinedTournaments has the tournament
    room,      \* sockets in the room tournament:{id}
    handlers,  \* where the handler of each event of each socket is
    socketSet, \* Redis: presence:{id}:sockets:{user}
    userSet,   \* Redis: presence:{id}:users
    queue,     \* waiting jobs, first to come first served
    shown,     \* the active count a socket in the room was sent last
    heard,     \* sockets in the room that were sent TOURNAMENT_CANCELLED
    slipped,   \* sockets in the room whose user left after the access check
    history    \* see TypeOK

memberVars == <<members, cancelled, requests>>
socketVars == <<state, user, joined, room>>
presenceVars == <<socketSet, userSet>>
clientVars == <<shown, heard, slipped>>
vars == <<memberVars, socketVars, handlers, presenceVars, queue, clientVars, history>>

Kinds == {"join", "leave", "disconnect"}

Steps == {"idle", "readingMember", "checkingElsewhere", "addingUser",
          "countingSockets", "deletingKey", "removingUser", "counting"}

(* What the clients of sockets that leave the room were sent is forgotten. *)
Forget(out) ==
    /\ shown' = [s \in Sockets |-> IF s \in out THEN -1 ELSE shown[s]]
    /\ heard' = heard \ out /\ slipped' = slipped \ out

Events == {"PRESENCE_UPDATED", "TOURNAMENT_CANCELLED"}

(* Why a job puts a user out is not in it; CancelHeard needs to know.      *)
Jobs == [event : {"PRESENCE_UPDATED"}, count : Nat]
          \cup [event : {"TOURNAMENT_CANCELLED"}]
          \cup [eject : Users, cause : {"left", "cancelled"}]

Init ==
    /\ members = Users /\ cancelled = FALSE
    /\ requests = [ejects |-> {}, announce |-> FALSE]
    /\ state = [s \in Sockets |-> "new"] /\ user = [s \in Sockets |-> None] /\ joined = [s \in Sockets |-> 0] /\ room = {}
    /\ handlers = [s \in Sockets |-> [k \in Kinds |-> "idle"]]
    /\ socketSet = [u \in Users |-> {}] /\ userSet = {}
    /\ queue = <<>>
    /\ shown = [s \in Sockets |-> -1] /\ heard = {} /\ slipped = {}
    /\ history = [raced |-> {}, lost |-> {}]

At(s, k, pc) == handlers[s][k] = pc
Goto(s, k, pc) == handlers' = [handlers EXCEPT ![s][k] = pc]
InFlight == {h \in Sockets \X Kinds : ~At(h[1], h[2], "idle")}
Busy(u) == \E h \in InFlight : user[h[1]] = u

-----------------------------------------------------------------------------
(* The queue                                                               *)

(* The job is added or lost: it cannot be added (logged, not waited for),  *)
(* or its id, made of the event and the millisecond, is that of an earlier *)
(* job, which may be the case for any but the first of its kind.           *)
Broadcast(job) ==
    \/ /\ Len(queue) < MaxQueue /\ queue' = Append(queue, job)
       /\ history' = [history EXCEPT !.lost = @ \ {job.event}]
    \/ /\ UNCHANGED queue
       /\ history' = [history EXCEPT !.lost = @ \cup {job.event}]

(* The worker: to the room, or each socket of the user out of it.          *)
Emit ==
    /\ queue # <<>> /\ "event" \in DOMAIN Head(queue)
    /\ queue' = Tail(queue)
    /\ IF Head(queue).event = "PRESENCE_UPDATED"
         THEN /\ shown' = [s \in Sockets |-> IF s \in room THEN Head(queue).count ELSE shown[s]]
              /\ UNCHANGED heard
         ELSE heard' = heard \cup room /\ UNCHANGED shown
    /\ UNCHANGED slipped
    /\ UNCHANGED <<memberVars, socketVars, handlers, presenceVars, history>>

EjectFromRoom ==
    /\ queue # <<>> /\ "eject" \in DOMAIN Head(queue)
    /\ queue' = Tail(queue)
    /\ LET out == {s \in room : user[s] = Head(queue).eject}
       IN  room' = room \ out /\ Forget(out)
    /\ UNCHANGED <<memberVars, state, user, joined, handlers, presenceVars, history>>

-----------------------------------------------------------------------------
(* Presence: steps of tournament-presence.add and remove                   *)

(* History: u has two updates under way at once.                           *)
NoteRace(u) == history' =
    [history EXCEPT !.raced = IF Busy(u) THEN @ \cup {u} ELSE @]

AddUser(s) ==
    /\ At(s, "join", "addingUser")
    /\ userSet' = userSet \cup {user[s]}
    /\ Goto(s, "join", "counting")
    /\ UNCHANGED <<memberVars, socketVars, socketSet, queue, clientVars, history>>

EveryTab(s) == "deletingKey" \* variant: other sockets of the user not counted

AfterSocketRemoved(s) == IF socketSet[user[s]] = {} THEN "deletingKey" ELSE "counting"

CountSockets(s, k) ==
    /\ At(s, k, "countingSockets")
    /\ Goto(s, k, AfterSocketRemoved(s))
    /\ UNCHANGED <<memberVars, socketVars, presenceVars, queue, clientVars, history>>

DeleteKey(s, k) ==
    /\ At(s, k, "deletingKey")
    /\ socketSet' = [socketSet EXCEPT ![user[s]] = {}]
    /\ Goto(s, k, "removingUser")
    /\ UNCHANGED <<memberVars, socketVars, userSet, queue, clientVars, history>>

RemoveUser(s, k) ==
    /\ At(s, k, "removingUser")
    /\ userSet' = userSet \ {user[s]}
    /\ Goto(s, k, "counting")
    /\ UNCHANGED <<memberVars, socketVars, socketSet, queue, clientVars, history>>

OwnCount(s) == Cardinality(socketSet[user[s]]) \* variant: sockets, not users

ActiveCount(s) == Cardinality(userSet)

RemoveEvenIfNotJoined(s) == \* variant: the list of joined ones is not looked at
    /\ joined' = [joined EXCEPT ![s] = @ - 1]
    /\ socketSet' = [socketSet EXCEPT ![user[s]] = @ \ {s}]
    /\ Goto(s, "disconnect", "countingSockets")

(* The loop of handleDisconnect: the next of the joined tournaments.       *)
RemoveJoined(s) ==
    IF joined[s] > 0
      THEN /\ joined' = [joined EXCEPT ![s] = @ - 1]
           /\ socketSet' = [socketSet EXCEPT ![user[s]] = @ \ {s}]
           /\ Goto(s, "disconnect", "countingSockets")
      ELSE Goto(s, "disconnect", "idle") /\ UNCHANGED <<joined, socketSet>>

(* getCount and emitPresenceUpdated: replies come in the order of the      *)
(* commands, so counts are enqueued in the order they were taken.  A       *)
(* disconnect goes on with what else the socket has joined, which is the   *)
(* same tournament if it was ejected and joined again.                     *)
EmitPresence(s, k) ==
    /\ At(s, k, "counting")
    /\ Broadcast([event |-> "PRESENCE_UPDATED", count |-> ActiveCount(s)])
    /\ IF k = "disconnect" THEN RemoveJoined(s)
       ELSE Goto(s, k, "idle") /\ UNCHANGED <<joined, socketSet>>
    /\ UNCHANGED <<memberVars, state, user, room, userSet, clientVars>>

-----------------------------------------------------------------------------
(* The gateway                                                             *)

(* handleConnection: a socket whose token is not valid is disconnected.    *)
Connect(s, u) ==
    /\ state[s] = "new"
    /\ user' = [user EXCEPT ![s] = u]
    /\ state' = [state EXCEPT ![s] = IF u = None THEN "closed" ELSE "open"]
    /\ UNCHANGED <<memberVars, joined, room, handlers, presenceVars, queue, clientVars, history>>

(* Bounds: handlers in flight; and a user asks for nothing more once two    *)
(* presence updates of theirs have overlapped.                             *)
MayAsk(s) ==
    /\ state[s] = "open"
    /\ Cardinality(InFlight) < MaxHandlers
    /\ user[s] \notin history.raced

(* Bounds: at most one handler of a kind for a socket at a time, and no    *)
(* socket asks for the room it is in.                                      *)
AskToJoin(s) ==
    /\ MayAsk(s) /\ At(s, "join", "idle") /\ s \notin room /\ joined[s] < MaxJoined
    /\ Goto(s, "join", "readingMember")
    /\ NoteRace(user[s])
    /\ UNCHANGED <<memberVars, socketVars, presenceVars, queue, clientVars>>

ReadMember(s) ==
    /\ At(s, "join", "readingMember")
    /\ Goto(s, "join", IF user[s] \in members THEN "checkingElsewhere" ELSE "idle")
    /\ UNCHANGED <<memberVars, socketVars, presenceVars, queue, clientVars, history>>

RefuseJoin(s) == \* hasUnfinishedParticipation elsewhere
    /\ At(s, "join", "checkingElsewhere")
    /\ Goto(s, "join", "idle")
    /\ UNCHANGED <<memberVars, socketVars, presenceVars, queue, clientVars, history>>

(* The user may no longer be a member.  The socket may be closed: it gets  *)
(* nothing that is sent to the room, but its id is added to the presence;  *)
(* its joined tournaments are only read by a disconnect still under way.   *)
EnterRoom(s) ==
    /\ At(s, "join", "checkingElsewhere")
    /\ LET in == IF state[s] = "open" THEN {s} ELSE {}
       IN  /\ room' = room \cup in
           /\ slipped' = IF user[s] \in members THEN slipped ELSE slipped \cup in
           /\ joined' = IF s \in in \/ ~At(s, "disconnect", "idle")
                          THEN [joined EXCEPT ![s] = @ + 1] ELSE joined
    /\ socketSet' = [socketSet EXCEPT ![user[s]] = @ \cup {s}]
    /\ Goto(s, "join", "addingUser")
    /\ UNCHANGED <<memberVars, state, user, userSet, queue, shown, heard, history>>

LeaveRoom(s) ==
    /\ MayAsk(s) /\ At(s, "leave", "idle")
    /\ room' = room \ {s} /\ joined' = [joined EXCEPT ![s] = 0]
    /\ socketSet' = [socketSet EXCEPT ![user[s]] = @ \ {s}]
    /\ Goto(s, "leave", "countingSockets")
    /\ NoteRace(user[s]) /\ Forget({s})
    /\ UNCHANGED <<memberVars, state, user, userSet, queue>>

(* The rooms are left by socket.io.                                        *)
Disconnect(s) ==
    /\ state[s] = "open"
    /\ Cardinality(InFlight) < MaxHandlers
    /\ state' = [state EXCEPT ![s] = "closed"]
    /\ room' = room \ {s}
    /\ RemoveJoined(s)
    /\ NoteRace(user[s]) /\ Forget({s})
    /\ UNCHANGED <<memberVars, user, userSet, queue>>

-----------------------------------------------------------------------------
(* The REST requests that change who takes part                            *)

Join(u) ==
    /\ ~cancelled /\ u \notin members
    /\ members' = members \cup {u}
    /\ UNCHANGED <<cancelled, requests, socketVars, handlers, presenceVars, queue, clientVars, history>>

NoEject(u) == {} \* variant: leave does not touch the room

EjectsOfLeave(u) == {[eject |-> u, cause |-> "left"]}

Leave(u) ==
    /\ u \in members \ {Owner}
    /\ members' = members \ {u}
    /\ requests' = [requests EXCEPT !.ejects = @ \cup EjectsOfLeave(u)]
    /\ UNCHANGED <<cancelled, socketVars, handlers, presenceVars, queue, clientVars, history>>

Cancel ==
    /\ ~cancelled
    /\ cancelled' = TRUE /\ members' = {}
    /\ requests' = [announce |-> TRUE, ejects |-> requests.ejects \cup
                      {[eject |-> u, cause |-> "cancelled"] : u \in members}]
    /\ UNCHANGED <<socketVars, handlers, presenceVars, queue, clientVars, history>>

EmitCancelled ==
    /\ requests.announce
    /\ requests' = [requests EXCEPT !.announce = FALSE]
    /\ Broadcast([event |-> "TOURNAMENT_CANCELLED"])
    /\ UNCHANGED <<members, cancelled, socketVars, handlers, presenceVars, clientVars>>

EjectAtOnce(job) == TRUE \* variant: the ejections do not wait for the announcement

AfterAnnouncement(job) == job.cause = "cancelled" => ~requests.announce

(* ejectFromRoom is awaited and its job has no id: it is always added.     *)
EnqueueEject ==
    /\ \E job \in requests.ejects :
         /\ AfterAnnouncement(job)
         /\ requests' = [requests EXCEPT !.ejects = @ \ {job}]
         /\ Len(queue) < MaxQueue /\ queue' = Append(queue, job)
    /\ UNCHANGED <<members, cancelled, socketVars, handlers, presenceVars, clientVars, history>>

-----------------------------------------------------------------------------

HandlerStep(s) ==
    \/ ReadMember(s) \/ RefuseJoin(s) \/ EnterRoom(s) \/ AddUser(s)
    \/ \E k \in Kinds : CountSockets(s, k) \/ DeleteKey(s, k) \/ RemoveUser(s, k) \/ EmitPresence(s, k)

Next ==
    \/ \E s \in Sockets :
         \/ \E u \in Users \cup {None} : Connect(s, u)
         \/ AskToJoin(s) \/ LeaveRoom(s) \/ Disconnect(s) \/ HandlerStep(s)
    \/ \E u \in Users : Join(u) \/ Leave(u)
    \/ Cancel \/ EmitCancelled \/ EnqueueEject
    \/ Emit \/ EjectFromRoom

Spec == Init /\ [][Next]_vars

-----------------------------------------------------------------------------
(* Properties                                                              *)

(* Types.  In history, raced: the users two of whose presence updates have *)
(* overlapped; lost: the events whose last broadcast was never enqueued.   *)
TypeOK ==
    /\ members \subseteq Users /\ cancelled \in BOOLEAN
    /\ requests \in [ejects : SUBSET [eject : Users, cause : {"left", "cancelled"}], announce : BOOLEAN]
    /\ state \in [Sockets -> {"new", "open", "closed"}] /\ user \in [Sockets -> Users \cup {None}]
    /\ joined \in [Sockets -> 0..MaxJoined] /\ room \subseteq Sockets /\ {heard, slipped} \subseteq SUBSET room
    /\ handlers \in [Sockets -> [Kinds -> Steps]]
    /\ socketSet \in [Users -> SUBSET Sockets] /\ userSet \subseteq Users
    /\ queue \in Seq(Jobs)
    /\ shown \in [Sockets -> -1..Cardinality(Users)]
    /\ history.raced \subseteq Users /\ history.lost \subseteq Events

(* The users Redis calls online, which decide when a phase or a vote may   *)
(* end early, are those with a socket that joined and is still open,       *)
(* whatever the number of their sockets: as long as no two updates of one  *)
(* user overlap.                                                           *)
PresenceExact == \A u \in Users \ history.raced :
    ~Busy(u) => (u \in userSet <=> \E s \in Sockets : joined[s] > 0 /\ state[s] = "open" /\ user[s] = u)

(* When all is quiet every socket in the room shows the count that Redis   *)
(* has, even if updates overlapped, unless the last event was lost.        *)
PresenceShown ==
    InFlight = {} /\ queue = <<>> /\ "PRESENCE_UPDATED" \notin history.lost
        => \A s \in room : shown[s] = Cardinality(userSet)

(* Only participants follow a tournament: anyone else in the room is about *)
(* to be ejected, or was let in on an access check that had become stale.  *)
RoomIsForParticipants == \A s \in room :
    \/ user[s] \in members
    \/ s \in slipped
    \/ \E job \in requests.ejects \cup {queue[i] : i \in 1..Len(queue)} :
         "eject" \in DOMAIN job /\ job.eject = user[s]

(* Whoever is put out because the tournament was cancelled has been told.  *)
CancelHeard ==
    queue # <<>> /\ Head(queue) \in [eject : Users, cause : {"cancelled"}]
        => \A s \in room : user[s] = Head(queue).eject =>
             s \in heard \cup slipped \/ "TOURNAMENT_CANCELLED" \in history.lost

=============================================================================
