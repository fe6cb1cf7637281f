--------------------------- MODULE RealtimeProofs ---------------------------
(***************************************************************************)
(* What Realtime promises holds for any number of users, sockets and       *)
(* handlers in flight, and whatever the length of the queue.               *)
(***************************************************************************)
EXTENDS Realtime, SequenceTheorems, FiniteSetTheorems, TLAPS

-----------------------------------------------------------------------------
(* The invariant.                                                          *)

Counts == [event : {"PRESENCE_UPDATED"}, count : Nat]
Announcements == [event : {"TOURNAMENT_CANCELLED"}]
Ejections == [eject : Users, cause : {"left", "cancelled"}]
OfCancel == [eject : Users, cause : {"cancelled"}]

(* Types; who has a socket in the room, and whose handlers are in flight.  *)
Shape ==
    /\ TypeOK /\ history \in [raced : SUBSET Users, lost : SUBSET Events]
    /\ \A s \in Sockets :
         /\ state[s] = "new" => joined[s] = 0 /\ user[s] = None
         /\ state[s] = "open" \/ (\E k \in Kinds : ~At(s, k, "idle")) => user[s] \in Users
         /\ s \in room => state[s] = "open"
         /\ At(s, "join", "readingMember") \/ At(s, "join", "checkingElsewhere") => joined[s] < MaxJoined
         /\ ~At(s, "disconnect", "idle") => state[s] = "closed"
    /\ \A i \in 1..Len(queue) : queue[i] \in Counts => queue[i].count <= Cardinality(Users)

Joined(u) == {s \in Sockets : joined[s] > 0 /\ state[s] = "open" /\ user[s] = u}

Removing == {"countingSockets", "deletingKey", "removingUser"}

(* One update of u at a time: Redis has the sockets of u that have joined, *)
(* and has u online if there are any, once the update under way is through.*)
Presence(u) ==
    /\ \A s, t \in Sockets : \A k, l \in Kinds :
         ~At(s, k, "idle") /\ ~At(t, l, "idle") /\ user[s] = u /\ user[t] = u => s = t /\ k = l
    /\ \A s \in Sockets : user[s] = u /\ ~At(s, "join", "idle") => state[s] = "open"
    /\ socketSet[u] = Joined(u)
    /\ Joined(u) # {} =>
         u \in userSet \/ \E s \in Sockets : user[s] = u /\ At(s, "join", "addingUser")
    /\ Joined(u) = {} =>
         u \notin userSet \/ \E s \in Sockets, k \in Kinds : user[s] = u /\ handlers[s][k] \in Removing
    /\ \A s \in Sockets, k \in Kinds : user[s] = u =>
         /\ handlers[s][k] \in {"deletingKey", "removingUser"} => Joined(u) = {}
         /\ At(s, k, "addingUser") => Joined(u) # {}

(* Who will still broadcast the count.                                     *)
Settling == \E s \in Sockets, k \in Kinds :
    handlers[s][k] \in Removing \cup {"addingUser", "counting"}

(* The last count on its way to the room, or else the one it shows, is     *)
(* that of Redis.                                                          *)
LastCount == \A i \in 1..Len(queue) :
    queue[i] \in Counts /\ (\A j \in 1..Len(queue) : queue[j] \in Counts => j <= i)
      => queue[i].count = Cardinality(userSet)

NoCount == \A i \in 1..Len(queue) : queue[i] \notin Counts

Current == LastCount /\ (NoCount => \A s \in room : shown[s] = Cardinality(userSet))

Shows == Settling \/ "PRESENCE_UPDATED" \in history.lost \/ Current

(* Who is in the room and has not been told of the cancel.                 *)
Untold == room \ (heard \cup slipped)

(* The announcement is queued, ahead of the ejections of the cancel.       *)
Ahead == \E j \in 1..Len(queue) :
    queue[j] \in Announcements /\ \A i \in 1..Len(queue) : queue[i] \in OfCancel => j < i

(* No ejection of the cancel is queued before the announcement.            *)
Queued == \A i \in 1..Len(queue) : queue[i] \in OfCancel => cancelled /\ ~requests.announce

(* Whoever was in the room at the announcement is told, before anyone is   *)
(* put out.                                                                *)
Tells ==
    /\ cancelled => members = {}
    /\ requests.announce \/ (\E job \in requests.ejects : job.cause = "cancelled") => cancelled
    /\ Queued
    /\ cancelled /\ ~requests.announce =>
         "TOURNAMENT_CANCELLED" \in history.lost \/ Untold = {} \/ Ahead

Inv ==
    /\ Shape /\ RoomIsForParticipants /\ Shows /\ Tells
    /\ \A u \in Users \ history.raced : Presence(u)

-----------------------------------------------------------------------------
(* Jobs, the queue and the handlers.                                       *)

(* A job is of one of the three kinds.                                     *)
LEMMA JobKinds ==
    ASSUME NEW job \in Jobs
    PROVE  /\ job \in Counts \/ job \in Announcements \/ job \in Ejections
           /\ job \in Counts => "event" \in DOMAIN job /\ ~("eject" \in DOMAIN job)
                                 /\ job.event = "PRESENCE_UPDATED" /\ job.count \in Nat
           /\ job \in Announcements => "event" \in DOMAIN job /\ ~("eject" \in DOMAIN job)
                                        /\ job.event = "TOURNAMENT_CANCELLED"
           /\ job \in Ejections => "eject" \in DOMAIN job /\ ~("event" \in DOMAIN job)
                                    /\ job.eject \in Users
<1>1. job \in Counts \/ job \in Announcements \/ job \in Ejections
    BY DEF Jobs, Counts, Announcements, Ejections
<1>2. ASSUME job \in Counts
      PROVE  "event" \in DOMAIN job /\ ~("eject" \in DOMAIN job)
             /\ job.event = "PRESENCE_UPDATED" /\ job.count \in Nat
    <2>1. DOMAIN job = {"event", "count"}
        BY <1>2 DEF Counts
    <2>. QED
        BY <1>2, <2>1 DEF Counts
<1>3. ASSUME job \in Announcements
      PROVE  "event" \in DOMAIN job /\ ~("eject" \in DOMAIN job)
             /\ job.event = "TOURNAMENT_CANCELLED"
    <2>1. DOMAIN job = {"event"}
        BY <1>3 DEF Announcements
    <2>. QED
        BY <1>3, <2>1 DEF Announcements
<1>4. ASSUME job \in Ejections
      PROVE  "eject" \in DOMAIN job /\ ~("event" \in DOMAIN job) /\ job.eject \in Users
    <2>1. DOMAIN job = {"eject", "cause"}
        BY <1>4 DEF Ejections
    <2>. QED
        BY <1>4, <2>1 DEF Ejections
<1>. QED
    BY <1>1, <1>2, <1>3, <1>4

(* The ejections of the cancel are the ejections with its cause.           *)
LEMMA OfCancelIs ==
    \A job : job \in OfCancel <=> job \in Ejections /\ job.cause = "cancelled"
BY DEF OfCancel, Ejections

(* The first job is taken.                                                 *)
LEMMA Taken ==
    ASSUME queue \in Seq(Jobs), queue # <<>>, queue' = Tail(queue)
    PROVE  /\ Len(queue) \in Nat /\ 1 \in 1..Len(queue) /\ Head(queue) = queue[1] /\ queue[1] \in Jobs
           /\ queue' \in Seq(Jobs) /\ Len(queue') = Len(queue) - 1
           /\ \A i \in 1..Len(queue') :
                i + 1 \in 1..Len(queue) /\ queue'[i] = queue[i + 1] /\ queue'[i] \in Jobs
           /\ \A i \in 1..Len(queue) : i = 1 \/ i - 1 \in 1..Len(queue')
<1>1. /\ Len(queue) \in Nat /\ Len(queue) > 0 /\ Head(queue) = queue[1]
      /\ \A i \in 1..Len(queue) : queue[i] \in Jobs
    BY LenProperties, EmptySeq
<1>2. /\ queue' \in Seq(Jobs) /\ Len(queue') = Len(queue) - 1
      /\ \A i \in 1..Len(queue') : queue'[i] = queue[i + 1]
    BY HeadTailProperties
<1>. QED
    BY <1>1, <1>2

(* A job is added.                                                         *)
LEMMA Added ==
    ASSUME queue \in Seq(Jobs), NEW job \in Jobs, queue' = Append(queue, job)
    PROVE  /\ Len(queue) \in Nat /\ queue' \in Seq(Jobs) /\ Len(queue') = Len(queue) + 1
           /\ queue'[Len(queue')] = job
           /\ \A i \in 1..Len(queue) :
                i \in 1..Len(queue') /\ queue'[i] = queue[i] /\ queue[i] \in Jobs
           /\ \A i \in 1..Len(queue') : i = Len(queue') \/ i \in 1..Len(queue)
<1>1. Len(queue) \in Nat /\ \A i \in 1..Len(queue) : queue[i] \in Jobs
    BY LenProperties
<1>2. /\ queue' \in Seq(Jobs) /\ Len(queue') = Len(queue) + 1
      /\ queue'[Len(queue) + 1] = job
      /\ \A i \in 1..Len(queue) : queue'[i] = queue[i]
    BY AppendProperties
<1>. QED
    BY <1>1, <1>2

(* A handler goes to its next step, and no other does.                     *)
LEMMA GoneTo ==
    ASSUME handlers \in [Sockets -> [Kinds -> Steps]],
           NEW s \in Sockets, NEW k \in Kinds, NEW pc \in Steps, Goto(s, k, pc)
    PROVE  /\ handlers' \in [Sockets -> [Kinds -> Steps]]
           /\ handlers'[s][k] = pc
           /\ \A t \in Sockets : \A l \in Kinds : (t = s /\ l = k) \/ handlers'[t][l] = handlers[t][l]
BY DEF Goto

(* The users online are at most all.                                       *)
LEMMA Numbers ==
    /\ Cardinality(Users) \in Nat
    /\ \A S \in SUBSET Users : Cardinality(S) \in 0..Cardinality(Users)
<1>1. IsFiniteSet(Users) /\ Cardinality(Users) \in Nat
    BY RealtimeAssumption, FS_CardinalityType
<1>2. ASSUME NEW S \in SUBSET Users PROVE Cardinality(S) \in 0..Cardinality(Users)
    <2>1. IsFiniteSet(S) /\ Cardinality(S) <= Cardinality(Users)
        BY <1>1, FS_Subset
    <2>. QED
        BY <1>1, <2>1, FS_CardinalityType
<1>. QED
    BY <1>1, <1>2

-----------------------------------------------------------------------------
(* Types and handlers.                                                     *)

(* The columns that only handlers and sockets change.                      *)
SocketTypes ==
    /\ state \in [Sockets -> {"new", "open", "closed"}] /\ user \in [Sockets -> Users \cup {None}]
    /\ joined \in [Sockets -> 0..MaxJoined] /\ room \subseteq Sockets
    /\ handlers \in [Sockets -> [Kinds -> Steps]]
    /\ \A s \in Sockets :
         /\ state[s] = "new" => joined[s] = 0 /\ user[s] = None
         /\ state[s] = "open" \/ (\E k \in Kinds : ~At(s, k, "idle")) => user[s] \in Users
         /\ s \in room => state[s] = "open"
         /\ At(s, "join", "readingMember") \/ At(s, "join", "checkingElsewhere") => joined[s] < MaxJoined
         /\ ~At(s, "disconnect", "idle") => state[s] = "closed"

(* The other columns.                                                      *)
OtherTypes ==
    /\ members \subseteq Users /\ cancelled \in BOOLEAN
    /\ requests \in [ejects : SUBSET Ejections, announce : BOOLEAN]
    /\ heard \subseteq room /\ slipped \subseteq room
    /\ socketSet \in [Users -> SUBSET Sockets] /\ userSet \subseteq Users
    /\ queue \in Seq(Jobs)
    /\ shown \in [Sockets -> -1..Cardinality(Users)]
    /\ history \in [raced : SUBSET Users, lost : SUBSET Events]
    /\ \A i \in 1..Len(queue) : queue[i] \in Counts => queue[i].count <= Cardinality(Users)

(* Shape, in two halves.                                                   *)
LEMMA ShapeIs == Shape <=> SocketTypes /\ OtherTypes
<1>1. {heard, slipped} \subseteq SUBSET room <=> heard \subseteq room /\ slipped \subseteq room
    OBVIOUS
<1>2. history \in [raced : SUBSET Users, lost : SUBSET Events]
          => history.raced \subseteq Users /\ history.lost \subseteq Events
    OBVIOUS
<1>. QED
    BY <1>1, <1>2 DEF Shape, TypeOK, SocketTypes, OtherTypes, Ejections

(* The sockets and the handlers stay well-formed.                          *)
LEMMA SocketTypesStep ==
    ASSUME SocketTypes, OtherTypes, Next
    PROVE  SocketTypes'
<1>0. MaxJoined \in Nat /\ None \notin Users
    BY RealtimeAssumption
<1>00. /\ {"idle", "readingMember", "checkingElsewhere", "addingUser",
          "countingSockets", "deletingKey", "removingUser", "counting"} \subseteq Steps
       /\ {"join", "leave", "disconnect"} \subseteq Kinds
    BY DEF Steps, Kinds
<1>1. ASSUME NEW s \in Sockets, NEW u \in Users \cup {None}, Connect(s, u) PROVE SocketTypes'
    BY <1>0, <1>00, <1>1 DEF SocketTypes, Connect, At
<1>2. ASSUME NEW s \in Sockets, NEW k \in Kinds, NEW pc \in Steps, Goto(s, k, pc),
             ~At(s, k, "idle"), UNCHANGED socketVars,
             pc # "readingMember", pc = "checkingElsewhere" => At(s, "join", "readingMember")
      PROVE  SocketTypes'
    <2>1. /\ handlers' \in [Sockets -> [Kinds -> Steps]]
          /\ \A t \in Sockets : \A l \in Kinds :
               (t = s /\ l = k /\ handlers'[t][l] = pc) \/ handlers'[t][l] = handlers[t][l]
        BY <1>2, GoneTo DEF SocketTypes
    <2>. QED
        BY <1>00, <1>2, <2>1 DEF SocketTypes, socketVars, At
<1>3. ASSUME NEW s \in Sockets, AskToJoin(s) PROVE SocketTypes'
    <2>1. /\ handlers' \in [Sockets -> [Kinds -> Steps]]
          /\ \A t \in Sockets : \A l \in Kinds :
               (t = s /\ l = "join" /\ handlers'[t][l] = "readingMember") \/ handlers'[t][l] = handlers[t][l]
        BY <1>00, <1>3, GoneTo DEF SocketTypes, AskToJoin
    <2>. QED
        BY SMTT(30), <1>00, <1>3, <2>1 DEF SocketTypes, AskToJoin, MayAsk, socketVars, At
<1>4. ASSUME NEW s \in Sockets, EnterRoom(s) PROVE SocketTypes'
    <2>1. /\ handlers' \in [Sockets -> [Kinds -> Steps]]
          /\ \A t \in Sockets : \A l \in Kinds :
               (t = s /\ l = "join" /\ handlers'[t][l] = "addingUser") \/ handlers'[t][l] = handlers[t][l]
        BY <1>00, <1>4, GoneTo DEF SocketTypes, EnterRoom
    <2>2. handlers'[s]["join"] = "addingUser"
        BY <1>00, <1>4, GoneTo DEF SocketTypes, EnterRoom
    <2>. QED
        BY <1>0, <1>00, <1>4, <2>1, <2>2 DEF SocketTypes, EnterRoom, At
<1>5. ASSUME NEW s \in Sockets, LeaveRoom(s) PROVE SocketTypes'
    <2>1. /\ handlers' \in [Sockets -> [Kinds -> Steps]]
          /\ \A t \in Sockets : \A l \in Kinds :
               (t = s /\ l = "leave" /\ handlers'[t][l] = "countingSockets") \/ handlers'[t][l] = handlers[t][l]
        BY <1>00, <1>5, GoneTo DEF SocketTypes, LeaveRoom
    <2>2. /\ joined' \in [Sockets -> 0..MaxJoined] /\ joined'[s] = 0
          /\ \A t \in Sockets : t # s => joined'[t] = joined[t]
        BY <1>0, <1>5 DEF SocketTypes, LeaveRoom
    <2>3. At(s, "join", "readingMember") \/ At(s, "join", "checkingElsewhere") => 0 < MaxJoined
        BY <1>0 DEF SocketTypes
    <2>. QED
        BY <1>0, <1>00, <1>5, <2>1, <2>2, <2>3 DEF SocketTypes, LeaveRoom, MayAsk, At
<1>6. ASSUME NEW s \in Sockets, RemoveJoined(s), state'[s] = "closed", user[s] \in Users,
             state' \in [Sockets -> {"new", "open", "closed"}], room' \subseteq room,
             \A t \in Sockets : t # s => state'[t] = state[t], s \notin room',
             UNCHANGED user
      PROVE SocketTypes'
    <2>1. /\ handlers' \in [Sockets -> [Kinds -> Steps]]
          /\ \A t \in Sockets : \A l \in Kinds :
               (t = s /\ l = "disconnect" /\ handlers'[t][l] \in {"idle", "countingSockets"})
               \/ handlers'[t][l] = handlers[t][l]
        BY <1>00, <1>6, GoneTo DEF SocketTypes, RemoveJoined
    <2>2. joined' \in [Sockets -> 0..MaxJoined] /\ \A t \in Sockets : joined'[t] <= joined[t]
        <3>1. joined \in [Sockets -> 0..MaxJoined] /\ joined[s] \in 0..MaxJoined
            BY DEF SocketTypes
        <3>2. CASE joined[s] > 0
            <4>1. joined' = [joined EXCEPT ![s] = joined[s] - 1]
                BY <1>6, <3>2 DEF RemoveJoined
            <4>2. joined[s] - 1 \in 0..MaxJoined /\ joined[s] - 1 <= joined[s]
                BY <1>0, <3>1, <3>2
            <4>3. \A t \in Sockets : joined'[t] = IF t = s THEN joined[s] - 1 ELSE joined[t]
                BY <3>1, <4>1
            <4>. QED
                BY <1>0, <3>1, <4>1, <4>2, <4>3
        <3>3. CASE ~(joined[s] > 0)
            BY <1>0, <1>6, <3>1, <3>3 DEF RemoveJoined
        <3>. QED
            BY <3>2, <3>3
    <2>3. \A t \in Sockets : joined[t] \in Nat /\ joined'[t] \in Nat
        BY <1>0, <2>2 DEF SocketTypes
    <2>. QED
        BY <1>0, <1>00, <1>6, <2>1, <2>2, <2>3 DEF SocketTypes, At
<1>7. ASSUME NEW s \in Sockets, Disconnect(s) PROVE SocketTypes'
    <2>1. state'[s] = "closed" /\ user[s] \in Users
          /\ state' \in [Sockets -> {"new", "open", "closed"}] /\ room' \subseteq room
          /\ (\A t \in Sockets : t # s => state'[t] = state[t]) /\ s \notin room' /\ UNCHANGED user
        BY <1>7 DEF SocketTypes, Disconnect
    <2>. QED
        BY <1>6, <1>7, <2>1 DEF Disconnect
<1>8. ASSUME NEW s \in Sockets, NEW k \in Kinds, EmitPresence(s, k) PROVE SocketTypes'
    <2>1. user[s] \in Users /\ ~At(s, k, "idle")
        BY <1>00, <1>8 DEF SocketTypes, EmitPresence, At
    <2>2. CASE k = "disconnect"
        <3>1. state[s] = "closed" /\ s \notin room
            BY <2>1, <2>2 DEF SocketTypes
        <3>. QED
            BY <1>6, <1>8, <2>1, <2>2, <3>1 DEF EmitPresence, SocketTypes
    <2>3. CASE k # "disconnect"
        BY <1>00, <1>2, <1>8, <2>1, <2>3 DEF EmitPresence, socketVars
    <2>. QED
        BY <2>2, <2>3
<1>9. ASSUME NEW s \in Sockets, ReadMember(s) \/ RefuseJoin(s) \/ AddUser(s)
      PROVE SocketTypes'
    <2>1. \E pc \in Steps : /\ Goto(s, "join", pc) /\ ~At(s, "join", "idle") /\ UNCHANGED socketVars
                            /\ pc # "readingMember"
                            /\ pc = "checkingElsewhere" => At(s, "join", "readingMember")
        BY <1>00, <1>9 DEF ReadMember, RefuseJoin, AddUser, At
    <2>. QED
        BY <1>00, <1>2, <2>1
<1>10. ASSUME NEW s \in Sockets, NEW k \in Kinds,
              CountSockets(s, k) \/ DeleteKey(s, k) \/ RemoveUser(s, k)
       PROVE SocketTypes'
    <2>1. \E pc \in Steps : /\ Goto(s, k, pc) /\ ~At(s, k, "idle") /\ UNCHANGED socketVars
                            /\ pc # "readingMember" /\ pc # "checkingElsewhere"
        BY <1>00, <1>10 DEF CountSockets, DeleteKey, RemoveUser, AfterSocketRemoved, At
    <2>. QED
        BY <1>2, <2>1
<1>11. ASSUME UNCHANGED <<state, user, joined, handlers>>, room' \subseteq room PROVE SocketTypes'
    BY <1>11 DEF SocketTypes, At
<1>12. CASE \E u \in Users : Join(u) \/ Leave(u)
    BY <1>11, <1>12 DEF Join, Leave, socketVars
<1>13. CASE Cancel \/ EmitCancelled \/ EnqueueEject
    BY <1>11, <1>13 DEF Cancel, EmitCancelled, EnqueueEject, socketVars
<1>14. CASE Emit \/ EjectFromRoom
    BY <1>11, <1>14 DEF Emit, EjectFromRoom, socketVars
<1>. QED
    BY <1>1, <1>3, <1>4, <1>5, <1>7, <1>8, <1>9, <1>10, <1>12, <1>13, <1>14 DEF Next, HandlerStep

QueueTypes ==
    /\ queue \in Seq(Jobs)
    /\ \A i \in 1..Len(queue) : queue[i] \in Counts => queue[i].count <= Cardinality(Users)

(* A job of the right kind at the end of the queue.                        *)
LEMMA AddedType ==
    ASSUME QueueTypes, NEW job \in Jobs, queue' = Append(queue, job),
           job \in Counts => job.count <= Cardinality(Users)
    PROVE  QueueTypes'
BY Added DEF QueueTypes

(* A broadcast, enqueued or lost.                                          *)
LEMMA BroadcastType ==
    ASSUME OtherTypes, NEW job \in Counts \cup Announcements, Broadcast(job),
           job \in Counts => job.count <= Cardinality(Users)
    PROVE  QueueTypes' /\ history' \in [raced : SUBSET Users, lost : SUBSET Events]
           /\ history'.raced = history.raced
<1>1. job \in Jobs /\ job.event \in Events
    BY DEF Jobs, Counts, Announcements, Events
<1>2. QueueTypes
    BY DEF OtherTypes, QueueTypes
<1>3. QueueTypes'
    BY <1>1, <1>2, AddedType DEF Broadcast, QueueTypes
<1>4. /\ history' \in [raced : SUBSET Users, lost : SUBSET Events]
      /\ history'.raced = history.raced
    BY <1>1 DEF Broadcast, OtherTypes
<1>. QED
    BY <1>3, <1>4

(* The first job is taken.                                                 *)
LEMMA TakenType ==
    ASSUME QueueTypes, queue # <<>>, queue' = Tail(queue)
    PROVE  QueueTypes'
BY Taken DEF QueueTypes

(* The rest stays well-formed.                                             *)
LEMMA OtherTypesStep ==
    ASSUME SocketTypes, OtherTypes, Next
    PROVE  OtherTypes'
<1>0. QueueTypes /\ Cardinality(Users) \in Nat
    BY Numbers DEF OtherTypes, QueueTypes
<1>1. ASSUME NEW s \in Sockets, NEW u \in Users \cup {None}, Connect(s, u) PROVE OtherTypes'
    BY <1>1 DEF OtherTypes, Connect, memberVars, presenceVars, clientVars
<1>2. ASSUME NEW s \in Sockets, user[s] \in Users, AskToJoin(s) \/ LeaveRoom(s) \/ Disconnect(s)
      PROVE  OtherTypes'
    <2>1. UNCHANGED <<memberVars, queue, userSet>> /\ room' \subseteq room
          /\ room \ room' \subseteq {s} /\ ((clientVars' = clientVars /\ room' = room) \/ Forget({s}))
        BY <1>2 DEF AskToJoin, LeaveRoom, Disconnect, presenceVars, socketVars, memberVars
    <2>2. history' \in [raced : SUBSET Users, lost : SUBSET Events]
        BY <1>2 DEF OtherTypes, AskToJoin, LeaveRoom, Disconnect, NoteRace
    <2>3. socketSet' \in [Users -> SUBSET Sockets]
        BY <1>2 DEF OtherTypes, AskToJoin, LeaveRoom, Disconnect, RemoveJoined, presenceVars
    <2>4. heard' \subseteq room' /\ slipped' \subseteq room' /\ shown' \in [Sockets -> -1..Cardinality(Users)]
        BY <1>0, <2>1 DEF Forget, clientVars, OtherTypes
    <2>5. QueueTypes'
        BY <1>0, <2>1 DEF QueueTypes
    <2>. QED
        BY <2>1, <2>2, <2>3, <2>4, <2>5 DEF OtherTypes, QueueTypes, memberVars
<1>3. ASSUME NEW s \in Sockets, ReadMember(s) \/ RefuseJoin(s) PROVE OtherTypes'
    BY <1>3 DEF ReadMember, RefuseJoin, OtherTypes, memberVars, socketVars, presenceVars, clientVars
<1>4. ASSUME NEW s \in Sockets, user[s] \in Users, EnterRoom(s) PROVE OtherTypes'
    BY <1>4 DEF EnterRoom, OtherTypes, memberVars
<1>5. ASSUME NEW s \in Sockets, user[s] \in Users, AddUser(s) PROVE OtherTypes'
    BY <1>5 DEF AddUser, OtherTypes, memberVars, socketVars, clientVars
<1>6. ASSUME NEW s \in Sockets, NEW k \in Kinds, user[s] \in Users,
             CountSockets(s, k) \/ DeleteKey(s, k) \/ RemoveUser(s, k)
      PROVE  OtherTypes'
    BY <1>6 DEF CountSockets, DeleteKey, RemoveUser, OtherTypes, memberVars, socketVars, clientVars, presenceVars
<1>7. ASSUME NEW s \in Sockets, NEW k \in Kinds, user[s] \in Users, EmitPresence(s, k)
      PROVE  OtherTypes'
    <2>. DEFINE job == [event |-> "PRESENCE_UPDATED", count |-> ActiveCount(s)]
    <2>1. ActiveCount(s) \in Nat /\ ActiveCount(s) <= Cardinality(Users)
        BY Numbers DEF ActiveCount, OtherTypes
    <2>2. job \in Counts /\ job.count <= Cardinality(Users) /\ Broadcast(job)
        BY <1>7, <2>1 DEF Counts, EmitPresence
    <2>. HIDE DEF job
    <2>3. QueueTypes' /\ history' \in [raced : SUBSET Users, lost : SUBSET Events]
        BY <2>2, BroadcastType
    <2>4. socketSet' \in [Users -> SUBSET Sockets]
        BY <1>7 DEF OtherTypes, EmitPresence, RemoveJoined
    <2>. QED
        BY <1>7, <2>3, <2>4 DEF EmitPresence, OtherTypes, QueueTypes, memberVars, clientVars
<1>8. ASSUME NEW u \in Users, Join(u) \/ Leave(u) PROVE OtherTypes'
    <2>1. /\ members' \subseteq Users /\ requests' \in [ejects : SUBSET Ejections, announce : BOOLEAN]
          /\ UNCHANGED <<cancelled, socketVars, presenceVars, queue, clientVars, history>>
        BY <1>8 DEF Join, Leave, EjectsOfLeave, OtherTypes, Ejections
    <2>. QED
        BY <2>1 DEF OtherTypes, socketVars, presenceVars, clientVars
<1>9. CASE Cancel
    <2>1. /\ members' \subseteq Users /\ requests' \in [ejects : SUBSET Ejections, announce : BOOLEAN]
          /\ cancelled' \in BOOLEAN
          /\ UNCHANGED <<socketVars, presenceVars, queue, clientVars, history>>
        BY <1>9 DEF Cancel, OtherTypes, Ejections
    <2>. QED
        BY <2>1 DEF OtherTypes, socketVars, presenceVars, clientVars
<1>10. CASE EmitCancelled
    <2>. DEFINE job == [event |-> "TOURNAMENT_CANCELLED"]
    <2>1. job \in Announcements /\ ~(job \in Counts) /\ Broadcast(job)
        <3>1. DOMAIN job = {"event"} /\ \A c \in Counts : DOMAIN c = {"event", "count"}
            BY DEF Counts
        <3>. QED
            BY <1>10, <3>1 DEF Announcements, EmitCancelled
    <2>. HIDE DEF job
    <2>2. QueueTypes' /\ history' \in [raced : SUBSET Users, lost : SUBSET Events]
        BY <2>1, BroadcastType
    <2>. QED
        BY <1>10, <2>2 DEF EmitCancelled, OtherTypes, QueueTypes, socketVars, presenceVars, clientVars
<1>11. CASE EnqueueEject
    <2>1. PICK job \in requests.ejects : requests' = [requests EXCEPT !.ejects = @ \ {job}]
              /\ queue' = Append(queue, job)
        BY <1>11 DEF EnqueueEject
    <2>2. job \in Ejections /\ job \in Jobs
        BY <2>1 DEF OtherTypes, Jobs, Ejections
    <2>3. ~(job \in Counts)
        BY <2>2, JobKinds
    <2>4. QueueTypes'
        BY <1>0, <2>1, <2>2, <2>3, AddedType
    <2>. QED
        BY <1>11, <2>1, <2>4 DEF EnqueueEject, OtherTypes, QueueTypes, socketVars, presenceVars, clientVars
<1>12. CASE Emit
    <2>1. QueueTypes' /\ queue[1] \in Jobs /\ Head(queue) = queue[1] /\ 1 \in 1..Len(queue)
        BY <1>0, <1>12, Taken, TakenType DEF Emit, QueueTypes
    <2>2. heard' \subseteq room /\ shown' \in [Sockets -> -1..Cardinality(Users)]
        <3>1. CASE Head(queue).event = "PRESENCE_UPDATED"
            <4>1. queue[1] \in Counts
                BY <1>12, <2>1, <3>1, JobKinds DEF Emit
            <4>2. queue[1].count \in Nat /\ queue[1].count <= Cardinality(Users)
                BY <1>0, <2>1, <4>1 DEF Counts, QueueTypes
            <4>. QED
                BY SMTT(30), <1>0, <1>12, <2>1, <3>1, <4>2 DEF Emit, OtherTypes
        <3>2. CASE Head(queue).event # "PRESENCE_UPDATED"
            BY <1>12, <3>2 DEF Emit, OtherTypes
        <3>. QED
            BY <3>1, <3>2
    <2>. QED
        BY <1>12, <2>1, <2>2 DEF Emit, OtherTypes, QueueTypes, memberVars, socketVars, presenceVars
<1>13. CASE EjectFromRoom
    <2>1. QueueTypes'
        BY <1>0, <1>13, TakenType DEF EjectFromRoom
    <2>. DEFINE out == {s \in room : user[s] = Head(queue).eject}
    <2>2. room' = room \ out /\ Forget(out)
        BY <1>13 DEF EjectFromRoom
    <2>. HIDE DEF out
    <2>3. heard' \subseteq room' /\ slipped' \subseteq room' /\ shown' \in [Sockets -> -1..Cardinality(Users)]
        BY <1>0, <2>2 DEF Forget, OtherTypes
    <2>. QED
        BY <1>13, <2>1, <2>3 DEF EjectFromRoom, OtherTypes, QueueTypes, memberVars, presenceVars
<1>14. \A s \in Sockets : state[s] = "open" \/ (\E k \in Kinds : ~At(s, k, "idle")) => user[s] \in Users
    BY DEF SocketTypes
<1>15. ASSUME NEW s \in Sockets, AskToJoin(s) \/ LeaveRoom(s) \/ Disconnect(s) PROVE user[s] \in Users
    BY <1>14, <1>15 DEF AskToJoin, LeaveRoom, Disconnect, MayAsk
<1>16. ASSUME NEW s \in Sockets, HandlerStep(s) PROVE OtherTypes'
    <2>1. ASSUME NEW k \in Kinds, ~At(s, k, "idle") PROVE user[s] \in Users
        BY <1>14, <2>1
    <2>2. "join" \in Kinds
        BY DEF Kinds
    <2>3. ASSUME EnterRoom(s) \/ AddUser(s) PROVE OtherTypes'
        BY <1>4, <1>5, <2>1, <2>2, <2>3 DEF EnterRoom, AddUser, At
    <2>4. ASSUME NEW k \in Kinds, CountSockets(s, k) \/ DeleteKey(s, k) \/ RemoveUser(s, k)
          PROVE OtherTypes'
        BY <1>6, <2>1, <2>4 DEF CountSockets, DeleteKey, RemoveUser, At
    <2>5. ASSUME NEW k \in Kinds, EmitPresence(s, k) PROVE OtherTypes'
        BY <1>7, <2>1, <2>5 DEF EmitPresence, At
    <2>. QED
        BY <1>3, <1>16, <2>3, <2>4, <2>5 DEF HandlerStep
<1>. QED
    BY <1>1, <1>2, <1>8, <1>9, <1>10, <1>11, <1>12, <1>13, <1>15, <1>16 DEF Next

-----------------------------------------------------------------------------
(* Who is in the room.                                                     *)

(* Someone who is to be put out.                                           *)
Ejecting(u) == \E job \in requests.ejects \cup {queue[i] : i \in 1..Len(queue)} :
    "eject" \in DOMAIN job /\ job.eject = u

(* A job added is in the queue, and so are those that were.                *)
LEMMA QueuedStay ==
    ASSUME queue \in Seq(Jobs), NEW job \in Jobs, queue' = Append(queue, job)
    PROVE  {queue'[i] : i \in 1..Len(queue')} = {queue[i] : i \in 1..Len(queue)} \cup {job}
<1>1. Len(queue') \in 1..Len(queue')
    BY Added
<1>. QED
    BY <1>1, Added

(* Who is to be put out is until a job of theirs is taken.                 *)
LEMMA EjectingStays ==
    ASSUME OtherTypes, NEW u, Ejecting(u),
           \/ UNCHANGED <<requests, queue>>
           \/ UNCHANGED queue /\ requests.ejects \subseteq requests'.ejects
           \/ requests.ejects \subseteq requests'.ejects /\
                \E job \in Jobs : queue' = Append(queue, job)
           \/ \E job \in requests.ejects :
                queue' = Append(queue, job) /\ requests'.ejects = requests.ejects \ {job}
           \/ /\ UNCHANGED requests /\ queue # <<>> /\ queue' = Tail(queue)
              /\ "eject" \in DOMAIN Head(queue) => Head(queue).eject # u
    PROVE  Ejecting(u)'
<1>. DEFINE Waiting == {queue[i] : i \in 1..Len(queue)}
<1>1. queue \in Seq(Jobs) /\ requests.ejects \subseteq Jobs
    BY DEF OtherTypes, Jobs, Ejections
<1>2. PICK job \in requests.ejects \cup Waiting : "eject" \in DOMAIN job /\ job.eject = u
    BY DEF Ejecting
<1>3. CASE requests.ejects \cup Waiting \subseteq requests'.ejects \cup Waiting'
    BY <1>2, <1>3 DEF Ejecting
<1>4. CASE \E new \in Jobs : queue' = Append(queue, new)
           /\ requests.ejects \subseteq requests'.ejects \cup {new}
    <2>1. PICK new \in Jobs : queue' = Append(queue, new)
              /\ requests.ejects \subseteq requests'.ejects \cup {new}
        BY <1>4
    <2>2. Waiting' = Waiting \cup {new}
        BY <1>1, <2>1, QueuedStay
    <2>. HIDE DEF Waiting
    <2>. QED
        BY <1>3, <2>1, <2>2
<1>5. CASE /\ UNCHANGED requests /\ queue # <<>> /\ queue' = Tail(queue)
           /\ "eject" \in DOMAIN Head(queue) => Head(queue).eject # u
    <2>1. CASE job \in requests.ejects
        BY <1>2, <1>5, <2>1 DEF Ejecting
    <2>2. CASE job \in Waiting
        <3>1. PICK i \in 1..Len(queue) : queue[i] = job
            BY <2>2
        <3>2. i # 1
            BY <1>1, <1>2, <1>5, <3>1, Taken
        <3>3. PICK j \in 1..Len(queue') : j = i - 1
            BY <1>1, <1>5, <3>2, Taken
        <3>4. queue'[j] = queue[j + 1]
            BY <1>1, <1>5, Taken
        <3>40. j + 1 = i
            BY <3>3
        <3>5. job \in Waiting'
            BY <3>1, <3>4, <3>40
        <3>. QED
            BY <1>2, <3>5 DEF Ejecting
    <2>. QED
        BY <1>2, <2>1, <2>2
<1>. HIDE DEF Waiting
<1>6. ASSUME UNCHANGED queue, requests.ejects \subseteq requests'.ejects PROVE Ejecting(u)'
    <2>1. Waiting' = Waiting
        BY <1>6 DEF Waiting
    <2>. QED
        BY <1>3, <1>6, <2>1
<1>. QED
    BY <1>1, <1>4, <1>5, <1>6

(* Who may be in the room.                                                 *)
Allowed(s) == user[s] \in members \/ s \in slipped \/ Ejecting(user[s])

(* Only participants follow a tournament, and those who are on their way   *)
(* out of the room or have slipped in.                                     *)
LEMMA RoomStep ==
    ASSUME SocketTypes, OtherTypes, RoomIsForParticipants, Next
    PROVE  RoomIsForParticipants'
<1>. SUFFICES ASSUME NEW s \in Sockets, s \in room' PROVE Allowed(s)'
    <2>1. SocketTypes'
        BY SocketTypesStep
    <2>. QED
        BY <2>1 DEF RoomIsForParticipants, Allowed, Ejecting, SocketTypes
<1>. DEFINE v == user[s]
<1>0. s \in room => v \in members \/ s \in slipped \/ Ejecting(v)
    BY DEF RoomIsForParticipants, Ejecting
<1>a. ASSUME NEW u, user'[s] = u, Ejecting(u)' PROVE Allowed(s)'
    BY <1>a DEF Allowed, Ejecting
<1>b. ASSUME s \in room, user'[s] = v, v \in members => v \in members' \/ Allowed(s)',
             s \in slipped => s \in slipped',
             \/ UNCHANGED <<requests, queue>>
             \/ UNCHANGED queue /\ requests.ejects \subseteq requests'.ejects
             \/ requests.ejects \subseteq requests'.ejects /\
                  \E job \in Jobs : queue' = Append(queue, job)
             \/ \E job \in requests.ejects :
                  queue' = Append(queue, job) /\ requests'.ejects = requests.ejects \ {job}
             \/ /\ UNCHANGED requests /\ queue # <<>> /\ queue' = Tail(queue)
                /\ "eject" \in DOMAIN Head(queue) => Head(queue).eject # v
      PROVE  Allowed(s)'
    <2>1. PICK u : u = v
        OBVIOUS
    <2>2. Ejecting(u) => Ejecting(u)'
        BY <1>b, <2>1, EjectingStays
    <2>3. Ejecting(u) => Allowed(s)'
        BY <1>a, <1>b, <2>1, <2>2
    <2>4. u \in members \/ s \in slipped \/ Ejecting(u)
        BY <1>0, <1>b, <2>1
    <2>. QED
        BY <1>b, <2>1, <2>3, <2>4 DEF Allowed
<1>1. ASSUME NEW t \in Sockets, NEW u \in Users \cup {None}, Connect(t, u)
      PROVE  Allowed(s)'
    <2>1. s \in room /\ user'[s] = user[s] /\ UNCHANGED <<members, slipped, requests, queue>>
        BY <1>1 DEF Connect, SocketTypes, memberVars, clientVars
    <2>. QED
        BY <1>b, <2>1
<1>2. ASSUME s \in room, UNCHANGED <<user, members, requests, queue>>, s \in slipped => s \in slipped'
      PROVE  Allowed(s)'
    BY <1>b, <1>2
<1>3. ASSUME NEW t \in Sockets, AskToJoin(t) \/ LeaveRoom(t) \/ Disconnect(t)
      PROVE  Allowed(s)'
    BY <1>2, <1>3 DEF AskToJoin, LeaveRoom, Disconnect, Forget, memberVars, socketVars, clientVars
<1>4. ASSUME NEW t \in Sockets, EnterRoom(t)
      PROVE  Allowed(s)'
    <2>1. UNCHANGED <<members, requests, user, queue>> /\ slipped \subseteq slipped'
        BY <1>4 DEF EnterRoom, memberVars
    <2>2. CASE s \in room
        BY <1>2, <2>1, <2>2
    <2>3. CASE s \notin room
        BY <1>4, <2>1, <2>3 DEF EnterRoom, Allowed
    <2>. QED
        BY <2>2, <2>3
<1>5. ASSUME NEW t \in Sockets,
             \/ ReadMember(t) \/ RefuseJoin(t) \/ AddUser(t)
             \/ \E k \in Kinds : CountSockets(t, k) \/ DeleteKey(t, k) \/ RemoveUser(t, k)
      PROVE  Allowed(s)'
    BY <1>2, <1>5 DEF ReadMember, RefuseJoin, AddUser, CountSockets, DeleteKey, RemoveUser,
        memberVars, socketVars, clientVars
<1>6. ASSUME NEW job \in Counts \cup Announcements, Broadcast(job),
             UNCHANGED <<members, user, room, slipped>>, requests.ejects \subseteq requests'.ejects
      PROVE  Allowed(s)'
    <2>1. job \in Jobs
        BY DEF Jobs, Counts, Announcements
    <2>2. CASE UNCHANGED queue
        BY <1>b, <1>6, <2>2
    <2>3. CASE queue' = Append(queue, job)
        BY <1>b, <1>6, <2>1, <2>3
    <2>. QED
        BY <1>6, <2>2, <2>3 DEF Broadcast
<1>7. ASSUME NEW t \in Sockets, NEW k \in Kinds, EmitPresence(t, k)
      PROVE  Allowed(s)'
    <2>1. [event |-> "PRESENCE_UPDATED", count |-> ActiveCount(t)] \in Counts
        BY Numbers DEF ActiveCount, OtherTypes, Counts
    <2>. QED
        BY <1>6, <1>7, <2>1 DEF EmitPresence, memberVars, clientVars
<1>8. CASE EmitCancelled
    <2>1. [event |-> "TOURNAMENT_CANCELLED"] \in Announcements
        BY DEF Announcements
    <2>2. requests.ejects \subseteq requests'.ejects
        BY <1>8 DEF EmitCancelled, OtherTypes
    <2>. QED
        BY <1>6, <1>8, <2>1, <2>2 DEF EmitCancelled, socketVars, clientVars
<1>9. ASSUME NEW u \in Users, Join(u) \/ Leave(u)
      PROVE  Allowed(s)'
    <2>1. /\ UNCHANGED <<user, room, slipped, queue>> /\ requests.ejects \subseteq requests'.ejects
          /\ members \subseteq members' \cup {u}
          /\ u \in members' \/ [eject |-> u, cause |-> "left"] \in requests'.ejects
        BY <1>9 DEF Join, Leave, EjectsOfLeave, socketVars, clientVars, OtherTypes
    <2>2. ASSUME NEW j \in requests'.ejects, j = [eject |-> u, cause |-> "left"] PROVE Ejecting(u)'
        BY <2>2 DEF Ejecting
    <2>3. v \in members => v \in members' \/ Allowed(s)'
        <3>1. Ejecting(u)' \/ u \in members'
            BY <2>1, <2>2
        <3>2. v = u => v \in members' \/ Allowed(s)'
            BY <1>a, <2>1, <3>1
        <3>. QED
            BY <2>1, <3>2
    <2>. QED
        BY <1>b, <2>1, <2>3
<1>10. CASE Cancel
    <2>1. /\ UNCHANGED <<user, room, slipped, queue>> /\ requests.ejects \subseteq requests'.ejects
          /\ \A u \in members : [eject |-> u, cause |-> "cancelled"] \in requests'.ejects
        BY <1>10 DEF Cancel, socketVars, clientVars
    <2>2. ASSUME NEW u \in members PROVE Ejecting(u)'
        <3>1. PICK job \in requests'.ejects : job = [eject |-> u, cause |-> "cancelled"]
            BY <2>1
        <3>. QED
            BY <3>1 DEF Ejecting
    <2>3. v \in members => Allowed(s)'
        <3>1. PICK u : u = v
            OBVIOUS
        <3>. QED
            BY <1>a, <2>1, <2>2, <3>1
    <2>. QED
        BY <1>b, <2>1, <2>3
<1>11. CASE EnqueueEject
    <2>1. PICK job \in requests.ejects : requests' = [requests EXCEPT !.ejects = @ \ {job}]
              /\ queue' = Append(queue, job)
        BY <1>11 DEF EnqueueEject
    <2>2. requests'.ejects = requests.ejects \ {job}
        BY <2>1 DEF OtherTypes
    <2>3. s \in room /\ UNCHANGED <<members, user, slipped>>
        BY <1>11 DEF EnqueueEject, socketVars, clientVars
    <2>. QED
        BY <1>b, <2>1, <2>2, <2>3
<1>12. CASE Emit
    <2>1. ~("eject" \in DOMAIN Head(queue))
        BY <1>12, Taken, JobKinds DEF Emit, OtherTypes
    <2>2. s \in room /\ UNCHANGED <<members, requests, user, slipped>>
        BY <1>12 DEF Emit, memberVars, socketVars
    <2>. QED
        BY <1>b, <1>12, <2>1, <2>2 DEF Emit
<1>13. CASE EjectFromRoom
    <2>1. s \in room /\ user[s] # Head(queue).eject /\ UNCHANGED <<members, requests, user>>
          /\ (s \in slipped => s \in slipped')
        BY <1>13 DEF EjectFromRoom, Forget, memberVars
    <2>. QED
        BY <1>b, <1>13, <2>1 DEF EjectFromRoom
<1>. QED
    BY <1>1, <1>3, <1>4, <1>5, <1>7, <1>8, <1>9, <1>10, <1>11, <1>12, <1>13 DEF Next, HandlerStep

-----------------------------------------------------------------------------
(* The announcement of the cancel.                                         *)

(* A job that is neither: the order of the others is what it was.          *)
LEMMA AheadAdded ==
    ASSUME queue \in Seq(Jobs), NEW job \in Jobs, queue' = Append(queue, job)
    PROVE  /\ Ahead => Ahead'
           /\ Queued /\ UNCHANGED <<cancelled, requests.announce>>
                /\ (job \in OfCancel => cancelled /\ ~requests.announce) => Queued'
           /\ job \in Announcements /\ (\A i \in 1..Len(queue) : queue[i] \notin OfCancel) => Ahead'
<1>. DEFINE n == Len(queue)
            m == Len(queue')
<1>1. /\ n \in Nat /\ m = n + 1 /\ queue'[m] = job
      /\ \A i \in 1..n : i \in 1..m /\ queue'[i] = queue[i]
      /\ \A i \in 1..m : i = m \/ i \in 1..n
    BY Added
<1>. HIDE DEF n, m
<1>2. Ahead => Ahead'
    BY <1>1 DEF Ahead, n, m
<1>3. ASSUME Queued, UNCHANGED <<cancelled, requests.announce>>,
             job \in OfCancel => cancelled /\ ~requests.announce
      PROVE  Queued'
    BY <1>1, <1>3 DEF Queued, n, m
<1>4. ASSUME job \in Announcements, \A i \in 1..Len(queue) : queue[i] \notin OfCancel PROVE Ahead'
    <2>1. m \in 1..m
        BY <1>1
    <2>2. job \notin OfCancel
        BY <1>4, JobKinds, OfCancelIs
    <2>3. \A i \in 1..m : queue'[i] \notin OfCancel
        BY <1>1, <1>4, <2>2 DEF n
    <2>. QED
        BY <1>1, <1>4, <2>1, <2>3 DEF Ahead, m
<1>. QED
    BY <1>2, <1>3, <1>4

(* The first job is taken, and it is not the announcement.                 *)
LEMMA AheadTaken ==
    ASSUME queue \in Seq(Jobs), queue # <<>>, queue' = Tail(queue)
    PROVE  /\ Ahead /\ Head(queue) \notin Announcements => Ahead'
           /\ Queued /\ UNCHANGED <<cancelled, requests>> => Queued'
<1>. DEFINE n == Len(queue)
            m == Len(queue')
<1>1. /\ n \in Nat /\ m = n - 1 /\ Head(queue) = queue[1]
      /\ \A i \in 1..m : i + 1 \in 1..n /\ queue'[i] = queue[i + 1]
      /\ \A i \in 1..n : i = 1 \/ i - 1 \in 1..m
    BY Taken
<1>. HIDE DEF n, m
<1>2. ASSUME Ahead, Head(queue) \notin Announcements PROVE Ahead'
    <2>1. PICK j \in 1..n : queue[j] \in Announcements /\ \A i \in 1..n : queue[i] \in OfCancel => j < i
        BY <1>2 DEF Ahead, n
    <2>2. PICK h \in 1..m : h = j - 1
        BY <1>1, <1>2, <2>1
    <2>3. queue'[h] = queue[h + 1]
        BY <1>1
    <2>4. h + 1 = j
        BY <1>1, <2>2
    <2>5. ASSUME NEW i \in 1..m, queue'[i] \in OfCancel PROVE h < i
        <3>1. i + 1 \in 1..n /\ queue[i + 1] \in OfCancel
            BY <1>1, <2>5
        <3>2. j < i + 1
            BY <2>1, <3>1
        <3>. QED
            BY <1>1, <2>2, <3>2
    <2>. QED
        BY <2>1, <2>3, <2>4, <2>5 DEF Ahead, m
<1>3. ASSUME Queued, UNCHANGED <<cancelled, requests>> PROVE Queued'
    BY <1>1, <1>3 DEF Queued, n, m
<1>. QED
    BY <1>2, <1>3

(* A step that tells nobody, cancels nothing and leaves the queue alone.   *)
LEMMA TellsFrame ==
    ASSUME Tells, UNCHANGED <<memberVars, queue, history.lost>>, cancelled => Untold' \subseteq Untold
    PROVE  Tells'
<1>1. Queued' /\ (Ahead => Ahead')
    BY DEF Tells, Queued, Ahead, memberVars
<1>2. /\ cancelled => members = {}
      /\ requests.announce \/ (\E job \in requests.ejects : job.cause = "cancelled") => cancelled
      /\ cancelled /\ ~requests.announce =>
           "TOURNAMENT_CANCELLED" \in history.lost \/ Untold = {} \/ Ahead
    BY DEF Tells
<1>. QED
    BY <1>1, <1>2 DEF Tells, memberVars

(* Whoever is put out because of the cancel has been told before, step by  *)
(* step.                                                                   *)
LEMMA TellsStep ==
    ASSUME SocketTypes, OtherTypes, Tells, Next
    PROVE  Tells'
<1>0. /\ cancelled => members = {}
      /\ requests.announce \/ (\E job \in requests.ejects : job.cause = "cancelled") => cancelled
      /\ Queued
      /\ cancelled /\ ~requests.announce =>
           "TOURNAMENT_CANCELLED" \in history.lost \/ Untold = {} \/ Ahead
    BY DEF Tells
<1>1. ASSUME NEW s \in Sockets, NEW u \in Users \cup {None}, Connect(s, u) PROVE Tells'
    BY <1>1, TellsFrame DEF Connect, clientVars, Untold
<1>2. ASSUME NEW s \in Sockets, AskToJoin(s) \/ LeaveRoom(s) \/ Disconnect(s) PROVE Tells'
    <2>1. UNCHANGED <<memberVars, queue, history.lost>>
        BY <1>2 DEF AskToJoin, LeaveRoom, Disconnect, NoteRace, OtherTypes
    <2>2. Untold' \subseteq Untold
        BY <1>2 DEF AskToJoin, LeaveRoom, Disconnect, Forget, socketVars, clientVars, Untold
    <2>. QED
        BY <2>1, <2>2, TellsFrame
<1>3. ASSUME NEW s \in Sockets, EnterRoom(s) PROVE Tells'
    <2>1. cancelled => Untold' \subseteq Untold
        BY <1>0, <1>3 DEF EnterRoom, Untold
    <2>. QED
        BY <1>3, <2>1, TellsFrame DEF EnterRoom
<1>4. ASSUME NEW s \in Sockets,
             \/ ReadMember(s) \/ RefuseJoin(s) \/ AddUser(s)
             \/ \E k \in Kinds : CountSockets(s, k) \/ DeleteKey(s, k) \/ RemoveUser(s, k)
      PROVE  Tells'
    <2>1. UNCHANGED <<memberVars, queue, history, Untold>>
        BY <1>4 DEF ReadMember, RefuseJoin, AddUser, CountSockets, DeleteKey, RemoveUser,
            socketVars, clientVars, Untold
    <2>. QED
        BY <2>1, TellsFrame
<1>5. ASSUME NEW s \in Sockets, NEW k \in Kinds, EmitPresence(s, k) PROVE Tells'
    <2>. DEFINE job == [event |-> "PRESENCE_UPDATED", count |-> ActiveCount(s)]
    <2>1. job \in Counts /\ job \in Jobs
        BY Numbers DEF ActiveCount, OtherTypes, Counts, Jobs
    <2>2. job \notin Announcements /\ job \notin OfCancel
        BY <2>1, JobKinds, OfCancelIs
    <2>3. UNCHANGED <<memberVars, Untold>>
        BY <1>5 DEF EmitPresence, clientVars, Untold
    <2>4. Broadcast(job) /\ queue \in Seq(Jobs)
        BY <1>5 DEF EmitPresence, OtherTypes
    <2>5. "TOURNAMENT_CANCELLED" \in history.lost => "TOURNAMENT_CANCELLED" \in history'.lost
        BY <2>4 DEF Broadcast, OtherTypes
    <2>. HIDE DEF job
    <2>6. Queued' /\ (Ahead => Ahead')
        <3>1. CASE queue' = Append(queue, job)
            BY <1>0, <2>1, <2>2, <2>3, <2>4, <3>1, AheadAdded DEF memberVars
        <3>2. CASE queue' = queue
            BY <1>0, <2>3, <3>2 DEF Queued, Ahead, memberVars
        <3>. QED
            BY <2>4, <3>1, <3>2 DEF Broadcast
    <2>. QED
        BY <1>0, <2>3, <2>5, <2>6 DEF Tells, memberVars
<1>6. ASSUME NEW u \in Users, Join(u) PROVE Tells'
    <2>1. ~cancelled /\ UNCHANGED <<cancelled, requests, queue>>
        BY <1>6 DEF Join
    <2>2. Queued'
        BY <1>0, <2>1 DEF Queued
    <2>. QED
        BY <1>0, <2>1, <2>2 DEF Tells
<1>7. ASSUME NEW u \in Users, Leave(u) PROVE Tells'
    <2>1. /\ ~cancelled /\ UNCHANGED <<cancelled, queue>> /\ requests'.announce = requests.announce
          /\ requests'.ejects = requests.ejects \cup {[eject |-> u, cause |-> "left"]}
        BY <1>0, <1>7 DEF Leave, EjectsOfLeave, OtherTypes
    <2>2. Queued'
        BY <1>0, <2>1 DEF Queued
    <2>3. \A job \in requests'.ejects : job.cause = "cancelled" => job \in requests.ejects
        BY <2>1
    <2>. QED
        BY <1>0, <2>1, <2>2, <2>3 DEF Tells
<1>8. CASE Cancel
    <2>1. ~cancelled /\ cancelled' /\ members' = {} /\ requests'.announce /\ UNCHANGED queue
        BY <1>8 DEF Cancel
    <2>2. Queued'
        BY <1>0, <2>1 DEF Queued
    <2>. QED
        BY <2>1, <2>2 DEF Tells
<1>9. CASE EmitCancelled
    <2>. DEFINE job == [event |-> "TOURNAMENT_CANCELLED"]
    <2>1. job \in Announcements /\ job \in Jobs /\ job.event = "TOURNAMENT_CANCELLED"
        BY DEF Announcements, Jobs
    <2>2. job \notin OfCancel
        BY <2>1, JobKinds, OfCancelIs
    <2>3. /\ requests.announce /\ ~requests'.announce /\ requests'.ejects = requests.ejects
          /\ UNCHANGED <<members, cancelled>> /\ Broadcast(job) /\ queue \in Seq(Jobs)
        BY <1>9 DEF EmitCancelled, OtherTypes
    <2>4. \A i \in 1..Len(queue) : queue[i] \notin OfCancel
        BY <1>0, <2>3 DEF Queued
    <2>. HIDE DEF job
    <2>5. CASE queue' = Append(queue, job)
        <3>1. Ahead'
            BY <2>1, <2>3, <2>4, <2>5, AheadAdded
        <3>2. Queued'
            BY <1>0, <2>3 DEF Queued
        <3>. QED
            BY <1>0, <2>3, <3>1, <3>2 DEF Tells
    <2>6. CASE queue' = queue /\ history' = [history EXCEPT !.lost = @ \cup {job.event}]
        <3>1. "TOURNAMENT_CANCELLED" \in history'.lost
            BY <2>1, <2>6 DEF OtherTypes
        <3>2. Queued'
            BY <2>4, <2>6 DEF Queued
        <3>. QED
            BY <1>0, <2>3, <3>1, <3>2 DEF Tells
    <2>. QED
        BY <2>3, <2>5, <2>6 DEF Broadcast
<1>10. CASE EnqueueEject
    <2>1. PICK job \in requests.ejects : /\ requests' = [requests EXCEPT !.ejects = @ \ {job}]
              /\ queue' = Append(queue, job) /\ AfterAnnouncement(job)
        BY <1>10 DEF EnqueueEject
    <2>2. /\ job \in Jobs /\ queue \in Seq(Jobs)
          /\ requests'.ejects \subseteq requests.ejects /\ requests'.announce = requests.announce
        BY <2>1 DEF OtherTypes, Jobs, Ejections
    <2>3. job \in OfCancel => cancelled /\ ~requests.announce
        BY <1>0, <2>1, OfCancelIs DEF AfterAnnouncement
    <2>4. UNCHANGED <<members, cancelled, history, Untold>>
        BY <1>10 DEF EnqueueEject, socketVars, clientVars, Untold
    <2>5. Queued' /\ (Ahead => Ahead')
        BY <1>0, <2>1, <2>2, <2>3, <2>4, AheadAdded
    <2>. QED
        BY <1>0, <2>2, <2>4, <2>5 DEF Tells
<1>11. CASE Emit
    <2>1. queue[1] \in Jobs /\ Head(queue) = queue[1] /\ queue \in Seq(Jobs) /\ queue # <<>>
          /\ queue' = Tail(queue)
        BY <1>11, Taken DEF Emit, OtherTypes
    <2>2. UNCHANGED <<memberVars, history, room, slipped>> /\ heard \subseteq heard'
        BY <1>11 DEF Emit, socketVars
    <2>3. Untold' \subseteq Untold
        BY <2>2 DEF Untold
    <2>4. Head(queue) \in Announcements => Untold' = {}
        <3>1. ASSUME Head(queue) \in Announcements PROVE heard' = heard \cup room
            BY <1>11, <3>1 DEF Emit, Announcements
        <3>. QED
            BY <2>2, <3>1 DEF Untold
    <2>5. Queued' /\ (Ahead => Ahead' \/ Untold' = {})
        BY <1>0, <2>1, <2>2, <2>4, AheadTaken DEF memberVars
    <2>. QED
        BY <1>0, <2>2, <2>3, <2>5 DEF Tells, memberVars
<1>12. CASE EjectFromRoom
    <2>1. queue[1] \in Jobs /\ Head(queue) = queue[1] /\ queue \in Seq(Jobs) /\ queue # <<>>
          /\ queue' = Tail(queue)
        BY <1>12, Taken DEF EjectFromRoom, OtherTypes
    <2>2. Head(queue) \notin Announcements
        BY <1>12, <2>1, JobKinds DEF EjectFromRoom
    <2>3. UNCHANGED <<memberVars, history>> /\ Untold' \subseteq Untold
        BY <1>12 DEF EjectFromRoom, Forget, Untold
    <2>4. Queued' /\ (Ahead => Ahead')
        BY <1>0, <2>1, <2>2, <2>3, AheadTaken DEF memberVars
    <2>. QED
        BY <1>0, <2>3, <2>4 DEF Tells, memberVars
<1>. QED
    BY <1>1, <1>2, <1>3, <1>4, <1>5, <1>6, <1>7, <1>8, <1>9, <1>10, <1>11, <1>12 DEF Next, HandlerStep

-----------------------------------------------------------------------------
(* The count that is shown.                                                *)

(* A job is added: the count of Redis, or no count.                        *)
LEMMA CountAdded ==
    ASSUME queue \in Seq(Jobs), NEW job \in Jobs, queue' = Append(queue, job), UNCHANGED userSet,
           \/ job \in Counts /\ job.count = Cardinality(userSet)
           \/ job \notin Counts /\ Current /\ UNCHANGED <<room, shown>>
    PROVE  Current'
<1>. DEFINE n == Len(queue)
            m == Len(queue')
            N == Cardinality(userSet)
<1>1. /\ n \in Nat /\ m = n + 1 /\ queue'[m] = job /\ m \in 1..m
      /\ \A i \in 1..n : i \in 1..m /\ queue'[i] = queue[i]
      /\ \A i \in 1..m : i = m \/ i \in 1..n
    BY Added
<1>2. N' = N
    OBVIOUS
<1>. HIDE DEF n, m, N
<1>3. CASE job \in Counts /\ job.count = N
    <2>1. ASSUME NEW i \in 1..m, \A j \in 1..m : queue'[j] \in Counts => j <= i PROVE i = m
        <3>1. m <= i
            BY <1>1, <1>3, <2>1
        <3>. QED
            BY <1>1, <3>1
    <2>2. LastCount'
        BY <1>1, <1>2, <1>3, <2>1 DEF LastCount, m, N
    <2>3. ~NoCount'
        BY <1>1, <1>3 DEF NoCount, m
    <2>. QED
        BY <2>2, <2>3 DEF Current
<1>4. CASE job \notin Counts /\ Current /\ UNCHANGED <<room, shown>>
    <2>1. ASSUME NEW i \in 1..m, queue'[i] \in Counts, \A j \in 1..m : queue'[j] \in Counts => j <= i
          PROVE  queue'[i].count = N
        <3>1. i \in 1..n /\ queue'[i] = queue[i]
            BY <1>1, <1>4, <2>1
        <3>2. \A j \in 1..n : queue[j] \in Counts => j <= i
            BY <1>1, <2>1
        <3>. QED
            BY <1>4, <2>1, <3>1, <3>2 DEF Current, LastCount, n, N
    <2>2. LastCount'
        BY <1>2, <2>1 DEF LastCount, m, N
    <2>3. NoCount' => NoCount
        BY <1>1 DEF NoCount, n, m
    <2>. QED
        BY <1>2, <1>4, <2>2, <2>3 DEF Current, N
<1>. QED
    BY <1>3, <1>4 DEF N

(* The first job is taken; if it is a count, it is shown.                  *)
LEMMA CountTaken ==
    ASSUME Current, queue \in Seq(Jobs), queue # <<>>, queue' = Tail(queue), UNCHANGED userSet,
           room' \subseteq room,
           IF Head(queue) \in Counts THEN \A s \in room' : shown'[s] = Head(queue).count
           ELSE \A s \in room' : shown'[s] = shown[s]
    PROVE  Current'
<1>. DEFINE n == Len(queue)
            m == Len(queue')
            N == Cardinality(userSet)
<1>1. /\ n \in Nat /\ m = n - 1 /\ Head(queue) = queue[1] /\ 1 \in 1..n
      /\ \A i \in 1..m : i + 1 \in 1..n /\ queue'[i] = queue[i + 1]
      /\ \A i \in 1..n : i = 1 \/ i - 1 \in 1..m
    BY Taken
<1>2. N' = N
    OBVIOUS
<1>. HIDE DEF n, m, N
<1>3. \A j \in 1..n : j = 1 \/ \E h \in 1..m : j = h + 1 /\ queue'[h] = queue[j]
    <2>. SUFFICES ASSUME NEW j \in 1..n, j # 1
                  PROVE  \E h \in 1..m : j = h + 1 /\ queue'[h] = queue[j]
        OBVIOUS
    <2>1. PICK h \in 1..m : h = j - 1
        BY <1>1
    <2>2. h + 1 = j
        BY <1>1, <2>1
    <2>3. queue'[h] = queue[h + 1]
        BY <1>1
    <2>. QED
        BY <2>2, <2>3
<1>4. ASSUME NEW i \in 1..m, queue'[i] \in Counts, \A j \in 1..m : queue'[j] \in Counts => j <= i
      PROVE  queue'[i].count = N
    <2>1. i + 1 \in 1..n /\ queue'[i] = queue[i + 1]
        BY <1>1
    <2>2. ASSUME NEW j \in 1..n, queue[j] \in Counts PROVE j <= i + 1
        <3>1. CASE j = 1
            BY <1>1, <3>1
        <3>2. CASE j # 1
            <4>1. PICK h \in 1..m : j = h + 1 /\ queue'[h] = queue[j]
                BY <1>3, <3>2
            <4>2. h <= i
                BY <1>4, <2>2, <4>1
            <4>. QED
                BY <1>1, <4>1, <4>2
        <3>. QED
            BY <3>1, <3>2
    <2>3. LastCount
        BY DEF Current
    <2>. QED
        BY <1>4, <2>1, <2>2, <2>3 DEF LastCount, n, N
<1>5. LastCount'
    BY <1>2, <1>4 DEF LastCount, m, N
<1>6. ASSUME NoCount' PROVE \A s \in room' : shown'[s] = N
    <2>1. CASE queue[1] \in Counts
        <3>1. \A j \in 1..n : queue[j] \in Counts => j <= 1
            BY <1>1, <1>3, <1>6 DEF NoCount, m
        <3>2. queue[1].count = N
            BY <1>1, <2>1, <3>1 DEF Current, LastCount, n, N
        <3>. QED
            BY <1>1, <2>1, <3>2
    <2>2. CASE queue[1] \notin Counts
        <3>1. NoCount
            BY <1>3, <1>6, <2>2 DEF NoCount, n, m
        <3>. QED
            BY <1>1, <2>2, <3>1 DEF Current, N
    <2>. QED
        BY <2>1, <2>2
<1>. QED
    BY <1>2, <1>5, <1>6 DEF Current, N

(* Nothing is sent.                                                        *)
LEMMA CountFrame ==
    ASSUME Current, UNCHANGED <<queue, userSet>>, room' \subseteq room,
           \A s \in room' : shown'[s] = shown[s]
    PROVE  Current'
BY DEF Current, LastCount, NoCount

(* The room shows the count once all is quiet, step by step.               *)
LEMMA ShowsStep ==
    ASSUME SocketTypes, OtherTypes, Shows, Next
    PROVE  Shows'
<1>0. queue \in Seq(Jobs) /\ handlers \in [Sockets -> [Kinds -> Steps]]
    BY DEF OtherTypes, SocketTypes
<1>00. /\ {"idle", "readingMember", "checkingElsewhere", "addingUser",
          "countingSockets", "deletingKey", "removingUser", "counting"} \subseteq Steps
       /\ {"join", "leave", "disconnect"} \subseteq Kinds
    BY DEF Steps, Kinds
<1>1. ASSUME Settling => Settling', UNCHANGED <<queue, userSet, history.lost>>, room' \subseteq room,
             \A s \in room' : shown'[s] = shown[s]
      PROVE  Shows'
    BY <1>1, CountFrame DEF Shows
<1>2. ASSUME NEW s \in Sockets, NEW k \in Kinds, NEW pc \in Steps, Goto(s, k, pc),
             pc \in Removing \cup {"addingUser", "counting"}
      PROVE  Shows'
    <2>1. handlers'[s][k] = pc
        BY <1>0, <1>2, GoneTo
    <2>. QED
        BY <1>2, <2>1 DEF Shows, Settling
<1>3. ASSUME NEW s \in Sockets, NEW k \in Kinds, NEW pc \in Steps, Goto(s, k, pc),
             handlers[s][k] \notin Removing \cup {"addingUser", "counting"}
      PROVE  Settling => Settling'
    <2>1. \A t \in Sockets : \A l \in Kinds : (t = s /\ l = k) \/ handlers'[t][l] = handlers[t][l]
        BY <1>0, <1>3, GoneTo
    <2>. QED
        BY <1>3, <2>1 DEF Settling
<1>4. ASSUME UNCHANGED handlers PROVE Settling => Settling'
    BY <1>4 DEF Settling
<1>5. ASSUME NEW s \in Sockets, NEW u \in Users \cup {None}, Connect(s, u) PROVE Shows'
    BY <1>1, <1>4, <1>5 DEF Connect, presenceVars, clientVars
<1>6. ASSUME NEW s \in Sockets, AskToJoin(s) \/ ReadMember(s) \/ RefuseJoin(s) PROVE Shows'
    <2>1. UNCHANGED <<queue, userSet, history.lost, room, shown>>
        BY <1>6 DEF AskToJoin, ReadMember, RefuseJoin, socketVars, presenceVars, clientVars, NoteRace, OtherTypes
    <2>2. PICK pc \in Steps : Goto(s, "join", pc)
        BY <1>00, <1>6 DEF AskToJoin, ReadMember, RefuseJoin
    <2>3. handlers[s]["join"] \notin Removing \cup {"addingUser", "counting"}
        BY <1>6 DEF AskToJoin, ReadMember, RefuseJoin, At, Removing
    <2>4. Settling => Settling'
        BY <1>00, <1>3, <2>2, <2>3
    <2>. QED
        BY <1>1, <2>1, <2>4
<1>7. ASSUME NEW s \in Sockets, EnterRoom(s) \/ AddUser(s) \/ LeaveRoom(s) PROVE Shows'
    BY <1>00, <1>2, <1>7 DEF EnterRoom, AddUser, LeaveRoom, Removing
<1>8. ASSUME NEW s \in Sockets, NEW k \in Kinds, CountSockets(s, k) \/ DeleteKey(s, k) \/ RemoveUser(s, k)
      PROVE  Shows'
    BY <1>00, <1>2, <1>8 DEF CountSockets, DeleteKey, RemoveUser, AfterSocketRemoved, Removing
<1>9. ASSUME NEW s \in Sockets, Disconnect(s) PROVE Shows'
    <2>1. CASE joined[s] > 0
        BY <1>00, <1>2, <1>9, <2>1 DEF Disconnect, RemoveJoined, Removing
    <2>2. CASE ~(joined[s] > 0)
        <3>1. Goto(s, "disconnect", "idle") /\ handlers[s]["disconnect"] = "idle"
            BY <1>9, <2>2 DEF Disconnect, RemoveJoined, SocketTypes, At
        <3>2. Settling => Settling'
            BY <1>00, <1>3, <3>1 DEF Removing
        <3>3. UNCHANGED <<queue, userSet, history.lost>> /\ room' \subseteq room
              /\ \A t \in room' : shown'[t] = shown[t]
            BY <1>9 DEF Disconnect, NoteRace, Forget, OtherTypes, SocketTypes
        <3>. QED
            BY <1>1, <3>2, <3>3
    <2>. QED
        BY <2>1, <2>2
<1>10. ASSUME NEW s \in Sockets, NEW k \in Kinds, EmitPresence(s, k) PROVE Shows'
    <2>. DEFINE job == [event |-> "PRESENCE_UPDATED", count |-> Cardinality(userSet)]
    <2>1. Cardinality(userSet) \in Nat
        BY Numbers DEF OtherTypes
    <2>2. /\ job \in Counts /\ job \in Jobs /\ Broadcast(job) /\ job.event = "PRESENCE_UPDATED"
          /\ job.count = Cardinality(userSet) /\ UNCHANGED userSet
        BY <1>10, <2>1 DEF EmitPresence, ActiveCount, Counts, Jobs
    <2>. HIDE DEF job
    <2>3. CASE queue' = Append(queue, job)
        BY <1>0, <2>2, <2>3, CountAdded DEF Shows
    <2>4. CASE history' = [history EXCEPT !.lost = @ \cup {job.event}]
        BY <2>2, <2>4 DEF Shows, OtherTypes
    <2>. QED
        BY <2>2, <2>3, <2>4 DEF Broadcast
<1>11. ASSUME UNCHANGED <<handlers, presenceVars, room, shown, queue, history>> PROVE Shows'
    BY <1>1, <1>4, <1>11 DEF presenceVars
<1>12. CASE \E u \in Users : Join(u) \/ Leave(u)
    BY <1>11, <1>12 DEF Join, Leave, socketVars, clientVars
<1>13. CASE Cancel
    BY <1>11, <1>13 DEF Cancel, socketVars, clientVars
<1>14. ASSUME NEW job \in Jobs, job \notin Counts, queue' = Append(queue, job),
              UNCHANGED <<handlers, userSet, room, shown>>,
              "PRESENCE_UPDATED" \in history.lost => "PRESENCE_UPDATED" \in history'.lost
       PROVE  Shows'
    BY <1>0, <1>4, <1>14, CountAdded DEF Shows
<1>15. CASE EmitCancelled
    <2>. DEFINE job == [event |-> "TOURNAMENT_CANCELLED"]
    <2>1. job \in Announcements /\ job \in Jobs /\ job.event = "TOURNAMENT_CANCELLED"
        BY DEF Announcements, Jobs
    <2>2. job \notin Counts /\ Broadcast(job)
        BY <1>15, <2>1, JobKinds DEF EmitCancelled
    <2>3. UNCHANGED <<handlers, userSet, room, shown>>
        BY <1>15 DEF EmitCancelled, socketVars, presenceVars, clientVars
    <2>. HIDE DEF job
    <2>4. "PRESENCE_UPDATED" \in history.lost => "PRESENCE_UPDATED" \in history'.lost
        BY <2>1, <2>2 DEF Broadcast, OtherTypes
    <2>5. CASE queue' = queue
        <3>1. Current => Current'
            BY <2>3, <2>5, CountFrame
        <3>. QED
            BY <1>4, <2>3, <2>4, <3>1 DEF Shows
    <2>. QED
        BY <1>14, <2>1, <2>2, <2>3, <2>4, <2>5 DEF Broadcast
<1>16. CASE EnqueueEject
    <2>1. PICK job \in requests.ejects : queue' = Append(queue, job)
        BY <1>16 DEF EnqueueEject
    <2>2. job \in Jobs /\ job \in Ejections
        BY <2>1 DEF OtherTypes, Jobs, Ejections
    <2>3. job \notin Counts
        BY <2>2, JobKinds
    <2>. QED
        BY <1>14, <1>16, <2>1, <2>2, <2>3 DEF EnqueueEject, socketVars, presenceVars, clientVars
<1>17. CASE Emit
    <2>1. queue[1] \in Jobs /\ Head(queue) = queue[1] /\ queue # <<>> /\ queue' = Tail(queue)
        BY <1>0, <1>17, Taken DEF Emit
    <2>2. UNCHANGED <<handlers, userSet, room, history>> /\ room \subseteq Sockets
        BY <1>17 DEF Emit, socketVars, presenceVars, SocketTypes
    <2>3. IF Head(queue) \in Counts THEN \A s \in room' : shown'[s] = Head(queue).count
          ELSE \A s \in room' : shown'[s] = shown[s]
        <3>1. Head(queue) \in Counts <=> Head(queue).event = "PRESENCE_UPDATED"
            BY <1>17, <2>1, JobKinds DEF Emit
        <3>. QED
            BY <1>17, <2>2, <3>1 DEF Emit
    <2>4. Current => Current'
        BY <1>0, <2>1, <2>2, <2>3, CountTaken
    <2>. QED
        BY <1>4, <2>2, <2>4 DEF Shows
<1>18. CASE EjectFromRoom
    <2>1. queue[1] \in Jobs /\ Head(queue) = queue[1] /\ queue # <<>> /\ queue' = Tail(queue)
        BY <1>0, <1>18, Taken DEF EjectFromRoom
    <2>2. Head(queue) \notin Counts
        BY <1>18, <2>1, JobKinds DEF EjectFromRoom
    <2>3. UNCHANGED <<handlers, userSet, history>>
        BY <1>18 DEF EjectFromRoom, presenceVars
    <2>4. room' \subseteq room /\ \A s \in room' : shown'[s] = shown[s]
        BY <1>18 DEF EjectFromRoom, Forget, SocketTypes
    <2>5. Current => Current'
        BY <1>0, <2>1, <2>2, <2>3, <2>4, CountTaken
    <2>. QED
        BY <1>4, <2>3, <2>5 DEF Shows
<1>. QED
    BY <1>5, <1>6, <1>7, <1>8, <1>9, <1>10, <1>12, <1>13, <1>15, <1>16, <1>17, <1>18 DEF Next, HandlerStep

-----------------------------------------------------------------------------
(* Who is online.                                                          *)

(* The updates of the others leave v alone.                                *)
LEMMA Elsewhere ==
    ASSUME NEW v, Presence(v),
           \A t \in Sockets : (user'[t] = v <=> user[t] = v)
             /\ (user[t] = v => /\ \A l \in Kinds : handlers'[t][l] = handlers[t][l]
                                /\ state'[t] = state[t] /\ joined'[t] = joined[t]),
           socketSet'[v] = socketSet[v], v \in userSet' <=> v \in userSet
    PROVE  Presence(v)'
<1>1. Joined(v)' = Joined(v)
    BY DEF Joined
<1>. DEFINE J == Joined(v)
<1>2. "join" \in Kinds
    BY DEF Kinds
<1>3. J' = J
    BY <1>1
<1>. HIDE DEF J
<1>4. /\ \A s, t \in Sockets : \A k, l \in Kinds :
            ~At(s, k, "idle") /\ ~At(t, l, "idle") /\ user[s] = v /\ user[t] = v => s = t /\ k = l
      /\ \A s \in Sockets : user[s] = v /\ ~At(s, "join", "idle") => state[s] = "open"
      /\ socketSet[v] = J
      /\ J # {} => v \in userSet \/ \E s \in Sockets : user[s] = v /\ At(s, "join", "addingUser")
      /\ J = {} => v \notin userSet
             \/ \E s \in Sockets, k \in Kinds : user[s] = v /\ handlers[s][k] \in Removing
      /\ \A s \in Sockets, k \in Kinds : user[s] = v =>
            /\ handlers[s][k] \in {"deletingKey", "removingUser"} => J = {}
            /\ At(s, k, "addingUser") => J # {}
    BY DEF Presence, J
<1>. QED
    BY <1>2, <1>3, <1>4 DEF Presence, At, J

(* An update of v is under way: there is no other, and what Redis has.     *)
LEMMA AloneNow ==
    ASSUME NEW v, Presence(v), NEW s \in Sockets, NEW k \in Kinds, user[s] = v, ~At(s, k, "idle")
    PROVE  /\ \A t \in Sockets : \A l \in Kinds : user[t] = v => (t = s /\ l = k) \/ handlers[t][l] = "idle"
           /\ socketSet[v] = Joined(v)
           /\ k = "join" => state[s] = "open"
           /\ Joined(v) # {} => v \in userSet \/ (k = "join" /\ handlers[s][k] = "addingUser")
           /\ Joined(v) = {} => v \notin userSet \/ handlers[s][k] \in Removing
           /\ handlers[s][k] \in {"deletingKey", "removingUser"} => Joined(v) = {}
           /\ handlers[s][k] = "addingUser" => Joined(v) # {}
<1>1. "join" \in Kinds
    BY DEF Kinds
<1>2. \A t \in Sockets : \A l \in Kinds : user[t] = v => (t = s /\ l = k) \/ handlers[t][l] = "idle"
    BY DEF Presence, At
<1>3. ASSUME NEW t \in Sockets, user[t] = v, handlers[t]["join"] = "addingUser"
      PROVE  k = "join" /\ handlers[s][k] = "addingUser"
    BY <1>1, <1>2, <1>3
<1>4. ASSUME NEW t \in Sockets, NEW l \in Kinds, user[t] = v, handlers[t][l] \in Removing
      PROVE  handlers[s][k] \in Removing
    BY <1>2, <1>4 DEF Removing
<1>5. Joined(v) # {} => v \in userSet \/ (k = "join" /\ handlers[s][k] = "addingUser")
    BY <1>3 DEF Presence, At
<1>6. Joined(v) = {} => v \notin userSet \/ handlers[s][k] \in Removing
    BY <1>4 DEF Presence
<1>7. /\ socketSet[v] = Joined(v)
      /\ k = "join" => state[s] = "open"
      /\ handlers[s][k] \in {"deletingKey", "removingUser"} => Joined(v) = {}
      /\ handlers[s][k] = "addingUser" => Joined(v) # {}
    BY DEF Presence, At
<1>. QED
    BY <1>2, <1>5, <1>6, <1>7

(* No update of v is under way: Redis is exact.                            *)
LEMMA QuietNow ==
    ASSUME NEW v, Presence(v), ~Busy(v)
    PROVE  /\ \A t \in Sockets : \A l \in Kinds : user[t] = v => handlers[t][l] = "idle"
           /\ socketSet[v] = Joined(v)
           /\ v \in userSet <=> Joined(v) # {}
<1>1. ASSUME NEW t \in Sockets, NEW l \in Kinds, user[t] = v PROVE handlers[t][l] = "idle"
    <2>1. <<t, l>> \in Sockets \X Kinds /\ <<t, l>>[1] = t /\ <<t, l>>[2] = l
        OBVIOUS
    <2>2. <<t, l>> \notin InFlight
        BY <1>1, <2>1 DEF Busy
    <2>. QED
        BY <2>1, <2>2 DEF InFlight, At
<1>2. "join" \in Kinds
    BY DEF Kinds
<1>3. socketSet[v] = Joined(v)
    BY DEF Presence
<1>4. Joined(v) # {} => v \in userSet
    BY <1>1, <1>2 DEF Presence, At
<1>5. Joined(v) = {} => v \notin userSet
    BY <1>1 DEF Presence, Removing
<1>. QED
    BY <1>1, <1>3, <1>4, <1>5

(* The update of v that has started, or has gone on.                       *)
LEMMA AloneThen ==
    ASSUME NEW v, NEW s \in Sockets, NEW k \in Kinds, user'[s] = v,
           \A t \in Sockets : \A l \in Kinds : user'[t] = v => (t = s /\ l = k) \/ handlers'[t][l] = "idle",
           socketSet'[v] = Joined(v)',
           k = "join" /\ handlers'[s][k] # "idle" => state'[s] = "open",
           Joined(v)' # {} => v \in userSet' \/ (k = "join" /\ handlers'[s][k] = "addingUser"),
           Joined(v)' = {} => v \notin userSet' \/ handlers'[s][k] \in Removing,
           handlers'[s][k] \in {"deletingKey", "removingUser"} => Joined(v)' = {},
           handlers'[s][k] = "addingUser" => Joined(v)' # {}
    PROVE  Presence(v)'
<1>. DEFINE J == Joined(v)
<1>1. "join" \in Kinds
    BY DEF Kinds
<1>2. /\ socketSet'[v] = J'
      /\ J' # {} => v \in userSet' \/ (k = "join" /\ handlers'[s][k] = "addingUser")
      /\ J' = {} => v \notin userSet' \/ handlers'[s][k] \in Removing
      /\ handlers'[s][k] \in {"deletingKey", "removingUser"} => J' = {}
      /\ handlers'[s][k] = "addingUser" => J' # {}
    OBVIOUS
<1>. HIDE DEF J
<1>3. \A t, r \in Sockets : \A l, m \in Kinds :
          handlers'[t][l] # "idle" /\ handlers'[r][m] # "idle" /\ user'[t] = v /\ user'[r] = v => t = r /\ l = m
    OBVIOUS
<1>4. \A t \in Sockets : user'[t] = v /\ handlers'[t]["join"] # "idle" => state'[t] = "open"
    BY <1>1
<1>5. J' # {} => v \in userSet' \/ \E t \in Sockets : user'[t] = v /\ handlers'[t]["join"] = "addingUser"
    BY <1>2
<1>6. J' = {} => v \notin userSet'
          \/ \E t \in Sockets, l \in Kinds : user'[t] = v /\ handlers'[t][l] \in Removing
    BY <1>2
<1>7. \A t \in Sockets, l \in Kinds : user'[t] = v =>
          /\ handlers'[t][l] \in {"deletingKey", "removingUser"} => J' = {}
          /\ handlers'[t][l] = "addingUser" => J' # {}
    BY <1>2
<1>. QED
    BY <1>2, <1>3, <1>4, <1>5, <1>6, <1>7 DEF Presence, At, J

(* Whoever asks while an update of theirs is under way has two that race.  *)
LEMMA NotBusy ==
    ASSUME OtherTypes, NEW u \in Users, NoteRace(u), u \notin history'.raced
    PROVE  ~Busy(u)
BY DEF NoteRace, OtherTypes

(* Redis has exactly the sockets that have joined, step by step.           *)
LEMMA PresenceStep ==
    ASSUME SocketTypes, OtherTypes, Next, NEW v \in Users, v \notin history'.raced,
           v \notin history.raced => Presence(v)
    PROVE  Presence(v)'
<1>0. /\ handlers \in [Sockets -> [Kinds -> Steps]] /\ joined \in [Sockets -> 0..MaxJoined] /\ MaxJoined \in Nat
      /\ user \in [Sockets -> Users \cup {None}] /\ None \notin Users
      /\ state \in [Sockets -> {"new", "open", "closed"}]
      /\ socketSet \in [Users -> SUBSET Sockets]
    BY RealtimeAssumption DEF OtherTypes, SocketTypes
<1>00. /\ {"idle", "readingMember", "checkingElsewhere", "addingUser",
          "countingSockets", "deletingKey", "removingUser", "counting"} \subseteq Steps
       /\ "join" \in Kinds /\ "leave" \in Kinds /\ "disconnect" \in Kinds
    BY DEF Steps, Kinds
<1>1. Presence(v)
    <2>1. history.raced \subseteq history'.raced
        <3>1. ASSUME NEW u, NoteRace(u) PROVE history.raced \subseteq history'.raced
            BY <3>1 DEF NoteRace, OtherTypes
        <3>2. ASSUME NEW job, Broadcast(job) PROVE history.raced \subseteq history'.raced
            BY <3>2 DEF Broadcast, OtherTypes
        <3>3. ASSUME NEW s \in Sockets,
                     AskToJoin(s) \/ LeaveRoom(s) \/ Disconnect(s) \/ \E k \in Kinds : EmitPresence(s, k)
              PROVE  history.raced \subseteq history'.raced
            BY <3>1, <3>2, <3>3 DEF AskToJoin, LeaveRoom, Disconnect, EmitPresence
        <3>4. CASE EmitCancelled
            BY <3>2, <3>4 DEF EmitCancelled
        <3>. QED
            BY <3>3, <3>4 DEF Next, HandlerStep, Connect, ReadMember, RefuseJoin, EnterRoom, AddUser,
                CountSockets, DeleteKey, RemoveUser, Join, Leave, Cancel, EnqueueEject, Emit, EjectFromRoom
    <2>. QED
        BY <2>1
<1>2. ASSUME UNCHANGED <<state, user, joined, handlers, presenceVars>> PROVE Presence(v)'
    BY <1>1, <1>2, Elsewhere DEF presenceVars
<1>3. CASE \E u \in Users : Join(u) \/ Leave(u)
    BY <1>2, <1>3 DEF Join, Leave, socketVars
<1>4. CASE Cancel \/ EmitCancelled \/ EnqueueEject
    BY <1>2, <1>4 DEF Cancel, EmitCancelled, EnqueueEject, socketVars
<1>5. CASE Emit \/ EjectFromRoom
    BY <1>2, <1>5 DEF Emit, EjectFromRoom, socketVars
<1>6. ASSUME NEW s \in Sockets, NEW u \in Users \cup {None}, Connect(s, u) PROVE Presence(v)'
    <2>1. /\ joined[s] = 0 /\ user[s] = None /\ UNCHANGED <<joined, handlers, presenceVars>>
          /\ \A k \in Kinds : handlers[s][k] = "idle"
          /\ \A t \in Sockets : t # s => user'[t] = user[t] /\ state'[t] = state[t]
        BY <1>0, <1>6 DEF Connect, SocketTypes, At
    <2>2. Joined(v)' = Joined(v)
        BY <2>1 DEF Joined
    <2>3. \A t \in Sockets : \A l \in Kinds : user'[t] = v /\ handlers[t][l] # "idle" => user[t] = v /\ t # s
        BY <2>1
    <2>4. \A t \in Sockets : user[t] = v => user'[t] = v /\ t # s
        BY <1>0, <2>1
    <2>. DEFINE J == Joined(v)
    <2>5. J' = J /\ userSet' = userSet /\ socketSet' = socketSet
        BY <2>1, <2>2 DEF presenceVars
    <2>. HIDE DEF J
    <2>6. /\ \A a, t \in Sockets : \A k, l \in Kinds :
            ~At(a, k, "idle") /\ ~At(t, l, "idle") /\ user[a] = v /\ user[t] = v => a = t /\ k = l
          /\ \A t \in Sockets : user[t] = v /\ ~At(t, "join", "idle") => state[t] = "open"
          /\ socketSet[v] = J
          /\ J # {} => v \in userSet \/ \E t \in Sockets : user[t] = v /\ At(t, "join", "addingUser")
          /\ J = {} => v \notin userSet
                 \/ \E t \in Sockets, k \in Kinds : user[t] = v /\ handlers[t][k] \in Removing
          /\ \A t \in Sockets, k \in Kinds : user[t] = v =>
                /\ handlers[t][k] \in {"deletingKey", "removingUser"} => J = {}
                /\ At(t, k, "addingUser") => J # {}
        BY <1>1 DEF Presence, J
    <2>7. J' # {} => v \in userSet' \/ \E t \in Sockets : user'[t] = v /\ At(t, "join", "addingUser")'
        BY <2>1, <2>4, <2>5, <2>6 DEF At
    <2>8. J' = {} => v \notin userSet'
             \/ \E t \in Sockets, k \in Kinds : user'[t] = v /\ handlers'[t][k] \in Removing
        BY <2>1, <2>4, <2>5, <2>6
    <2>9. \A t \in Sockets, k \in Kinds : user'[t] = v =>
                /\ handlers'[t][k] \in {"deletingKey", "removingUser"} => J' = {}
                /\ handlers'[t][k] = "addingUser" => J' # {}
        BY <2>1, <2>3, <2>5, <2>6 DEF At
    <2>10. \A t \in Sockets : user'[t] = v /\ handlers'[t]["join"] # "idle" => state'[t] = "open"
        BY <1>00, <2>1, <2>3, <2>6 DEF At
    <2>11. \A a, t \in Sockets : \A k, l \in Kinds :
            handlers'[a][k] # "idle" /\ handlers'[t][l] # "idle" /\ user'[a] = v /\ user'[t] = v => a = t /\ k = l
        BY <2>1, <2>3, <2>6 DEF At
    <2>. QED
        BY <2>5, <2>6, <2>7, <2>8, <2>9, <2>10, <2>11 DEF Presence, At, J
<1>7. ASSUME NEW s \in Sockets, NEW k \in Kinds, NEW pc \in Steps, Goto(s, k, pc), UNCHANGED user,
             user[s] # v, \A t \in Sockets : t # s => state'[t] = state[t] /\ joined'[t] = joined[t],
             socketSet'[v] = socketSet[v], v \in userSet' <=> v \in userSet
      PROVE  Presence(v)'
    <2>1. \A t \in Sockets : t # s => \A l \in Kinds : handlers'[t][l] = handlers[t][l]
        BY <1>0, <1>7, GoneTo
    <2>. QED
        BY <1>1, <1>7, <2>1, Elsewhere
<1>8. ASSUME NEW s \in Sockets, NEW k \in Kinds, NEW pc \in Steps, Goto(s, k, pc), UNCHANGED user,
             user[s] = v, ~Busy(v) \/ ~At(s, k, "idle"),
             socketSet'[v] = Joined(v)', k = "join" /\ pc # "idle" => state'[s] = "open",
             Joined(v)' # {} => v \in userSet' \/ (k = "join" /\ pc = "addingUser"),
             Joined(v)' = {} => v \notin userSet' \/ pc \in Removing,
             pc \in {"deletingKey", "removingUser"} => Joined(v)' = {},
             pc = "addingUser" => Joined(v)' # {}
      PROVE  Presence(v)'
    <2>1. \A t \in Sockets : \A l \in Kinds : user[t] = v => (t = s /\ l = k) \/ handlers[t][l] = "idle"
        BY <1>1, <1>8, AloneNow, QuietNow
    <2>2. /\ handlers'[s][k] = pc
          /\ \A t \in Sockets : \A l \in Kinds : (t = s /\ l = k) \/ handlers'[t][l] = handlers[t][l]
        BY <1>0, <1>8, GoneTo
    <2>3. \A t \in Sockets : \A l \in Kinds : user'[t] = v => (t = s /\ l = k) \/ handlers'[t][l] = "idle"
        BY <1>8, <2>1, <2>2
    <2>. QED
        BY <1>8, <2>2, <2>3, AloneThen
<1>9. ASSUME NEW s \in Sockets, AskToJoin(s) PROVE Presence(v)'
    <2>1. Goto(s, "join", "readingMember") /\ UNCHANGED <<socketVars, presenceVars>>
        BY <1>9 DEF AskToJoin
    <2>2. CASE user[s] # v
        BY <1>00, <1>7, <2>1, <2>2 DEF socketVars, presenceVars
    <2>3. CASE user[s] = v
        <3>1. ~Busy(v)
            BY <1>9, <2>3, NotBusy DEF AskToJoin
        <3>2. socketSet[v] = Joined(v) /\ (v \in userSet <=> Joined(v) # {})
            BY <1>1, <3>1, QuietNow
        <3>3. Joined(v)' = Joined(v)
            BY <2>1 DEF Joined, socketVars
        <3>4. state[s] = "open"
            BY <1>9 DEF AskToJoin, MayAsk
        <3>. QED
            BY <1>00, <1>8, <2>1, <2>3, <3>1, <3>2, <3>3, <3>4 DEF socketVars, presenceVars
    <2>. QED
        BY <2>2, <2>3
<1>10. ASSUME NEW s \in Sockets, ReadMember(s) \/ RefuseJoin(s) PROVE Presence(v)'
    <2>1. PICK pc \in {"idle", "checkingElsewhere"} : Goto(s, "join", pc)
        BY <1>10 DEF ReadMember, RefuseJoin
    <2>2. /\ UNCHANGED <<socketVars, presenceVars>> /\ pc \in Steps /\ ~At(s, "join", "idle")
          /\ handlers[s]["join"] \in {"readingMember", "checkingElsewhere"}
        BY <1>00, <1>10 DEF ReadMember, RefuseJoin, At
    <2>3. CASE user[s] # v
        BY <1>00, <1>7, <2>1, <2>2, <2>3 DEF socketVars, presenceVars
    <2>4. CASE user[s] = v
        <3>1. socketSet[v] = Joined(v) /\ (v \in userSet <=> Joined(v) # {}) /\ state[s] = "open"
            BY <1>00, <1>1, <2>2, <2>4, AloneNow DEF Removing
        <3>2. Joined(v)' = Joined(v)
            BY <2>2 DEF Joined, socketVars
        <3>. QED
            BY <1>00, <1>8, <2>1, <2>2, <2>4, <3>1, <3>2 DEF socketVars, presenceVars
    <2>. QED
        BY <2>3, <2>4
<1>11. ASSUME NEW s \in Sockets, EnterRoom(s) PROVE Presence(v)'
    <2>1. /\ Goto(s, "join", "addingUser") /\ UNCHANGED <<state, user, userSet>>
          /\ socketSet' = [socketSet EXCEPT ![user[s]] = @ \cup {s}]
          /\ \A t \in Sockets : t # s => joined'[t] = joined[t]
          /\ handlers[s]["join"] = "checkingElsewhere" /\ ~At(s, "join", "idle")
        BY <1>0, <1>11 DEF EnterRoom, At
    <2>2. CASE user[s] # v
        <3>1. socketSet'[v] = socketSet[v]
            BY <1>0, <2>1, <2>2
        <3>. QED
            BY <1>00, <1>7, <2>1, <2>2, <3>1
    <2>3. CASE user[s] = v
        <3>1. socketSet[v] = Joined(v) /\ state[s] = "open"
            BY <1>00, <1>1, <2>1, <2>3, AloneNow
        <3>2. joined'[s] = joined[s] + 1 /\ joined[s] \in Nat
            BY <1>0, <1>11, <3>1 DEF EnterRoom
        <3>3. Joined(v)' = Joined(v) \cup {s}
            BY <2>1, <2>3, <3>1, <3>2 DEF Joined
        <3>4. socketSet'[v] = socketSet[v] \cup {s}
            BY <1>0, <2>1, <2>3
        <3>. QED
            BY <1>00, <1>8, <2>1, <2>3, <3>1, <3>3, <3>4
    <2>. QED
        BY <2>2, <2>3
<1>12. ASSUME NEW s \in Sockets, AddUser(s) PROVE Presence(v)'
    <2>1. /\ Goto(s, "join", "counting") /\ UNCHANGED <<socketVars, socketSet>>
          /\ userSet' = userSet \cup {user[s]}
          /\ handlers[s]["join"] = "addingUser" /\ ~At(s, "join", "idle")
        BY <1>12 DEF AddUser, At
    <2>2. CASE user[s] # v
        BY <1>00, <1>7, <2>1, <2>2 DEF socketVars
    <2>3. CASE user[s] = v
        <3>1. socketSet[v] = Joined(v) /\ state[s] = "open" /\ Joined(v) # {}
            BY <1>00, <1>1, <2>1, <2>3, AloneNow
        <3>2. Joined(v)' = Joined(v)
            BY <2>1 DEF Joined, socketVars
        <3>. QED
            BY <1>00, <1>8, <2>1, <2>3, <3>1, <3>2 DEF socketVars
    <2>. QED
        BY <2>2, <2>3
<1>13. ASSUME NEW s \in Sockets, NEW k \in Kinds, CountSockets(s, k) PROVE Presence(v)'
    <2>1. /\ Goto(s, k, AfterSocketRemoved(s)) /\ UNCHANGED <<socketVars, presenceVars>>
          /\ handlers[s][k] = "countingSockets" /\ ~At(s, k, "idle") /\ AfterSocketRemoved(s) \in Steps
        BY <1>00, <1>13 DEF CountSockets, At, AfterSocketRemoved
    <2>2. CASE user[s] # v
        BY <1>7, <2>1, <2>2 DEF socketVars, presenceVars
    <2>3. CASE user[s] = v
        <3>1. /\ socketSet[v] = Joined(v) /\ (k = "join" => state[s] = "open")
              /\ Joined(v) # {} => v \in userSet
            BY <1>1, <2>1, <2>3, AloneNow
        <3>2. Joined(v)' = Joined(v)
            BY <2>1 DEF Joined, socketVars
        <3>3. AfterSocketRemoved(s) = IF Joined(v) = {} THEN "deletingKey" ELSE "counting"
            BY <2>3, <3>1 DEF AfterSocketRemoved
        <3>. QED
            BY <1>8, <2>1, <2>3, <3>1, <3>2, <3>3 DEF socketVars, presenceVars, Removing
    <2>. QED
        BY <2>2, <2>3
<1>14. ASSUME NEW s \in Sockets, NEW k \in Kinds, DeleteKey(s, k) PROVE Presence(v)'
    <2>1. /\ Goto(s, k, "removingUser") /\ UNCHANGED <<socketVars, userSet>>
          /\ socketSet' = [socketSet EXCEPT ![user[s]] = {}]
          /\ handlers[s][k] = "deletingKey" /\ ~At(s, k, "idle")
        BY <1>14 DEF DeleteKey, At
    <2>2. CASE user[s] # v
        <3>1. socketSet'[v] = socketSet[v]
            BY <1>0, <2>1, <2>2
        <3>. QED
            BY <1>00, <1>7, <2>1, <2>2, <3>1 DEF socketVars
    <2>3. CASE user[s] = v
        <3>1. Joined(v) = {} /\ (k = "join" => state[s] = "open")
            BY <1>1, <2>1, <2>3, AloneNow
        <3>2. Joined(v)' = Joined(v) /\ socketSet'[v] = {}
            BY <1>0, <2>1, <2>3 DEF Joined, socketVars
        <3>. QED
            BY <1>00, <1>8, <2>1, <2>3, <3>1, <3>2 DEF socketVars, Removing
    <2>. QED
        BY <2>2, <2>3
<1>15. ASSUME NEW s \in Sockets, NEW k \in Kinds, RemoveUser(s, k) PROVE Presence(v)'
    <2>1. /\ Goto(s, k, "counting") /\ UNCHANGED <<socketVars, socketSet>>
          /\ userSet' = userSet \ {user[s]}
          /\ handlers[s][k] = "removingUser" /\ ~At(s, k, "idle")
        BY <1>15 DEF RemoveUser, At
    <2>2. CASE user[s] # v
        BY <1>00, <1>7, <2>1, <2>2 DEF socketVars
    <2>3. CASE user[s] = v
        <3>1. Joined(v) = {} /\ (k = "join" => state[s] = "open") /\ socketSet[v] = Joined(v)
            BY <1>1, <2>1, <2>3, AloneNow
        <3>2. Joined(v)' = Joined(v)
            BY <2>1 DEF Joined, socketVars
        <3>. QED
            BY <1>00, <1>8, <2>1, <2>3, <3>1, <3>2 DEF socketVars
    <2>. QED
        BY <2>2, <2>3
<1>16. ASSUME NEW s \in Sockets, NEW k \in Kinds, EmitPresence(s, k) PROVE Presence(v)'
    <2>1. /\ UNCHANGED <<state, user, userSet>> /\ handlers[s][k] = "counting" /\ ~At(s, k, "idle")
          /\ IF k = "disconnect" THEN RemoveJoined(s)
             ELSE Goto(s, k, "idle") /\ UNCHANGED <<joined, socketSet>>
        BY <1>16 DEF EmitPresence, At
    <2>2. user[s] = v => /\ socketSet[v] = Joined(v) /\ (v \in userSet <=> Joined(v) # {})
                         /\ (k = "join" => state[s] = "open")
        BY <1>1, <2>1, AloneNow DEF Removing
    <2>3. ASSUME Goto(s, k, "idle"), UNCHANGED <<joined, socketSet>> PROVE Presence(v)'
        <3>1. Joined(v)' = Joined(v)
            BY <2>1, <2>3 DEF Joined
        <3>2. CASE user[s] # v
            BY <1>00, <1>7, <2>1, <2>3, <3>2
        <3>3. CASE user[s] = v
            BY <1>00, <1>8, <2>1, <2>2, <2>3, <3>1, <3>3
        <3>. QED
            BY <3>2, <3>3
    <2>4. CASE k = "disconnect" /\ joined[s] > 0
        <3>1. /\ joined' = [joined EXCEPT ![s] = @ - 1] /\ Goto(s, k, "countingSockets")
              /\ socketSet' = [socketSet EXCEPT ![user[s]] = @ \ {s}]
            BY <2>1, <2>4 DEF RemoveJoined
        <3>2. state[s] = "closed"
            BY <2>1, <2>4 DEF SocketTypes
        <3>3. Joined(v)' = Joined(v) /\ s \notin Joined(v)
            BY <1>0, <2>1, <3>1, <3>2 DEF Joined
        <3>4. CASE user[s] # v
            <4>1. socketSet'[v] = socketSet[v] /\ \A t \in Sockets : t # s => joined'[t] = joined[t]
                BY <1>0, <3>1, <3>4
            <4>. QED
                BY <1>00, <1>7, <2>1, <3>1, <3>4, <4>1
        <3>5. CASE user[s] = v
            <4>1. socketSet'[v] = Joined(v)
                BY <1>0, <2>2, <3>1, <3>3, <3>5
            <4>. QED
                BY <1>00, <1>8, <2>1, <2>2, <2>4, <3>1, <3>3, <3>5, <4>1 DEF Removing
        <3>. QED
            BY <3>4, <3>5
    <2>. QED
        BY <2>1, <2>3, <2>4 DEF RemoveJoined
<1>17. ASSUME NEW s \in Sockets, LeaveRoom(s) PROVE Presence(v)'
    <2>1. /\ Goto(s, "leave", "countingSockets") /\ UNCHANGED <<state, user, userSet>>
          /\ joined' = [joined EXCEPT ![s] = 0] /\ NoteRace(user[s])
          /\ socketSet' = [socketSet EXCEPT ![user[s]] = @ \ {s}]
        BY <1>17 DEF LeaveRoom
    <2>2. CASE user[s] # v
        <3>1. socketSet'[v] = socketSet[v] /\ \A t \in Sockets : t # s => joined'[t] = joined[t]
            BY <1>0, <2>1, <2>2
        <3>. QED
            BY <1>00, <1>7, <2>1, <2>2, <3>1
    <2>3. CASE user[s] = v
        <3>1. ~Busy(v)
            BY <2>1, <2>3, NotBusy
        <3>2. socketSet[v] = Joined(v) /\ (v \in userSet <=> Joined(v) # {})
            BY <1>1, <3>1, QuietNow
        <3>3. Joined(v)' = Joined(v) \ {s}
            BY <1>0, <2>1 DEF Joined
        <3>4. socketSet'[v] = Joined(v) \ {s}
            BY <1>0, <2>1, <2>3, <3>2
        <3>. QED
            BY <1>00, <1>8, <2>1, <2>3, <3>1, <3>2, <3>3, <3>4 DEF Removing
    <2>. QED
        BY <2>2, <2>3
<1>18. ASSUME NEW s \in Sockets, Disconnect(s) PROVE Presence(v)'
    <2>1. /\ RemoveJoined(s) /\ NoteRace(user[s]) /\ UNCHANGED <<user, userSet>>
          /\ state' = [state EXCEPT ![s] = "closed"]
        BY <1>18 DEF Disconnect
    <2>2. PICK pc \in {"idle", "countingSockets"} : Goto(s, "disconnect", pc)
              /\ (pc = "idle" <=> ~(joined[s] > 0))
        BY <2>1 DEF RemoveJoined
    <2>3. /\ \A t \in Sockets : t # s => state'[t] = state[t] /\ joined'[t] = joined[t]
          /\ state'[s] = "closed" /\ pc \in Steps
        BY <1>0, <1>00, <2>1 DEF RemoveJoined
    <2>4. CASE user[s] # v
        <3>1. socketSet'[v] = socketSet[v]
            BY <1>0, <2>1, <2>4 DEF RemoveJoined
        <3>. QED
            BY <1>00, <1>7, <2>1, <2>2, <2>3, <2>4, <3>1
    <2>5. CASE user[s] = v
        <3>1. ~Busy(v)
            BY <2>1, <2>5, NotBusy
        <3>2. socketSet[v] = Joined(v) /\ (v \in userSet <=> Joined(v) # {})
            BY <1>1, <3>1, QuietNow
        <3>3. Joined(v)' = Joined(v) \ {s}
            BY <2>1, <2>3 DEF Joined
        <3>4. s \in Joined(v) => joined[s] > 0
            BY DEF Joined
        <3>5. socketSet'[v] = Joined(v) \ {s}
            BY <1>0, <2>1, <2>5, <3>2, <3>4 DEF RemoveJoined
        <3>6. pc = "idle" => Joined(v) \ {s} = Joined(v)
            BY <2>2, <3>4
        <3>. QED
            BY <1>00, <1>8, <2>1, <2>2, <2>3, <2>5, <3>1, <3>2, <3>3, <3>5, <3>6 DEF Removing
    <2>. QED
        BY <2>4, <2>5
<1>. QED
    BY <1>3, <1>4, <1>5, <1>6, <1>9, <1>10, <1>11, <1>12, <1>13, <1>14, <1>15, <1>16, <1>17, <1>18
    DEF Next, HandlerStep

-----------------------------------------------------------------------------

(* No socket, no handler, no job, no member missing at first.              *)
LEMMA InvInit ==
    ASSUME Init
    PROVE  Inv
<1>1. MaxJoined \in Nat /\ Cardinality(Users) \in Nat
    BY Numbers, RealtimeAssumption
<1>2. SocketTypes
    <2>1. "idle" \in Steps /\ {"join", "disconnect"} \subseteq Kinds
        BY DEF Steps, Kinds
    <2>. QED
        BY <1>1, <2>1 DEF Init, SocketTypes, At
<1>3. Len(queue) = 0 /\ queue \in Seq(Jobs) /\ \A i \in 1..Len(queue) : FALSE
    <2>1. queue = <<>> /\ Len(queue) = 0
        BY DEF Init
    <2>. QED
        BY <2>1
<1>4. OtherTypes
    <2>1. -1 \in -1..Cardinality(Users)
        BY <1>1
    <2>2. /\ requests \in [ejects : SUBSET Ejections, announce : BOOLEAN]
          /\ history \in [raced : SUBSET Users, lost : SUBSET Events]
        BY DEF Init
    <2>3. \A i \in 1..Len(queue) : queue[i] \in Counts => queue[i].count <= Cardinality(Users)
        BY <1>3
    <2>. QED
        BY <1>3, <2>1, <2>2, <2>3 DEF Init, OtherTypes
<1>5. RoomIsForParticipants
    BY DEF Init, RoomIsForParticipants
<1>6. Current
    BY <1>3 DEF Init, Current, LastCount
<1>7. Tells
    BY <1>3 DEF Init, Tells, Queued
<1>8. ASSUME NEW u \in Users PROVE Presence(u)
    <2>1. Joined(u) = {}
        BY RealtimeAssumption DEF Init, Joined
    <2>2. "join" \in Kinds
        BY DEF Kinds
    <2>. QED
        BY <2>1, <2>2 DEF Init, Presence, At
<1>. QED
    BY <1>2, <1>4, <1>5, <1>6, <1>7, <1>8, ShapeIs DEF Inv, Shows

(* Every step keeps the invariant.                                         *)
LEMMA InvStep ==
    ASSUME Inv, [Next]_vars
    PROVE  Inv'
<1>. DEFINE P == \A u \in Users \ history.raced : Presence(u)
<1>1. SocketTypes /\ OtherTypes /\ RoomIsForParticipants /\ Shows /\ Tells /\ P
    BY ShapeIs DEF Inv
<1>2. CASE Next
    <2>1. SocketTypes' /\ OtherTypes'
        BY <1>1, <1>2, SocketTypesStep, OtherTypesStep
    <2>2. RoomIsForParticipants' /\ Shows' /\ Tells'
        BY <1>1, <1>2, RoomStep, ShowsStep, TellsStep
    <2>3. \A v \in Users : v \notin history'.raced => Presence(v)'
        BY <1>1, <1>2, PresenceStep
    <2>4. Shape'
        BY <2>1, ShapeIs, PTL
    <2>. QED
        BY <2>2, <2>3, <2>4 DEF Inv
<1>3. CASE UNCHANGED vars
    <2>1. Shape'
        BY <1>3 DEF Inv, Shape, TypeOK, At, vars, memberVars, socketVars, presenceVars, clientVars
    <2>2. RoomIsForParticipants'
        BY <1>3 DEF Inv, RoomIsForParticipants, vars, memberVars, socketVars, presenceVars, clientVars
    <2>3. Shows'
        BY <1>3 DEF Inv, Shows, Settling, Current, LastCount, NoCount, vars, memberVars, socketVars,
            presenceVars, clientVars
    <2>4. Tells'
        BY <1>3 DEF Inv, Tells, Queued, Ahead, Untold, vars, memberVars, socketVars, presenceVars, clientVars
    <2>5. ASSUME NEW u \in Users \ history'.raced PROVE Presence(u)'
        <3>1. Presence(u)
            BY <1>1, <1>3 DEF vars
        <3>. QED
            BY <1>3, <3>1, Elsewhere DEF vars, socketVars, presenceVars
    <2>. QED
        BY <2>1, <2>2, <2>3, <2>4, <2>5 DEF Inv
<1>. QED
    BY <1>2, <1>3

(* So it always holds.                                                     *)
LEMMA Invariance == Spec => []Inv
<1>1. Init => Inv
    BY InvInit
<1>2. Inv /\ [Next]_vars => Inv'
    BY InvStep
<1>. QED
    BY <1>1, <1>2, PTL DEF Spec

(* Rows, sockets, handlers, jobs and what the clients show are what they   *)
(* are taken for; no count that is shown exceeds the number of users.      *)
THEOREM RealtimeTypes == Spec => []TypeOK
<1>1. Inv => TypeOK
    BY DEF Inv, Shape
<1>. QED
    BY <1>1, Invariance, PTL

(* Whoever Redis has online has a socket that joined and is open, and the  *)
(* other way round, once their updates are through and if none overlapped. *)
THEOREM PresenceIsExact == Spec => []PresenceExact
<1>1. Inv => PresenceExact
    <2>. SUFFICES ASSUME Inv, NEW u \in Users \ history.raced, ~Busy(u)
                  PROVE  u \in userSet <=>
                           \E s \in Sockets : joined[s] > 0 /\ state[s] = "open" /\ user[s] = u
        BY DEF PresenceExact
    <2>1. u \in userSet <=> Joined(u) # {}
        BY QuietNow DEF Inv
    <2>. QED
        BY <2>1 DEF Joined
<1>. QED
    BY <1>1, Invariance, PTL

(* When all is quiet every socket in the room shows the count of Redis,    *)
(* unless the last count was lost.                                         *)
THEOREM PresenceIsShown == Spec => []PresenceShown
<1>1. Inv => PresenceShown
    <2>. SUFFICES ASSUME Inv, InFlight = {}, queue = <<>>, "PRESENCE_UPDATED" \notin history.lost
                  PROVE  \A s \in room : shown[s] = Cardinality(userSet)
        BY DEF PresenceShown
    <2>1. ~Settling
        <3>. SUFFICES ASSUME NEW s \in Sockets, NEW k \in Kinds,
                             handlers[s][k] \in Removing \cup {"addingUser", "counting"}
                      PROVE  FALSE
            BY DEF Settling
        <3>1. <<s, k>> \in Sockets \X Kinds /\ <<s, k>>[1] = s /\ <<s, k>>[2] = k
            OBVIOUS
        <3>2. <<s, k>> \in InFlight
            BY <3>1 DEF InFlight, At, Removing
        <3>. QED
            BY <3>2
    <2>2. NoCount
        <3>1. Len(queue) = 0
            OBVIOUS
        <3>. QED
            BY <3>1 DEF NoCount
    <2>. QED
        BY <2>1, <2>2 DEF Inv, Shows, Current
<1>. QED
    BY <1>1, Invariance, PTL

(* Nobody stays in the room who is no participant, unless they are about   *)
(* to be put out or were let in on a stale access check.                   *)
THEOREM RoomForParticipants == Spec => []RoomIsForParticipants
<1>1. Inv => RoomIsForParticipants
    BY DEF Inv
<1>. QED
    BY <1>1, Invariance, PTL

(* Who is put out because of the cancel has been sent the announcement,    *)
(* unless it was lost or they were let in after it.                        *)
THEOREM CancelIsHeard == Spec => []CancelHeard
<1>1. Inv => CancelHeard
    <2>. SUFFICES ASSUME Inv, queue # <<>>, Head(queue) \in OfCancel, NEW s \in room,
                         "TOURNAMENT_CANCELLED" \notin history.lost
                  PROVE  s \in heard \cup slipped
        BY DEF CancelHeard, OfCancel
    <2>1. /\ Len(queue) \in Nat /\ 1 \in 1..Len(queue) /\ queue[1] \in OfCancel
        <3>1. queue \in Seq(Jobs)
            BY DEF Inv, Shape, TypeOK
        <3>2. Len(queue) \in Nat /\ Len(queue) > 0 /\ Head(queue) = queue[1]
            BY <3>1, LenProperties, EmptySeq
        <3>. QED
            BY <3>2
    <2>2. cancelled /\ ~requests.announce
        BY <2>1 DEF Inv, Tells, Queued
    <2>3. ~Ahead
        BY <2>1 DEF Ahead
    <2>. QED
        BY <2>2, <2>3 DEF Inv, Tells, Untold
<1>. QED
    BY <1>1, Invariance, PTL

=============================================================================
