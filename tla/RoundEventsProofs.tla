-------------------------- MODULE RoundEventsProofs -------------------------
(***************************************************************************)
(* Proofs about what the participants are told (RoundEvents.tla), for any  *)
(* number of participants, rounds and handlers, with events lost and       *)
(* crashes in between: each payload carries what its commit wrote, and the *)
(* round stays there until it was emitted.  Only a counter of submissions  *)
(* may come late.                                                          *)
(***************************************************************************)
EXTENDS RoundEvents, RoundRefinementProofs, RoundScoreProofs

-----------------------------------------------------------------------------
(* The leaderboard.                                                        *)

(* The participants by the time they joined.                               *)
JoinOrder == createdAt \in Seq(Users) /\ IsInjective(createdAt) /\ ToSet(createdAt) = participants

(* Each of them has one position.                                          *)
LEMMA JoinPositions ==
    ASSUME JoinOrder, NEW u \in participants
    PROVE  /\ PositionOf(u, createdAt) \in 1..Len(createdAt)
           /\ createdAt[PositionOf(u, createdAt)] = u
<1>1. DOMAIN createdAt = 1..Len(createdAt)
    BY LenProperties DEF JoinOrder
<1>2. u \in {createdAt[i] : i \in 1..Len(createdAt)}
    BY <1>1 DEF JoinOrder, ToSet
<1>. QED
    BY <1>2, PositionIsThere DEF JoinOrder

(* The ranking is a strict total order of the participants.                *)
LEMMA RankingIsOrder ==
    ASSUME JoinOrder, NEW points \in [Users -> Nat], participants \subseteq Users
    PROVE  /\ \A u, v \in participants :
                  u # v => RanksBefore(points, u, v) \/ RanksBefore(points, v, u)
           /\ \A u, v \in participants :
                  RanksBefore(points, u, v) => ~RanksBefore(points, v, u)
           /\ \A u, v, x \in participants :
                  RanksBefore(points, u, v) /\ RanksBefore(points, v, x)
                      => RanksBefore(points, u, x)
<1>. DEFINE pos(u) == PositionOf(u, createdAt)
<1>1. \A u \in participants : pos(u) \in Nat /\ createdAt[pos(u)] = u
    BY JoinPositions, LenProperties DEF JoinOrder
<1>2. \A u, v : RanksBefore(points, u, v) <=>
          points[u] > points[v] \/ (points[u] = points[v] /\ pos(u) < pos(v))
    BY DEF RanksBefore, BreaksTie, Joined1st
<1>. HIDE DEF pos
<1>3. \A u, v \in participants : u # v => pos(u) # pos(v)
    BY <1>1
<1>4. \A u \in participants : points[u] \in Nat
    OBVIOUS
<1>. QED
    BY <1>1, <1>2, <1>3, <1>4

(* Who ranks before another has fewer ahead.                               *)
LEMMA FewerAhead ==
    ASSUME JoinOrder, NEW points \in [Users -> Nat], TypeOK
    PROVE  /\ IsFiniteSet(participants)
           /\ \A u \in participants :
                  Cardinality(Ahead(points, u)) \in 0..(Cardinality(participants) - 1)
           /\ \A u, v \in participants : RanksBefore(points, u, v) =>
                  Cardinality(Ahead(points, u)) < Cardinality(Ahead(points, v))
<1>1. participants \subseteq Users /\ IsFiniteSet(participants)
    BY UsersAssumption, FS_Subset DEF TypeOK
<1>2. \A u : Ahead(points, u) \in SUBSET participants /\ IsFiniteSet(Ahead(points, u))
    BY <1>1, FS_Subset DEF Ahead
<1>3. ASSUME NEW u \in participants, NEW S \in SUBSET participants, u \notin Ahead(points, u),
             Ahead(points, u) \cup {u} \subseteq S
      PROVE  Cardinality(Ahead(points, u)) < Cardinality(S)
    <2>1. Cardinality(Ahead(points, u) \cup {u}) = Cardinality(Ahead(points, u)) + 1
        BY <1>2, <1>3, FS_AddElement
    <2>2. IsFiniteSet(S) /\ Cardinality(Ahead(points, u) \cup {u}) <= Cardinality(S)
        BY <1>1, <1>3, FS_Subset
    <2>3. Cardinality(Ahead(points, u)) \in Nat /\ Cardinality(S) \in Nat
        BY <1>2, <2>2, FS_CardinalityType
    <2>. QED
        BY <2>1, <2>2, <2>3
<1>4. \A u \in participants : u \notin Ahead(points, u)
    BY <1>1, RankingIsOrder DEF Ahead
<1>5. ASSUME NEW u \in participants
      PROVE  Cardinality(Ahead(points, u)) \in 0..(Cardinality(participants) - 1)
    <2>1. Cardinality(Ahead(points, u)) < Cardinality(participants)
        BY <1>2, <1>3, <1>4
    <2>2. Cardinality(Ahead(points, u)) \in Nat /\ Cardinality(participants) \in Nat
        BY <1>1, <1>2, FS_CardinalityType
    <2>. QED
        BY <2>1, <2>2
<1>6. ASSUME NEW u \in participants, NEW v \in participants, RanksBefore(points, u, v)
      PROVE  Cardinality(Ahead(points, u)) < Cardinality(Ahead(points, v))
    <2>1. Ahead(points, u) \cup {u} \subseteq Ahead(points, v)
        BY <1>1, <1>6, RankingIsOrder DEF Ahead
    <2>. QED
        BY <1>2, <1>3, <1>4, <2>1
<1>. QED
    BY <1>1, <1>5, <1>6

(* Every place of the leaderboard is taken.                                *)
LEMMA PlacesTaken ==
    ASSUME JoinOrder, NEW points \in [Users -> Nat], TypeOK
    PROVE  \A i \in 1..Cardinality(participants) :
               /\ AtPlace(points, i) \in participants
               /\ Cardinality(Ahead(points, AtPlace(points, i))) = i - 1
<1>. DEFINE n == Cardinality(participants)
            ranks == 0..(n - 1)
            rank == [u \in participants |-> Cardinality(Ahead(points, u))]
<1>1. IsFiniteSet(participants) /\ n \in Nat /\ participants \subseteq Users
    BY FewerAhead, FS_CardinalityType DEF TypeOK
<1>2. rank \in [participants -> ranks]
    BY FewerAhead
<1>3. \A u, v \in participants : rank[u] = rank[v] => u = v
    <2>1. \A u \in participants : Cardinality(Ahead(points, u)) \in Int
        BY FewerAhead
    <2>. QED
        BY <1>1, <2>1, FewerAhead, RankingIsOrder
<1>4. IsFiniteSet(ranks) /\ Cardinality(ranks) = n
    BY <1>1, FS_Interval
<1>5. rank \in Surjection(participants, ranks)
    <2>1. rank \in Injection(participants, ranks)
        BY <1>2, <1>3 DEF Injection, IsInjective
    <2>. QED
        BY <1>4, <2>1, FS_Injection
<1>6. ASSUME NEW i \in 1..n PROVE \E u \in participants : Cardinality(Ahead(points, u)) = i - 1
    <2>1. i - 1 \in ranks
        BY <1>1
    <2>. QED
        BY <1>2, <1>5, <2>1 DEF Surjection
<1>. QED
    BY <1>6 DEF AtPlace

Sorted(board) == \A i \in 1..(Len(board) - 1) : board[i].score >= board[i + 1].score

Leads(points, u) ==
    u \in participants /\ \A v \in participants \ {u} : RanksBefore(points, u, v)

(* The leaderboard is in order, holds the participants' points, and the    *)
(* first of it ranks before all the others.                                *)
LEMMA LeaderboardFits ==
    ASSUME JoinOrder, TypeOK, NEW points \in [Users -> Nat], NEW board,
           board = Leaderboard(points)
    PROVE  /\ board \in Seq(LeaderboardEntry) /\ Sorted(board)
           /\ \A i \in 1..Len(board) :
                  board[i].user \in Users /\ board[i].score = points[board[i].user]
           /\ participants # {} => board # << >> /\ Leads(points, board[1].user)
<1>. DEFINE n == Cardinality(participants)
            at(i) == AtPlace(points, i)
            ahead(u) == Cardinality(Ahead(points, u))
<1>1. IsFiniteSet(participants) /\ n \in Nat /\ participants \subseteq Users
    BY FewerAhead, FS_CardinalityType DEF TypeOK
<1>2. \A i \in 1..n : at(i) \in participants /\ ahead(at(i)) = i - 1
    BY PlacesTaken
<1>3. \A u, v \in participants : RanksBefore(points, u, v) => ahead(u) < ahead(v)
    BY FewerAhead
<1>4. \A u, v \in participants : u # v => RanksBefore(points, u, v) \/ RanksBefore(points, v, u)
    BY <1>1, RankingIsOrder
<1>5. \A u \in participants : ahead(u) \in Nat
    BY FewerAhead
<1>6. board = [i \in 1..n |-> [user |-> at(i), score |-> points[at(i)]]]
    BY DEF Leaderboard
<1>. HIDE DEF at, ahead, n
<1>7. \A i \in 1..n : [user |-> at(i), score |-> points[at(i)]] \in LeaderboardEntry
    BY <1>1, <1>2 DEF LeaderboardEntry
<1>8. board \in Seq(LeaderboardEntry) /\ Len(board) = n
    <2>1. board \in [1..n -> LeaderboardEntry]
        BY <1>6, <1>7
    <2>. QED
        BY <1>1, <2>1
<1>9. \A i \in 1..n : board[i].user = at(i) /\ board[i].score = points[at(i)]
    BY <1>6
<1>10. ASSUME NEW i \in 1..(n - 1) PROVE board[i].score >= board[i + 1].score
    <2>1. i \in 1..n /\ i + 1 \in 1..n
        BY <1>1
    <2>2. ahead(at(i)) = i - 1 /\ ahead(at(i + 1)) = i + 1 - 1
          /\ at(i) \in participants /\ at(i + 1) \in participants
        BY <1>2, <2>1
    <2>3. RanksBefore(points, at(i), at(i + 1))
        BY <1>3, <1>4, <2>1, <2>2
    <2>4. points[at(i)] >= points[at(i + 1)]
        BY <1>1, <2>2, <2>3 DEF RanksBefore
    <2>. QED
        BY <1>9, <2>1, <2>4
<1>11. ASSUME participants # {} PROVE board # << >> /\ Leads(points, board[1].user)
    <2>1. n # 0
        BY <1>1, <1>11, FS_EmptySet DEF n
    <2>2. 1 \in 1..n /\ ahead(at(1)) = 0 /\ at(1) \in participants
        BY <1>1, <1>2, <2>1
    <2>3. \A v \in participants \ {at(1)} : RanksBefore(points, at(1), v)
        BY <1>3, <1>4, <1>5, <2>2
    <2>. QED
        BY <1>8, <1>9, <2>1, <2>2, <2>3 DEF Leads
<1>. QED
    BY <1>1, <1>2, <1>8, <1>9, <1>10, <1>11 DEF Sorted

(* Only one participant can lead.                                          *)
LEMMA OneLeads ==
    ASSUME JoinOrder, TypeOK, NEW points \in [Users -> Nat], NEW u, Leads(points, u),
           NEW v, Leads(points, v)
    PROVE  u = v
BY RankingIsOrder DEF Leads, TypeOK

(* The first to join is never overtaken in the order of joining.           *)
LEMMA InsertedLater ==
    ASSUME JoinOrder, NEW u \in Users \ participants, NEW i \in 1..Len(createdAt),
           createdAt' = InsertAt(createdAt, i + 1, u), participants' = participants \cup {u}
    PROVE  /\ JoinOrder' /\ Len(createdAt') = Len(createdAt) + 1
           /\ createdAt'[1] = createdAt[1]
           /\ \A k \in 1..Len(createdAt) :
                 createdAt'[IF k <= i THEN k ELSE k + 1] = createdAt[k]
<1>. DEFINE front == SubSeq(createdAt, 1, i)
            back == SubSeq(createdAt, i + 1, Len(createdAt))
            n == Len(createdAt)
<1>1. /\ n \in Nat /\ i \in 1..n /\ createdAt \in Seq(Users) /\ \A k \in 1..n : createdAt[k] \in Users
      /\ DOMAIN createdAt = 1..n
    BY LenProperties, ElementOfSeq DEF JoinOrder
<1>2. /\ front \in Seq(Users) /\ Len(front) = i
      /\ \A k \in 1..i : front[k] = createdAt[k]
    <2>1. \A k \in 1..i : createdAt[k] \in Users
        BY <1>1
    <2>2. /\ front \in Seq(Users) /\ Len(front) = i - 1 + 1
          /\ \A k \in 1..(i - 1 + 1) : front[k] = createdAt[1 + k - 1]
        BY <1>1, <2>1, SubSeqProperties
    <2>. QED
        BY <1>1, <2>2
<1>3. /\ back \in Seq(Users) /\ Len(back) = n - i
      /\ \A k \in 1..(n - i) : back[k] = createdAt[i + k]
    <2>1. \A k \in (i + 1)..n : createdAt[k] \in Users
        BY <1>1
    <2>2. /\ back \in Seq(Users) /\ Len(back) = IF i + 1 <= n THEN n - (i + 1) + 1 ELSE 0
          /\ \A k \in 1..(n - (i + 1) + 1) : back[k] = createdAt[i + 1 + k - 1]
        BY <1>1, <2>1, SubSeqProperties
    <2>. QED
        BY <1>1, <2>2
<1>4. createdAt' = front \o <<u>> \o back
    <2>1. PICK j : j = i + 1
        OBVIOUS
    <2>2. createdAt' = SubSeq(createdAt, 1, j - 1) \o <<u>> \o SubSeq(createdAt, j, Len(createdAt))
        BY <2>1 DEF InsertAt
    <2>3. j - 1 = i
        BY <1>1, <2>1
    <2>. QED
        BY <2>1, <2>2, <2>3
<1>. HIDE DEF front, back, n
<1>. DEFINE mid == front \o <<u>>
<1>5. /\ mid \in Seq(Users) /\ Len(mid) = i + 1
      /\ \A k \in 1..(i + 1) : (mid)[k] = IF k <= i THEN front[k] ELSE u
    <2>1. <<u>> \in Seq(Users) /\ Len(<<u>>) = 1 /\ <<u>>[1] = u
        OBVIOUS
    <2>2. /\ mid \in Seq(Users) /\ Len(mid) = Len(front) + Len(<<u>>)
          /\ \A k \in 1..(Len(front) + Len(<<u>>)) :
                (mid)[k] = IF k <= Len(front) THEN front[k] ELSE <<u>>[k - Len(front)]
        BY <1>2, <2>1, ConcatProperties
    <2>. QED
        BY <1>1, <1>2, <2>1, <2>2
<1>. HIDE DEF mid
<1>6. /\ createdAt' \in Seq(Users) /\ Len(createdAt') = n + 1
      /\ \A k \in 1..(n + 1) :
            createdAt'[k] = IF k <= i THEN createdAt[k]
                            ELSE IF k = i + 1 THEN u ELSE createdAt[k - 1]
    <2>1. /\ createdAt' \in Seq(Users)
          /\ Len(createdAt') = Len(mid) + Len(back)
          /\ \A k \in 1..(Len(mid) + Len(back)) :
                createdAt'[k] = IF k <= Len(mid) THEN (mid)[k]
                                ELSE back[k - Len(mid)]
        <3>1. createdAt' = mid \o back
            BY <1>4 DEF mid
        <3>2. mid \in Seq(Users) /\ back \in Seq(Users)
            BY <1>3, <1>5
        <3>3. /\ mid \o back \in Seq(Users)
              /\ Len(mid \o back) = Len(mid) + Len(back)
              /\ \A k \in 1..(Len(mid) + Len(back)) :
                    (mid \o back)[k] = IF k <= Len(mid) THEN mid[k] ELSE back[k - Len(mid)]
            BY <3>2, ConcatProperties
        <3>. QED
            BY <3>1, <3>3
    <2>2. Len(createdAt') = n + 1
        BY <1>1, <1>3, <1>5, <2>1
    <2>3. ASSUME NEW k \in 1..(n + 1), k <= i + 1
          PROVE  createdAt'[k] = IF k <= i THEN createdAt[k] ELSE u
        BY <1>1, <1>2, <1>3, <1>5, <2>1, <2>3
    <2>4. ASSUME NEW k \in 1..(n + 1), ~(k <= i + 1) PROVE createdAt'[k] = createdAt[k - 1]
        <3>1. PICK j : j = k - (i + 1)
            OBVIOUS
        <3>2. j \in 1..(n - i) /\ i + j = k - 1
            BY <1>1, <2>4, <3>1
        <3>3. createdAt'[k] = back[j]
            <4>1. k \in 1..(Len(mid) + Len(back)) /\ ~(k <= Len(mid)) /\ k - Len(mid) = j
                BY <1>1, <1>3, <1>5, <2>4, <3>1
            <4>. QED
                BY <2>1, <4>1
        <3>. QED
            BY <1>3, <3>2, <3>3
    <2>. QED
        BY <1>1, <2>1, <2>2, <2>3, <2>4
<1>7. DOMAIN createdAt' = 1..(n + 1)
    BY <1>6, LenProperties
<1>8. /\ \A j, k \in 1..n : createdAt[j] = createdAt[k] => j = k
      /\ \A k \in 1..n : createdAt[k] # u /\ createdAt[k] \in participants
      /\ \A v \in participants : \E k \in 1..n : createdAt[k] = v
    BY <1>1 DEF JoinOrder, IsInjective, ToSet
<1>9. IsInjective(createdAt')
    <2>. SUFFICES ASSUME NEW j \in 1..(n + 1), NEW k \in 1..(n + 1), createdAt'[j] = createdAt'[k]
                  PROVE  j = k
        BY <1>7 DEF IsInjective
    <2>. DEFINE old(m) == IF m <= i THEN m ELSE m - 1
    <2>1. \A m \in 1..(n + 1) : m # i + 1 => old(m) \in 1..n /\ createdAt'[m] = createdAt[old(m)]
        BY <1>1, <1>6
    <2>2. createdAt'[i + 1] = u
        BY <1>1, <1>6
    <2>3. CASE j # i + 1 /\ k # i + 1
        <3>1. old(j) = old(k)
            BY <1>8, <2>1, <2>3
        <3>. QED
            BY <1>1, <2>3, <3>1
    <2>4. CASE j = i + 1 \/ k = i + 1
        BY <1>8, <2>1, <2>2, <2>4
    <2>. QED
        BY <2>3, <2>4
<1>10. \A k \in 1..n : /\ (IF k <= i THEN k ELSE k + 1) \in 1..(n + 1)
                       /\ createdAt'[IF k <= i THEN k ELSE k + 1] = createdAt[k]
    <2>1. ASSUME NEW k \in 1..n, k <= i PROVE k \in 1..(n + 1) /\ createdAt'[k] = createdAt[k]
        BY <1>1, <1>6, <2>1
    <2>2. ASSUME NEW k \in 1..n, ~(k <= i)
          PROVE  k + 1 \in 1..(n + 1) /\ createdAt'[k + 1] = createdAt[k]
        <3>1. k + 1 \in 1..(n + 1) /\ ~(k + 1 <= i) /\ k + 1 # i + 1 /\ k + 1 - 1 = k
            BY <1>1, <2>2
        <3>. QED
            BY <1>6, <3>1
    <2>. QED
        BY <2>1, <2>2
<1>11. ToSet(createdAt') = participants'
    <2>1. \A v \in participants' : \E k \in 1..(n + 1) : createdAt'[k] = v
        <3>1. i + 1 \in 1..(n + 1) /\ createdAt'[i + 1] = u
            BY <1>1, <1>6
        <3>. QED
            BY <1>8, <1>10, <3>1
    <2>2. \A k \in 1..(n + 1) : createdAt'[k] \in participants'
        <3>. TAKE k \in 1..(n + 1)
        <3>1. k <= i => k \in 1..n
            BY <1>1
        <3>2. k > i + 1 => k - 1 \in 1..n
            BY <1>1
        <3>. QED
            BY SMTT(30), <1>1, <1>6, <1>8, <3>1, <3>2
    <2>. QED
        BY <1>7, <2>1, <2>2 DEF ToSet
<1>. QED
    BY <1>1, <1>6, <1>9, <1>10, <1>11 DEF JoinOrder, n

(* Who joins ranks behind the leader: with points, before who has none;    *)
(* without, by having been the first to join.                              *)
LEMMA LeaderStays ==
    ASSUME JoinOrder, TypeOK, NEW points \in [Users -> Nat], NEW l, Leads(points, l),
           NEW u \in Users \ participants, points[u] = 0, NEW i \in 1..Len(createdAt),
           createdAt' = InsertAt(createdAt, i + 1, u), participants' = participants \cup {u}
    PROVE  Leads(points, l)'
<1>. DEFINE pos(v) == PositionOf(v, createdAt)
            new(k) == IF k <= i THEN k ELSE k + 1
            n == Len(createdAt)
<1>1. /\ JoinOrder' /\ n \in Nat /\ Len(createdAt') = n + 1 /\ createdAt'[1] = createdAt[1]
      /\ \A k \in 1..n : createdAt'[new(k)] = createdAt[k]
      /\ participants \subseteq Users
    BY InsertedLater, LenProperties DEF JoinOrder, TypeOK
<1>2. \A v \in participants : pos(v) \in 1..n /\ createdAt[pos(v)] = v
    BY JoinPositions
<1>3. \A v \in participants' : /\ PositionOf(v, createdAt') \in 1..(n + 1)
                               /\ createdAt'[PositionOf(v, createdAt')] = v
    <2>1. PICK order : order = createdAt'
        OBVIOUS
    <2>2. order \in Seq(Users) /\ ToSet(order) = participants' /\ Len(order) = n + 1
        BY <1>1, <2>1 DEF JoinOrder
    <2>3. \A v \in participants' : v \in {order[k] : k \in 1..Len(order)}
        BY <2>2, LenProperties DEF ToSet
    <2>4. \A v \in participants' : /\ PositionOf(v, order) \in 1..Len(order)
                                   /\ order[PositionOf(v, order)] = v
        BY <2>2, <2>3, PositionIsThere
    <2>. QED
        BY <2>1, <2>2, <2>4
<1>4. \A j, k \in 1..(n + 1) : createdAt'[j] = createdAt'[k] => j = k
    <2>1. PICK order : order = createdAt'
        OBVIOUS
    <2>2. order \in Seq(Users) /\ IsInjective(order) /\ Len(order) = n + 1
        BY <1>1, <2>1 DEF JoinOrder
    <2>3. DOMAIN order = 1..(n + 1)
        BY <2>2, LenProperties
    <2>. QED
        BY <2>1, <2>2, <2>3 DEF IsInjective
<1>5. ASSUME NEW v \in participants PROVE PositionOf(v, createdAt') = new(pos(v))
    <2>1. new(pos(v)) \in 1..(n + 1) /\ createdAt'[new(pos(v))] = v
        BY <1>1, <1>2
    <2>. QED
        BY <1>3, <1>4, <2>1
<1>6. RanksBefore(points, l, u)'
    <2>1. CASE points[l] > 0
        BY <2>1 DEF RanksBefore
    <2>2. CASE ~(points[l] > 0)
        <3>1. l \in participants /\ points[l] = 0
            BY <1>1, <2>2 DEF Leads
        <3>2. createdAt[1] \in participants /\ 1 \in 1..n
            BY <1>1, LenProperties DEF JoinOrder, ToSet
        <3>3. pos(createdAt[1]) = 1
            BY <1>2, <3>2, LenProperties DEF JoinOrder, IsInjective
        <3>4. l = createdAt[1]
            <4>. SUFFICES ASSUME l # createdAt[1] PROVE FALSE
                OBVIOUS
            <4>1. RanksBefore(points, l, createdAt[1]) /\ points[createdAt[1]] \in Nat
                BY <1>1, <3>2 DEF Leads
            <4>2. pos(l) < 1
                BY <3>1, <3>3, <4>1 DEF RanksBefore, BreaksTie, Joined1st
            <4>. QED
                BY <1>2, <3>1, <4>2
        <3>5. PositionOf(l, createdAt') = 1
            <4>1. new(1) = 1
                OBVIOUS
            <4>. QED
                BY <1>5, <3>1, <3>3, <3>4, <4>1
        <3>6. PositionOf(u, createdAt') \in 1..(n + 1) /\ PositionOf(u, createdAt') # 1
            BY <1>1, <1>3, <3>1, <3>4
        <3>7. BreaksTie(l, u)'
            BY <1>1, <3>5, <3>6 DEF BreaksTie, Joined1st
        <3>. QED
            BY <3>1, <3>7 DEF RanksBefore
    <2>. QED
        BY <2>1, <2>2
<1>7. ASSUME NEW v \in participants \ {l} PROVE RanksBefore(points, l, v)'
    <2>1. l \in participants /\ RanksBefore(points, l, v)
        BY DEF Leads
    <2>2. pos(l) < pos(v) => PositionOf(l, createdAt') < PositionOf(v, createdAt')
        BY <1>1, <1>2, <1>5, <2>1
    <2>3. pos(l) < pos(v) => BreaksTie(l, v)'
        BY <2>2 DEF BreaksTie, Joined1st
    <2>. QED
        BY <2>1, <2>3 DEF RanksBefore, BreaksTie, Joined1st
<1>. QED
    BY <1>6, <1>7 DEF Leads

-----------------------------------------------------------------------------
(* Who does what to a round.                                               *)

(* What a handler does next is up to no other handler.                     *)
Asking == {"leaving", "deleting", "submissionSaved", "countingSubmissions", "closing", "voteSaved",
           "countingVotes", "finalizing", "filling"}

Enters(x, pc, r) == Others(x) /\ tasks'[x].pc = pc /\ tasks'[x].round = r

Closes(x) ==
    /\ CloseSubmissions(x) /\ rounds[tasks[x].round].phase = "SUBMISSION"
    /\ Enters(x, "closed", tasks[x].round)

CanOpen(r) == rounds[r].phase = "VOTING" /\ rounds[r].stepStatus = "IDLE"

Opens(x) ==
    /\ OpenVoting(x) /\ CanOpen(tasks[x].round) /\ submissions[tasks[x].round] # << >>
    /\ Enters(x, "opened", tasks[x].round) /\ tasks'[x].step = 1

OpensNothing(x) ==
    /\ OpenVoting(x) /\ ~(CanOpen(tasks[x].round) /\ submissions[tasks[x].round] # << >>)
    /\ Enters(x, "checkingFinished", tasks[x].round)

Finalizes(x) ==
    /\ Finalize(x) /\ VotingOpen(tasks[x].round)
    /\ Enters(x, "finalized", tasks[x].round)

GoesOn(x) ==
    \/ CancelSubmissionTimer(x) /\ Enters(x, "openingVoting", tasks[x].round)
    \/ /\ CheckVotingFinished(x) /\ VotingFinished(tasks[x].round)
       /\ Enters(x, "completing", tasks[x].round)
    \/ AfterFinalize(x) /\ tasks[x].step = 0 /\ Enters(x, "completing", tasks[x].round)

Completes(x) ==
    /\ CompleteRound(x) /\ VotingFinished(tasks[x].round) /\ status = "ACTIVE"
    /\ Enters(x, "delaying", tasks[x].round)

Creates(x) ==
    \/ Start(x) /\ Enters(x, "arming", 1)
    \/ /\ CreateNextRound(x) /\ FollowsUp(tasks[x].round)
       /\ Enters(x, "arming", tasks[x].round + 1)

(* How a handler comes to its next step.                                   *)
LEMMA HandlerEnters ==
    ASSUME Inv, [Next]_vars, NEW x \in Workers, tasks'[x] # tasks[x],
           tasks'[x].pc \notin Asking \cup {"idle"}
    PROVE  \/ Closes(x) \/ Opens(x) \/ OpensNothing(x) \/ Finalizes(x) \/ GoesOn(x)
           \/ Completes(x) \/ Creates(x)
<1>0. tasks \in [Workers -> Task] /\ TypeOK
    BY DEF Inv, TypeOK
<1>1. ASSUME NEW w \in Workers, NEW pc, NEW r, Begin(w, pc, r) \/ Goto(w, pc)
      PROVE  pc \notin Asking \cup {"idle"} /\ w = x
    BY <1>0, <1>1, HandlerMoves DEF Others
<1>2. ASSUME NEW w \in Workers, NEW pc, NEW r, Finish(w) \/ BeginOnDeadline(w, pc, r)
      PROVE  w = x /\ tasks'[x].pc = pc
    BY <1>0, <1>2, HandlerMoves DEF Others
<1>3. ASSUME NEW w \in Workers, Finish(w) PROVE FALSE
    BY <1>0, <1>3, HandlerMoves DEF Others
<1>4. ASSUME NEW w \in Workers, Goto(w, "countingSubmissions") \/ Goto(w, "deleting") PROVE FALSE
    BY <1>1, <1>4 DEF Asking
<1>5. ASSUME NEW w \in Workers, NEW u, NEW reason,
             \/ tasks' = [tasks EXCEPT ![w].pc = "closing", ![w].online = u, ![w].reason = reason]
             \/ tasks' = [tasks EXCEPT ![w].pc = "finalizing", ![w].online = u, ![w].reason = reason]
             \/ tasks' = [tasks EXCEPT ![w].pc = "countingVotes", ![w].user = u]
             \/ tasks' = [tasks EXCEPT ![w].pc = "filling", ![w].voters = u]
             \/ tasks' = [tasks EXCEPT ![w] = [IdleTask EXCEPT !.pc = "leaving", !.user = u]]
      PROVE  FALSE
    <2>1. w = x
        BY <1>0, <1>5
    <2>2. tasks'[x].pc \in {"closing", "finalizing", "countingVotes", "filling", "leaving"}
        <3>1. CASE tasks' = [tasks EXCEPT ![w] = [IdleTask EXCEPT !.pc = "leaving", !.user = u]]
            BY <1>0, <2>1, <3>1 DEF IdleTask
        <3>. QED
            BY <1>0, <1>5, <2>1, <3>1 DEF Task
    <2>. QED
        BY <2>2 DEF Asking
<1>7. ASSUME NEW w \in Workers, NEW pc, NEW r, NEW n,
             \/ tasks' = [tasks EXCEPT ![w].pc = pc, ![w].step = n] /\ r = tasks[w].round
             \/ tasks' = [tasks EXCEPT ![w].pc = pc, ![w].round = r] /\ n = tasks[w].step
      PROVE  w = x /\ Enters(x, pc, r) /\ tasks'[x].step = n
    BY <1>0, <1>7 DEF Task, Others, Enters
<1>8. ASSUME NEW w \in Workers, NEW pc, Goto(w, pc)
      PROVE  w = x /\ Enters(x, pc, tasks[x].round)
    <2>1. w = x
        BY <1>1, <1>8
    <2>. QED
        BY <1>0, <1>8, <2>1, HandlerMoves DEF Enters
<1>10. ASSUME NEW w \in Workers, CloseSubmissions(w) PROVE Closes(x)
    BY <1>3, <1>8, <1>10 DEF CloseSubmissions, Closes
<1>11. ASSUME NEW w \in Workers, OpenVoting(w) PROVE Opens(x) \/ OpensNothing(x)
    <2>1. CASE CanOpen(tasks[w].round) /\ submissions[tasks[w].round] # << >>
        <3>1. tasks' = [tasks EXCEPT ![w].pc = "opened", ![w].step = 1]
            BY <1>11, <2>1 DEF OpenVoting, CanOpen
        <3>2. w = x /\ Enters(x, "opened", tasks[w].round) /\ tasks'[x].step = 1
            BY <1>7, <3>1
        <3>. QED
            BY <1>11, <2>1, <3>2 DEF Opens
    <2>2. CASE ~(CanOpen(tasks[w].round) /\ submissions[tasks[w].round] # << >>)
        <3>1. Goto(w, "checkingFinished")
            BY <1>11, <2>2 DEF OpenVoting, CanOpen
        <3>. QED
            BY <1>8, <1>11, <2>2, <3>1 DEF OpensNothing
    <2>. QED
        BY <2>1, <2>2
<1>12. ASSUME NEW w \in Workers, Finalize(w) PROVE Finalizes(x)
    <2>1. VotingOpen(tasks[w].round)
        BY <1>12, StepIsOpen
    <2>2. PICK n : tasks' = [tasks EXCEPT ![w].pc = "finalized", ![w].voters = {}, ![w].step = n]
        BY <1>12 DEF Finalize
    <2>3. w = x /\ Enters(x, "finalized", tasks[w].round)
        BY <1>0, <2>2 DEF Task, Others, Enters
    <2>. QED
        BY <1>12, <2>1, <2>3 DEF Finalizes
<1>13. ASSUME NEW w \in Workers, CancelSubmissionTimer(w) \/ CheckVotingFinished(w) \/ AfterFinalize(w)
       PROVE  GoesOn(x)
    BY <1>3, <1>8, <1>13 DEF CancelSubmissionTimer, CheckVotingFinished, AfterFinalize, GoesOn
<1>14. ASSUME NEW w \in Workers, CompleteRound(w) PROVE Completes(x)
    BY <1>3, <1>8, <1>14 DEF CompleteRound, Completes
<1>15. ASSUME NEW w \in Workers, CreateNextRound(w) PROVE Creates(x)
    <2>1. /\ FollowsUp(tasks[w].round)
          /\ tasks' = [tasks EXCEPT ![w].pc = "arming", ![w].round = tasks[w].round + 1]
        BY <1>3, <1>15 DEF CreateNextRound
    <2>. QED
        BY <1>7, <1>15, <2>1 DEF Creates
<1>16. ASSUME NEW w \in Workers, Start(w) PROVE Creates(x)
    <2>1. w = x /\ Enters(x, "arming", 1)
        <3>1. Begin(w, "arming", 1)
            BY <1>16 DEF Start
        <3>. QED
            BY <1>0, <1>1, <3>1, HandlerMoves DEF Enters
    <2>. QED
        BY <1>16, <2>1 DEF Creates
<1>17. ASSUME NEW w \in Workers, CountSubmissions(w) PROVE FALSE
    <2>1. PICK online \in SUBSET Users :
              \/ tasks' = [tasks EXCEPT ![w].pc = "closing", ![w].online = online,
                                        ![w].reason = "ALL_ACTIVE_PARTICIPANTS_SUBMITTED"]
              \/ Finish(w)
        BY <1>17 DEF CountSubmissions
    <2>. QED
        BY <1>3, <1>5, <2>1
<1>18. ASSUME NEW w \in Workers, CountVotes(w) PROVE FALSE
    <2>1. PICK online \in SUBSET EligibleVoters(tasks[w].user) :
              \/ tasks' = [tasks EXCEPT ![w].pc = "finalizing", ![w].online = online,
                                        ![w].reason = "ALL_ACTIVE_ELIGIBLE_VOTERS_VOTED"]
              \/ Finish(w)
        BY <1>18 DEF CountVotes
    <2>. QED
        BY <1>3, <1>5, <2>1
<1>25. ASSUME NEW w \in Workers, BeginFinalization(w) PROVE FALSE
    <2>1. PICK voters :
              \/ tasks' = [tasks EXCEPT ![w].pc = "filling", ![w].voters = voters]
              \/ Finish(w)
        BY <1>25 DEF BeginFinalization
    <2>. QED
        BY <1>3, <1>5, <2>1
<1>19. ASSUME NEW w \in Workers,
              \/ FindParticipant(w) \/ Leave(w) \/ ArmSubmissionTimer(w)
              \/ HandleSubmissionSaved(w) \/ ArmVotingTimer(w)
              \/ HandleVoteSaved(w) \/ FinishTournament(w) \/ RequestFails(w) \/ ReplyLost(w)
       PROVE  FALSE
    BY <1>3, <1>4, <1>5, <1>19
    DEF FindParticipant, Leave, ArmSubmissionTimer, HandleSubmissionSaved, ArmVotingTimer,
        HandleVoteSaved, FinishTournament, RequestFails, ReplyLost
<1>20. ASSUME NEW w \in Workers, Request(w), ~Start(w) PROVE FALSE
    <2>1. ASSUME NEW r, Begin(w, "submissionSaved", r) \/ Begin(w, "voteSaved", r) PROVE FALSE
        BY <1>1, <2>1 DEF Asking
    <2>. QED
        BY <1>5, <1>20, <2>1 DEF Request, AskToLeave, Submit, CastVote
<1>21. ASSUME NEW r \in Rounds, SubmissionTimerFires(r) \/ VotingTimerFires(r) PROVE FALSE
    <2>1. PICK w \in Workers : BeginOnDeadline(w, "closing", r) \/ BeginOnDeadline(w, "finalizing", r)
        BY <1>21 DEF SubmissionTimerFires, VotingTimerFires
    <2>. QED
        BY <1>2, <2>1 DEF Asking
<1>22. ~CrashRestart
    BY DEF CrashRestart, IdleTask
<1>23. ~UNCHANGED tasks
    OBVIOUS
<1>24. ASSUME NEW w \in Workers, TaskStep(w)
       PROVE  \/ Closes(x) \/ Opens(x) \/ OpensNothing(x) \/ Finalizes(x) \/ GoesOn(x)
              \/ Completes(x) \/ Creates(x)
    BY <1>10, <1>11, <1>12, <1>13, <1>14, <1>15, <1>17, <1>18, <1>19, <1>24, <1>25 DEF TaskStep
<1>. QED
    BY <1>16, <1>19, <1>20, <1>21, <1>22, <1>23, <1>24
    DEF Next, Cancel, Join, SubmissionDeadlinePasses, VotingDeadlinePasses, vars

(* Who writes a round's row.                                               *)
LEMMA RowActors ==
    ASSUME Inv, [Next]_vars, NEW q \in Rounds, rounds'[q] # rounds[q]
    PROVE  \E w \in Workers :
               \/ /\ tasks[w].round = q
                  /\ Closes(w) \/ Opens(w) \/ OpensNothing(w) \/ Finalizes(w) \/ Completes(w)
               \/ Creates(w) /\ tasks'[w].round = q /\ ~Exists(q)
<1>0. /\ tasks \in [Workers -> Task] /\ rounds \in [Rounds -> RoundRow] /\ TypeOK
      /\ \A w \in Workers : tasks[w].round \in Rounds
    BY DEF Inv, TypeOK, Task
<1>1. ASSUME NEW w \in Workers, NEW pc, Goto(w, pc) PROVE Enters(w, pc, tasks[w].round)
    BY <1>0, <1>1, HandlerMoves DEF Enters
<1>2. ASSUME NEW w \in Workers, CloseSubmissions(w) PROVE tasks[w].round = q /\ Closes(w)
    BY <1>0, <1>1, <1>2 DEF CloseSubmissions, Closes
<1>3. ASSUME NEW w \in Workers, OpenVoting(w)
      PROVE  tasks[w].round = q /\ (Opens(w) \/ OpensNothing(w))
    <2>1. tasks[w].round = q
        BY <1>0, <1>3 DEF OpenVoting
    <2>2. CASE CanOpen(tasks[w].round) /\ submissions[tasks[w].round] # << >>
        <3>1. tasks' = [tasks EXCEPT ![w].pc = "opened", ![w].step = 1]
            BY <1>3, <2>2 DEF OpenVoting, CanOpen
        <3>2. Enters(w, "opened", tasks[w].round) /\ tasks'[w].step = 1
            BY <1>0, <3>1 DEF Enters, Others, Task
        <3>. QED
            BY <1>3, <2>1, <2>2, <3>2 DEF Opens
    <2>3. CASE ~(CanOpen(tasks[w].round) /\ submissions[tasks[w].round] # << >>)
        <3>1. Goto(w, "checkingFinished")
            BY <1>3, <2>3 DEF OpenVoting, CanOpen
        <3>. QED
            BY <1>1, <1>3, <2>1, <2>3, <3>1 DEF OpensNothing
    <2>. QED
        BY <2>2, <2>3
<1>4. ASSUME NEW w \in Workers, Finalize(w) PROVE tasks[w].round = q /\ Finalizes(w)
    <2>1. tasks[w].round = q /\ VotingOpen(tasks[w].round)
        BY <1>0, <1>4, StepIsOpen DEF Finalize
    <2>2. PICK n : tasks' = [tasks EXCEPT ![w].pc = "finalized", ![w].voters = {}, ![w].step = n]
        BY <1>4 DEF Finalize
    <2>3. Enters(w, "finalized", tasks[w].round)
        BY <1>0, <2>2 DEF Enters, Others, Task
    <2>. QED
        BY <1>4, <2>1, <2>3 DEF Finalizes
<1>5. ASSUME NEW w \in Workers, CompleteRound(w) PROVE tasks[w].round = q /\ Completes(w)
    BY <1>0, <1>1, <1>5 DEF CompleteRound, Completes
<1>6. ASSUME NEW w \in Workers, Start(w) PROVE Creates(w) /\ tasks'[w].round = q /\ ~Exists(q)
    <2>1. Enters(w, "arming", 1)
        <3>1. Begin(w, "arming", 1)
            BY <1>6 DEF Start
        <3>. QED
            BY <1>0, <3>1, HandlerMoves DEF Enters
    <2>2. q = 1 /\ status = "DRAFT"
        BY <1>0, <1>6 DEF Start
    <2>. QED
        BY <1>6, <2>1, <2>2 DEF Creates, Enters, Inv, NothingBeforeStart
<1>7. ASSUME NEW w \in Workers, CreateNextRound(w)
      PROVE  Creates(w) /\ tasks'[w].round = q /\ ~Exists(q)
    <2>1. /\ FollowsUp(tasks[w].round) /\ ~Exists(tasks[w].round + 1) /\ q = tasks[w].round + 1
          /\ tasks' = [tasks EXCEPT ![w].pc = "arming", ![w].round = tasks[w].round + 1]
        BY <1>0, <1>7 DEF CreateNextRound
    <2>2. Enters(w, "arming", tasks[w].round + 1)
        BY <1>0, <2>1 DEF Enters, Others, Task
    <2>. QED
        BY <1>7, <2>1, <2>2 DEF Creates, Enters
<1>. QED
    BY <1>2, <1>3, <1>4, <1>5, <1>6, <1>7, RowWriters DEF Submit, CastVote

(* Who carries the tournament from a phase of a round to the next one.     *)
Opener(w, r) == tasks[w].round = r /\ tasks[w].pc \in {"closed", "openingVoting"}

Finisher(w, r) ==
    /\ tasks[w].round = r
    /\ \/ tasks[w].pc \in {"checkingFinished", "completing"}
       \/ tasks[w].pc = "finalized" /\ tasks[w].step = 0

Arms(w, r) == tasks[w].round = r /\ tasks[w].pc = "arming"

Delays(w) == tasks[w].pc = "delaying"

Unfinished(r) == rounds[r].stepStatus = "FINISHED" /\ ~rounds[r].completed

IsNewest(r) == r + 1 \in Rounds => ~Exists(r + 1)

OneOpener ==
    \A r \in Rounds, w \in Workers : Opener(w, r) =>
        CanOpen(r) /\ \A x \in Workers : Opener(x, r) => x = w

OneFinisher ==
    \A r \in Rounds, w \in Workers : Finisher(w, r) =>
        Unfinished(r) /\ \A x \in Workers : Finisher(x, r) => x = w

OneArms ==
    \A r \in Rounds, w \in Workers : Arms(w, r) =>
        Exists(r) /\ \A x \in Workers : Arms(x, r) => x = w

OneDelays ==
    \A w \in Workers : Delays(w) =>
        /\ rounds[tasks[w].round].completed /\ IsNewest(tasks[w].round) /\ status = "ACTIVE"
        /\ \A x \in Workers : Delays(x) => x = w

Alone == OneOpener /\ OneFinisher /\ OneArms /\ OneDelays

(* How a handler comes to carry it.                                        *)
LEMMA RolesTaken ==
    ASSUME Inv, [Next]_vars, NEW w \in Workers, NEW r \in Rounds
    PROVE  /\ Opener(w, r)' => Opener(w, r) \/ (Closes(w) /\ tasks[w].round = r)
           /\ Finisher(w, r)' => \/ Finisher(w, r)
                                 \/ OpensNothing(w) /\ tasks[w].round = r
                                 \/ Finalizes(w) /\ tasks[w].round = r /\ tasks'[w].step = 0
           /\ Arms(w, r)' => Arms(w, r) \/ (Creates(w) /\ tasks'[w].round = r)
           /\ Delays(w)' => (Delays(w) /\ tasks'[w] = tasks[w]) \/ Completes(w)
<1>1. CASE tasks'[w] = tasks[w]
    BY <1>1 DEF Opener, Finisher, Arms, Delays
<1>2. CASE tasks'[w] # tasks[w] /\ tasks'[w].pc \notin Asking \cup {"idle"}
    <2>1. \/ Closes(w) \/ Opens(w) \/ OpensNothing(w) \/ Finalizes(w) \/ GoesOn(w)
          \/ Completes(w) \/ Creates(w)
        BY <1>2, HandlerEnters
    <2>2. CASE GoesOn(w)
        <3>1. CASE CancelSubmissionTimer(w) /\ Enters(w, "openingVoting", tasks[w].round)
            BY <3>1 DEF Enters, CancelSubmissionTimer, Opener, Finisher, Arms, Delays
        <3>2. CASE CheckVotingFinished(w) /\ Enters(w, "completing", tasks[w].round)
            BY <3>2 DEF Enters, CheckVotingFinished, Opener, Finisher, Arms, Delays
        <3>3. CASE AfterFinalize(w) /\ tasks[w].step = 0 /\ Enters(w, "completing", tasks[w].round)
            BY <3>3 DEF Enters, AfterFinalize, Opener, Finisher, Arms, Delays
        <3>. QED
            BY <2>2, <3>1, <3>2, <3>3 DEF GoesOn
    <2>3. CASE Closes(w)
        BY <2>3 DEF Closes, Enters, Opener, Finisher, Arms, Delays
    <2>4. CASE Opens(w)
        BY <2>4 DEF Opens, Enters, Opener, Finisher, Arms, Delays
    <2>5. CASE OpensNothing(w)
        BY <2>5 DEF OpensNothing, Enters, Opener, Finisher, Arms, Delays
    <2>6. CASE Finalizes(w)
        BY <2>6 DEF Finalizes, Enters, Opener, Finisher, Arms, Delays
    <2>7. CASE Completes(w)
        BY <2>7 DEF Completes, Enters, Opener, Finisher, Arms, Delays
    <2>8. CASE Creates(w)
        <3>1. tasks'[w].pc = "arming"
            BY <2>8 DEF Creates, Enters
        <3>. QED
            BY <2>8, <3>1 DEF Opener, Finisher, Arms, Delays
    <2>. QED
        BY <2>1, <2>2, <2>3, <2>4, <2>5, <2>6, <2>7, <2>8
<1>3. CASE tasks'[w].pc \in Asking \cup {"idle"}
    BY <1>3 DEF Asking, Opener, Finisher, Arms, Delays
<1>. QED
    BY <1>1, <1>2, <1>3

(* A round is closed once, and opened by the handler that closed it.       *)
LEMMA OneOpenerStep ==
    ASSUME Inv, OneOpener, [Next]_vars
    PROVE  OneOpener'
<1>0. /\ tasks \in [Workers -> Task] /\ rounds \in [Rounds -> RoundRow] /\ TypeOK
      /\ \A r \in Rounds : RowAgrees(rounds[r], submissions[r]) /\ rounds[r] \in RoundRow
    BY DEF Inv, TypeOK, VotingCursor
<1>1. ASSUME NEW r \in Rounds, NEW w \in Workers, Opener(w, r), Opener(w, r)' PROVE CanOpen(r)'
    <2>1. CanOpen(r)
        BY <1>1 DEF OneOpener
    <2>2. rounds'[r] = rounds[r]
        <3>. SUFFICES ASSUME rounds'[r] # rounds[r] PROVE FALSE
            OBVIOUS
        <3>1. PICK y \in Workers :
                  \/ tasks[y].round = r /\ (Opens(y) \/ OpensNothing(y))
                  \/ tasks[y].round = r /\ (Closes(y) \/ Finalizes(y) \/ Completes(y))
                  \/ ~Exists(r)
            BY RowActors
        <3>2. tasks[y].round = r /\ (Opens(y) \/ OpensNothing(y))
            BY <2>1, <3>1 DEF CanOpen, Closes, Finalizes, VotingOpen, Completes,
                              VotingFinished, Exists
        <3>3. y = w
            BY <1>1, <3>2 DEF OneOpener, Opener, Opens, OpensNothing, OpenVoting
        <3>. QED
            BY <1>1, <3>2, <3>3 DEF Opener, Opens, OpensNothing, Enters
    <2>. QED
        BY <2>1, <2>2 DEF CanOpen
<1>2. ASSUME NEW w \in Workers, Closes(w), NEW r \in Rounds, tasks[w].round = r
      PROVE  CanOpen(r)' /\ \A x \in Workers : ~Opener(x, r)
    <2>1. rounds' = [rounds EXCEPT ![r].phase = "VOTING"] /\ rounds[r].stepStatus = "IDLE"
        BY <1>0, <1>2 DEF Closes, CloseSubmissions, RowAgrees
    <2>2. rounds'[r].phase = "VOTING" /\ rounds'[r].stepStatus = "IDLE"
        BY <1>0, <2>1 DEF RoundRow
    <2>. QED
        BY <1>2, <2>2 DEF CanOpen, Closes, OneOpener
<1>3. ASSUME NEW r \in Rounds, NEW w \in Workers, Opener(w, r)',
             NEW x \in Workers, Opener(x, r)'
      PROVE  CanOpen(r)' /\ x = w
    <2>1. CASE Opener(w, r) /\ Opener(x, r)
        BY <1>1, <1>3, <2>1 DEF OneOpener
    <2>2. CASE ~Opener(w, r)
        <3>1. Closes(w) /\ tasks[w].round = r
            BY <1>0, <1>3, <2>2, RolesTaken
        <3>2. ~Opener(x, r) /\ CanOpen(r)'
            BY <1>2, <3>1
        <3>3. x # w => tasks'[x] = tasks[x]
            BY <3>1 DEF Closes, Enters, Others
        <3>. QED
            BY <1>3, <3>2, <3>3 DEF Opener
    <2>3. CASE ~Opener(x, r)
        <3>1. Closes(x) /\ tasks[x].round = r
            BY <1>0, <1>3, <2>3, RolesTaken
        <3>2. ~Opener(w, r) /\ CanOpen(r)'
            BY <1>2, <3>1
        <3>3. x # w => tasks'[w] = tasks[w]
            BY <3>1 DEF Closes, Enters, Others
        <3>. QED
            BY <1>3, <3>2, <3>3 DEF Opener
    <2>. QED
        BY <2>1, <2>2, <2>3
<1>. QED
    BY <1>3 DEF OneOpener

(* The last submission is finalized once, and completing its round is the  *)
(* business of the handler that finalized it.                              *)
LEMMA OneFinisherStep ==
    ASSUME Inv, OneOpener, OneFinisher, [Next]_vars
    PROVE  OneFinisher'
<1>0. /\ tasks \in [Workers -> Task] /\ rounds \in [Rounds -> RoundRow] /\ TypeOK
      /\ \A r \in Rounds : /\ RowAgrees(rounds[r], submissions[r]) /\ rounds[r] \in RoundRow
                           /\ submissions[r] \in Seq(Users)
    BY DEF Inv, TypeOK, VotingCursor
<1>1. ASSUME NEW r \in Rounds, NEW w \in Workers, Finisher(w, r), Finisher(w, r)'
      PROVE  Unfinished(r)'
    <2>1. Unfinished(r)
        BY <1>1 DEF OneFinisher
    <2>2. rounds'[r] = rounds[r]
        <3>. SUFFICES ASSUME rounds'[r] # rounds[r] PROVE FALSE
            OBVIOUS
        <3>1. PICK y \in Workers :
                  \/ tasks[y].round = r /\ Completes(y)
                  \/ /\ tasks[y].round = r
                     /\ Closes(y) \/ Opens(y) \/ OpensNothing(y) \/ Finalizes(y)
                  \/ ~Exists(r)
            BY RowActors
        <3>2. rounds[r].phase \notin {"NONE", "SUBMISSION"}
            BY <1>0, <2>1 DEF RowAgrees, NoRound, Unfinished
        <3>3. OpensNothing(y) /\ tasks[y].round = r => CanOpen(r)
            BY DEF OpensNothing, OpenVoting, OneOpener, Opener
        <3>4. tasks[y].round = r /\ Completes(y)
            BY <2>1, <3>1, <3>2, <3>3
            DEF CanOpen, Closes, Finalizes, VotingOpen, Opens, Unfinished, Exists
        <3>5. y = w
            BY <1>1, <3>4 DEF OneFinisher, Finisher, Completes, CompleteRound
        <3>. QED
            BY <1>1, <3>4, <3>5 DEF Finisher, Completes, Enters
    <2>. QED
        BY <2>1, <2>2 DEF Unfinished
<1>2. ASSUME NEW w \in Workers, NEW r \in Rounds, tasks[w].round = r, OpensNothing(w)
      PROVE  Unfinished(r)' /\ ~Unfinished(r)
    <2>1. CanOpen(r) /\ submissions[r] = << >>
        BY <1>2 DEF OpensNothing, OpenVoting, OneOpener, Opener
    <2>2. rounds' = [rounds EXCEPT ![r].stepStatus = "FINISHED"]
        BY <1>0, <1>2, <2>1 DEF OpensNothing, OpenVoting, CanOpen
    <2>3. rounds'[r].stepStatus = "FINISHED" /\ rounds'[r].completed = rounds[r].completed
        BY <1>0, <2>2 DEF RoundRow
    <2>. QED
        BY <1>0, <2>1, <2>3 DEF CanOpen, Unfinished, RowAgrees
<1>3. ASSUME NEW w \in Workers, NEW r \in Rounds, tasks[w].round = r, Finalizes(w),
             tasks'[w].step = 0
      PROVE  Unfinished(r)' /\ ~Unfinished(r)
    <2>1. VotingOpen(r) /\ rounds[r].step \in 1..Len(submissions[r])
          /\ NextPosition(r) = rounds[r].step + 1
        BY <1>0, <1>3, PositionIsStep DEF Finalizes, Inv
    <2>2. ~(NextPosition(r) <= Len(submissions[r]))
        <3>. SUFFICES ASSUME NextPosition(r) <= Len(submissions[r]) PROVE FALSE
            OBVIOUS
        <3>1. tasks' = [tasks EXCEPT ![w].pc = "finalized", ![w].voters = {},
                                     ![w].step = NextPosition(r)]
            BY <1>3 DEF Finalizes, Finalize
        <3>2. tasks'[w].step = NextPosition(r)
            BY <1>0, <3>1 DEF Task
        <3>. QED
            BY <1>3, <2>1, <3>2
    <2>3. rounds' = [rounds EXCEPT ![r].current = None, ![r].step = 0,
                                   ![r].stepStatus = "FINISHED"]
        BY <1>3, <2>2 DEF Finalizes, Finalize
    <2>4. rounds'[r].stepStatus = "FINISHED" /\ rounds'[r].completed = rounds[r].completed
        BY <1>0, <2>3 DEF RoundRow
    <2>. QED
        BY <1>0, <2>1, <2>4 DEF VotingOpen, Unfinished, RowAgrees
<1>4. ASSUME NEW r \in Rounds, NEW w \in Workers, Finisher(w, r)', ~Finisher(w, r)
      PROVE  Unfinished(r)' /\ Others(w) /\ \A x \in Workers : ~Finisher(x, r)
    <2>1. /\ tasks[w].round = r
          /\ OpensNothing(w) \/ (Finalizes(w) /\ tasks'[w].step = 0)
        BY <1>0, <1>4, RolesTaken
    <2>2. Unfinished(r)' /\ ~Unfinished(r)
        BY <1>2, <1>3, <2>1
    <2>. QED
        BY <2>1, <2>2 DEF OneFinisher, OpensNothing, Finalizes, Enters
<1>5. ASSUME NEW r \in Rounds, NEW w \in Workers, Finisher(w, r)',
             NEW x \in Workers, Finisher(x, r)'
      PROVE  Unfinished(r)' /\ x = w
    <2>1. CASE Finisher(w, r) /\ Finisher(x, r)
        BY <1>1, <1>5, <2>1 DEF OneFinisher
    <2>2. CASE ~Finisher(w, r)
        <3>1. Unfinished(r)' /\ Others(w) /\ ~Finisher(x, r)
            BY <1>4, <1>5, <2>2
        <3>. QED
            BY <1>5, <3>1 DEF Finisher, Others
    <2>3. CASE ~Finisher(x, r)
        <3>1. Unfinished(r)' /\ Others(x) /\ ~Finisher(w, r)
            BY <1>4, <1>5, <2>3
        <3>. QED
            BY <1>5, <3>1 DEF Finisher, Others
    <2>. QED
        BY <2>1, <2>2, <2>3
<1>. QED
    BY <1>5 DEF OneFinisher

(* A round that is new has no handler yet.                                 *)
LEMMA NewRoundIsNew ==
    ASSUME Inv, OneDelays, NEW w \in Workers, Creates(w), NEW r \in Rounds, tasks'[w].round = r
    PROVE  ~Exists(r) /\ Others(w) /\ tasks'[w].pc = "arming"
<1>1. CASE Start(w) /\ Enters(w, "arming", 1)
    BY <1>1 DEF Start, Enters, Inv, NothingBeforeStart
<1>2. CASE CreateNextRound(w) /\ Enters(w, "arming", tasks[w].round + 1)
    BY <1>2 DEF CreateNextRound, Enters, OneDelays, Delays, IsNewest
<1>. QED
    BY <1>1, <1>2 DEF Creates

(* A round is armed by the handler that created it, which nobody else did. *)
LEMMA OneArmsStep ==
    ASSUME Inv, OneArms, OneDelays, [Next]_vars
    PROVE  OneArms'
<1>0. TypeOK /\ rounds \in [Rounds -> RoundRow]
    BY DEF Inv, TypeOK
<1>1. ASSUME NEW w \in Workers, NEW r \in Rounds, Creates(w), tasks'[w].round = r
      PROVE  Exists(r)'
    <2>1. CASE Start(w)
        <3>1. PICK p : rounds' = [rounds EXCEPT ![1] = NewRound(p)]
            BY <2>1 DEF Start
        <3>2. r = 1
            BY <1>1, <2>1, HandlerMoves, <1>0 DEF Start
        <3>. QED
            BY <1>0, <3>1, <3>2 DEF Exists, NewRound, NoRound
    <2>2. CASE CreateNextRound(w) /\ FollowsUp(tasks[w].round) /\ ~Start(w)
        <3>1. r = tasks[w].round + 1 /\ ~Exists(r)
            BY <1>1, <2>2, NewRoundIsNew DEF Creates, Enters
        <3>2. PICK p : rounds' = [rounds EXCEPT ![r] = NewRound(p)]
            BY <2>2, <3>1 DEF CreateNextRound
        <3>. QED
            BY <1>0, <3>2 DEF Exists, NewRound, NoRound
    <2>. QED
        BY <1>1, <2>1, <2>2 DEF Creates
<1>2. ASSUME NEW r \in Rounds, NEW w \in Workers, Arms(w, r)', ~Arms(w, r)
      PROVE  Exists(r)' /\ Others(w) /\ \A x \in Workers : ~Arms(x, r)
    <2>1. Creates(w) /\ tasks'[w].round = r
        BY <1>0, <1>2, RolesTaken
    <2>. QED
        BY <1>1, <2>1, NewRoundIsNew DEF OneArms
<1>3. ASSUME NEW r \in Rounds, NEW w \in Workers, Arms(w, r)',
             NEW x \in Workers, Arms(x, r)'
      PROVE  Exists(r)' /\ x = w
    <2>1. CASE Arms(w, r) /\ Arms(x, r)
        BY <2>1, NothingGoesBack DEF OneArms
    <2>2. CASE ~Arms(w, r)
        <3>1. Exists(r)' /\ Others(w) /\ ~Arms(x, r)
            BY <1>2, <1>3, <2>2
        <3>. QED
            BY <1>3, <3>1 DEF Arms, Others
    <2>3. CASE ~Arms(x, r)
        <3>1. Exists(r)' /\ Others(x) /\ ~Arms(w, r)
            BY <1>2, <1>3, <2>3
        <3>. QED
            BY <1>3, <3>1 DEF Arms, Others
    <2>. QED
        BY <2>1, <2>2, <2>3
<1>. QED
    BY <1>3 DEF OneArms

(* An active tournament stays so until it is finished.                     *)
LEMMA StatusActors ==
    ASSUME [Next]_vars, status = "ACTIVE", status' # "ACTIVE"
    PROVE  \E w \in Workers : FinishTournament(w)
<1>1. ASSUME NEW w \in Workers, TaskStep(w) PROVE FinishTournament(w)
    BY <1>1 DEF TaskStep, FindParticipant, Leave, ArmSubmissionTimer, HandleSubmissionSaved,
                CountSubmissions, CloseSubmissions, CancelSubmissionTimer, OpenVoting,
                ArmVotingTimer, CheckVotingFinished, HandleVoteSaved, CountVotes,
                BeginFinalization, Finalize, AfterFinalize, CompleteRound, CreateNextRound,
                tournamentVars
<1>2. ASSUME NEW w \in Workers, Request(w) PROVE FALSE
    BY <1>2 DEF Request, Start, AskToLeave, Submit, CastVote, tournamentVars
<1>. QED
    BY <1>1, <1>2
    DEF Next, Cancel, Join, SubmissionDeadlinePasses, VotingDeadlinePasses, SubmissionTimerFires,
        VotingTimerFires, CrashRestart, RequestFails, ReplyLost, vars, tournamentVars

(* A handler that waits for the delay keeps the tournament where it is:    *)
(* no other handler can complete a round, or create one.                   *)
LEMMA DelayHolds ==
    ASSUME Inv, SequenceInv, OneDelays, [Next]_vars, NEW w \in Workers, Delays(w),
           tasks'[w] = tasks[w]
    PROVE  /\ rounds'[tasks[w].round].completed /\ IsNewest(tasks[w].round)' /\ status' = "ACTIVE"
           /\ ~\E y \in Workers : VotingFinished(tasks[y].round)
<1>. DEFINE r == tasks[w].round
<1>0. /\ rounds \in [Rounds -> RoundRow] /\ tasks \in [Workers -> Task] /\ TypeOK
      /\ \A y \in Workers : tasks[y].round \in Rounds
      /\ \A q \in Rounds : RowAgrees(rounds[q], submissions[q])
    BY DEF Inv, TypeOK, Task, VotingCursor
<1>1. /\ rounds[r].completed /\ IsNewest(r) /\ status = "ACTIVE" /\ Exists(r)
      /\ \A y \in Workers : Delays(y) => y = w
    BY <1>0, CompletedExists DEF OneDelays
<1>2. \A q \in Rounds : VotingFinished(q) => FALSE
    <2>. SUFFICES ASSUME NEW q \in Rounds, VotingFinished(q) PROVE FALSE
        OBVIOUS
    <2>1. Exists(q) /\ ~rounds[q].completed
        BY DEF VotingFinished, Exists
    <2>2. r \in Rounds /\ r \in Int /\ q \in Int
        BY <1>0 DEF Rounds
    <2>3. ~(q < r)
        BY <1>1, <2>1, <2>2 DEF SequenceInv
    <2>4. ~(r < q)
        <3>. SUFFICES ASSUME r < q PROVE FALSE
            OBVIOUS
        <3>1. r + 1 \in Rounds /\ (r + 1 = q \/ r + 1 < q)
            BY <2>2, SizesAssumption DEF Rounds
        <3>2. Exists(r + 1)
            BY <2>1, <3>1, CompletedExists DEF SequenceInv
        <3>. QED
            BY <1>1, <3>1, <3>2 DEF IsNewest
    <2>. QED
        BY <1>1, <2>1, <2>2, <2>3, <2>4
<1>3. status' = "ACTIVE"
    <2>1. ~FinishTournament(w)
        BY <1>0, HandlerMoves DEF FinishTournament, Delays
    <2>. QED
        BY <1>1, <2>1, StatusActors DEF FinishTournament, Delays
<1>4. ASSUME NEW q \in Rounds, rounds'[q] # rounds[q], Exists(q) => rounds[q].completed PROVE FALSE
    <2>1. PICK y \in Workers :
              \/ /\ tasks[y].round = q
                 /\ Closes(y) \/ Opens(y) \/ OpensNothing(y) \/ Finalizes(y) \/ Completes(y)
              \/ Creates(y) /\ tasks'[y].round = q /\ ~Exists(q)
        BY <1>4, RowActors
    <2>2. ~Creates(y)
        <3>1. ~Start(y)
            BY <1>1 DEF Start
        <3>2. ASSUME CreateNextRound(y), Enters(y, "arming", tasks[y].round + 1) PROVE FALSE
            <4>1. y = w
                BY <1>1, <3>2 DEF CreateNextRound, Delays
            <4>. QED
                BY <3>2, <4>1 DEF Enters, Delays
        <3>. QED
            BY <3>1, <3>2 DEF Creates
    <2>3. CASE Exists(q)
        <3>1. /\ rounds[q].stepStatus = "FINISHED" /\ rounds[q].phase # "SUBMISSION"
            BY <1>0, <1>4, <2>3 DEF RowAgrees
        <3>2. tasks[y].round = q /\ OpensNothing(y)
            BY <1>2, <2>1, <2>2, <3>1
            DEF Closes, Opens, CanOpen, Finalizes, VotingOpen, Completes
        <3>3. rounds' = [rounds EXCEPT ![q].stepStatus = @]
            BY <3>1, <3>2 DEF OpensNothing, OpenVoting
        <3>. QED
            BY <1>0, <1>4, <3>3, RowUpdates
    <2>4. CASE ~Exists(q)
        <3>1. rounds[q] = NoRound
            BY <1>0, <2>4 DEF RowAgrees, Exists
        <3>2. tasks[y].round = q /\ OpensNothing(y)
            BY <1>2, <2>1, <2>2, <3>1
            DEF Closes, Opens, CanOpen, Finalizes, VotingOpen, Completes, NoRound
        <3>3. rounds' = [rounds EXCEPT ![q].stepStatus = @]
            BY <3>1, <3>2 DEF OpensNothing, OpenVoting, NoRound
        <3>. QED
            BY <1>0, <1>4, <3>3, RowUpdates
    <2>. QED
        BY <2>3, <2>4
<1>5. rounds'[r] = rounds[r] /\ (r + 1 \in Rounds => rounds'[r + 1] = rounds[r + 1])
    BY <1>0, <1>1, <1>4 DEF IsNewest
<1>. QED
    BY <1>0, <1>1, <1>2, <1>3, <1>5 DEF IsNewest, Exists

(* One handler waits for the delay.                                        *)
LEMMA OneDelaysStep ==
    ASSUME Inv, SequenceInv, OneDelays, [Next]_vars
    PROVE  OneDelays'
<1>0. /\ rounds \in [Rounds -> RoundRow] /\ tasks \in [Workers -> Task] /\ TypeOK
      /\ \A y \in Workers : tasks[y].round \in Rounds
    BY DEF Inv, TypeOK, Task
<1>1. ASSUME NEW w \in Workers, Completes(w)
      PROVE  /\ rounds'[tasks[w].round].completed
             /\ tasks[w].round + 1 \in Rounds => rounds'[tasks[w].round + 1].phase = "NONE"
             /\ tasks'[w].round = tasks[w].round /\ status' = "ACTIVE" /\ Others(w)
             /\ \A x \in Workers : x # w => ~Delays(x)
    <2>. DEFINE r == tasks[w].round
    <2>1. /\ VotingFinished(r) /\ rounds' = [rounds EXCEPT ![r].completed = TRUE]
          /\ status = "ACTIVE" /\ status' = status /\ Enters(w, "delaying", r)
        BY <1>1 DEF Completes, CompleteRound
    <2>2. rounds'[r].completed
        BY <1>0, <2>1 DEF RoundRow
    <2>3. r + 1 \in Rounds => ~Exists(r + 1)
        <3>. SUFFICES ASSUME r + 1 \in Rounds, Exists(r + 1) PROVE FALSE
            OBVIOUS
        <3>1. r < r + 1 /\ r \in Rounds
            BY <1>0 DEF Rounds
        <3>. QED
            BY <2>1, <3>1 DEF SequenceInv, VotingFinished
    <2>4. r + 1 \in Rounds => rounds'[r + 1].phase = "NONE"
        <3>1. r + 1 \in Rounds => rounds'[r + 1] = rounds[r + 1]
            BY <1>0, <2>1 DEF Rounds
        <3>. QED
            BY <2>3, <3>1 DEF Exists
    <2>5. ASSUME NEW x \in Workers, x # w, Delays(x) PROVE FALSE
        <3>1. tasks'[x] = tasks[x]
            BY <2>1, <2>5 DEF Enters, Others
        <3>. QED
            BY <2>1, <2>5, <3>1, DelayHolds
    <2>. QED
        BY <2>1, <2>2, <2>4, <2>5 DEF Enters
<1>2. ASSUME NEW w \in Workers, Delays(w)', NEW x \in Workers, Delays(x)'
      PROVE  /\ rounds'[tasks'[w].round].completed /\ IsNewest(tasks[w].round)' /\ status' = "ACTIVE"
             /\ x = w
    <2>1. CASE Completes(w)
        <3>1. x # w => tasks'[x] = tasks[x] /\ ~Delays(x)
            BY <1>1, <2>1 DEF Others
        <3>2. x = w
            BY <1>2, <3>1 DEF Delays
        <3>. QED
            BY <1>1, <2>1, <3>2 DEF IsNewest, Exists
    <2>2. CASE Delays(w) /\ tasks'[w] = tasks[w]
        <3>1. /\ rounds'[tasks[w].round].completed /\ IsNewest(tasks[w].round)'
              /\ status' = "ACTIVE"
            BY <2>2, DelayHolds
        <3>2. x = w
            <4>1. CASE Completes(x)
                BY <1>1, <2>2, <4>1
            <4>2. CASE Delays(x)
                BY <2>2, <4>2 DEF OneDelays
            <4>. QED
                BY <1>0, <1>2, <4>1, <4>2, RolesTaken, SizesAssumption DEF Rounds
        <3>. QED
            BY <2>2, <3>1, <3>2
    <2>. QED
        BY <1>0, <1>2, <2>1, <2>2, RolesTaken, SizesAssumption DEF Rounds
<1>. QED
    BY <1>2 DEF OneDelays

(* Before the first request nobody handles anything.                       *)
LEMMA AloneInit == Init => Alone
BY DEF Init, Alone, OneOpener, OneFinisher, OneArms, OneDelays, Opener, Finisher, Arms, Delays,
       IdleTask

(* No step gives a round a second opener, finisher, armer or follower.     *)
LEMMA AloneStep ==
    ASSUME Inv, SequenceInv, Alone, [Next]_vars
    PROVE  Alone'
BY OneOpenerStep, OneFinisherStep, OneArmsStep, OneDelaysStep DEF Alone

-----------------------------------------------------------------------------
(* What the events build on.                                               *)

Known == Inv /\ SequenceInv /\ Leavers /\ Alone

(* Every step is one of RoundLifecycle.                                    *)
LEMMA EventsAreSteps ==
    ASSUME [EventsNext]_allVars
    PROVE  [Next]_vars
<1>1. ASSUME NEW w \in Workers,
             \/ EventsStart(w) \/ EventsRequest(w)
      PROVE  Next
    BY <1>1 DEF EventsStart, EventsRequest, Next, Request
<1>2. ASSUME NEW w \in Workers,
             \/ EventsCountSubmissions(w) \/ EventsCloseSubmissions(w)
             \/ EventsOpenVoting(w) \/ EventsFinalize(w)
             \/ EventsCompleteRound(w) \/ EventsFinishTournament(w) \/ EventsCreateNextRound(w)
             \/ Continues(w) \/ ReadsOnly(w)
      PROVE  Next
    <2>1. TaskStep(w)
        BY <1>2 DEF EventsCountSubmissions, EventsCloseSubmissions, EventsOpenVoting, EventsFinalize,
                    EventsCompleteRound, EventsFinishTournament, EventsCreateNextRound, Continues,
                    ReadsOnly, TaskStep
    <2>. QED
        BY <2>1 DEF Next
<1>3. ASSUME NEW w \in Workers, EmitsCompleted(w) \/ EventsFault(w) PROVE [Next]_vars
    BY <1>3 DEF EmitsCompleted, EventsFault, Next
<1>4. ASSUME \/ \E w \in Workers : EventsCancel(w)
             \/ \E u \in Users : EventsJoin(u)
             \/ EventsCrash
      PROVE  Next
    BY <1>4 DEF EventsCancel, EventsJoin, EventsCrash, Next
<1>5. ASSUME NEW r \in Rounds, Deadlines(r) PROVE Next
    BY <1>5 DEF Deadlines, Next
<1>6. ASSUME UNCHANGED allVars PROVE UNCHANGED vars
    BY <1>6 DEF allVars
<1>. QED
    BY <1>1, <1>2, <1>3, <1>4, <1>5, <1>6 DEF EventsNext

(* They keep what RoundLifecycle's steps keep.                             *)
LEMMA KnownStep ==
    ASSUME Known, [EventsNext]_allVars
    PROVE  Known'
BY EventsAreSteps, InvStep, SequenceStep, LeaversStep, AloneStep DEF Known

(* What the events build on holds at first.                                *)
LEMMA KnownInit == Init => Known
<1>. SUFFICES ASSUME Init PROVE Known
    OBVIOUS
<1>1. Inv /\ Leavers /\ Alone
    BY InvInit, LedgerInit, AloneInit
<1>2. SequenceInv
    BY DEF Init, SequenceInv, Exists, NoRound, Rounds
<1>. QED
    BY <1>1, <1>2 DEF Known

(* Nobody leaves.                                                          *)
LEMMA NobodyGoes ==
    ASSUME Known
    PROVE  /\ \A w \in Workers : ~Leave(w)
           /\ \A r \in Rounds : SubmittedIn(r) \subseteq participants
BY NobodyLeaves DEF Known, Leavers, Leave, Leaves

-----------------------------------------------------------------------------
(* What the handlers return.                                               *)

Emitters == {"arming", "closed", "opened", "finalized", "delaying", "idle"}

(* A handler that still has to emit is between a commit and what follows   *)
(* it, and has at most two events.                                         *)
ResultOK ==
    /\ result \in [Workers -> Seq(Payloads)]
    /\ \A w \in Workers : Pending(w) => tasks[w].pc \in Emitters
    /\ \A w \in Workers : Len(result[w]) \in 0..2

Kept(x) == result'[x] = result[x] /\ (Pending(x) => tasks'[x] = tasks[x])

(* What a commit returns.                                                  *)
Announces(x) ==
    LET r == tasks[x].round IN
    \/ Start(x) /\ Enters(x, "arming", 1) /\ result'[x] = <<TournamentStarted, RoundCreated(1)>>
    \/ Closes(x) /\ RepliesArrived(r) /\ result'[x] = <<PhaseChanged(r)>>
    \/ Opens(x) /\ result'[x] = <<Reveal(r, 1)>>
    \/ /\ Finalizes(x) /\ tasks'[x].step = 0
       /\ result'[x] = <<VoteFinalized(r, tasks[x].voters)>>
    \/ /\ Finalizes(x) /\ tasks'[x].step # 0
       /\ result'[x] = <<VoteFinalized(r, tasks[x].voters), Reveal(r, tasks'[x].step)>>
    \/ Completes(x) /\ result'[x] = <<RoundCompleted(r, score')>>
    \/ /\ FinishTournament(x) /\ FollowsUp(r) /\ tasks'[x].pc = "idle"
       /\ status' = "COMPLETED" /\ winner' = Leaderboard(score)[1].user
       /\ result'[x] = <<TournamentFinished(Leaderboard(score))>>
    \/ /\ CreateNextRound(x) /\ FollowsUp(r) /\ Enters(x, "arming", r + 1)
       /\ result'[x] = <<RoundCreated(r + 1)>>

Returning(w) ==
    \/ EventsStart(w) \/ EventsCloseSubmissions(w) \/ EventsOpenVoting(w) \/ EventsFinalize(w)
    \/ EventsCompleteRound(w) \/ EventsFinishTournament(w) \/ EventsCreateNextRound(w)

(* It returns nothing when it finds nothing to do, or nothing to tell: a   *)
(* round without submissions has no reveals.                               *)
Skips(x) ==
    /\ Kept(x) \/ result'[x] = <<>>
    /\ UNCHANGED tournamentVars
    /\ rounds' = rounds \/ OpensNothing(x)

(* A handler that returns either announces what it committed or skips, and *)
(* touches nobody else's events.                                           *)
LEMMA Returned ==
    ASSUME Inv, ResultOK, NEW w \in Workers, Returning(w)
    PROVE  /\ Others(w)
           /\ \A x \in Workers : x # w => result'[x] = result[x]
           /\ Announces(w) \/ Skips(w)
           /\ UNCHANGED <<createdAt, announced, furthest, behind>>
<1>. DEFINE r == tasks[w].round
<1>0. /\ tasks \in [Workers -> Task] /\ result \in [Workers -> Seq(Payloads)] /\ TypeOK
      /\ Task = [pc : Steps, round : Rounds, user : Users \cup {None},
                 online : SUBSET Users, reason : Reasons, voters : SUBSET Users, step : Nat]
    BY DEF Inv, TypeOK, ResultOK, Task
<1>1. \A events : Returns(w, events) =>
          /\ result'[w] = events
          /\ \A x \in Workers : x # w => result'[x] = result[x]
          /\ UNCHANGED <<createdAt, announced, furthest, behind>>
    BY <1>0 DEF Returns
<1>2. CASE EventsStart(w)
    <2>1. Start(w) /\ Returns(w, <<TournamentStarted, RoundCreated(1)>>)
        BY <1>2 DEF EventsStart
    <2>2. Enters(w, "arming", 1)
        BY <1>0, <2>1, HandlerMoves DEF Start, Enters
    <2>. QED
        BY <1>1, <2>1, <2>2 DEF Announces, Enters
<1>3. CASE EventsCloseSubmissions(w)
    <2>1. /\ CloseSubmissions(w) /\ RepliesArrived(r)
          /\ Returns(w, IF tasks'[w].pc = "closed" THEN <<PhaseChanged(r)>> ELSE <<>>)
        BY <1>3 DEF EventsCloseSubmissions
    <2>2. Others(w)
        BY <1>0, <2>1, HandlerMoves DEF CloseSubmissions
    <2>3. CASE rounds[r].phase = "SUBMISSION"
        <3>1. Goto(w, "closed")
            BY <2>1, <2>3 DEF CloseSubmissions
        <3>2. Closes(w) /\ tasks'[w].pc = "closed"
            BY <1>0, <2>1, <2>3, <3>1, HandlerMoves DEF Closes, Enters
        <3>. QED
            BY <1>1, <2>1, <2>2, <3>2 DEF Announces
    <2>4. CASE rounds[r].phase # "SUBMISSION"
        <3>1. tasks'[w].pc = "idle"
            BY <1>0, <2>1, <2>4, HandlerMoves DEF CloseSubmissions
        <3>2. UNCHANGED tournamentVars /\ rounds' = rounds
            BY <2>1, <2>4 DEF CloseSubmissions
        <3>. QED
            BY <1>1, <2>1, <2>2, <3>1, <3>2 DEF Skips
    <2>. QED
        BY <2>3, <2>4
<1>4. CASE EventsOpenVoting(w)
    <2>1. /\ OpenVoting(w)
          /\ Returns(w, IF tasks'[w].pc = "opened" THEN <<Reveal(r, 1)>> ELSE <<>>)
        BY <1>4 DEF EventsOpenVoting
    <2>2. CASE CanOpen(r) /\ submissions[r] # <<>>
        <3>1. tasks' = [tasks EXCEPT ![w].pc = "opened", ![w].step = 1]
            BY <2>1, <2>2 DEF OpenVoting, CanOpen
        <3>2. Opens(w) /\ tasks'[w].pc = "opened" /\ Others(w)
            BY <1>0, <2>1, <2>2, <3>1 DEF Opens, Enters, Others
        <3>. QED
            BY <1>1, <2>1, <3>2 DEF Announces
    <2>3. CASE ~(CanOpen(r) /\ submissions[r] # <<>>)
        <3>1. Goto(w, "checkingFinished")
            BY <2>1, <2>3 DEF OpenVoting, CanOpen
        <3>2. Enters(w, "checkingFinished", r) /\ tasks'[w].pc = "checkingFinished" /\ Others(w)
            BY <1>0, <3>1, HandlerMoves DEF Enters
        <3>3. OpensNothing(w) /\ UNCHANGED tournamentVars
            BY <2>1, <2>3, <3>2 DEF OpensNothing, OpenVoting
        <3>. QED
            BY <1>1, <2>1, <3>2, <3>3 DEF Skips
    <2>. QED
        BY <2>2, <2>3
<1>5. CASE EventsFinalize(w)
    <2>1. Finalize(w) /\ Returns(w, FinalizationEvents(r, tasks[w].voters, tasks'[w].step))
        BY <1>5 DEF EventsFinalize
    <2>2. PICK n : tasks' = [tasks EXCEPT ![w].pc = "finalized", ![w].voters = {}, ![w].step = n]
        BY <2>1 DEF Finalize
    <2>3. Others(w) /\ Enters(w, "finalized", r)
        BY <1>0, <2>2 DEF Enters, Others
    <2>4. Finalizes(w)
        BY <2>1, <2>3, StepIsOpen DEF Finalizes
    <2>. QED
        BY <1>1, <2>1, <2>3, <2>4 DEF Announces, FinalizationEvents
<1>6. CASE EventsCompleteRound(w)
    <2>1. /\ CompleteRound(w)
          /\ Returns(w, IF tasks'[w].pc = "delaying" THEN <<RoundCompleted(r, score')>> ELSE <<>>)
        BY <1>6 DEF EventsCompleteRound
    <2>2. CASE VotingFinished(r) /\ status = "ACTIVE"
        <3>1. Goto(w, "delaying")
            BY <2>1, <2>2 DEF CompleteRound
        <3>2. Completes(w) /\ tasks'[w].pc = "delaying" /\ Others(w)
            BY <1>0, <2>1, <2>2, <3>1, HandlerMoves DEF Completes, Enters
        <3>. QED
            BY <1>1, <2>1, <3>2 DEF Announces
    <2>3. CASE ~(VotingFinished(r) /\ status = "ACTIVE")
        <3>1. Finish(w)
            BY <2>1, <2>3 DEF CompleteRound
        <3>2. Others(w) /\ tasks'[w].pc = "idle"
            BY <1>0, <3>1, HandlerMoves
        <3>3. UNCHANGED tournamentVars /\ rounds' = rounds
            BY <2>1, <2>3 DEF CompleteRound, tournamentVars
        <3>. QED
            BY <1>1, <2>1, <3>2, <3>3 DEF Skips
    <2>. QED
        BY <2>2, <2>3
<1>7. CASE EventsFinishTournament(w)
    <2>1. FinishTournament(w) /\ ~Pending(w)
        BY <1>7 DEF EventsFinishTournament
    <2>2. Others(w) /\ tasks'[w].pc = "idle"
        BY <1>0, <2>1, HandlerMoves DEF FinishTournament
    <2>3. CASE status' = status
        <3>1. UNCHANGED tournamentVars /\ rounds' = rounds
            BY <2>1, <2>3 DEF FinishTournament, FollowsUp, tournamentVars
        <3>. QED
            BY <1>7, <2>1, <2>2, <2>3, <3>1
            DEF EventsFinishTournament, Silently, eventVars, Kept, Skips
    <2>4. CASE status' # status
        <3>1. /\ winner' = Leaderboard(score)[1].user
              /\ Returns(w, <<TournamentFinished(Leaderboard(score))>>)
            BY <1>7, <2>4 DEF EventsFinishTournament
        <3>2. FollowsUp(r) /\ status' = "COMPLETED"
            BY <2>1, <2>4 DEF FinishTournament
        <3>. QED
            BY <1>1, <2>1, <2>2, <3>1, <3>2 DEF Announces
    <2>. QED
        BY <2>3, <2>4
<1>8. CASE EventsCreateNextRound(w)
    <2>1. /\ CreateNextRound(w)
          /\ Returns(w, IF tasks'[w].pc = "arming" THEN <<RoundCreated(tasks'[w].round)>> ELSE <<>>)
        BY <1>8 DEF EventsCreateNextRound
    <2>2. CASE FollowsUp(r)
        <3>1. tasks' = [tasks EXCEPT ![w].pc = "arming", ![w].round = r + 1]
            BY <2>1, <2>2 DEF CreateNextRound
        <3>2. Enters(w, "arming", r + 1)
            BY <1>0, <3>1 DEF Enters, Others
        <3>3. tasks'[w].pc = "arming" /\ tasks'[w].round = r + 1 /\ Others(w)
            BY <3>2 DEF Enters
        <3>. QED
            BY <1>1, <2>1, <2>2, <3>2, <3>3 DEF Announces
    <2>3. CASE ~FollowsUp(r)
        <3>1. Finish(w)
            BY <2>1, <2>3 DEF CreateNextRound
        <3>2. Others(w) /\ tasks'[w].pc = "idle"
            BY <1>0, <3>1, HandlerMoves
        <3>3. UNCHANGED tournamentVars /\ rounds' = rounds
            BY <2>1, <2>3 DEF CreateNextRound
        <3>. QED
            BY <1>1, <2>1, <3>2, <3>3 DEF Skips
    <2>. QED
        BY <2>2, <2>3
<1>. QED
    BY <1>2, <1>3, <1>4, <1>5, <1>6, <1>7, <1>8 DEF Returning

(* The kinds of steps there are for those who listen.                      *)
Quiet ==
    /\ UNCHANGED eventVars /\ UNCHANGED tournamentVars
    /\ rounds' = rounds \/ \E w \in Workers : OpensNothing(w)
    /\ \A x \in Workers : Pending(x) => tasks'[x] = tasks[x]

Announcing(w) ==
    /\ Announces(w) /\ ~Pending(w) /\ Others(w)
    /\ result' = [result EXCEPT ![w] = result'[w]]
    /\ UNCHANGED <<createdAt, announced, furthest, behind>>

Hearing(w) ==
    /\ Emits(w) /\ Others(w)
    /\ UNCHANGED <<tournamentVars, rounds, contentVars, faults>>

Losing ==
    /\ faults' > 0 /\ result' \in [Workers -> Seq(Payloads)]
    /\ \A x \in Workers :
          \/ result'[x] = << >> /\ (Pending(x) => behind')
          \/ result'[x] = result[x] /\ tasks'[x] = tasks[x]
    /\ behind => behind'
    /\ behind' \in BOOLEAN
    /\ UNCHANGED <<tournamentVars, rounds, contentVars, createdAt, announced, furthest>>

Joining(u) == EventsJoin(u) /\ tasks' = tasks /\ UNCHANGED <<status, winner, score, rounds, contentVars>>

Cancelling(w) == EventsCancel(w) /\ tasks' = tasks

Counting(w) == EventsCountSubmissions(w) /\ ~Pending(w) /\ Others(w)

(* Every step is quiet, returns events, hears them, loses them, changes    *)
(* who takes part, or counts.                                              *)
LEMMA EventMoves ==
    ASSUME Inv, ResultOK, behind \in BOOLEAN, [EventsNext]_allVars
    PROVE  \/ Quiet
           \/ \E w \in Workers : Announcing(w)
           \/ \E w \in Workers : Hearing(w)
           \/ Losing
           \/ \E u \in Users : Joining(u)
           \/ \E w \in Workers : Cancelling(w)
           \/ \E w \in Workers : Counting(w)
<1>0. /\ tasks \in [Workers -> Task] /\ result \in [Workers -> Seq(Payloads)] /\ faults \in Nat
      /\ << >> \in Seq(Payloads) /\ TypeOK
    BY SizesAssumption DEF Inv, TypeOK, ResultOK
<1>1. ASSUME NEW w \in Workers, tasks[w].pc \notin Emitters PROVE ~Pending(w)
    BY <1>1 DEF ResultOK
<1>2. ASSUME NEW w \in Workers, EventsRequest(w) PROVE Quiet
    <2>1. Others(w)
        BY <1>0, <1>2, HandlerMoves DEF EventsRequest, Submit, CastVote
    <2>2. UNCHANGED tournamentVars /\ rounds' = rounds
        BY <1>2 DEF EventsRequest, Submit, CastVote
    <2>. QED
        BY <1>2, <2>1, <2>2 DEF EventsRequest, Silently, Quiet, Others
<1>3. ASSUME NEW w \in Workers, EventsCountSubmissions(w) PROVE Counting(w)
    <2>1. tasks[w].pc = "countingSubmissions"
        BY <1>3 DEF EventsCountSubmissions, CountSubmissions
    <2>2. Others(w)
        BY <1>0, <1>3, HandlerMoves DEF EventsCountSubmissions, CountSubmissions, Others
    <2>. QED
        BY <1>1, <1>3, <2>1, <2>2 DEF Counting, Emitters
<1>4. ASSUME NEW w \in Workers, Returning(w) PROVE Quiet \/ Announcing(w)
    <2>1. ~Pending(w)
        BY <1>1, <1>4 DEF Returning, EventsStart, EventsCloseSubmissions, EventsOpenVoting,
            EventsFinalize, EventsCompleteRound, EventsFinishTournament, EventsCreateNextRound,
            CloseSubmissions, OpenVoting, Finalize, CompleteRound, Emitters
    <2>2. /\ Others(w) /\ \A x \in Workers : x # w => result'[x] = result[x]
          /\ Announces(w) \/ Skips(w)
          /\ UNCHANGED <<createdAt, announced, furthest, behind>>
        BY <1>4, Returned
    <2>3. result' = [result EXCEPT ![w] = result'[w]]
        <3>1. \/ \E events : result' = [result EXCEPT ![w] = events]
              \/ result' = result
            BY <1>4 DEF Returning, EventsStart, EventsCloseSubmissions, EventsOpenVoting,
                EventsFinalize, EventsCompleteRound, EventsFinishTournament, EventsCreateNextRound,
                Returns, Silently, eventVars
        <3>. QED
            BY <1>0, <3>1
    <2>4. CASE Skips(w)
        <3>1. result'[w] = result[w]
            BY <2>1, <2>4 DEF Skips, Kept, Pending
        <3>2. result' = result
            BY <1>0, <2>3, <3>1
        <3>. QED
            BY <2>1, <2>2, <2>4, <3>2 DEF Quiet, eventVars, Others, Skips
    <2>. QED
        BY <2>1, <2>2, <2>3, <2>4 DEF Announcing
<1>5. ASSUME NEW w \in Workers, EmitsCompleted(w) PROVE Hearing(w)
    BY <1>5 DEF EmitsCompleted, Hearing, vars, tournamentVars, contentVars, Others
<1>6. ASSUME NEW w \in Workers, Continues(w) PROVE Hearing(w)
    <2>1. /\ Finish(w) \/ (\E pc : Goto(w, pc))
          /\ UNCHANGED <<tournamentVars, rounds, contentVars, faults>>
        BY <1>6 DEF Continues, ArmSubmissionTimer, CancelSubmissionTimer, ArmVotingTimer,
            AfterFinalize
    <2>2. Others(w)
        BY <1>0, <2>1, HandlerMoves
    <2>. QED
        BY <1>6, <2>1, <2>2 DEF Continues, Hearing
<1>7. ASSUME NEW w \in Workers, ReadsOnly(w) PROVE Quiet
    <2>1. tasks[w].pc \notin Emitters
        BY <1>7 DEF ReadsOnly, HandleSubmissionSaved, CheckVotingFinished, HandleVoteSaved,
            CountVotes, BeginFinalization, Emitters
    <2>2. Others(w)
        <3>1. CASE HandleSubmissionSaved(w)
            BY <1>0, <3>1, HandlerMoves DEF HandleSubmissionSaved
        <3>2. CASE CheckVotingFinished(w)
            BY <1>0, <3>2, HandlerMoves DEF CheckVotingFinished
        <3>3. CASE HandleVoteSaved(w)
            BY <1>0, <3>3, HandlerMoves DEF HandleVoteSaved, Others
        <3>4. CASE CountVotes(w)
            BY <1>0, <3>4, HandlerMoves DEF CountVotes, Others
        <3>5. CASE BeginFinalization(w)
            BY <1>0, <3>5, HandlerMoves DEF BeginFinalization, Others
        <3>. QED
            BY <1>7, <3>1, <3>2, <3>3, <3>4, <3>5 DEF ReadsOnly
    <2>3. UNCHANGED tournamentVars /\ rounds' = rounds
        BY <1>7 DEF ReadsOnly, HandleSubmissionSaved, CheckVotingFinished, HandleVoteSaved,
            CountVotes, BeginFinalization
    <2>. QED
        BY <1>1, <1>7, <2>1, <2>2, <2>3 DEF ReadsOnly, Silently, Quiet, Others
<1>8. ASSUME NEW w \in Workers, EventsFault(w) PROVE Losing
    <2>1. /\ faults' = faults + 1 /\ Finish(w)
          /\ UNCHANGED <<tournamentVars, rounds, contentVars>>
        BY <1>8 DEF EventsFault, RequestFails, ReplyLost, FaultHappens
    <2>2. Others(w)
        BY <1>0, <2>1, HandlerMoves
    <2>3. /\ result' = [result EXCEPT ![w] = << >>] /\ behind' = (behind \/ Pending(w))
          /\ UNCHANGED <<createdAt, announced, furthest>>
        BY <1>8 DEF EventsFault, Loses
    <2>4. behind' \in BOOLEAN /\ (behind => behind') /\ (Pending(w) => behind')
        BY <2>3
    <2>. QED
        BY <1>0, <2>1, <2>2, <2>3, <2>4 DEF Losing, Others
<1>9. ASSUME EventsCrash PROVE Losing
    <2>1. /\ faults' = faults + 1 /\ UNCHANGED <<tournamentVars, rounds, contentVars>>
          /\ result' = [w \in Workers |-> << >>] /\ UNCHANGED <<createdAt, announced, furthest>>
          /\ behind' = (behind \/ \E w \in Workers : Pending(w))
        BY <1>9 DEF EventsCrash, CrashRestart, FaultHappens
    <2>2. behind' \in BOOLEAN /\ (behind => behind') /\ \A w \in Workers : Pending(w) => behind'
        BY <2>1
    <2>. QED
        BY <1>0, <2>1, <2>2 DEF Losing
<1>10. ASSUME NEW w \in Workers, EventsCancel(w) PROVE Cancelling(w)
    BY <1>10 DEF EventsCancel, Cancel, Cancelling
<1>11. ASSUME NEW u \in Users, EventsJoin(u) PROVE Joining(u)
    BY <1>11 DEF EventsJoin, Join, Joining
<1>12. ASSUME NEW r \in Rounds, Deadlines(r) PROVE Quiet
    BY <1>12 DEF Deadlines, Silently, Quiet, SubmissionDeadlinePasses, VotingDeadlinePasses,
        SubmissionTimerFires, VotingTimerFires
<1>13. ASSUME UNCHANGED allVars PROVE Quiet
    BY <1>13 DEF allVars, vars, Quiet
<1>. QED
    BY <1>2, <1>3, <1>4, <1>5, <1>6, <1>7, <1>8, <1>9, <1>10, <1>11, <1>12, <1>13
    DEF EventsNext, Returning

-----------------------------------------------------------------------------
(* The order of joining, and what it does to the standings.                *)

(* The participants and their scores change when a round is completed,     *)
(* when somebody joins and when the tournament is cancelled.               *)
LEMMA TournamentMoves ==
    ASSUME [EventsNext]_allVars
    PROVE  \/ UNCHANGED <<participants, score, createdAt>>
           \/ /\ \E w \in Workers : /\ VotingFinished(tasks[w].round)
                                   /\ score' = StandingsAfter(tasks[w].round)
              /\ status = "ACTIVE" /\ UNCHANGED <<status, participants, createdAt>>
           \/ \E u \in Users : EventsJoin(u)
           \/ \E w \in Workers : EventsCancel(w)
<1>1. ASSUME NEW w \in Workers, EventsStart(w) \/ EventsRequest(w)
      PROVE  UNCHANGED <<participants, score, createdAt>>
    BY <1>1 DEF EventsStart, EventsRequest, Start, Submit, CastVote, Returns, Silently, eventVars,
                tournamentVars
<1>2. ASSUME NEW w \in Workers,
             \/ EventsCountSubmissions(w) \/ EventsCloseSubmissions(w)
             \/ EventsOpenVoting(w) \/ EventsFinalize(w)
      PROVE  UNCHANGED <<participants, score, createdAt>>
    BY <1>2 DEF EventsCountSubmissions, EventsCloseSubmissions, EventsOpenVoting, EventsFinalize,
        CountSubmissions, CloseSubmissions, OpenVoting, Finalize, Returns, tournamentVars
<1>3. ASSUME NEW w \in Workers,
             EmitsCompleted(w) \/ EventsFinishTournament(w) \/ EventsCreateNextRound(w)
      PROVE  UNCHANGED <<participants, score, createdAt>>
    BY <1>3 DEF EmitsCompleted, EventsFinishTournament, EventsCreateNextRound, Emits, Returns,
        Silently, eventVars, vars, FinishTournament, CreateNextRound, tournamentVars
<1>4. ASSUME NEW w \in Workers, Continues(w) \/ ReadsOnly(w) \/ EventsFault(w)
      PROVE  UNCHANGED <<participants, score, createdAt>>
    BY <1>4 DEF Continues, ReadsOnly, EventsFault, Loses, Emits, Silently, eventVars,
        ArmSubmissionTimer, CancelSubmissionTimer, ArmVotingTimer, AfterFinalize,
        HandleSubmissionSaved, CheckVotingFinished, HandleVoteSaved, CountVotes,
        BeginFinalization, RequestFails, ReplyLost, tournamentVars
<1>5. ASSUME NEW w \in Workers, EventsCompleteRound(w)
      PROVE  \/ UNCHANGED <<participants, score, createdAt>>
             \/ /\ VotingFinished(tasks[w].round) /\ score' = StandingsAfter(tasks[w].round)
                /\ status = "ACTIVE" /\ UNCHANGED <<status, participants, createdAt>>
    BY <1>5 DEF EventsCompleteRound, CompleteRound, Returns
<1>6. ASSUME NEW r \in Rounds, Deadlines(r) PROVE UNCHANGED <<participants, score, createdAt>>
    BY <1>6 DEF Deadlines, Silently, eventVars, SubmissionDeadlinePasses, VotingDeadlinePasses,
        SubmissionTimerFires, VotingTimerFires, tournamentVars
<1>7. ASSUME EventsCrash PROVE UNCHANGED <<participants, score, createdAt>>
    BY <1>7 DEF EventsCrash, CrashRestart, tournamentVars
<1>8. ASSUME UNCHANGED allVars PROVE UNCHANGED <<participants, score, createdAt>>
    BY <1>8 DEF allVars, vars, tournamentVars, eventVars
<1>. QED
    BY <1>1, <1>2, <1>3, <1>4, <1>5, <1>6, <1>7, <1>8 DEF EventsNext

(* The owner was the first to join.  Those who have no row, and everybody  *)
(* before the start, have no points.                                       *)
OrderOK ==
    /\ JoinOrder
    /\ status # "CANCELLED" => createdAt # << >> /\ createdAt[1] = Owner
    /\ \A u \in Users : u \notin participants \/ status = "DRAFT" => score[u] = 0

(* The participants have an order of joining, the owner first, and no      *)
(* points.                                                                 *)
LEMMA OrderInit == EventsInit => OrderOK
<1>. SUFFICES ASSUME EventsInit PROVE OrderOK
    OBVIOUS
<1>. DEFINE n == Cardinality(Joined)
            D == 1..n
<1>1. /\ Init /\ createdAt \in [D -> Joined] /\ createdAt[1] = Owner
      /\ \A i, j \in D : i # j => createdAt[i] # createdAt[j]
    BY DEF EventsInit, SetToSeqs
<1>2. IsFiniteSet(Joined) /\ n \in Nat /\ Joined # {}
    BY UsersAssumption, FS_Subset, FS_CardinalityType
<1>3. n # 0
    BY <1>2, FS_EmptySet
<1>4. createdAt \in Seq(Users) /\ Len(createdAt) = n
    <2>1. createdAt \in [D -> Users]
        BY <1>1, UsersAssumption
    <2>. QED
        BY <1>2, <2>1
<1>5. IsInjective(createdAt)
    BY <1>1 DEF IsInjective
<1>6. createdAt \in Injection(D, Joined)
    BY <1>1 DEF Injection, IsInjective
<1>7. Cardinality(D) = n
    BY <1>2, FS_Interval
<1>8. createdAt \in Surjection(D, Joined)
    BY <1>2, <1>6, <1>7, FS_Injection
<1>9. ToSet(createdAt) = Joined
    BY <1>1, <1>8 DEF Surjection, ToSet
<1>10. participants = Joined /\ status = "DRAFT" /\ \A u \in Users : score[u] = 0
    BY <1>1 DEF Init
<1>. QED
    BY <1>1, <1>2, <1>3, <1>4, <1>5, <1>9, <1>10 DEF OrderOK, JoinOrder

(* It stays an order of the participants with the owner first, and a draft *)
(* has no points.                                                          *)
LEMMA OrderStep ==
    ASSUME Known, OrderOK, [EventsNext]_allVars
    PROVE  OrderOK'
<1>0. /\ TypeOK /\ participants \subseteq Users /\ score \in [Users -> Nat] /\ [Next]_vars
      /\ createdAt \in Seq(Users)
    BY EventsAreSteps DEF Known, Inv, TypeOK, OrderOK, JoinOrder
<1>1. /\ status' = "DRAFT" => status = "DRAFT"
      /\ status' # "CANCELLED" => status # "CANCELLED"
    BY <1>0, StatusMoves
<1>2. CASE UNCHANGED <<participants, score, createdAt>>
    BY <1>1, <1>2 DEF OrderOK, JoinOrder
<1>3. CASE /\ \E w \in Workers : /\ VotingFinished(tasks[w].round)
                                /\ score' = StandingsAfter(tasks[w].round)
           /\ status = "ACTIVE" /\ UNCHANGED <<status, participants, createdAt>>
    <2>1. \A u \in Users : u \notin participants => score'[u] = score[u]
        BY <1>3 DEF StandingsAfter
    <2>. QED
        BY <1>3, <2>1 DEF OrderOK, JoinOrder
<1>4. ASSUME NEW u \in Users, EventsJoin(u) PROVE OrderOK'
    <2>1. /\ u \in Users \ participants /\ participants' = participants \cup {u}
          /\ UNCHANGED <<status, score>> /\ status # "CANCELLED"
        BY <1>4 DEF EventsJoin, Join
    <2>2. PICK i \in 1..Len(createdAt) : createdAt' = InsertAt(createdAt, i + 1, u)
        BY <1>4 DEF EventsJoin
    <2>3. /\ JoinOrder' /\ Len(createdAt') = Len(createdAt) + 1
          /\ createdAt'[1] = createdAt[1]
        BY <2>1, <2>2, InsertedLater DEF OrderOK
    <2>4. createdAt' # << >>
        BY <1>0, <2>3
    <2>. QED
        BY <2>1, <2>3, <2>4 DEF OrderOK
<1>5. ASSUME NEW w \in Workers, EventsCancel(w) PROVE OrderOK'
    <2>1. /\ status = "DRAFT" /\ status' = "CANCELLED" /\ participants' = {} /\ score' = score
          /\ createdAt' = << >>
        BY <1>5 DEF EventsCancel, Cancel
    <2>2. << >> \in Seq(Users) /\ IsInjective(<< >>) /\ ToSet(<< >>) = {}
        BY DEF IsInjective, ToSet
    <2>. QED
        BY <2>1, <2>2 DEF OrderOK, JoinOrder
<1>. QED
    BY <1>2, <1>3, <1>4, <1>5, TournamentMoves

-----------------------------------------------------------------------------
(* Events and views that are true of the tournament, and stay so.          *)

(* The votes on a submission of a closed round that have been counted.     *)
Settled(r, a, tally) ==
    /\ r \in Rounds /\ rounds[r].phase = "VOTING" /\ tally = TallyOf(r, a)
    /\ \E i \in 1..Len(submissions[r]) : submissions[r][i] = a /\ Finalized(r, i)

(* Who leads when the last round is completed is the winner.               *)
FinalLead(u) == rounds[RoundsCount].completed /\ Leads(score, u)

ShowsScores(board) == \A i \in 1..Len(board) : board[i].score = score[board[i].user]

Fits(e) ==
    \/ e \in TournamentStartedPayload \cup TournamentCancelledPayload
    \/ /\ e \in RoundCreatedPayload \cup RoundProgressUpdatedPayload
                  \cup RoundPhaseChangedPayload \cup VotingSubmissionRevealedPayload
       /\ Exists(e.round)
    \/ e \in VoteFinalizedPayload /\ Settled(e.round, e.author, e.tally)
    \/ /\ e \in RoundCompletedPayload /\ Exists(e.round) /\ Sorted(e.leaderboard)
       /\ e.round = RoundsCount => FinalLead(e.leaderboard[1].user)
    \/ /\ e \in TournamentFinishedPayload /\ Sorted(e.leaderboard) /\ FinalLead(e.winner)
       /\ ShowsScores(e.leaderboard)

AllFit == \A w \in Workers : \A i \in 1..Len(result[w]) : Fits(result[w][i])

View ==
    [stage : {"DRAFT", "ACTIVE", "CANCELLED", "SUBMITTING", "CLOSED", "REVEALING", "FINALIZED",
              "SCORED", "COMPLETED"},
     round : {0} \cup Rounds, submitted : Nat, step : Nat, total : Nat,
     tallies : [Users -> Tally \cup {None}], earned : [Users -> Nat],
     board : Seq(LeaderboardEntry), winner : Users \cup {None}]

Agrees(view) ==
    /\ view \in View
    /\ view.round # 0 => Exists(view.round)
    /\ \A a \in Users : view.tallies[a] # None => Settled(view.round, a, view.tallies[a])
    /\ Sorted(view.board)
    /\ view.stage = "SCORED" /\ view.round = RoundsCount => FinalLead(view.board[1].user)

(* A tally that is final stays what it is: nobody votes on a step that is  *)
(* finalized.                                                              *)
LEMMA SettledStays ==
    ASSUME Known, [EventsNext]_allVars, NEW r, NEW a, NEW tally, Settled(r, a, tally)
    PROVE  Settled(r, a, tally)'
<1>1. KeepsClosed(r)
    BY EventsAreSteps, FrozenStep DEF Known, Settled
<1>2. PICK i \in 1..Len(submissions[r]) : submissions[r][i] = a /\ Finalized(r, i)
    BY DEF Settled
<1>3. /\ rounds'[r].phase = "VOTING" /\ submissions'[r] = submissions[r]
      /\ Finalized(r, i)' /\ votes'[r][a] = votes[r][a]
    BY <1>1, <1>2 DEF KeepsClosed, Settled
<1>4. TallyOf(r, a)' = TallyOf(r, a)
    BY <1>3 DEF TallyOf, Likes, Dislikes
<1>. QED
    BY <1>2, <1>3, <1>4 DEF Settled

(* Once the last round is completed no handler adds points any more.       *)
LEMMA LastRoundClosesScores ==
    ASSUME Known, rounds[RoundsCount].completed
    PROVE  /\ ~\E w \in Workers : VotingFinished(tasks[w].round)
           /\ Exists(RoundsCount) /\ status \notin {"DRAFT", "CANCELLED"}
<1>1. RoundsCount \in Rounds /\ \A w \in Workers : tasks[w].round \in Rounds
    BY SizesAssumption DEF Rounds, Known, Inv, TypeOK, Task
<1>2. Exists(RoundsCount)
    BY <1>1, CompletedExists DEF Known
<1>3. \A r \in Rounds : rounds[r].completed
    <2>1. \A r \in Rounds : r < RoundsCount \/ r = RoundsCount
        BY SizesAssumption DEF Rounds
    <2>. QED
        BY <1>1, <1>2, <2>1 DEF Known, SequenceInv
<1>. QED
    BY <1>1, <1>2, <1>3 DEF VotingFinished, Known, SequenceInv

(* Who leads after the last round keeps the lead.                          *)
LEMMA FinalLeadStays ==
    ASSUME Known, OrderOK, [EventsNext]_allVars, NEW l, FinalLead(l)
    PROVE  FinalLead(l)'
<1>0. /\ TypeOK /\ score \in [Users -> Nat] /\ participants \subseteq Users /\ RoundsCount \in Rounds
    <2>1. TypeOK
        BY DEF Known, Inv
    <2>2. RoundsCount \in Rounds
        BY SizesAssumption DEF Rounds
    <2>3. score \in [Users -> Nat] /\ participants \subseteq Users
        BY <2>1 DEF TypeOK
    <2>. QED
        BY <2>1, <2>2, <2>3
<1>1. rounds'[RoundsCount].completed
    <2>1. ~Created(RoundsCount)
        BY LastRoundClosesScores DEF FinalLead, Created, Exists
    <2>. QED
        BY <1>0, <2>1, EventsAreSteps, RowHistory DEF Known, FinalLead
<1>2. CASE UNCHANGED <<participants, score, createdAt>>
    BY <1>1, <1>2 DEF FinalLead, Leads, RanksBefore, BreaksTie, Joined1st
<1>3. ASSUME NEW u \in Users, EventsJoin(u) PROVE FinalLead(l)'
    <2>1. /\ u \in Users \ participants /\ participants' = participants \cup {u} /\ score' = score
        BY <1>3 DEF EventsJoin, Join
    <2>2. PICK i \in 1..Len(createdAt) : createdAt' = InsertAt(createdAt, i + 1, u)
        BY <1>3 DEF EventsJoin
    <2>3. PICK points : points = score
        OBVIOUS
    <2>4. points \in [Users -> Nat] /\ points[u] = 0 /\ Leads(points, l) /\ JoinOrder
        BY <1>0, <2>1, <2>3 DEF OrderOK, FinalLead
    <2>5. Leads(points, l)'
        BY <1>0, <2>1, <2>2, <2>4, LeaderStays
    <2>. QED
        BY <1>1, <2>1, <2>3, <2>5 DEF FinalLead
<1>. QED
    BY <1>2, <1>3, TournamentMoves, LastRoundClosesScores DEF FinalLead, EventsCancel, Cancel

(* A round that was created is not deleted while it is announced.          *)
LEMMA RoundsStay ==
    ASSUME Known, [EventsNext]_allVars, NEW r \in Rounds, Exists(r)
    PROVE  Exists(r)'
BY EventsAreSteps, NothingGoesBack DEF Known

(* A payload that is true when it is built is true when it is heard,       *)
(* however late.                                                           *)
LEMMA FitsStays ==
    ASSUME Known, OrderOK, [EventsNext]_allVars, NEW e, Fits(e)
    PROVE  Fits(e)'
<1>1. CASE e \in TournamentStartedPayload \cup TournamentCancelledPayload
    BY <1>1 DEF Fits
<1>2. CASE /\ e \in RoundCreatedPayload \cup RoundProgressUpdatedPayload
                    \cup RoundPhaseChangedPayload \cup VotingSubmissionRevealedPayload
           /\ Exists(e.round)
    <2>1. e.round \in Rounds
        BY <1>2 DEF RoundCreatedPayload, RoundProgressUpdatedPayload, RoundPhaseChangedPayload,
            VotingSubmissionRevealedPayload
    <2>. QED
        BY <1>2, <2>1, RoundsStay DEF Fits
<1>3. CASE e \in VoteFinalizedPayload /\ Settled(e.round, e.author, e.tally)
    BY <1>3, SettledStays DEF Fits
<1>4. CASE /\ e \in RoundCompletedPayload /\ Exists(e.round) /\ Sorted(e.leaderboard)
           /\ e.round = RoundsCount => FinalLead(e.leaderboard[1].user)
    <2>1. e.round \in Rounds
        BY <1>4 DEF RoundCompletedPayload
    <2>. QED
        BY <1>4, <2>1, RoundsStay, FinalLeadStays DEF Fits
<1>5. CASE /\ e \in TournamentFinishedPayload /\ Sorted(e.leaderboard) /\ FinalLead(e.winner)
           /\ ShowsScores(e.leaderboard)
    <2>1. score' = score
        BY <1>5, TournamentMoves, LastRoundClosesScores
        DEF FinalLead, EventsJoin, Join, EventsCancel, Cancel
    <2>. QED
        BY <1>5, <2>1, FinalLeadStays DEF Fits, ShowsScores
<1>. QED
    BY <1>1, <1>2, <1>3, <1>4, <1>5 DEF Fits

(* What the participants were told stays true of the database.             *)
LEMMA AgreesStays ==
    ASSUME Known, OrderOK, [EventsNext]_allVars, NEW view, Agrees(view)
    PROVE  Agrees(view)'
<1>1. view.round # 0 => view.round \in Rounds
    BY DEF Agrees, View
<1>2. view.round # 0 => Exists(view.round)'
    BY <1>1, RoundsStay DEF Agrees
<1>3. \A a \in Users : view.tallies[a] # None => Settled(view.round, a, view.tallies[a])'
    BY SettledStays DEF Agrees
<1>4. view.stage = "SCORED" /\ view.round = RoundsCount => FinalLead(view.board[1].user)'
    BY FinalLeadStays DEF Agrees
<1>. QED
    BY <1>2, <1>3, <1>4 DEF Agrees

(* Who hears an event that is true has a view that is true.                *)
LEMMA InRoundAgrees ==
    ASSUME Known, NEW view, Agrees(view), NEW r \in Rounds, Exists(r)
    PROVE  LET there == InRound(view, r)
           IN  Agrees([there EXCEPT !.stage = "CLOSED"]) /\ there \in View /\ there.round = r
<1>. DEFINE there == InRound(view, r)
            n == [view EXCEPT !.round = r, !.submitted = 0, !.step = 0, !.total = 0,
                              !.tallies = NoView.tallies]
<1>1. CASE view.round = r
    <2>1. there = view
        BY <1>1 DEF InRound
    <2>. QED
        BY <1>1, <2>1 DEF Agrees, View
<1>2. CASE view.round # r
    <2>1. there = n
        BY <1>2 DEF InRound
    <2>2. NoView.tallies = [a \in Users |-> None]
        BY DEF NoView
    <2>3. n \in View /\ n.round = r /\ n.tallies = [a \in Users |-> None] /\ n.board = view.board
        BY <2>2 DEF Agrees, View
    <2>4. [n EXCEPT !.stage = "CLOSED"] \in View
        BY <2>3 DEF View
    <2>5. LET m == [n EXCEPT !.stage = "CLOSED"]
          IN  m.round = r /\ m.tallies = [a \in Users |-> None] /\ m.board = view.board
              /\ m.stage = "CLOSED"
        BY <2>3 DEF View
    <2>. QED
        BY <2>1, <2>3, <2>4, <2>5 DEF Agrees
<1>. QED
    BY <1>1, <1>2

(* Hearing a true payload leaves the participants with a true view.        *)
LEMMA HearAgrees ==
    ASSUME Known, NEW view, Agrees(view), NEW e, Fits(e)
    PROVE  Agrees(Hear(view, e))
<1>. DEFINE there == InRound(view, e.round)
<1>0. ASSUME NEW x, x \in View,
             NEW s, s \in {"ACTIVE", "CANCELLED", "SUBMITTING", "CLOSED", "REVEALING"},
             Agrees([x EXCEPT !.stage = "CLOSED"]), NEW y \in View, y.stage = s,
             y.round = x.round, y.tallies = x.tallies, y.board = x.board
      PROVE  Agrees(y)
    BY <1>0 DEF Agrees, View
<1>1. CASE e \in TournamentStartedPayload
    <2>1. Hear(view, e) = [view EXCEPT !.stage = "ACTIVE"]
        BY <1>1 DEF TournamentStartedPayload, Hear, emitTournamentStarted
    <2>. QED
        BY <2>1 DEF Agrees, View
<1>2. CASE e \in RoundCreatedPayload /\ Exists(e.round)
    <2>1. Hear(view, e) = [there EXCEPT !.stage = "SUBMITTING", !.submitted = 0]
          /\ e.round \in Rounds
        BY <1>2 DEF RoundCreatedPayload, Hear, emitRoundCreated
    <2>2. Agrees([there EXCEPT !.stage = "CLOSED"]) /\ there \in View
        BY <1>2, <2>1, InRoundAgrees
    <2>. HIDE DEF there
    <2>3. LET y == [there EXCEPT !.stage = "SUBMITTING", !.submitted = 0]
          IN  /\ y \in View /\ y.stage = "SUBMITTING"
              /\ y.round = there.round /\ y.tallies = there.tallies /\ y.board = there.board
        BY <2>2 DEF View
    <2>. QED
        BY <1>0, <2>1, <2>2, <2>3
<1>3. CASE e \in RoundPhaseChangedPayload /\ Exists(e.round)
    <2>1. Hear(view, e) = [there EXCEPT !.stage = "CLOSED", !.submitted = 0]
          /\ e.round \in Rounds
        BY <1>3 DEF RoundPhaseChangedPayload, Hear, emitRoundPhaseChanged
    <2>2. Agrees([there EXCEPT !.stage = "CLOSED"]) /\ there \in View
        BY <1>3, <2>1, InRoundAgrees
    <2>. HIDE DEF there
    <2>3. LET y == [there EXCEPT !.stage = "CLOSED", !.submitted = 0]
          IN  /\ y \in View /\ y.stage = "CLOSED"
              /\ y.round = there.round /\ y.tallies = there.tallies /\ y.board = there.board
        BY <2>2 DEF View
    <2>. QED
        BY <1>0, <2>1, <2>2, <2>3
<1>4. CASE e \in VotingSubmissionRevealedPayload /\ Exists(e.round)
    <2>1. /\ Hear(view, e) = [there EXCEPT !.stage = "REVEALING",
                                           !.step = e.revealIndex + 1, !.total = e.total]
          /\ e.round \in Rounds /\ e.revealIndex + 1 \in Nat /\ e.total \in Nat
        BY <1>4 DEF VotingSubmissionRevealedPayload, Hear, emitVotingSubmissionRevealed
    <2>2. Agrees([there EXCEPT !.stage = "CLOSED"]) /\ there \in View
        BY <1>4, <2>1, InRoundAgrees
    <2>. HIDE DEF there
    <2>3. LET y == [there EXCEPT !.stage = "REVEALING",
                                 !.step = e.revealIndex + 1, !.total = e.total]
          IN  /\ y \in View /\ y.stage = "REVEALING"
              /\ y.round = there.round /\ y.tallies = there.tallies /\ y.board = there.board
        BY <2>1, <2>2 DEF View
    <2>. QED
        BY <1>0, <2>1, <2>2, <2>3
<1>5. CASE e \in VoteFinalizedPayload /\ Settled(e.round, e.author, e.tally)
    <2>1. /\ Hear(view, e) = [there EXCEPT !.stage = "FINALIZED", !.tallies[e.author] = e.tally]
          /\ e.round \in Rounds /\ e.author \in Users /\ e.tally \in Tally
        BY <1>5 DEF VoteFinalizedPayload, Hear, emitVoteFinalized
    <2>2. Exists(e.round)
        BY <1>5 DEF Settled, Exists
    <2>3. Agrees([there EXCEPT !.stage = "CLOSED"]) /\ there \in View /\ there.round = e.round
        BY <2>1, <2>2, InRoundAgrees
    <2>. HIDE DEF there
    <2>. DEFINE y == [there EXCEPT !.stage = "FINALIZED", !.tallies[e.author] = e.tally]
    <2>4. /\ y \in View /\ y.stage = "FINALIZED" /\ y.round = e.round /\ y.board = there.board
          /\ y.tallies = [there.tallies EXCEPT ![e.author] = e.tally]
        BY <2>1, <2>3 DEF View
    <2>5. \A a \in Users : there.tallies[a] # None => Settled(e.round, a, there.tallies[a])
        BY <2>3 DEF Agrees, View
    <2>6. Sorted(there.board)
        BY <2>3 DEF Agrees, View
    <2>7. \A a \in Users : y.tallies[a] = IF a = e.author THEN e.tally ELSE there.tallies[a]
        BY <2>3, <2>4 DEF View
    <2>. QED
        BY <1>5, <2>1, <2>2, <2>4, <2>5, <2>6, <2>7 DEF Agrees
<1>6. CASE /\ e \in RoundCompletedPayload /\ Exists(e.round) /\ Sorted(e.leaderboard)
           /\ e.round = RoundsCount => FinalLead(e.leaderboard[1].user)
    <2>. DEFINE y == [there EXCEPT !.stage = "SCORED", !.board = e.leaderboard,
                                   !.earned = [a \in Users |-> @[a] + e.rankings[a].likes]]
    <2>1. /\ Hear(view, e) = y /\ e.leaderboard \in Seq(LeaderboardEntry)
          /\ e.round \in Rounds /\ \A a \in Users : e.rankings[a].likes \in Nat
        BY <1>6 DEF RoundCompletedPayload, Hear, emitRoundCompleted, Tally
    <2>2. Agrees([there EXCEPT !.stage = "CLOSED"]) /\ there \in View /\ there.round = e.round
        BY <1>6, <2>1, InRoundAgrees
    <2>. HIDE DEF there
    <2>3. [a \in Users |-> there.earned[a] + e.rankings[a].likes] \in [Users -> Nat]
        BY <2>1, <2>2 DEF View
    <2>4. /\ y \in View /\ y.stage = "SCORED" /\ y.round = e.round /\ y.board = e.leaderboard
          /\ y.tallies = there.tallies
        BY <2>1, <2>2, <2>3 DEF View
    <2>5. \A a \in Users : there.tallies[a] # None => Settled(e.round, a, there.tallies[a])
        BY <2>2 DEF Agrees, View
    <2>. HIDE DEF y
    <2>. QED
        BY <1>6, <2>1, <2>4, <2>5 DEF Agrees
<1>7. CASE e \in TournamentFinishedPayload /\ Sorted(e.leaderboard) /\ FinalLead(e.winner)
    <2>1. /\ Hear(view, e) = [view EXCEPT !.stage = "COMPLETED", !.board = e.leaderboard,
                                          !.winner = e.winner]
          /\ e.leaderboard \in Seq(LeaderboardEntry) /\ e.winner \in Users
        BY <1>7 DEF TournamentFinishedPayload, Hear, emitTournamentFinished
    <2>. QED
        BY <1>7, <2>1 DEF Agrees, View
<1>8. CASE e \in TournamentCancelledPayload
    <2>1. Hear(view, e) = [view EXCEPT !.stage = "CANCELLED"]
        BY <1>8 DEF TournamentCancelledPayload, Hear, emitTournamentCancelled
    <2>. QED
        BY <2>1 DEF Agrees, View
<1>9. CASE e \in RoundProgressUpdatedPayload /\ Exists(e.round)
    <2>1. Hear(view, e) = [there EXCEPT !.stage = "SUBMITTING", !.submitted = e.submitted]
          /\ e.round \in Rounds /\ e.submitted \in Nat
        BY <1>9 DEF RoundProgressUpdatedPayload, Hear, emitRoundProgressUpdated
    <2>2. Agrees([there EXCEPT !.stage = "CLOSED"]) /\ there \in View
        BY <1>9, <2>1, InRoundAgrees
    <2>. HIDE DEF there
    <2>3. LET y == [there EXCEPT !.stage = "SUBMITTING", !.submitted = e.submitted]
          IN  /\ y \in View /\ y.stage = "SUBMITTING"
              /\ y.round = there.round /\ y.tallies = there.tallies /\ y.board = there.board
        BY <2>1, <2>2 DEF View
    <2>. QED
        BY <1>0, <2>1, <2>2, <2>3
<1>. QED
    BY <1>1, <1>2, <1>3, <1>4, <1>5, <1>6, <1>7, <1>8, <1>9 DEF Fits

(* So does hearing everything a handler returned.                          *)
LEMMA HearAllAgrees ==
    ASSUME Known, ResultOK, AllFit, NEW view, Agrees(view), NEW w \in Workers
    PROVE  Agrees(HearAll(view, result[w]))
<1>1. Len(result[w]) \in 0..2 /\ \A i \in 1..Len(result[w]) : Fits(result[w][i])
    BY DEF ResultOK, AllFit
<1>2. CASE Len(result[w]) = 0
    BY <1>2 DEF HearAll
<1>3. CASE Len(result[w]) = 1
    BY <1>1, <1>3, HearAgrees DEF HearAll
<1>4. CASE Len(result[w]) = 2
    <2>1. Fits(result[w][1]) /\ Fits(result[w][2])
        BY <1>1, <1>4
    <2>2. Agrees(Hear(view, result[w][1]))
        BY <2>1, HearAgrees
    <2>3. Agrees(Hear(Hear(view, result[w][1]), result[w][2]))
        BY <2>1, <2>2, HearAgrees
    <2>. QED
        BY <1>4, <2>3 DEF HearAll
<1>. QED
    BY <1>1, <1>2, <1>3, <1>4

-----------------------------------------------------------------------------
(* What a commit returns is true.                                          *)

(* The votes of a kind are a number.                                       *)
LEMMA VotersCounted ==
    ASSUME NEW f, NEW S
    PROVE  Cardinality({v \in Users : f[v] \in S}) \in Nat
<1>1. IsFiniteSet({v \in Users : f[v] \in S})
    BY UsersAssumption, FS_Subset
<1>. QED
    BY <1>1, FS_CardinalityType

(* A counter counts some of the users.                                     *)
LEMMA ProgressType ==
    ASSUME Known, NEW r \in Rounds
    PROVE  Progress(r) \in RoundProgressUpdatedPayload /\ Progress(r).round = r
<1>1. SubmittedIn(r) \subseteq Users
    <2>1. submissions[r] \in Seq(Users)
        BY DEF Known, Inv, TypeOK
    <2>. QED
        BY <2>1 DEF SubmittedIn
<1>2. Cardinality(SubmittedIn(r)) \in Nat
    BY <1>1, UsersAssumption, FS_Subset, FS_CardinalityType
<1>. QED
    BY <1>2 DEF Progress, RoundProgressUpdatedPayload

(* A tally holds numbers.                                                  *)
LEMMA TallyTypes ==
    ASSUME NEW r, NEW a, NEW voters
    PROVE  TallyOf(r, a) \in Tally /\ FilledTally(r, voters) \in Tally
<1>1. \A f : Cardinality({v \in Users : f[v] \in {"DISLIKE", "AUTO"}}) \in Nat
    BY VotersCounted
<1>2. \A f : Cardinality({v \in Users : f[v] = "LIKE"}) \in Nat
    <2>1. \A f : {v \in Users : f[v] = "LIKE"} = {v \in Users : f[v] \in {"LIKE"}}
        OBVIOUS
    <2>. QED
        BY <2>1, VotersCounted
<1>. QED
    BY <1>1, <1>2 DEF TallyOf, FilledTally, Likes, Dislikes, Tally

(* A finalization settles the submission it was about.                     *)
LEMMA FinalizationSettles ==
    ASSUME Known, [EventsNext]_allVars, NEW w \in Workers, Finalizes(w),
           NEW r, r = tasks[w].round, NEW a, a = rounds[r].current,
           NEW voters, voters = tasks[w].voters,
           NEW tally, tally = FilledTally(r, voters)
    PROVE  /\ a \in Users /\ Settled(r, a, tally)'
           /\ tasks'[w].step # 0 => tasks'[w].step \in 1..Len(submissions[r])
<1>1. TypeOK /\ VotingCursor /\ OneSubmissionEach
    BY DEF Known, Inv
<1>2. /\ r \in Rounds /\ tasks \in [Workers -> Task] /\ rounds \in [Rounds -> RoundRow]
      /\ rounds[r] \in RoundRow /\ submissions[r] \in Seq(Users)
      /\ votes \in [Rounds -> [Users -> [Users -> Votes]]]
    BY <1>1 DEF TypeOK, Task
<1>3. VotingOpen(r) /\ Finalize(w)
    BY DEF Finalizes
<1>11. PICK k : k = rounds[r].step
    OBVIOUS
<1>4. k \in 1..Len(submissions[r]) /\ a = submissions[r][k] /\ NextPosition(r) = k + 1 /\ a \in Users
    BY <1>1, <1>2, <1>3, <1>11, PositionIsStep, CurrentPosition
<1>5. votes' = [votes EXCEPT ![r][a] = FilledBallots(r, voters)] /\ submissions' = submissions
    BY <1>3 DEF Finalizes, Finalize
<1>6. votes'[r][a] = FilledBallots(r, voters)
    BY <1>2, <1>4, <1>5
<1>7. TallyOf(r, a)' = tally
    BY <1>6 DEF TallyOf, Likes, Dislikes, FilledTally
<1>8. CASE k + 1 <= Len(submissions[r])
    <2>1. /\ rounds' = [rounds EXCEPT ![r].current = submissions[r][k + 1], ![r].step = k + 1]
          /\ tasks' = [tasks EXCEPT ![w].pc = "finalized", ![w].voters = {}, ![w].step = k + 1]
        BY <1>3, <1>4, <1>8 DEF Finalizes, Finalize
    <2>2. /\ rounds'[r].phase = "VOTING" /\ rounds'[r].stepStatus = "OPEN"
          /\ rounds'[r].step = k + 1
        BY <1>2, <1>3, <2>1 DEF RoundRow, VotingOpen
    <2>3. tasks'[w].step = k + 1
        BY <1>2, <2>1 DEF Task
    <2>4. k \in 1..Len(submissions'[r]) /\ submissions'[r][k] = a /\ Finalized(r, k)'
        BY <1>4, <1>5, <2>2 DEF Finalized
    <2>. QED
        BY <1>2, <1>4, <1>7, <1>8, <2>2, <2>3, <2>4 DEF Settled
<1>9. CASE ~(k + 1 <= Len(submissions[r]))
    <2>1. /\ rounds' = [rounds EXCEPT ![r].current = None, ![r].step = 0,
                                      ![r].stepStatus = "FINISHED"]
          /\ tasks' = [tasks EXCEPT ![w].pc = "finalized", ![w].voters = {}, ![w].step = 0]
        BY <1>3, <1>4, <1>9 DEF Finalizes, Finalize
    <2>2. /\ rounds'[r].phase = "VOTING" /\ rounds'[r].stepStatus = "FINISHED"
        BY <1>2, <1>3, <2>1 DEF RoundRow, VotingOpen
    <2>3. tasks'[w].step = 0
        BY <1>2, <2>1 DEF Task
    <2>4. k \in 1..Len(submissions'[r]) /\ submissions'[r][k] = a /\ Finalized(r, k)'
        BY <1>4, <1>5, <2>2 DEF Finalized
    <2>. QED
        BY <1>2, <1>4, <1>7, <2>2, <2>3, <2>4 DEF Settled
<1>. QED
    BY <1>8, <1>9

(* The payloads are those of the contract.                                 *)
LEMMA PayloadTypes ==
    ASSUME Known, NEW r \in Rounds
    PROVE  /\ TournamentStarted \in TournamentStartedPayload
           /\ RoundCreated(r) \in RoundCreatedPayload
           /\ PhaseChanged(r) \in RoundPhaseChangedPayload
           /\ \A i \in 1..Len(submissions[r]) : Reveal(r, i) \in VotingSubmissionRevealedPayload
           /\ rounds[r].current \in Users =>
                \A voters : VoteFinalized(r, voters) \in VoteFinalizedPayload
           /\ Rankings(r) \in [Users -> Tally]
<1>1. submissions[r] \in Seq(Users)
    BY DEF Known, Inv, TypeOK
<1>2. \A i \in 1..Len(submissions[r]) :
          submissions[r][i] \in Users /\ i - 1 \in Nat /\ Len(submissions[r]) \in Nat \ {0}
    BY <1>1
<1>3. \A i \in 1..Len(submissions[r]) : Reveal(r, i) \in VotingSubmissionRevealedPayload
    BY <1>2 DEF Reveal, VotingSubmissionRevealedPayload
<1>4. rounds[r].current \in Users =>
          \A voters : VoteFinalized(r, voters) \in VoteFinalizedPayload
    BY TallyTypes DEF VoteFinalized, TallyAtFinalization, VoteFinalizedPayload
<1>5. Rankings(r) \in [Users -> Tally]
    BY TallyTypes DEF Rankings, NoTally, Tally
<1>. QED
    BY <1>3, <1>4, <1>5
    DEF TournamentStarted, TournamentStartedPayload, RoundCreated, RoundCreatedPayload,
        PhaseChanged, RoundPhaseChangedPayload

(* The scores of a completed round are those of its last commit, ranked.   *)
LEMMA CompletionFits ==
    ASSUME Known, OrderOK, [EventsNext]_allVars, NEW w \in Workers, Completes(w),
           UNCHANGED createdAt, NEW r, r = tasks[w].round, NEW e, e = RoundCompleted(r, score')
    PROVE  e \in RoundCompletedPayload /\ Fits(e)'
<1>1. /\ r \in Rounds /\ TypeOK /\ rounds \in [Rounds -> RoundRow] /\ JoinOrder /\ VotingFinished(r)
    BY DEF Known, Inv, TypeOK, Task, OrderOK, Completes
<1>2. /\ rounds' = [rounds EXCEPT ![r].completed = TRUE] /\ participants' = participants
    BY <1>1 DEF Completes, CompleteRound
<1>3. score' \in [Users -> Nat]
    BY KnownStep DEF Known, Inv, TypeOK
<1>4. participants # {}
    <2>1. status # "CANCELLED"
        BY DEF Completes
    <2>2. createdAt[1] = Owner /\ createdAt # << >> /\ createdAt \in Seq(Users)
        BY <2>1 DEF OrderOK, JoinOrder
    <2>3. 1 \in DOMAIN createdAt
        BY <2>2
    <2>. QED
        BY <1>1, <2>3 DEF JoinOrder, ToSet
<1>5. PICK points : points = score'
    OBVIOUS
<1>6. PICK board : board = Leaderboard(points)
    OBVIOUS
<1>7. /\ board \in Seq(LeaderboardEntry) /\ Sorted(board) /\ Leads(points, board[1].user)
    BY <1>1, <1>3, <1>4, <1>5, <1>6, LeaderboardFits
<1>8. e = [event |-> "ROUND_COMPLETED", round |-> r, rankings |-> Rankings(r),
           leaderboard |-> board, isLastRound |-> IsLastRound(r)]
    BY <1>5, <1>6 DEF RoundCompleted
<1>9. e \in RoundCompletedPayload
    BY <1>1, <1>7, <1>8, PayloadTypes DEF RoundCompletedPayload, IsLastRound
<1>10. Exists(r)'
    BY <1>1, RoundsStay DEF VotingFinished, Exists
<1>11. PICK l : l = board[1].user
    OBVIOUS
<1>12. Leads(score, l)'
    BY <1>2, <1>5, <1>7, <1>11 DEF Leads, RanksBefore, BreaksTie, Joined1st
<1>13. rounds'[r].completed
    BY <1>1, <1>2 DEF RoundRow
<1>14. r = RoundsCount => FinalLead(l)'
    BY <1>12, <1>13 DEF FinalLead
<1>. QED
    BY <1>7, <1>8, <1>9, <1>10, <1>11, <1>14 DEF Fits

(* The tournament that is finished is announced with the final ranking.    *)
LEMMA FinishFits ==
    ASSUME Known, OrderOK, [EventsNext]_allVars, NEW w \in Workers, FinishTournament(w),
           FollowsUp(tasks[w].round), NEW e, e = TournamentFinished(Leaderboard(score))
    PROVE  e \in TournamentFinishedPayload /\ Fits(e)'
<1>1. /\ tasks[w].round \in Rounds /\ TypeOK /\ score \in [Users -> Nat]
    BY DEF Known, Inv, TypeOK, Task
<1>2. JoinOrder
    BY DEF OrderOK
<1>3. tasks[w].round = RoundsCount /\ rounds[RoundsCount].completed
    BY <1>1, SizesAssumption DEF FinishTournament, IsLastRound, FollowsUp, Rounds
<1>4. participants # {}
    <2>1. status # "CANCELLED"
        BY DEF FollowsUp
    <2>2. createdAt[1] = Owner /\ createdAt # << >> /\ createdAt \in Seq(Users)
        BY <2>1 DEF OrderOK, JoinOrder
    <2>3. 1 \in DOMAIN createdAt
        BY <2>2
    <2>. QED
        BY <1>2, <2>3 DEF JoinOrder, ToSet
<1>5. PICK board : board = Leaderboard(score)
    OBVIOUS
<1>6. /\ board \in Seq(LeaderboardEntry) /\ Sorted(board) /\ Leads(score, board[1].user)
      /\ ShowsScores(board)
    BY <1>1, <1>2, <1>4, <1>5, LeaderboardFits DEF ShowsScores
<1>7. board[1].user \in Users
    BY <1>1, <1>6 DEF Leads, TypeOK
<1>8. e = [event |-> "TOURNAMENT_FINISHED", winner |-> board[1].user, leaderboard |-> board]
    BY <1>5 DEF TournamentFinished
<1>9. e \in TournamentFinishedPayload
    BY <1>6, <1>7, <1>8 DEF TournamentFinishedPayload
<1>10. FinalLead(e.winner)
    BY <1>3, <1>6, <1>8 DEF FinalLead
<1>11. Fits(e)
    BY <1>6, <1>8, <1>9, <1>10 DEF Fits
<1>. QED
    BY <1>9, <1>11, FitsStays

(* Everything a handler returns is true after its commit.                  *)
LEMMA AnnouncementsFit ==
    ASSUME Known, OrderOK, [EventsNext]_allVars, NEW w \in Workers, Announcing(w),
           NEW events, events = result'[w]
    PROVE  /\ events \in Seq(Payloads) /\ Len(events) \in 1..2 /\ tasks'[w].pc \in Emitters
           /\ \A i \in 1..Len(events) : Fits(events[i])'
<1>. DEFINE r == tasks[w].round
<1>0. /\ r \in Rounds /\ TypeOK /\ rounds \in [Rounds -> RoundRow] /\ submissions[r] \in Seq(Users)
      /\ tasks \in [Workers -> Task]
    BY DEF Known, Inv, TypeOK, Task
<1>1. ASSUME NEW e \in Payloads, Fits(e)', events = <<e>>
      PROVE  /\ events \in Seq(Payloads) /\ Len(events) \in 1..2
             /\ \A i \in 1..Len(events) : Fits(events[i])'
    BY <1>1
<1>2. ASSUME NEW d \in Payloads, Fits(d)', NEW e \in Payloads, Fits(e)', events = <<d, e>>
      PROVE  /\ events \in Seq(Payloads) /\ Len(events) \in 1..2
             /\ \A i \in 1..Len(events) : Fits(events[i])'
    BY <1>2
<1>3. ASSUME NEW q \in Rounds, Exists(q)'
      PROVE  /\ RoundCreated(q) \in Payloads /\ Fits(RoundCreated(q))'
             /\ PhaseChanged(q) \in Payloads /\ Fits(PhaseChanged(q))'
    <2>1. /\ RoundCreated(q) \in RoundCreatedPayload /\ RoundCreated(q).round = q
          /\ PhaseChanged(q) \in RoundPhaseChangedPayload /\ PhaseChanged(q).round = q
        BY PayloadTypes DEF RoundCreated, PhaseChanged
    <2>. QED
        BY <1>3, <2>1 DEF Payloads, Fits, RoundCreated, PhaseChanged
<1>4. ASSUME NEW i \in 1..Len(submissions[r]), Exists(r), NEW e, e = Reveal(r, i)
      PROVE  e \in Payloads /\ Fits(e)'
    <2>1. e \in VotingSubmissionRevealedPayload /\ e.round = r
        BY <1>0, <1>4, PayloadTypes DEF Reveal
    <2>2. Fits(e)
        BY <1>4, <2>1 DEF Fits
    <2>. QED
        BY <2>1, <2>2, FitsStays DEF Payloads
<1>5. PICK s : s = TournamentStarted
    OBVIOUS
<1>6. s \in TournamentStartedPayload /\ s \in Payloads /\ Fits(s)'
    BY <1>0, <1>5, PayloadTypes DEF Payloads, Fits
<1>7. CASE Start(w) /\ Enters(w, "arming", 1) /\ events = <<TournamentStarted, RoundCreated(1)>>
    <2>1. 1 \in Rounds
        BY SizesAssumption DEF Rounds
    <2>2. Exists(1)'
        <3>1. PICK p : rounds' = [rounds EXCEPT ![1] = NewRound(p)]
            BY <1>7 DEF Start
        <3>. QED
            BY <1>0, <2>1, <3>1 DEF Exists, NewRound, NoRound
    <2>. QED
        BY <1>2, <1>3, <1>5, <1>6, <1>7, <2>1, <2>2 DEF Enters, Emitters
<1>8. CASE Closes(w) /\ events = <<PhaseChanged(r)>>
    <2>1. PICK q : q = r
        OBVIOUS
    <2>2. q \in Rounds /\ Exists(q)
        BY <1>0, <1>8, <2>1 DEF Closes, Exists
    <2>3. Exists(q)'
        BY <2>2, RoundsStay
    <2>. QED
        BY <1>1, <1>3, <1>8, <2>1, <2>2, <2>3 DEF Closes, Enters, Emitters
<1>9. CASE Opens(w) /\ events = <<Reveal(r, 1)>>
    <2>1. 1 \in 1..Len(submissions[r]) /\ Exists(r)
        BY <1>0, <1>9 DEF Opens, CanOpen, Exists
    <2>2. PICK e : e = Reveal(r, 1)
        OBVIOUS
    <2>. QED
        BY <1>1, <1>4, <1>9, <2>1, <2>2 DEF Opens, Enters, Emitters
<1>10. ASSUME Finalizes(w), NEW e, e = VoteFinalized(r, tasks[w].voters)
       PROVE  e \in Payloads /\ Fits(e)'
    <2>1. PICK q : q = r
        OBVIOUS
    <2>2. PICK a : a = rounds[q].current
        OBVIOUS
    <2>6. PICK voters : voters = tasks[w].voters
        OBVIOUS
    <2>3. PICK tally : tally = FilledTally(q, voters)
        OBVIOUS
    <2>4. a \in Users /\ Settled(q, a, tally)'
        BY <1>10, <2>1, <2>2, <2>3, <2>6, FinalizationSettles
    <2>5. e \in VoteFinalizedPayload /\ e.round = q /\ e.author = a /\ e.tally = tally
        BY <1>0, <1>10, <2>1, <2>2, <2>3, <2>4, <2>6, PayloadTypes DEF VoteFinalized, TallyAtFinalization
    <2>. QED
        BY <2>4, <2>5 DEF Payloads, Fits
<1>11. CASE /\ Finalizes(w) /\ tasks'[w].step = 0
            /\ events = <<VoteFinalized(r, tasks[w].voters)>>
    <2>1. PICK e : e = VoteFinalized(r, tasks[w].voters)
        OBVIOUS
    <2>. QED
        BY <1>1, <1>10, <1>11, <2>1 DEF Finalizes, Enters, Emitters
<1>12. CASE /\ Finalizes(w) /\ tasks'[w].step # 0
            /\ events = <<VoteFinalized(r, tasks[w].voters), Reveal(r, tasks'[w].step)>>
    <2>1. PICK d : d = VoteFinalized(r, tasks[w].voters)
        OBVIOUS
    <2>2. PICK e : e = Reveal(r, tasks'[w].step)
        OBVIOUS
    <2>3. tasks'[w].step \in 1..Len(submissions[r])
        BY <1>12, FinalizationSettles
    <2>4. Exists(r)
        BY <1>12 DEF Finalizes, VotingOpen, Exists
    <2>. QED
        BY <1>2, <1>4, <1>10, <1>12, <2>1, <2>2, <2>3, <2>4 DEF Finalizes, Enters, Emitters
<1>13. CASE Completes(w) /\ events = <<RoundCompleted(r, score')>>
    <2>1. PICK e : e = RoundCompleted(r, score')
        OBVIOUS
    <2>2. e \in RoundCompletedPayload /\ Fits(e)'
        BY <1>13, <2>1, CompletionFits DEF Announcing
    <2>. QED
        BY <1>1, <1>13, <2>1, <2>2 DEF Payloads, Completes, Enters, Emitters
<1>14. CASE /\ FinishTournament(w) /\ FollowsUp(r) /\ tasks'[w].pc = "idle"
            /\ events = <<TournamentFinished(Leaderboard(score))>>
    <2>1. PICK e : e = TournamentFinished(Leaderboard(score))
        OBVIOUS
    <2>2. e \in TournamentFinishedPayload /\ Fits(e)'
        BY <1>14, <2>1, FinishFits
    <2>. QED
        BY <1>1, <1>14, <2>1, <2>2 DEF Payloads, Emitters
<1>15. CASE /\ CreateNextRound(w) /\ FollowsUp(r) /\ Enters(w, "arming", r + 1)
            /\ events = <<RoundCreated(r + 1)>>
    <2>1. PICK q : q = r + 1
        OBVIOUS
    <2>2. q \in Rounds
        BY <1>0, <1>15, <2>1, SizesAssumption DEF CreateNextRound, IsLastRound, Rounds
    <2>3. Exists(q)'
        <3>1. CASE Exists(q)
            BY <2>2, <3>1, RoundsStay
        <3>2. CASE ~Exists(q)
            <4>1. PICK p : rounds' = [rounds EXCEPT ![q] = NewRound(p)]
                BY <1>15, <2>1, <3>2 DEF CreateNextRound
            <4>. QED
                BY <1>0, <2>2, <4>1 DEF Exists, NewRound, NoRound
        <3>. QED
            BY <3>1, <3>2
    <2>. QED
        BY <1>1, <1>3, <1>15, <2>1, <2>2, <2>3 DEF Enters, Emitters
<1>. QED
    BY <1>7, <1>8, <1>9, <1>11, <1>12, <1>13, <1>14, <1>15 DEF Announcing, Announces

-----------------------------------------------------------------------------
(* The invariant of what is returned and heard.                            *)

(* A submission that is saved is then counted by its handler.             *)
WillCount(x, r) == tasks[x].round = r /\ tasks[x].pc \in {"submissionSaved", "countingSubmissions"}

CountersKnow == \A x \in Workers, r \in Rounds : WillCount(x, r) => Exists(r)

FurthestExists ==
    furthest.round \in {0} \cup Rounds /\ (furthest.round # 0 => Exists(furthest.round))

EventsInv ==
    /\ OrderOK /\ ResultOK /\ AllFit /\ behind \in BOOLEAN
    /\ Agrees(announced) /\ FurthestExists /\ CountersKnow

(* What was announced so far, nothing, is true.                            *)
LEMMA EventsInvInit == EventsInit => Known /\ EventsInv
<1>. SUFFICES ASSUME EventsInit PROVE Known /\ EventsInv
    OBVIOUS
<1>1. Known /\ OrderOK
    BY KnownInit, OrderInit DEF EventsInit
<1>2. /\ << >> \in Seq(Payloads) /\ result = [w \in Workers |-> << >>]
      /\ \A w \in Workers : result[w] = << >> /\ Len(result[w]) = 0
    BY DEF EventsInit
<1>3. ResultOK /\ AllFit /\ behind \in BOOLEAN
    <2>1. ResultOK
        BY <1>2 DEF ResultOK, Pending
    <2>2. AllFit
        BY <1>2 DEF AllFit
    <2>. QED
        BY <2>1, <2>2 DEF EventsInit
<1>4. announced = [stage |-> "DRAFT", round |-> 0, submitted |-> 0, step |-> 0,
           total |-> 0, tallies |-> [a \in Users |-> None],
           earned |-> [a \in Users |-> 0], board |-> <<>>, winner |-> None]
    BY DEF EventsInit, NoView
<1>5. announced \in View /\ Sorted(announced.board)
    BY <1>4 DEF View, Sorted
<1>6. FurthestExists
    BY <1>4 DEF EventsInit, NoView, PointOf, FurthestExists
<1>7. CountersKnow
    BY DEF EventsInit, Init, IdleTask, CountersKnow, WillCount
<1>. QED
    BY <1>1, <1>3, <1>4, <1>5, <1>6, <1>7 DEF EventsInv, Agrees

(* Only those who save a submission come to count.                         *)
LEMMA CountersCome ==
    ASSUME Inv, [Next]_vars, NEW x \in Workers, NEW r \in Rounds, WillCount(x, r)'
    PROVE  WillCount(x, r) \/ AcceptsSubmissions(r)
<1>0. tasks \in [Workers -> Task] /\ TypeOK
    BY DEF Inv, TypeOK
<1>. DEFINE Counters == {"submissionSaved", "countingSubmissions"}
<1>1. SUFFICES ASSUME tasks'[x] # tasks[x], ~WillCount(x, r), ~AcceptsSubmissions(r) PROVE FALSE
    BY DEF WillCount
<1>2. tasks'[x].pc \in Counters /\ tasks'[x].round = r
    BY DEF WillCount
<1>3. ASSUME NEW w \in Workers, NEW pc, NEW q, Begin(w, pc, q) \/ BeginOnDeadline(w, pc, q)
      PROVE  pc \in Counters /\ q = r
    BY <1>0, <1>1, <1>2, <1>3, HandlerMoves DEF Others
<1>4. ASSUME NEW w \in Workers, NEW pc, Goto(w, pc)
      PROVE  pc \in Counters /\ w = x /\ tasks[w].round = r
    BY <1>0, <1>1, <1>2, <1>4, HandlerMoves DEF Others
<1>5. ASSUME NEW w \in Workers, Finish(w) PROVE FALSE
    BY <1>0, <1>1, <1>2, <1>5, HandlerMoves DEF Others
<1>6. ASSUME NEW w \in Workers, NEW u, NEW reason,
             \/ tasks' = [tasks EXCEPT ![w].pc = "closing", ![w].online = u, ![w].reason = reason]
             \/ tasks' = [tasks EXCEPT ![w].pc = "finalizing", ![w].online = u, ![w].reason = reason]
             \/ tasks' = [tasks EXCEPT ![w].pc = "countingVotes", ![w].user = u]
             \/ tasks' = [tasks EXCEPT ![w].pc = "filling", ![w].voters = u]
             \/ tasks' = [tasks EXCEPT ![w].pc = "finalized", ![w].voters = u, ![w].step = reason]
             \/ tasks' = [tasks EXCEPT ![w].pc = "opened", ![w].step = u]
             \/ tasks' = [tasks EXCEPT ![w].pc = "arming", ![w].round = u]
             \/ tasks' = [tasks EXCEPT ![w] = [IdleTask EXCEPT !.pc = "leaving", !.user = u]]
      PROVE  FALSE
    <2>1. w = x
        BY <1>0, <1>1, <1>6
    <2>2. tasks'[x].pc \in {"closing", "finalizing", "countingVotes", "filling", "finalized",
                            "opened", "arming", "leaving"}
        <3>1. CASE tasks' = [tasks EXCEPT ![w] = [IdleTask EXCEPT !.pc = "leaving", !.user = u]]
            BY <1>0, <2>1, <3>1 DEF IdleTask
        <3>. QED
            BY <1>0, <1>6, <2>1, <3>1 DEF Task
    <2>. QED
        BY <1>2, <2>2
<1>7. ASSUME NEW w \in Workers, Request(w) PROVE FALSE
    <2>1. CASE Start(w)
        BY <1>3, <2>1 DEF Start
    <2>2. ASSUME NEW u \in Users, AskToLeave(w, u) PROVE FALSE
        <3>1. tasks' = [tasks EXCEPT ![w] = [IdleTask EXCEPT !.pc = "leaving", !.user = u]]
            BY <2>2 DEF AskToLeave
        <3>. QED
            BY <1>6, <3>1
    <2>3. ASSUME NEW q \in Rounds, NEW u \in Users, Submit(w, q, u) PROVE FALSE
        BY <1>1, <1>3, <2>3 DEF Submit
    <2>4. ASSUME NEW q \in Rounds, NEW a \in Users, NEW v \in Users, NEW value \in VoteValues,
                 CastVote(w, q, a, v, value)
          PROVE  FALSE
        BY <1>3, <2>4 DEF CastVote
    <2>. QED
        BY <1>7, <2>1, <2>2, <2>3, <2>4 DEF Request
<1>8. ASSUME NEW w \in Workers,
             \/ Leave(w) \/ FindParticipant(w) \/ ArmSubmissionTimer(w) \/ CloseSubmissions(w)
             \/ CancelSubmissionTimer(w) \/ ArmVotingTimer(w) \/ CheckVotingFinished(w)
             \/ AfterFinalize(w) \/ CompleteRound(w) \/ FinishTournament(w)
      PROVE  FALSE
    BY <1>4, <1>5, <1>8
    DEF Leave, FindParticipant, ArmSubmissionTimer, CloseSubmissions, CancelSubmissionTimer,
        ArmVotingTimer, CheckVotingFinished, AfterFinalize, CompleteRound, FinishTournament
<1>9. ASSUME NEW w \in Workers, HandleSubmissionSaved(w) PROVE FALSE
    BY <1>1, <1>4, <1>5, <1>9 DEF HandleSubmissionSaved, WillCount
<1>10. ASSUME NEW w \in Workers, CountSubmissions(w) PROVE FALSE
    <2>1. PICK online \in SUBSET Users :
              \/ tasks' = [tasks EXCEPT ![w].pc = "closing", ![w].online = online,
                                        ![w].reason = "ALL_ACTIVE_PARTICIPANTS_SUBMITTED"]
              \/ Finish(w)
        BY <1>10 DEF CountSubmissions
    <2>. QED
        BY ZenonT(60), <1>5, <1>6, <2>1
<1>11. ASSUME NEW w \in Workers, CountVotes(w) PROVE FALSE
    <2>1. PICK online \in SUBSET EligibleVoters(tasks[w].user) :
              \/ tasks' = [tasks EXCEPT ![w].pc = "finalizing", ![w].online = online,
                                        ![w].reason = "ALL_ACTIVE_ELIGIBLE_VOTERS_VOTED"]
              \/ Finish(w)
        BY <1>11 DEF CountVotes
    <2>. QED
        BY ZenonT(60), <1>5, <1>6, <2>1
<1>12. ASSUME NEW w \in Workers, HandleVoteSaved(w) \/ BeginFinalization(w) PROVE FALSE
    BY <1>5, <1>6, <1>12 DEF HandleVoteSaved, BeginFinalization
<1>17. ASSUME NEW w \in Workers, Finalize(w) PROVE FALSE
    <2>1. PICK n : tasks' = [tasks EXCEPT ![w].pc = "finalized", ![w].voters = {}, ![w].step = n]
        BY <1>17 DEF Finalize
    <2>. QED
        BY <1>6, <2>1
<1>18. ASSUME NEW w \in Workers, OpenVoting(w) PROVE FALSE
    <2>1. \/ \E n : tasks' = [tasks EXCEPT ![w].pc = "opened", ![w].step = n]
          \/ Goto(w, "checkingFinished")
        BY <1>18 DEF OpenVoting
    <2>2. ~Goto(w, "checkingFinished")
        BY <1>4
    <2>. QED
        BY <1>6, <2>1, <2>2
<1>19. ASSUME NEW w \in Workers, CreateNextRound(w) PROVE FALSE
    <2>1. Finish(w) \/ \E n : tasks' = [tasks EXCEPT ![w].pc = "arming", ![w].round = n]
        BY <1>19 DEF CreateNextRound
    <2>. QED
        BY <1>5, <1>6, <2>1
<1>13. ASSUME NEW q \in Rounds, SubmissionTimerFires(q) \/ VotingTimerFires(q) PROVE FALSE
    BY <1>3, <1>13 DEF SubmissionTimerFires, VotingTimerFires
<1>14. ASSUME NEW w \in Workers, RequestFails(w) \/ ReplyLost(w) PROVE FALSE
    BY <1>5, <1>14 DEF RequestFails, ReplyLost
<1>15. ~CrashRestart
    BY <1>2 DEF CrashRestart, IdleTask
<1>16. tasks' # tasks
    BY <1>1
<1>. QED
    BY <1>7, <1>8, <1>9, <1>10, <1>11, <1>12, <1>13, <1>14, <1>15, <1>16, <1>17, <1>18, <1>19
    DEF Next, TaskStep, Cancel, Join, SubmissionDeadlinePasses, VotingDeadlinePasses, vars

(* Who counts the submissions of a round finds it.                         *)
LEMMA CountersKnowStep ==
    ASSUME Known, CountersKnow, [EventsNext]_allVars
    PROVE  CountersKnow'
<1>. SUFFICES ASSUME NEW x \in Workers, NEW r \in Rounds, WillCount(x, r)' PROVE Exists(r)'
    BY DEF CountersKnow
<1>1. Exists(r)
    BY EventsAreSteps, CountersCome DEF Known, CountersKnow, AcceptsSubmissions, Exists
<1>. QED
    BY <1>1, RoundsStay

(* What is still to be emitted stays true, and only emitters hold any of   *)
(* it.                                                                     *)
LEMMA ResultStep ==
    ASSUME Known, EventsInv, [EventsNext]_allVars
    PROVE  ResultOK' /\ AllFit'
<1>0. /\ TypeOK /\ ResultOK /\ behind \in BOOLEAN /\ OrderOK /\ AllFit
      /\ result \in [Workers -> Seq(Payloads)]
      /\ << >> \in Seq(Payloads) /\ Len(<< >>) = 0
    BY DEF Known, Inv, EventsInv, ResultOK
<1>1. ASSUME NEW x \in Workers, result'[x] = result[x],
             Pending(x) => tasks'[x] = tasks[x] \/ tasks'[x].pc \in Emitters
      PROVE  /\ result'[x] # << >> => tasks'[x].pc \in Emitters
             /\ Len(result'[x]) \in 0..2
             /\ \A i \in 1..Len(result'[x]) : Fits(result[x][i])'
    <2>1. /\ result[x] # << >> => tasks[x].pc \in Emitters
          /\ Len(result[x]) \in 0..2
        BY <1>0 DEF ResultOK, Pending
    <2>2. ASSUME NEW i \in 1..Len(result'[x]), NEW e, e = result[x][i] PROVE Fits(e)'
        BY <1>0, <1>1, <2>2, FitsStays DEF AllFit
    <2>. QED
        BY <1>1, <2>1, <2>2 DEF Pending
<1>2. ASSUME NEW x \in Workers, result'[x] = << >>
      PROVE  /\ result'[x] # << >> => tasks'[x].pc \in Emitters
             /\ Len(result'[x]) \in 0..2
             /\ \A i \in 1..Len(result'[x]) : Fits(result[x][i])'
    BY <1>0, <1>2
<1>3. ASSUME result' \in [Workers -> Seq(Payloads)],
             \A x \in Workers :
                /\ result'[x] # << >> => tasks'[x].pc \in Emitters
                /\ Len(result'[x]) \in 0..2
                /\ \A i \in 1..Len(result'[x]) : Fits(result[x][i])'
      PROVE  ResultOK' /\ AllFit'
    BY <1>3 DEF ResultOK, AllFit, Pending
<1>4. CASE result' = result /\ \A x \in Workers : Pending(x) => tasks'[x] = tasks[x]
    BY <1>0, <1>1, <1>3, <1>4
<1>5. ASSUME NEW w \in Workers, Announcing(w) PROVE ResultOK' /\ AllFit'
    <2>1. PICK events : events = result'[w]
        OBVIOUS
    <2>2. /\ events \in Seq(Payloads) /\ Len(events) \in 1..2 /\ tasks'[w].pc \in Emitters
          /\ \A i \in 1..Len(events) : Fits(events[i])'
        BY <1>0, <1>5, <2>1, AnnouncementsFit
    <2>3. result' = [result EXCEPT ![w] = events] /\ Others(w)
        BY <1>5, <2>1 DEF Announcing
    <2>4. \A x \in Workers \ {w} : result'[x] = result[x] /\ tasks'[x] = tasks[x]
        BY <1>0, <2>3 DEF Others
    <2>5. result' \in [Workers -> Seq(Payloads)]
        BY <1>0, <2>2, <2>3
    <2>6. /\ result'[w] # << >> => tasks'[w].pc \in Emitters
          /\ Len(result'[w]) \in 0..2
          /\ \A i \in 1..Len(result'[w]) : Fits(result[w][i])'
        BY <2>1, <2>2
    <2>. QED
        BY <1>1, <1>3, <2>4, <2>5, <2>6
<1>6. ASSUME NEW w \in Workers, Hearing(w) PROVE ResultOK' /\ AllFit'
    <2>1. result' = [result EXCEPT ![w] = << >>] /\ Others(w)
        BY <1>6 DEF Hearing, Emits
    <2>2. \A x \in Workers \ {w} : result'[x] = result[x] /\ tasks'[x] = tasks[x]
        BY <1>0, <2>1 DEF Others
    <2>3. result'[w] = << >> /\ result' \in [Workers -> Seq(Payloads)]
        BY <1>0, <2>1
    <2>. QED
        BY <1>1, <1>2, <1>3, <2>2, <2>3
<1>7. CASE Losing
    BY <1>1, <1>2, <1>3, <1>7 DEF Losing
<1>8. ASSUME NEW w \in Workers, Counting(w) PROVE ResultOK' /\ AllFit'
    BY <1>4, <1>8 DEF Counting, EventsCountSubmissions, Others
<1>9. ASSUME NEW w \in Workers, Cancelling(w) PROVE ResultOK' /\ AllFit'
    <2>1. /\ result' = [result EXCEPT ![w] = <<TournamentCancelled>>]
          /\ tasks' = tasks /\ tasks[w].pc = "idle"
        BY <1>9 DEF Cancelling, EventsCancel, Idle
    <2>2. /\ TournamentCancelled \in TournamentCancelledPayload
          /\ TournamentCancelled \in Payloads
        BY DEF TournamentCancelled, TournamentCancelledPayload, Payloads
    <2>3. PICK e \in TournamentCancelledPayload : e = TournamentCancelled /\ e \in Payloads
        BY <2>2
    <2>4. result'[w] = <<e>> /\ result' \in [Workers -> Seq(Payloads)]
        BY <1>0, <2>1, <2>3
    <2>5. Fits(e)'
        BY DEF Fits
    <2>6. \A i \in 1..Len(result'[w]) : Fits(result[w][i])'
        BY <2>4, <2>5
    <2>7. Len(result'[w]) \in 0..2 /\ tasks'[w].pc \in Emitters
        BY <2>1, <2>4 DEF Emitters
    <2>. QED
        BY <1>0, <1>1, <1>3, <2>1, <2>4, <2>6, <2>7
<1>. QED
    BY <1>0, <1>4, <1>5, <1>6, <1>7, <1>8, <1>9, EventMoves
    DEF Known, Quiet, eventVars, Joining, EventsJoin

(* Every step leaves the participants with a true view.                    *)
LEMMA ViewStep ==
    ASSUME Known, EventsInv, [EventsNext]_allVars
    PROVE  Agrees(announced)'
<1>0. /\ TypeOK /\ ResultOK /\ behind \in BOOLEAN /\ OrderOK /\ AllFit /\ Agrees(announced)
    BY DEF Known, Inv, EventsInv
<1>1. ASSUME NEW view, Agrees(view), announced' = view PROVE Agrees(announced)'
    BY <1>0, <1>1, AgreesStays
<1>2. CASE announced' = announced
    BY <1>0, <1>1, <1>2
<1>3. ASSUME NEW w \in Workers, Hearing(w) PROVE Agrees(announced)'
    <2>1. announced' = HearAll(announced, result[w])
        BY <1>3 DEF Hearing, Emits, Tells
    <2>. QED
        BY <1>0, <1>1, <2>1, HearAllAgrees
<1>5. ASSUME NEW w \in Workers, Counting(w) PROVE Agrees(announced)'
    <2>. DEFINE r == tasks[w].round
    <2>1. /\ announced' = Hear(announced, Progress(r)) /\ r \in Rounds /\ WillCount(w, r)
        BY <1>0, <1>5 DEF Counting, EventsCountSubmissions, CountSubmissions, Tells, WillCount,
            TypeOK, Task
    <2>3. Progress(r) \in RoundProgressUpdatedPayload /\ Progress(r).round = r
        BY <2>1, ProgressType
    <2>4. Exists(r)
        BY <2>1 DEF EventsInv, CountersKnow
    <2>. HIDE DEF r
    <2>5. PICK e : e = Progress(r)
        OBVIOUS
    <2>6. Fits(e)
        BY <2>3, <2>4, <2>5 DEF Fits
    <2>. QED
        BY <1>0, <1>1, <2>1, <2>5, <2>6, HearAgrees
<1>. QED
    BY <1>0, <1>2, <1>3, <1>5, EventMoves
    DEF Known, Quiet, eventVars, Announcing, Losing, Joining, EventsJoin, Cancelling, EventsCancel

(* The furthest point is one that there was a view of.                     *)
LEMMA FurthestMoves ==
    ASSUME Known, EventsInv, [EventsNext]_allVars
    PROVE  \/ furthest' = furthest
           \/ furthest' = PointOf(announced') /\ Onward(furthest, announced')
BY EventMoves
   DEF Known, EventsInv, Quiet, eventVars, Announcing, Hearing, Emits, Tells, Losing, Joining,
       EventsJoin, Cancelling, EventsCancel, Counting, EventsCountSubmissions

(* Its round exists.                                                       *)
LEMMA FurthestStep ==
    ASSUME Known, EventsInv, [EventsNext]_allVars
    PROVE  FurthestExists'
<1>1. CASE furthest' = furthest
    BY <1>1, RoundsStay DEF EventsInv, FurthestExists
<1>2. CASE furthest' = PointOf(announced')
    BY <1>2, ViewStep DEF PointOf, Agrees, View, FurthestExists
<1>. QED
    BY <1>1, <1>2, FurthestMoves

(* The invariant of the events is inductive.                               *)
LEMMA EventsInvStep ==
    ASSUME Known, EventsInv, [EventsNext]_allVars
    PROVE  EventsInv'
<1>1. /\ OrderOK' /\ ResultOK' /\ AllFit' /\ Agrees(announced)'
      /\ FurthestExists' /\ CountersKnow'
    BY OrderStep, ResultStep, ViewStep, FurthestStep, CountersKnowStep DEF EventsInv
<1>2. behind' \in BOOLEAN
    BY EventMoves DEF Known, EventsInv, Quiet, eventVars, Announcing, Hearing, Emits, Losing,
                      Joining, EventsJoin, Cancelling, EventsCancel, Counting,
                      EventsCountSubmissions
<1>. QED
    BY <1>1, <1>2 DEF EventsInv

(* The invariant of the events holds in every state.                       *)
LEMMA EventsInvariance == EventsSpec => [](Known /\ EventsInv)
<1>1. EventsInit => Known /\ EventsInv
    BY EventsInvInit
<1>2. Known /\ EventsInv /\ [EventsNext]_allVars => (Known /\ EventsInv)'
    BY KnownStep, EventsInvStep
<1>. QED
    BY <1>1, <1>2, PTL DEF EventsSpec

-----------------------------------------------------------------------------
(* Theorems.                                                               *)

(* What is returned is a payload of the contract, and the view that        *)
(* clients make of it is of its type.                                      *)
THEOREM EventsTypes == EventsSpec => []EventsTypeOK
<1>1. Known /\ EventsInv => EventsTypeOK
    <2>. SUFFICES ASSUME Known, EventsInv PROVE EventsTypeOK
        OBVIOUS
    <2>1. JoinOrder /\ behind \in BOOLEAN /\ Agrees(announced)
        BY DEF EventsInv, OrderOK
    <2>2. \A w \in Workers : \A i \in DOMAIN result[w] : result[w][i] \in Payloads
        <3>1. \A w \in Workers : result[w] \in Seq(Payloads)
            BY DEF EventsInv, ResultOK
        <3>. QED
            BY <3>1
    <2>. QED
        BY <2>1, <2>2 DEF EventsTypeOK, JoinOrder, Agrees, View, EventsInv, FurthestExists
<1>. QED
    BY <1>1, EventsInvariance, PTL

(* A result that was announced for a submission is the one that counts: no *)
(* vote is changed between its VOTE_FINALIZED and the round's completion.  *)
THEOREM TalliesStand == EventsSpec => []FinalTalliesStand
<1>1. Known /\ EventsInv => FinalTalliesStand
    BY DEF EventsInv, Agrees, Settled, FinalTalliesStand
<1>. QED
    BY <1>1, EventsInvariance, PTL

-----------------------------------------------------------------------------
(* What a handler still has to emit, by where it is.                       *)

Reveals(e, r, k) ==
    /\ e \in VotingSubmissionRevealedPayload /\ e.round = r
    /\ rounds[r].phase = "VOTING" /\ k \in 1..Len(submissions[r])
    /\ e.revealIndex = k - 1 /\ e.total = Len(submissions[r])

BeginsRound(t, events) ==
    /\ t.pc = "arming"
    /\ \/ events = <<RoundCreated(t.round)>>
       \/ t.round = 1 /\ events = <<TournamentStarted, RoundCreated(1)>>

ClosesPhase(t, events) == t.pc = "closed" /\ events = <<PhaseChanged(t.round)>>

RevealsFirst(t, events) ==
    t.pc = "opened" /\ t.step = 1 /\ \E e \in VotingSubmissionRevealedPayload :
        events = <<e>> /\ Reveals(e, t.round, 1)

FinalizesLast(t, events) ==
    /\ t.pc = "finalized" /\ t.step = 0
    /\ \E d \in VoteFinalizedPayload : events = <<d>> /\ d.round = t.round

RevealsNext(t, events) ==
    /\ t.pc = "finalized" /\ t.step # 0
    /\ \E d \in VoteFinalizedPayload, e \in VotingSubmissionRevealedPayload :
          events = <<d, e>> /\ d.round = t.round /\ Reveals(e, t.round, t.step)

ScoresRound(t, events) ==
    /\ t.pc = "delaying"
    /\ \E e \in RoundCompletedPayload : events = <<e>> /\ e.round = t.round

EndsTournament(t, events) ==
    /\ t.pc = "idle" /\ status = "COMPLETED"
    /\ \E e \in TournamentFinishedPayload :
          events = <<e>> /\ e.winner = winner /\ e.leaderboard = Leaderboard(score)

CancelsTournament(t, events) ==
    t.pc = "idle" /\ status = "CANCELLED" /\ events = <<TournamentCancelled>>

Shape(t, events) ==
    \/ BeginsRound(t, events) \/ ClosesPhase(t, events) \/ RevealsFirst(t, events)
    \/ FinalizesLast(t, events) \/ RevealsNext(t, events) \/ ScoresRound(t, events)
    \/ EndsTournament(t, events) \/ CancelsTournament(t, events)

Shaped == \A w \in Workers : Pending(w) => Shape(tasks[w], result[w])

(* A reveal names the same submission ever after: the order is fixed when  *)
(* voting opens.                                                           *)
LEMMA RevealsStay ==
    ASSUME Known, [EventsNext]_allVars, NEW e, NEW r \in Rounds, NEW k, Reveals(e, r, k)
    PROVE  Reveals(e, r, k)'
<1>1. KeepsClosed(r)
    BY EventsAreSteps, FrozenStep DEF Known
<1>. QED
    BY <1>1 DEF KeepsClosed, Reveals

(* A completed tournament keeps its winner, its participants and their     *)
(* scores.                                                                 *)
LEMMA StandingsSettled ==
    ASSUME Known, [EventsNext]_allVars, status = "COMPLETED"
    PROVE  /\ status' = "COMPLETED" /\ winner' = winner
           /\ UNCHANGED <<participants, score, createdAt>>
BY EventsAreSteps, AfterCompletion, TournamentMoves
   DEF EventsJoin, Join, EventsCancel, Cancel

(* A cancelled tournament stays cancelled.                                 *)
LEMMA CancelledStays ==
    ASSUME [Next]_vars, status = "CANCELLED"
    PROVE  status' = "CANCELLED"
<1>1. ASSUME NEW w \in Workers, TaskStep(w) PROVE status' = status
    BY <1>1 DEF TaskStep, FindParticipant, Leave, ArmSubmissionTimer, HandleSubmissionSaved,
                CountSubmissions, CloseSubmissions, CancelSubmissionTimer, OpenVoting,
                ArmVotingTimer, CheckVotingFinished, HandleVoteSaved, CountVotes,
                BeginFinalization, Finalize, AfterFinalize, CompleteRound, FinishTournament,
                FollowsUp, CreateNextRound, tournamentVars
<1>2. ASSUME NEW w \in Workers, Request(w) PROVE status' = status
    BY <1>2 DEF Request, Start, AskToLeave, Submit, CastVote, tournamentVars
<1>. QED
    BY <1>1, <1>2
    DEF Next, Cancel, Join, SubmissionDeadlinePasses, VotingDeadlinePasses, SubmissionTimerFires,
        VotingTimerFires, CrashRestart, RequestFails, ReplyLost, vars, tournamentVars

(* What a handler returned stays of the shape its next step calls for.     *)
LEMMA ShapeStays ==
    ASSUME Known, [EventsNext]_allVars, NEW t \in Task, NEW events, Shape(t, events)
    PROVE  Shape(t, events)'
<1>0. t.round \in Rounds
    BY DEF Task
<1>1. CASE BeginsRound(t, events) \/ ClosesPhase(t, events)
    BY <1>1 DEF Shape, BeginsRound, ClosesPhase, RoundCreated, PhaseChanged, TournamentStarted
<1>2. CASE RevealsFirst(t, events)
    BY <1>0, <1>2, RevealsStay DEF Shape, RevealsFirst
<1>3. CASE FinalizesLast(t, events) \/ ScoresRound(t, events)
    BY <1>3 DEF Shape, FinalizesLast, ScoresRound
<1>4. CASE RevealsNext(t, events)
    BY <1>0, <1>4, RevealsStay DEF Shape, RevealsNext
<1>5. CASE EndsTournament(t, events)
    <2>1. /\ status' = "COMPLETED" /\ winner' = winner
          /\ UNCHANGED <<participants, score, createdAt>>
        BY <1>5, StandingsSettled DEF EndsTournament
    <2>2. Leaderboard(score)' = Leaderboard(score)
        BY <2>1 DEF Leaderboard, AtPlace, Ahead, RanksBefore, BreaksTie, Joined1st
    <2>. QED
        BY <1>5, <2>1, <2>2 DEF Shape, EndsTournament
<1>6. CASE CancelsTournament(t, events)
    <2>1. status' = "CANCELLED"
        BY <1>6, EventsAreSteps, CancelledStays DEF CancelsTournament
    <2>. QED
        BY <1>6, <2>1 DEF Shape, CancelsTournament, TournamentCancelled
<1>. QED
    BY <1>1, <1>2, <1>3, <1>4, <1>5, <1>6 DEF Shape

(* What a handler returns has that shape.                                  *)
LEMMA AnnouncementsShaped ==
    ASSUME Known, OrderOK, [EventsNext]_allVars, NEW w \in Workers, Announcing(w),
           NEW t, t = tasks'[w], NEW events, events = result'[w]
    PROVE  Shape(t, events)'
<1>0. /\ tasks[w].round \in Rounds /\ TypeOK /\ tasks' \in [Workers -> Task]
      /\ submissions[tasks[w].round] \in Seq(Users) /\ tasks \in [Workers -> Task]
    BY KnownStep DEF Known, Inv, TypeOK, Task
<1>6. PICK r : r = tasks[w].round
    OBVIOUS
<1>1. ASSUME NEW k \in 1..Len(submissions[r]), NEW e, e = Reveal(r, k), rounds[r].phase = "VOTING"
      PROVE  e \in VotingSubmissionRevealedPayload /\ Reveals(e, r, k)'
    <2>1. e \in VotingSubmissionRevealedPayload /\ Reveals(e, r, k)
        BY <1>0, <1>1, <1>6, PayloadTypes DEF Reveal, Reveals
    <2>. QED
        BY <1>0, <1>6, <2>1, RevealsStay
<1>7. CASE Start(w) /\ Enters(w, "arming", 1) /\ events = <<TournamentStarted, RoundCreated(1)>>
    BY <1>7 DEF Enters, Shape, BeginsRound, TournamentStarted, RoundCreated
<1>8. CASE Closes(w) /\ events = <<PhaseChanged(r)>>
    BY <1>6, <1>8 DEF Closes, Enters, Shape, ClosesPhase, PhaseChanged
<1>9. CASE Opens(w) /\ events = <<Reveal(r, 1)>>
    <2>1. 1 \in 1..Len(submissions[r]) /\ rounds[r].phase = "VOTING"
        BY <1>0, <1>6, <1>9 DEF Opens, CanOpen
    <2>2. PICK e : e = Reveal(r, 1)
        OBVIOUS
    <2>3. e \in VotingSubmissionRevealedPayload /\ Reveals(e, r, 1)'
        BY <1>1, <2>1, <2>2
    <2>4. t.pc = "opened" /\ t.step = 1 /\ t.round = r
        BY <1>6, <1>9 DEF Opens, Enters
    <2>. QED
        BY <1>9, <2>2, <2>3, <2>4 DEF Shape, RevealsFirst
<1>10. ASSUME Finalizes(w), NEW d, d = VoteFinalized(r, tasks[w].voters)
       PROVE  d \in VoteFinalizedPayload /\ d.round = r
    <2>1. rounds[r].current \in Users
        BY <1>6, <1>10, FinalizationSettles
    <2>. QED
        BY <1>0, <1>6, <1>10, <2>1, PayloadTypes DEF VoteFinalized
<1>11. CASE Finalizes(w) /\ t.step = 0 /\ events = <<VoteFinalized(r, tasks[w].voters)>>
    <2>1. PICK d : d = VoteFinalized(r, tasks[w].voters)
        OBVIOUS
    <2>2. t.pc = "finalized" /\ t.round = r
        BY <1>6, <1>11 DEF Finalizes, Enters
    <2>. QED
        BY <1>10, <1>11, <2>1, <2>2 DEF Shape, FinalizesLast
<1>12. CASE Finalizes(w) /\ t.step # 0 /\ events = <<VoteFinalized(r, tasks[w].voters), Reveal(r, t.step)>>
    <2>1. PICK d : d = VoteFinalized(r, tasks[w].voters)
        OBVIOUS
    <2>2. PICK e : e = Reveal(r, t.step)
        OBVIOUS
    <2>3. t.step \in 1..Len(submissions[r])
        BY <1>6, <1>12, FinalizationSettles
    <2>4. t.pc = "finalized" /\ t.round = r /\ rounds[r].phase = "VOTING"
        BY <1>6, <1>12 DEF Finalizes, Enters, VotingOpen
    <2>5. e \in VotingSubmissionRevealedPayload /\ Reveals(e, r, t.step)'
        BY <1>1, <2>2, <2>3, <2>4
    <2>. QED
        BY <1>10, <1>12, <2>1, <2>2, <2>4, <2>5 DEF Shape, RevealsNext
<1>13. CASE Completes(w) /\ events = <<RoundCompleted(r, score')>>
    <2>1. PICK e : e = RoundCompleted(r, score')
        OBVIOUS
    <2>2. e \in RoundCompletedPayload /\ e.round = r
        BY <1>6, <1>13, <2>1, CompletionFits DEF Announcing, RoundCompleted
    <2>3. t.pc = "delaying" /\ t.round = r
        BY <1>6, <1>13 DEF Completes, Enters
    <2>. QED
        BY <1>13, <2>1, <2>2, <2>3 DEF Shape, ScoresRound
<1>14. CASE /\ FinishTournament(w) /\ FollowsUp(r) /\ t.pc = "idle"
            /\ status' = "COMPLETED" /\ winner' = Leaderboard(score)[1].user
            /\ events = <<TournamentFinished(Leaderboard(score))>>
    <2>1. PICK e : e = TournamentFinished(Leaderboard(score))
        OBVIOUS
    <2>2. e \in TournamentFinishedPayload
        BY <1>6, <1>14, <2>1, FinishFits
    <2>3. UNCHANGED <<participants, score, createdAt>>
        BY <1>14 DEF FinishTournament, Announcing
    <2>4. Leaderboard(score)' = Leaderboard(score)
        BY <2>3 DEF Leaderboard, AtPlace, Ahead, RanksBefore, BreaksTie, Joined1st
    <2>5. e.winner = winner' /\ e.leaderboard = Leaderboard(score)'
        BY <1>14, <2>1, <2>4 DEF TournamentFinished
    <2>. QED
        BY <1>14, <2>1, <2>2, <2>5 DEF Shape, EndsTournament
<1>15. CASE /\ CreateNextRound(w) /\ FollowsUp(r) /\ Enters(w, "arming", r + 1)
            /\ events = <<RoundCreated(r + 1)>>
    BY <1>15 DEF Enters, Shape, BeginsRound, RoundCreated
<1>. QED
    BY <1>6, <1>7, <1>8, <1>9, <1>11, <1>12, <1>13, <1>14, <1>15 DEF Announcing, Announces

(* Handlers hold only events of the shape their next step calls for.       *)
LEMMA ShapedStep ==
    ASSUME Known, EventsInv, Shaped, [EventsNext]_allVars
    PROVE  Shaped'
<1>0. /\ TypeOK /\ ResultOK /\ behind \in BOOLEAN /\ OrderOK /\ tasks \in [Workers -> Task]
      /\ result \in [Workers -> Seq(Payloads)]
    BY DEF Known, Inv, EventsInv, TypeOK, ResultOK
<1>1. ASSUME NEW x \in Workers, result'[x] = result[x], Pending(x) => tasks'[x] = tasks[x]
      PROVE  Pending(x)' => Shape(tasks[x], result[x])'
    <2>1. CASE Pending(x)
        <3>1. PICK t : t = tasks[x]
            OBVIOUS
        <3>2. PICK events : events = result[x]
            OBVIOUS
        <3>3. Shape(t, events)'
            BY <1>0, <2>1, <3>1, <3>2, ShapeStays DEF Shaped
        <3>. QED
            BY <1>1, <2>1, <3>1, <3>2, <3>3
    <2>. QED
        BY <1>1, <2>1 DEF Pending
<1>2. ASSUME NEW w \in Workers, Announcing(w) PROVE Shaped'
    <2>1. Pending(w)' => Shape(tasks[w], result[w])'
        BY <1>0, <1>2, AnnouncementsShaped
    <2>2. \A x \in Workers \ {w} : result'[x] = result[x] /\ tasks'[x] = tasks[x]
        BY <1>0, <1>2 DEF Announcing, Others
    <2>. QED
        BY <1>1, <2>1, <2>2 DEF Shaped
<1>3. ASSUME NEW w \in Workers, Hearing(w) PROVE Shaped'
    <2>1. /\ \A x \in Workers \ {w} : result'[x] = result[x] /\ tasks'[x] = tasks[x]
          /\ result'[w] = << >>
        BY <1>0, <1>3 DEF Hearing, Emits, Others
    <2>. QED
        BY <1>1, <2>1 DEF Shaped, Pending
<1>4. CASE Losing
    BY <1>1, <1>4 DEF Losing, Shaped, Pending
<1>5. ASSUME result' = result, \A x \in Workers : Pending(x) => tasks'[x] = tasks[x] PROVE Shaped'
    BY <1>1, <1>5 DEF Shaped
<1>6. ASSUME NEW w \in Workers, Cancelling(w) PROVE Shaped'
    <2>1. /\ result' = [result EXCEPT ![w] = <<TournamentCancelled>>] /\ status' = "CANCELLED"
          /\ tasks' = tasks /\ tasks[w].pc = "idle"
        BY <1>6 DEF Cancelling, EventsCancel, Cancel, Idle
    <2>2. \A x \in Workers \ {w} : result'[x] = result[x]
        BY <1>0, <2>1
    <2>3. result'[w] = <<TournamentCancelled>>
        BY <1>0, <2>1
    <2>4. Shape(tasks[w], result[w])'
        BY <2>1, <2>3 DEF Shape, CancelsTournament, TournamentCancelled
    <2>. QED
        BY <1>1, <2>1, <2>2, <2>4 DEF Shaped
<1>. QED
    BY <1>0, <1>2, <1>3, <1>4, <1>5, <1>6, EventMoves
    DEF Known, Quiet, eventVars, Joining, EventsJoin, Counting, EventsCountSubmissions, Others

-----------------------------------------------------------------------------
(* The standings that clients add up.                                      *)

Scores(w) == Delays(w) /\ Pending(w)

Added(board) == \A i \in 1..Len(board) : board[i].score = announced.earned[board[i].user]

(* A handler that waits has the results that are still to be added.        *)
Awaits(w) ==
    /\ ShowsScores(result[w][1].leaderboard)
    /\ \A u \in Users : score[u] = announced.earned[u] + result[w][1].rankings[u].likes

StandingsAgree ==
    faults = 0 =>
        /\ \A w \in Workers : Scores(w) => Awaits(w)
        /\ (\A w \in Workers : ~Scores(w)) => \A u \in Users : score[u] = announced.earned[u]
        /\ Added(announced.board)

(* Faults are never forgotten.                                             *)
LEMMA FaultsGrow ==
    ASSUME [Next]_vars, faults \in Nat
    PROVE  faults' = 0 => faults = 0
<1>1. ASSUME NEW w \in Workers, TaskStep(w) PROVE faults' = faults
    BY <1>1 DEF TaskStep, FindParticipant, Leave, ArmSubmissionTimer, HandleSubmissionSaved,
                CountSubmissions, CloseSubmissions, CancelSubmissionTimer, OpenVoting,
                ArmVotingTimer, CheckVotingFinished, HandleVoteSaved, CountVotes,
                BeginFinalization, Finalize, AfterFinalize, CompleteRound, FinishTournament,
                CreateNextRound
<1>2. ASSUME NEW w \in Workers, Request(w) PROVE faults' = faults
    BY <1>2 DEF Request, Start, AskToLeave, Submit, CastVote
<1>. QED
    BY <1>1, <1>2
    DEF Next, Cancel, Join, SubmissionDeadlinePasses, VotingDeadlinePasses, SubmissionTimerFires,
        VotingTimerFires, CrashRestart, RequestFails, ReplyLost, vars, FaultHappens

(* Results are added by ROUND_COMPLETED only.                              *)
LEMMA HearKeeps ==
    ASSUME NEW view \in View, NEW e \in Payloads
    PROVE  /\ e \in RoundCompletedPayload =>
                /\ Hear(view, e).board = e.leaderboard
                /\ \A a \in Users : Hear(view, e).earned[a] = view.earned[a] + e.rankings[a].likes
           /\ e \in TournamentFinishedPayload =>
                Hear(view, e).board = e.leaderboard /\ Hear(view, e).earned = view.earned
           /\ e \notin RoundCompletedPayload \cup TournamentFinishedPayload =>
                Hear(view, e).board = view.board /\ Hear(view, e).earned = view.earned
<1>. DEFINE there == InRound(view, e.round)
<1>1. /\ there.board = view.board /\ there.earned = view.earned
      /\ DOMAIN there = DOMAIN view
    BY DEF InRound, View
<1>2. {"stage", "submitted", "step", "total", "tallies", "earned", "board"} \subseteq DOMAIN there
    BY <1>1 DEF View
<1>. HIDE DEF there
<1>3. CASE e \in TournamentStartedPayload
    BY <1>3 DEF TournamentStartedPayload, RoundCompletedPayload, TournamentFinishedPayload, Hear,
        emitTournamentStarted, View
<1>4. CASE e \in TournamentFinishedPayload
    BY <1>4 DEF RoundCompletedPayload, TournamentFinishedPayload, Hear, emitTournamentFinished, View
<1>5. CASE e \in RoundCompletedPayload
    BY <1>1, <1>2, <1>5 DEF RoundCompletedPayload, TournamentFinishedPayload, Hear,
        emitRoundCompleted, there
<1>6. CASE e \in RoundCreatedPayload
    BY <1>1, <1>2, <1>6 DEF RoundCreatedPayload, RoundCompletedPayload, TournamentFinishedPayload,
        Hear, emitRoundCreated, there
<1>7. CASE e \in RoundPhaseChangedPayload
    BY <1>1, <1>2, <1>7 DEF RoundPhaseChangedPayload, RoundCompletedPayload,
        TournamentFinishedPayload, Hear, emitRoundPhaseChanged, there
<1>8. CASE e \in VotingSubmissionRevealedPayload
    BY <1>1, <1>2, <1>8 DEF VotingSubmissionRevealedPayload, RoundCompletedPayload,
        TournamentFinishedPayload, Hear, emitVotingSubmissionRevealed, there
<1>9. CASE e \in VoteFinalizedPayload
    BY <1>1, <1>2, <1>9 DEF VoteFinalizedPayload, RoundCompletedPayload,
        TournamentFinishedPayload, Hear, emitVoteFinalized, there
<1>10. CASE e \in RoundProgressUpdatedPayload
    BY <1>1, <1>2, <1>10 DEF RoundProgressUpdatedPayload, RoundCompletedPayload,
        TournamentFinishedPayload, Hear, emitRoundProgressUpdated, there
<1>11. CASE e \in TournamentCancelledPayload
    BY <1>11 DEF TournamentCancelledPayload, RoundCompletedPayload, TournamentFinishedPayload,
        Hear, emitTournamentCancelled, View
<1>. QED
    BY <1>3, <1>4, <1>5, <1>6, <1>7, <1>8, <1>9, <1>10, <1>11 DEF Payloads

(* Only a completed round adds to what the participants were told they     *)
(* earned.                                                                 *)
LEMMA ShapeIsHeard ==
    ASSUME Known, NEW view, Agrees(view), NEW t \in Task, NEW events, Shape(t, events),
           NEW w \in Workers, AllFit, events = result[w], ResultOK
    PROVE  /\ t.pc = "delaying" =>
                \E e \in RoundCompletedPayload :
                    events = <<e>> /\ HearAll(view, events) = Hear(view, e)
           /\ t.pc # "delaying" =>
                /\ HearAll(view, events).earned = view.earned
                /\ \/ HearAll(view, events).board = view.board
                   \/ /\ EndsTournament(t, events) /\ status = "COMPLETED"
                      /\ ShowsScores(HearAll(view, events).board)
<1>0. /\ t.round \in Rounds /\ view \in View
      /\ \A i \in 1..Len(events) : Fits(events[i])
    BY DEF Task, Agrees, AllFit
<1>1. CASE BeginsRound(t, events)
    <2>1. /\ RoundCreated(t.round) \in RoundCreatedPayload /\ RoundCreated(1) \in RoundCreatedPayload
          /\ TournamentStarted \in TournamentStartedPayload
        BY <1>0, PayloadTypes, SizesAssumption
        DEF RoundCreated, RoundCreatedPayload, TournamentStarted, TournamentStartedPayload, Rounds
    <2>2. \A e \in RoundCreatedPayload \cup TournamentStartedPayload :
              e \in Payloads /\ e \notin RoundCompletedPayload \cup TournamentFinishedPayload
        BY DEF Payloads, RoundCreatedPayload, TournamentStartedPayload, RoundCompletedPayload,
            TournamentFinishedPayload
    <2>3. CASE events = <<RoundCreated(t.round)>>
        BY <1>0, <1>1, <2>1, <2>2, <2>3, HearKeeps DEF HearAll, BeginsRound
    <2>4. CASE events = <<TournamentStarted, RoundCreated(1)>>
        <3>1. HearAll(view, events) = Hear(Hear(view, TournamentStarted), RoundCreated(1))
            BY <2>4 DEF HearAll
        <3>2. Hear(view, TournamentStarted) \in View
            BY <1>0 DEF Hear, TournamentStarted, emitTournamentStarted, View
        <3>. QED
            BY <1>0, <1>1, <2>1, <2>2, <3>1, <3>2, HearKeeps DEF BeginsRound
    <2>. QED
        BY <1>1, <2>3, <2>4 DEF BeginsRound
<1>2. CASE ClosesPhase(t, events)
    <2>1. PhaseChanged(t.round) \in RoundPhaseChangedPayload
        BY <1>0, PayloadTypes
    <2>2. \A e \in RoundPhaseChangedPayload :
              e \in Payloads /\ e \notin RoundCompletedPayload \cup TournamentFinishedPayload
        BY DEF Payloads, RoundPhaseChangedPayload, RoundCompletedPayload, TournamentFinishedPayload
    <2>. QED
        BY <1>0, <1>2, <2>1, <2>2, HearKeeps DEF HearAll, ClosesPhase
<1>3. \A e \in VotingSubmissionRevealedPayload \cup VoteFinalizedPayload :
          e \in Payloads /\ e \notin RoundCompletedPayload \cup TournamentFinishedPayload
    BY DEF Payloads, VotingSubmissionRevealedPayload, VoteFinalizedPayload, RoundCompletedPayload,
        TournamentFinishedPayload
<1>4. CASE RevealsFirst(t, events) \/ FinalizesLast(t, events)
    <2>1. PICK e \in VotingSubmissionRevealedPayload \cup VoteFinalizedPayload : events = <<e>>
        BY <1>4 DEF RevealsFirst, FinalizesLast
    <2>2. HearAll(view, events) = Hear(view, e)
        BY <2>1 DEF HearAll
    <2>. QED
        BY <1>0, <1>3, <1>4, <2>1, <2>2, HearKeeps DEF RevealsFirst, FinalizesLast
<1>5. CASE RevealsNext(t, events)
    <2>1. PICK d \in VoteFinalizedPayload, e \in VotingSubmissionRevealedPayload : events = <<d, e>>
        BY <1>5 DEF RevealsNext
    <2>2. HearAll(view, events) = Hear(Hear(view, d), e)
        BY <2>1 DEF HearAll
    <2>3. Fits(d)
        <3>1. 1 \in 1..Len(events) /\ events[1] = d
            BY <2>1
        <3>. QED
            BY <1>0, <3>1
    <2>4. Hear(view, d) \in View
        BY <2>3, HearAgrees DEF Agrees
    <2>. QED
        BY <1>0, <1>3, <1>5, <2>1, <2>2, <2>4, HearKeeps DEF RevealsNext
<1>6. CASE ScoresRound(t, events)
    BY <1>6 DEF ScoresRound, HearAll
<1>7. CASE EndsTournament(t, events)
    <2>1. PICK e \in TournamentFinishedPayload : events = <<e>>
        BY <1>7 DEF EndsTournament
    <2>2. HearAll(view, events) = Hear(view, e)
        BY <2>1 DEF HearAll
    <2>3. ShowsScores(e.leaderboard)
        <3>1. Fits(e)
            <4>1. 1 \in 1..Len(events) /\ events[1] = e
                BY <2>1
            <4>. QED
                BY <1>0, <4>1
        <3>. QED
            BY <2>1, <3>1 DEF Fits, TournamentFinishedPayload, TournamentStartedPayload,
                TournamentCancelledPayload, RoundProgressUpdatedPayload,
                RoundCreatedPayload, RoundPhaseChangedPayload, VotingSubmissionRevealedPayload,
                VoteFinalizedPayload, RoundCompletedPayload
    <2>4. e \in Payloads
        BY <2>1 DEF Payloads
    <2>. QED
        BY <1>0, <1>7, <2>1, <2>2, <2>3, <2>4, HearKeeps DEF EndsTournament
<1>8. CASE CancelsTournament(t, events)
    <2>1. /\ TournamentCancelled \in TournamentCancelledPayload
          /\ \A e \in TournamentCancelledPayload :
                e \in Payloads /\ e \notin RoundCompletedPayload \cup TournamentFinishedPayload
        BY DEF TournamentCancelled, TournamentCancelledPayload, Payloads, RoundCompletedPayload,
            TournamentFinishedPayload
    <2>2. HearAll(view, events) = Hear(view, TournamentCancelled)
        BY <1>8 DEF CancelsTournament, HearAll
    <2>. QED
        BY <1>0, <1>8, <2>1, <2>2, HearKeeps DEF CancelsTournament
<1>. QED
    BY <1>1, <1>2, <1>4, <1>5, <1>6, <1>7, <1>8 DEF Shape

(* A completed round adds its results to the standings.                    *)
LEMMA CompletionAdds ==
    ASSUME Known, OrderOK, [EventsNext]_allVars, NEW w \in Workers, Announcing(w), Completes(w)
    PROVE  /\ \A x \in Workers : ~Delays(x)
           /\ \A x \in Workers \ {w} : ~Delays(x)'
           /\ \A u \in Users : score'[u] = score[u] + result'[w][1].rankings[u].likes
           /\ \A i \in 1..Len(result'[w][1].leaderboard) :
                 result'[w][1].leaderboard[i].score = score'[result'[w][1].leaderboard[i].user]
<1>. DEFINE r == tasks[w].round
<1>0. /\ r \in Rounds /\ TypeOK /\ JoinOrder /\ tasks \in [Workers -> Task]
      /\ score \in [Users -> Nat] /\ Others(w) /\ VotingFinished(r) /\ [Next]_vars
    BY EventsAreSteps DEF Known, Inv, TypeOK, Task, OrderOK, Announcing, Completes
<1>1. tasks[w].pc = "completing" /\ score' = StandingsAfter(r)
    BY DEF Completes, CompleteRound
<1>2. \A x \in Workers : ~Delays(x)
    <2>1. SUFFICES ASSUME NEW x \in Workers, Delays(x) PROVE FALSE
        OBVIOUS
    <2>2. x # w
        BY <1>1, <2>1 DEF Delays
    <2>3. tasks'[x] = tasks[x]
        BY <1>0, <2>2 DEF Others
    <2>. QED
        BY <1>0, <2>1, <2>3, DelayHolds DEF Known, Alone
<1>3. \A x \in Workers \ {w} : ~Delays(x)'
    BY <1>0, <1>2 DEF Others, Delays
<1>4. PICK e : e = RoundCompleted(r, score')
    OBVIOUS
<1>5. result'[w] = <<e>>
    BY <1>0, <1>1, <1>4 DEF Announcing, Announces, Start, Idle, Closes, Opens, Finalizes,
        CloseSubmissions, OpenVoting, Finalize, FinishTournament, CreateNextRound
<1>6. e.rankings = Rankings(r) /\ e.leaderboard = Leaderboard(score')
    BY <1>4 DEF RoundCompleted
<1>7. ASSUME NEW u \in Users PROVE score'[u] = score[u] + e.rankings[u].likes
    <2>1. Rankings(r)[u].likes = PointsIn(r)[u]
        BY DEF Rankings, TallyOf, NoTally, PointsIn
    <2>2. u \notin participants => PointsIn(r)[u] = 0
        BY <1>0, NobodyGoes DEF PointsIn
    <2>. QED
        BY <1>0, <1>1, <1>6, <2>1, <2>2 DEF StandingsAfter
<1>8. \A i \in 1..Len(e.leaderboard) : e.leaderboard[i].score = score'[e.leaderboard[i].user]
    <2>1. PICK points : points = score'
        OBVIOUS
    <2>2. points \in [Users -> Nat]
        BY <2>1, KnownStep DEF Known, Inv, TypeOK
    <2>3. PICK board : board = Leaderboard(points)
        OBVIOUS
    <2>. QED
        BY <1>0, <1>6, <2>1, <2>2, <2>3, LeaderboardFits
<1>. QED
    BY <1>2, <1>3, <1>5, <1>7, <1>8

(* A commit other than a round's completion adds no points.                *)
LEMMA OnlyCompletionAdds ==
    ASSUME NEW w \in Workers, Announcing(w), ~Completes(w)
    PROVE  score' = score /\ tasks'[w].pc # "delaying"
BY DEF Announcing, Announces, Start, Closes, Opens, Finalizes, CloseSubmissions, OpenVoting,
       Finalize, FinishTournament, CreateNextRound, Enters, tournamentVars

(* The points heard of are the points earned, less those still to be       *)
(* announced.                                                              *)
LEMMA StandingsStep ==
    ASSUME Known, EventsInv, Shaped, StandingsAgree, [EventsNext]_allVars
    PROVE  StandingsAgree'
<1>0. /\ TypeOK /\ ResultOK /\ behind \in BOOLEAN /\ OrderOK /\ AllFit /\ Agrees(announced)
      /\ announced \in View /\ OneDelays
      /\ tasks \in [Workers -> Task] /\ result \in [Workers -> Seq(Payloads)]
      /\ score \in [Users -> Nat] /\ faults \in Nat
    <2>1. TypeOK /\ ResultOK
        BY DEF Known, Inv, EventsInv
    <2>2. tasks \in [Workers -> Task] /\ score \in [Users -> Nat] /\ faults \in Nat
        BY <2>1, SizesAssumption DEF TypeOK
    <2>. QED
        BY <2>1, <2>2 DEF Known, EventsInv, ResultOK, Alone, Agrees
<1>1. SUFFICES ASSUME faults' = 0
               PROVE  /\ \A w \in Workers : Scores(w)' => Awaits(w)'
                      /\ (\A w \in Workers : ~Scores(w)') => \A u \in Users : score'[u] = announced'.earned[u]
                      /\ Added(announced.board)'
    BY DEF StandingsAgree
<1>2. /\ \A w \in Workers : Scores(w) => Awaits(w)
      /\ (\A w \in Workers : ~Scores(w)) => \A u \in Users : score[u] = announced.earned[u]
      /\ Added(announced.board)
    BY <1>0, <1>1, EventsAreSteps, FaultsGrow DEF StandingsAgree
<1>3. ASSUME score' = score, announced'.earned = announced.earned, announced'.board = announced.board,
             \A x \in Workers :
                \/ ~Scores(x) /\ ~Scores(x)'
                \/ result'[x] = result[x] /\ (Scores(x) <=> Scores(x)')
      PROVE  /\ \A w \in Workers : Scores(w)' => Awaits(w)'
             /\ (\A w \in Workers : ~Scores(w)') => \A u \in Users : score'[u] = announced'.earned[u]
             /\ Added(announced.board)'
    <2>1. ASSUME NEW x \in Workers, Scores(x)' PROVE Awaits(x)'
        <3>1. Awaits(x) /\ result'[x] = result[x]
            BY <1>2, <1>3, <2>1
        <3>. QED
            BY <1>3, <3>1 DEF Awaits, ShowsScores
    <2>2. Added(announced.board)'
        BY <1>2, <1>3 DEF Added
    <2>3. (\A w \in Workers : ~Scores(w)') => \A w \in Workers : ~Scores(w)
        BY <1>3
    <2>. QED
        BY <1>2, <1>3, <2>1, <2>2, <2>3
<1>4. ASSUME NEW x \in Workers, result'[x] = result[x], Pending(x) => tasks'[x] = tasks[x]
      PROVE  Scores(x) <=> Scores(x)'
    BY <1>4 DEF Scores, Pending, Delays
<1>5. CASE Quiet
    BY <1>3, <1>4, <1>5 DEF Quiet, eventVars, tournamentVars
<1>6. ASSUME NEW w \in Workers, Announcing(w), Completes(w)
      PROVE  /\ \A x \in Workers : Scores(x)' => Awaits(x)'
             /\ (\A x \in Workers : ~Scores(x)') => \A u \in Users : score'[u] = announced'.earned[u]
             /\ Added(announced.board)'
    <2>1. /\ \A x \in Workers : ~Delays(x)
          /\ \A x \in Workers \ {w} : ~Delays(x)'
          /\ \A u \in Users : score'[u] = score[u] + result'[w][1].rankings[u].likes
          /\ \A i \in 1..Len(result'[w][1].leaderboard) :
                 result'[w][1].leaderboard[i].score = score'[result'[w][1].leaderboard[i].user]
        BY <1>0, <1>6, CompletionAdds
    <2>2. announced' = announced /\ \A u \in Users : score[u] = announced.earned[u]
        BY <1>2, <1>6, <2>1 DEF Announcing, Scores
    <2>3. Awaits(w)' /\ Scores(w)'
        <3>1. tasks'[w].pc = "delaying" /\ result'[w] # << >>
            <4>1. tasks'[w].pc = "delaying"
                BY <1>6 DEF Completes, Enters
            <4>2. PICK events : events = result'[w]
                OBVIOUS
            <4>3. Len(events) \in 1..2
                BY <1>0, <1>6, <4>2, AnnouncementsFit
            <4>. QED
                BY <4>1, <4>2, <4>3
        <3>. QED
            BY <2>1, <2>2, <3>1 DEF Awaits, ShowsScores, Scores, Delays, Pending
    <2>4. Added(announced.board)'
        BY <1>2, <2>2 DEF Added
    <2>. QED
        BY <2>1, <2>3, <2>4 DEF Scores
<1>7. ASSUME NEW w \in Workers, Announcing(w), ~Completes(w)
      PROVE  /\ \A x \in Workers : Scores(x)' => Awaits(x)'
             /\ (\A x \in Workers : ~Scores(x)') => \A u \in Users : score'[u] = announced'.earned[u]
             /\ Added(announced.board)'
    <2>1. score' = score /\ tasks'[w].pc # "delaying"
        BY <1>7, OnlyCompletionAdds
    <2>2. ~Scores(w) /\ ~Scores(w)'
        BY <1>7, <2>1 DEF Scores, Delays, Announcing
    <2>3. \A x \in Workers \ {w} : result'[x] = result[x] /\ (Scores(x) <=> Scores(x)')
        BY <1>0, <1>4, <1>7 DEF Announcing, Others
    <2>. QED
        BY <1>3, <1>7, <2>1, <2>2, <2>3 DEF Announcing
<1>8. ASSUME NEW w \in Workers, Hearing(w)
      PROVE  /\ \A x \in Workers : Scores(x)' => Awaits(x)'
             /\ (\A x \in Workers : ~Scores(x)') => \A u \in Users : score'[u] = announced'.earned[u]
             /\ Added(announced.board)'
    <2>1. /\ announced' = HearAll(announced, result[w]) /\ score' = score
          /\ result'[w] = << >>
          /\ \A x \in Workers \ {w} : result'[x] = result[x] /\ tasks'[x] = tasks[x]
        BY <1>0, <1>8 DEF Hearing, Emits, Tells, Others, tournamentVars
    <2>2. ~Scores(w)' /\ \A x \in Workers \ {w} : Scores(x) <=> Scores(x)'
        BY <1>4, <2>1 DEF Scores, Pending
    <2>3. CASE ~Pending(w)
        <3>1. announced' = announced
            BY <2>1, <2>3 DEF HearAll, Pending
        <3>. QED
            BY <1>3, <2>1, <2>2, <2>3, <3>1 DEF Scores
    <2>4. CASE Pending(w) /\ tasks[w].pc = "delaying"
        <3>1. PICK e \in RoundCompletedPayload :
                  result[w] = <<e>> /\ announced' = Hear(announced, e)
            BY <1>0, <2>1, <2>4, ShapeIsHeard DEF Shaped
        <3>2. /\ announced'.board = e.leaderboard
              /\ \A a \in Users : announced'.earned[a] = announced.earned[a] + e.rankings[a].likes
            BY <1>0, <3>1, HearKeeps DEF Payloads
        <3>3. ShowsScores(e.leaderboard) /\ \A u \in Users : score[u] = announced.earned[u] + e.rankings[u].likes
            BY <1>2, <2>4, <3>1 DEF Scores, Delays, Awaits
        <3>4. \A x \in Workers : ~Scores(x)'
            BY <1>0, <2>2, <2>4 DEF OneDelays, Delays, Scores
        <3>5. \A u \in Users : score'[u] = announced'.earned[u]
            BY <2>1, <3>2, <3>3
        <3>6. \A i \in 1..Len(e.leaderboard) : e.leaderboard[i].user \in Users
            <4>1. e.leaderboard \in Seq(LeaderboardEntry)
                BY DEF RoundCompletedPayload
            <4>2. \A i \in 1..Len(e.leaderboard) : e.leaderboard[i] \in LeaderboardEntry
                BY <4>1, ElementOfSeq
            <4>. QED
                BY <4>2 DEF LeaderboardEntry
        <3>7. Added(announced.board)'
            BY <2>1, <3>2, <3>3, <3>5, <3>6 DEF Added, ShowsScores
        <3>. QED
            BY <3>4, <3>5, <3>7
    <2>5. CASE Pending(w) /\ tasks[w].pc # "delaying"
        <3>1. /\ announced'.earned = announced.earned
              /\ \/ announced'.board = announced.board
                 \/ status = "COMPLETED" /\ ShowsScores(announced'.board)
            BY <1>0, <2>1, <2>5, ShapeIsHeard DEF Shaped
        <3>2. ~Scores(w)
            BY <2>5 DEF Scores, Delays
        <3>3. CASE announced'.board = announced.board
            BY <1>3, <2>1, <2>2, <3>1, <3>2, <3>3
        <3>4. CASE status = "COMPLETED" /\ ShowsScores(announced'.board)
            <4>1. \A x \in Workers : ~Scores(x)
                BY <1>0, <3>4 DEF OneDelays, Scores
            <4>2. \A u \in Users : score'[u] = announced'.earned[u]
                BY <1>2, <2>1, <3>1, <4>1
            <4>3. \A i \in 1..Len(announced'.board) : announced'.board[i].user \in Users
                <5>1. announced'.board \in Seq(LeaderboardEntry)
                    BY <1>0, ViewStep DEF Agrees, View
                <5>2. PICK board : board = announced'.board
                    OBVIOUS
                <5>3. \A i \in 1..Len(board) : board[i] \in LeaderboardEntry
                    BY <5>1, <5>2, ElementOfSeq
                <5>. QED
                    BY <5>2, <5>3 DEF LeaderboardEntry
            <4>4. Added(announced.board)'
                BY <2>1, <3>4, <4>2, <4>3 DEF Added, ShowsScores
            <4>. QED
                BY <2>2, <4>1, <4>2, <4>4
        <3>. QED
            BY <3>1, <3>3, <3>4
    <2>. QED
        BY <2>3, <2>4, <2>5
<1>9. ASSUME NEW u \in Users, Joining(u)
      PROVE  /\ \A x \in Workers : Scores(x)' => Awaits(x)'
             /\ (\A x \in Workers : ~Scores(x)') => \A v \in Users : score'[v] = announced'.earned[v]
             /\ Added(announced.board)'
    BY <1>3, <1>4, <1>9 DEF Joining, EventsJoin
<1>10. ASSUME NEW w \in Workers, Cancelling(w)
       PROVE  /\ \A x \in Workers : Scores(x)' => Awaits(x)'
              /\ (\A x \in Workers : ~Scores(x)') => \A v \in Users : score'[v] = announced'.earned[v]
              /\ Added(announced.board)'
    <2>1. announced' = announced /\ score' = score /\ tasks' = tasks /\ tasks[w].pc = "idle"
        BY <1>10 DEF Cancelling, EventsCancel, Cancel, Idle
    <2>2. ~Scores(w) /\ ~Scores(w)'
        BY <2>1 DEF Scores, Delays
    <2>3. \A x \in Workers \ {w} : result'[x] = result[x]
        BY <1>0, <1>10 DEF Cancelling, EventsCancel
    <2>. QED
        BY <1>3, <1>4, <2>1, <2>2, <2>3
<1>11. ASSUME NEW w \in Workers, Counting(w)
       PROVE  /\ \A x \in Workers : Scores(x)' => Awaits(x)'
              /\ (\A x \in Workers : ~Scores(x)') => \A v \in Users : score'[v] = announced'.earned[v]
              /\ Added(announced.board)'
    <2>1. announced'.earned = announced.earned /\ announced'.board = announced.board
        <3>1. /\ announced' = Hear(announced, Progress(tasks[w].round))
              /\ tasks[w].round \in Rounds
            BY <1>0, <1>11 DEF Counting, EventsCountSubmissions, Tells, Task
        <3>2. Progress(tasks[w].round) \in RoundProgressUpdatedPayload
            BY <3>1, ProgressType
        <3>3. \A e \in RoundProgressUpdatedPayload :
                  e \in Payloads /\ e \notin RoundCompletedPayload \cup TournamentFinishedPayload
            BY DEF RoundProgressUpdatedPayload, Payloads, RoundCompletedPayload,
                TournamentFinishedPayload
        <3>. QED
            BY <1>0, <3>1, <3>2, <3>3, HearKeeps
    <2>2. score' = score /\ result' = result
        BY <1>11 DEF Counting, EventsCountSubmissions, CountSubmissions, tournamentVars
    <2>3. \A x \in Workers : Pending(x) => tasks'[x] = tasks[x]
        BY <1>11 DEF Counting, Others
    <2>. QED
        BY <1>3, <1>4, <2>1, <2>2, <2>3
<1>12. ~Losing
    BY <1>1 DEF Losing
<1>. QED
    BY <1>0, <1>5, <1>6, <1>7, <1>8, <1>9, <1>10, <1>11, <1>12, EventMoves DEF Known

(* So does what it says of the points announced.                           *)
LEMMA StandingsInvariance == EventsSpec => [](Known /\ EventsInv /\ Shaped /\ StandingsAgree)
<1>1. EventsInit => Known /\ EventsInv /\ Shaped /\ StandingsAgree
    <2>. SUFFICES ASSUME EventsInit PROVE Shaped /\ StandingsAgree
        BY EventsInvInit
    <2>1. \A w \in Workers : ~Pending(w)
        BY DEF EventsInit, Pending
    <2>2. score = [u \in Users |-> 0]
        BY DEF EventsInit, Init
    <2>3. announced.earned = [a \in Users |-> 0] /\ announced.board = << >>
        BY DEF EventsInit, NoView
    <2>4. Len(announced.board) = 0
        BY <2>3
    <2>. QED
        BY <2>1, <2>2, <2>3, <2>4 DEF Shaped, StandingsAgree, Scores, Added
<1>2. Known /\ EventsInv /\ Shaped /\ StandingsAgree /\ [EventsNext]_allVars
          => (Known /\ EventsInv /\ Shaped /\ StandingsAgree)'
    BY KnownStep, EventsInvStep, ShapedStep, StandingsStep
<1>. QED
    BY <1>1, <1>2, PTL DEF EventsSpec

(* Who adds up the results of the rounds gets the leaderboard that comes   *)
(* with them, which is in order.                                           *)
THEOREM StandingsCorrect == EventsSpec => []StandingsAddUp
<1>1. Known /\ EventsInv /\ Shaped /\ StandingsAgree => StandingsAddUp
    <2>. SUFFICES ASSUME EventsInv, StandingsAgree PROVE StandingsAddUp
        OBVIOUS
    <2>1. announced.board \in Seq(LeaderboardEntry) /\ Sorted(announced.board)
        BY DEF EventsInv, Agrees, View
    <2>2. DOMAIN announced.board = 1..Len(announced.board)
        BY <2>1
    <2>. QED
        BY <2>1, <2>2 DEF StandingsAddUp, StandingsAgree, Added, Sorted
<1>. QED
    BY <1>1, StandingsInvariance, PTL

-----------------------------------------------------------------------------
(* The winner.                                                             *)

(* Whoever leads the standings shown, once they were those of the last     *)
(* round, leads the tournament, whatever counter came late since.          *)
LeadShown ==
    furthest.stage = "SCORED" /\ furthest.round = RoundsCount
        => FinalLead(announced.board[1].user)

(* After the last round is there, it is the one that handlers score.       *)
LEMMA LastIsScored ==
    ASSUME Known, Exists(RoundsCount), NEW w \in Workers, Delays(w)
    PROVE  tasks[w].round = RoundsCount
<1>1. /\ tasks[w].round \in 1..RoundsCount /\ RoundsCount \in Nat
      /\ IsNewest(tasks[w].round)
    BY SizesAssumption DEF Known, Inv, TypeOK, Task, Rounds, Alone, OneDelays
<1>2. /\ CurrentRound \in 0..RoundsCount
      /\ \A q \in Rounds : Exists(q) <=> q <= CurrentRound
    BY CurrentExists DEF Known
<1>3. RoundsCount <= CurrentRound
    <2>1. RoundsCount \in Rounds
        BY SizesAssumption DEF Rounds
    <2>. QED
        BY <1>2, <2>1
<1>. QED
    BY <1>1, <1>2, <1>3 DEF IsNewest, Rounds

(* The standings shown change when a round is completed, or at the end.    *)
LEMMA LeadStep ==
    ASSUME Known, EventsInv, Shaped, LeadShown, [EventsNext]_allVars
    PROVE  LeadShown'
<1>0. /\ TypeOK /\ ResultOK /\ behind \in BOOLEAN /\ OrderOK /\ AllFit /\ Agrees(announced)
      /\ announced \in View /\ tasks \in [Workers -> Task]
    BY DEF Known, Inv, TypeOK, EventsInv, Agrees
<1>1. SUFFICES ASSUME furthest'.stage = "SCORED", furthest'.round = RoundsCount
               PROVE  FinalLead(announced.board[1].user)'
    BY DEF LeadShown
<1>2. CASE furthest' = PointOf(announced')
    BY <1>1, <1>2, ViewStep DEF PointOf, Agrees
<1>3. CASE furthest' = furthest /\ furthest' # PointOf(announced')
    <2>1. FinalLead(announced.board[1].user)
        BY <1>1, <1>3 DEF LeadShown
    <2>2. PICK l : l = announced.board[1].user
        OBVIOUS
    <2>3. FinalLead(l)'
        BY <1>0, <2>1, <2>2, FinalLeadStays
    <2>4. CASE announced'.board = announced.board
        BY <2>2, <2>3, <2>4
    <2>5. ASSUME NEW w \in Workers, Hearing(w) PROVE FinalLead(announced.board[1].user)'
        <3>1. announced' = HearAll(announced, result[w]) /\ score' = score
            BY <2>5 DEF Hearing, Emits, Tells, tournamentVars
        <3>2. CASE ~Pending(w)
            BY <2>4, <3>1, <3>2 DEF HearAll, Pending
        <3>3. CASE Pending(w) /\ tasks[w].pc = "delaying"
            <4>1. PICK e \in RoundCompletedPayload :
                      result[w] = <<e>> /\ announced' = Hear(announced, e)
                BY <1>0, <3>1, <3>3, ShapeIsHeard DEF Shaped
            <4>2. e.round = tasks[w].round
                <5>1. ScoresRound(tasks[w], result[w])
                    BY <1>0, <3>3
                    DEF Shaped, Shape, BeginsRound, ClosesPhase, RevealsFirst, FinalizesLast,
                        RevealsNext, EndsTournament, CancelsTournament
                <5>. QED
                    BY <4>1, <5>1 DEF ScoresRound
            <4>3. Exists(RoundsCount)
                BY <1>1, <1>3, SizesAssumption DEF EventsInv, FurthestExists, Rounds
            <4>4. e.round = RoundsCount
                BY <3>3, <4>2, <4>3, LastIsScored DEF Delays
            <4>5. Fits(e)
                <5>1. 1 \in 1..Len(result[w]) /\ result[w][1] = e
                    BY <4>1
                <5>. QED
                    BY <1>0, <5>1 DEF AllFit
            <4>6. FinalLead(e.leaderboard[1].user)
                BY <4>1, <4>4, <4>5
                DEF Fits, TournamentFinishedPayload, TournamentStartedPayload,
                    TournamentCancelledPayload, RoundProgressUpdatedPayload, RoundCreatedPayload,
                    RoundPhaseChangedPayload, VotingSubmissionRevealedPayload,
                    VoteFinalizedPayload, RoundCompletedPayload
            <4>7. announced'.board = e.leaderboard
                BY <1>0, <4>1, HearKeeps DEF Payloads
            <4>8. PICK k : k = e.leaderboard[1].user
                OBVIOUS
            <4>9. FinalLead(k)'
                BY <1>0, <4>6, <4>8, FinalLeadStays
            <4>. QED
                BY <4>7, <4>8, <4>9
        <3>4. CASE Pending(w) /\ EndsTournament(tasks[w], result[w])
            <4>1. PICK e \in TournamentFinishedPayload : result[w] = <<e>>
                BY <3>4 DEF EndsTournament
            <4>2. announced' = [announced EXCEPT !.stage = "COMPLETED", !.board = e.leaderboard,
                                                 !.winner = e.winner]
                BY <3>1, <4>1
                DEF HearAll, Hear, TournamentFinishedPayload, emitTournamentFinished
            <4>3. announced'.stage = "COMPLETED"
                BY <1>0, <4>2 DEF View
            <4>. QED
                BY <1>3, <2>5, <4>3 DEF Hearing, Emits, Tells, Onward
        <3>5. CASE Pending(w) /\ tasks[w].pc # "delaying" /\ ~EndsTournament(tasks[w], result[w])
            BY <1>0, <2>4, <3>1, <3>5, ShapeIsHeard DEF Shaped
        <3>. QED
            BY <1>0, <3>2, <3>3, <3>4, <3>5 DEF EndsTournament
    <2>6. ASSUME NEW w \in Workers, Counting(w) PROVE FinalLead(announced.board[1].user)'
        <3>1. /\ announced' = Hear(announced, Progress(tasks[w].round))
              /\ tasks[w].round \in Rounds
            BY <1>0, <2>6 DEF Counting, EventsCountSubmissions, Tells, Task
        <3>2. Progress(tasks[w].round) \in RoundProgressUpdatedPayload
            BY <3>1, ProgressType
        <3>3. \A e \in RoundProgressUpdatedPayload :
                  e \in Payloads /\ e \notin RoundCompletedPayload \cup TournamentFinishedPayload
            BY DEF RoundProgressUpdatedPayload, Payloads, RoundCompletedPayload,
                TournamentFinishedPayload
        <3>4. announced'.board = announced.board
            BY <1>0, <3>1, <3>2, <3>3, HearKeeps
        <3>. QED
            BY <2>4, <3>4
    <2>. QED
        BY <1>0, <2>4, <2>5, <2>6, EventMoves
        DEF Known, Quiet, eventVars, Announcing, Losing, Joining, EventsJoin, Cancelling,
            EventsCancel
<1>. QED
    BY <1>2, <1>3, FurthestMoves

(* The winner is the one who led when the last round was completed,        *)
(* whoever joins between that and the end.                                 *)
THEOREM WinnerLed == EventsSpec => WinnerHadLed
<1>. DEFINE Led == furthest.stage = "SCORED" /\ furthest.round = RoundsCount
                       /\ announced.stage # "COMPLETED" /\ announced'.stage = "COMPLETED"
                   => announced'.winner = announced.board[1].user
<1>1. ASSUME Known, EventsInv, LeadShown, [EventsNext]_allVars PROVE Led
    <2>. SUFFICES ASSUME furthest.stage = "SCORED", furthest.round = RoundsCount,
                         announced.stage # "COMPLETED", announced'.stage = "COMPLETED"
                  PROVE  announced'.winner = announced.board[1].user
        OBVIOUS
    <2>0. /\ TypeOK /\ ResultOK /\ behind \in BOOLEAN /\ JoinOrder /\ AllFit /\ Agrees(announced)
          /\ score \in [Users -> Nat]
        <3>1. TypeOK
            BY <1>1 DEF Known, Inv
        <3>2. score \in [Users -> Nat]
            BY <3>1 DEF TypeOK
        <3>. QED
            BY <1>1, <3>1, <3>2 DEF EventsInv, OrderOK
    <2>1. ASSUME NEW view \in View, NEW e, Fits(e), Hear(view, e).stage = "COMPLETED"
          PROVE  FinalLead(Hear(view, e).winner)
        <3>1. CASE e \in TournamentFinishedPayload /\ FinalLead(e.winner)
            <4>1. Hear(view, e) = [view EXCEPT !.stage = "COMPLETED", !.board = e.leaderboard,
                                               !.winner = e.winner]
                BY <3>1 DEF TournamentFinishedPayload, Hear, emitTournamentFinished
            <4>. QED
                BY <3>1, <4>1 DEF View
        <3>2. CASE e \in TournamentStartedPayload \cup TournamentCancelledPayload
            BY <2>1, <3>2 DEF TournamentStartedPayload, TournamentCancelledPayload, Hear,
                emitTournamentStarted, emitTournamentCancelled, View
        <3>3. CASE /\ e \in RoundCreatedPayload \cup RoundProgressUpdatedPayload
                                \cup RoundPhaseChangedPayload
                                \cup VotingSubmissionRevealedPayload \cup VoteFinalizedPayload
                                \cup RoundCompletedPayload
            <4>. DEFINE there == InRound(view, e.round)
            <4>1. DOMAIN there = DOMAIN view
                BY DEF InRound
            <4>2. "stage" \in DOMAIN there
                BY <4>1 DEF View
            <4>. HIDE DEF there
            <4>. QED
                BY <2>1, <3>3, <4>2
                DEF RoundCreatedPayload, RoundProgressUpdatedPayload, RoundPhaseChangedPayload,
                    VotingSubmissionRevealedPayload, VoteFinalizedPayload,
                    RoundCompletedPayload, Hear, emitRoundCreated, emitRoundProgressUpdated,
                    emitRoundPhaseChanged, emitVotingSubmissionRevealed, emitVoteFinalized,
                    emitRoundCompleted
        <3>. QED
            BY <2>1, <3>1, <3>2, <3>3 DEF Fits
    <2>2. PICK w \in Workers : announced' = HearAll(announced, result[w])
        <3>1. announced' # announced
            OBVIOUS
        <3>3. ASSUME NEW w \in Workers, Counting(w) PROVE FALSE
            <4>. DEFINE there == InRound(announced, tasks[w].round)
            <4>1. announced' = [there EXCEPT !.stage = "SUBMITTING",
                                             !.submitted = Progress(tasks[w].round).submitted]
                BY <3>3 DEF Counting, EventsCountSubmissions, Tells, Hear, Progress,
                    emitRoundProgressUpdated
            <4>2. "stage" \in DOMAIN there
                BY <2>0 DEF InRound, Agrees, View
            <4>. HIDE DEF there
            <4>. QED
                BY <4>1, <4>2
        <3>. QED
            BY <1>1, <2>0, <3>1, <3>3, EventMoves
            DEF Known, Quiet, eventVars, Announcing, Hearing, Emits, Tells, Losing, Joining,
                EventsJoin, Cancelling, EventsCancel
    <2>3. Len(result[w]) \in 0..2 /\ \A i \in 1..Len(result[w]) : Fits(result[w][i])
        BY <2>0 DEF ResultOK, AllFit
    <2>4. FinalLead(announced'.winner)
        <3>1. CASE Len(result[w]) = 0
            BY <2>2, <3>1 DEF HearAll
        <3>2. CASE Len(result[w]) = 1
            BY <2>0, <2>1, <2>2, <2>3, <3>2 DEF HearAll, Agrees
        <3>3. CASE Len(result[w]) = 2
            <4>1. Fits(result[w][1]) /\ Fits(result[w][2])
                BY <2>3, <3>3
            <4>2. Hear(announced, result[w][1]) \in View
                BY <1>1, <2>0, <4>1, HearAgrees DEF Agrees
            <4>3. announced' = Hear(Hear(announced, result[w][1]), result[w][2])
                BY <2>2, <3>3 DEF HearAll
            <4>. QED
                BY <2>1, <4>1, <4>2, <4>3
        <3>. QED
            BY <2>3, <3>1, <3>2, <3>3
    <2>5. FinalLead(announced.board[1].user)
        BY <1>1 DEF LeadShown
    <2>. QED
        BY <2>0, <2>4, <2>5, OneLeads DEF FinalLead
<1>2. EventsInit => Shaped /\ LeadShown
    BY DEF EventsInit, Pending, Shaped, LeadShown, PointOf, NoView
<1>3. Known /\ EventsInv /\ Shaped /\ LeadShown /\ [EventsNext]_allVars
          => (Shaped /\ LeadShown)'
    BY ShapedStep, LeadStep
<1>. QED
    BY <1>1, <1>2, <1>3, EventsInvariance, PTL DEF EventsSpec, WinnerHadLed

-----------------------------------------------------------------------------
(* Where the tournament is, while somebody still has to tell.              *)

Truth(view) ==
    /\ view.stage = StageShown
    /\ Stage # "COMPLETED" => view.round = CurrentRound
    /\ Stage = "REVEALING" => view.step = Step /\ view.total = Total
    /\ Stage = "COMPLETED" => view.winner = winner /\ view.board = Leaderboard(score)

(* With replies in order, one handler at a time has something to emit, and *)
(* the round is still where its commit left it.                            *)
Prompt ==
    /\ HandlersAgree
    /\ \A w, x \in Workers : Pending(w) /\ Pending(x) => w = x
    /\ \A w \in Workers : Pending(w) /\ tasks[w].pc = "arming" =>
          rounds[tasks[w].round].phase = "SUBMISSION"

(* A round that is not completed, or has none after it, is the current one *)
(* of an active tournament.                                                *)
LEMMA IsCurrent ==
    ASSUME Known, NEW r \in Rounds, Exists(r), IsNewest(r) \/ ~rounds[r].completed
    PROVE  r = CurrentRound /\ (~rounds[r].completed => status = "ACTIVE")
<1>1. /\ CurrentRound \in 0..RoundsCount /\ RoundsCount \in Nat /\ r \in 1..RoundsCount
      /\ \A q \in Rounds : Exists(q) <=> q <= CurrentRound
    BY CurrentExists, SizesAssumption DEF Known, Rounds
<1>2. ~(r < CurrentRound)
    <2>1. CASE IsNewest(r)
        BY <1>1, <2>1 DEF IsNewest, Rounds
    <2>2. CASE ~rounds[r].completed
        <3>1. CurrentRound \in Rounds => Exists(CurrentRound)
            BY <1>1
        <3>. QED
            BY <1>1, <2>2, <3>1 DEF Known, SequenceInv, Rounds
    <2>. QED
        BY <2>1, <2>2
<1>3. ~rounds[r].completed => status = "ACTIVE"
    BY ExistsActive DEF Known
<1>. QED
    BY <1>1, <1>2, <1>3

(* The stage of an active tournament, by the columns of its current round. *)
LEMMA StageIs ==
    ASSUME Known, status = "ACTIVE", NEW r \in Rounds, r = CurrentRound
    PROVE  /\ Exists(r) /\ Step = rounds[r].step /\ Total = Len(submissions[r])
           /\ rounds[r].phase = "SUBMISSION" => Stage = "SUBMITTING"
           /\ rounds[r].phase = "VOTING" /\ rounds[r].stepStatus = "IDLE" => Stage = "CLOSED"
           /\ VotingOpen(r) => Stage = "REVEALING"
           /\ VotingFinished(r) => Stage = "VOTED"
           /\ rounds[r].completed => Stage = "SCORED"
<1>1. /\ rounds[r] \in RoundRow /\ RowAgrees(rounds[r], submissions[r]) /\ r # 0
    <2>1. rounds \in [Rounds -> RoundRow] /\ VotingCursor
        BY DEF Known, Inv, TypeOK
    <2>2. r # 0
        BY DEF Rounds
    <2>. QED
        BY <2>1, <2>2 DEF VotingCursor
<1>2. Exists(r)
    BY CurrentExists DEF Known, Rounds
<1>3. Stage = RoundStage(rounds[r])
    BY DEF Stage
<1>4. rounds[r].completed => rounds[r].stepStatus = "FINISHED"
    BY <1>1 DEF RowAgrees
<1>5. Step = rounds[r].step /\ Total = Len(submissions[r])
    BY <1>1 DEF Step, Total
<1>6. /\ rounds[r].phase = "SUBMISSION" => Stage = "SUBMITTING"
      /\ rounds[r].phase = "VOTING" /\ rounds[r].stepStatus = "IDLE" => Stage = "CLOSED"
    BY <1>1, <1>3, Stages DEF RowAgrees
<1>7. VotingOpen(r) => Stage = "REVEALING"
    BY <1>1, <1>3, Stages DEF RowAgrees, VotingOpen
<1>8. VotingFinished(r) => Stage = "VOTED"
    BY <1>1, <1>3, Stages DEF RowAgrees, VotingFinished
<1>9. ASSUME rounds[r].completed PROVE Stage = "SCORED"
    <2>1. rounds[r].phase # "NONE" /\ rounds[r].stepStatus = "FINISHED"
        BY <1>2, <1>4, <1>9 DEF Exists
    <2>2. RoundStage(rounds[r]) = IF rounds[r].completed THEN "SCORED" ELSE "VOTED"
        BY <1>1, <2>1, Stages
    <2>. QED
        BY <1>3, <1>9, <2>2
<1>. QED
    BY <1>2, <1>5, <1>6, <1>7, <1>8, <1>9

(* What an event shows to those who hear it.                               *)
LEMMA HearShows ==
    ASSUME NEW view \in View, NEW e
    PROVE  /\ e \in TournamentStartedPayload => Hear(view, e) \in View
           /\ e \in TournamentCancelledPayload =>
                Hear(view, e).stage = "CANCELLED" /\ Hear(view, e).round = view.round
           /\ e \in RoundProgressUpdatedPayload =>
                /\ Hear(view, e).stage = "SUBMITTING" /\ Hear(view, e).round = e.round
                /\ Hear(view, e).submitted = e.submitted
           /\ e \in RoundCreatedPayload =>
                /\ Hear(view, e).stage = "SUBMITTING" /\ Hear(view, e).round = e.round
                /\ Hear(view, e).submitted = 0
           /\ e \in RoundPhaseChangedPayload =>
                Hear(view, e).stage = "CLOSED" /\ Hear(view, e).round = e.round
           /\ e \in VotingSubmissionRevealedPayload =>
                /\ Hear(view, e).stage = "REVEALING" /\ Hear(view, e).round = e.round
                /\ Hear(view, e).step = e.revealIndex + 1 /\ Hear(view, e).total = e.total
           /\ e \in VoteFinalizedPayload =>
                /\ Hear(view, e).stage = "FINALIZED" /\ Hear(view, e).round = e.round
                /\ Hear(view, e) \in View
           /\ e \in RoundCompletedPayload =>
                Hear(view, e).stage = "SCORED" /\ Hear(view, e).round = e.round
           /\ e \in TournamentFinishedPayload =>
                /\ Hear(view, e).stage = "COMPLETED" /\ Hear(view, e).winner = e.winner
                /\ Hear(view, e).board = e.leaderboard
<1>. DEFINE there == InRound(view, e.round)
<1>1. ASSUME e.round \in Rounds PROVE there \in View /\ there.round = e.round
    <2>0. PICK r \in Rounds : r = e.round
        BY <1>1
    <2>1. CASE view.round = r
        BY <2>0, <2>1 DEF InRound
    <2>2. CASE view.round # r
        <3>1. NoView.tallies = [a \in Users |-> None]
            BY DEF NoView
        <3>. DEFINE n == [view EXCEPT !.round = r, !.submitted = 0, !.step = 0, !.total = 0,
                                      !.tallies = NoView.tallies]
        <3>2. n \in View /\ n.round = r
            BY <3>1 DEF View
        <3>. QED
            BY <2>0, <2>2, <3>2 DEF InRound
    <2>. QED
        BY <2>1, <2>2
<1>. HIDE DEF there
<1>2. ASSUME e \in TournamentStartedPayload PROVE Hear(view, e) \in View
    BY <1>2 DEF TournamentStartedPayload, Hear, emitTournamentStarted, View
<1>3. ASSUME e \in RoundCreatedPayload
      PROVE  /\ Hear(view, e).stage = "SUBMITTING" /\ Hear(view, e).round = e.round
             /\ Hear(view, e).submitted = 0
    <2>1. Hear(view, e) = [there EXCEPT !.stage = "SUBMITTING", !.submitted = 0] /\ e.round \in Rounds
        BY <1>3 DEF RoundCreatedPayload, Hear, emitRoundCreated, there
    <2>. QED
        BY <1>1, <2>1 DEF View
<1>4. ASSUME e \in RoundPhaseChangedPayload
      PROVE  Hear(view, e).stage = "CLOSED" /\ Hear(view, e).round = e.round
    <2>1. Hear(view, e) = [there EXCEPT !.stage = "CLOSED", !.submitted = 0] /\ e.round \in Rounds
        BY <1>4 DEF RoundPhaseChangedPayload, Hear, emitRoundPhaseChanged, there
    <2>. QED
        BY <1>1, <2>1 DEF View
<1>5. ASSUME e \in VotingSubmissionRevealedPayload
      PROVE  /\ Hear(view, e).stage = "REVEALING" /\ Hear(view, e).round = e.round
             /\ Hear(view, e).step = e.revealIndex + 1 /\ Hear(view, e).total = e.total
    <2>1. /\ Hear(view, e) = [there EXCEPT !.stage = "REVEALING", !.step = e.revealIndex + 1,
                                           !.total = e.total]
          /\ e.round \in Rounds
        BY <1>5 DEF VotingSubmissionRevealedPayload, Hear, emitVotingSubmissionRevealed, there
    <2>. QED
        BY <1>1, <2>1 DEF View
<1>6. ASSUME e \in VoteFinalizedPayload
      PROVE  /\ Hear(view, e).stage = "FINALIZED" /\ Hear(view, e).round = e.round
             /\ Hear(view, e) \in View
    <2>1. /\ Hear(view, e) = [there EXCEPT !.stage = "FINALIZED", !.tallies[e.author] = e.tally]
          /\ e.round \in Rounds /\ e.author \in Users /\ e.tally \in Tally
        BY <1>6 DEF VoteFinalizedPayload, Hear, emitVoteFinalized, there
    <2>2. /\ Hear(view, e) = [there EXCEPT !.stage = "FINALIZED",
                                           !.tallies = [there.tallies EXCEPT ![e.author] = e.tally]]
          /\ [there.tallies EXCEPT ![e.author] = e.tally] \in [Users -> Tally \cup {None}]
        BY <1>1, <2>1 DEF View
    <2>. QED
        BY <1>1, <2>1, <2>2 DEF View
<1>7. ASSUME e \in RoundCompletedPayload
      PROVE  Hear(view, e).stage = "SCORED" /\ Hear(view, e).round = e.round
    <2>1. /\ Hear(view, e) = [there EXCEPT !.stage = "SCORED", !.board = e.leaderboard,
                                  !.earned = [a \in Users |-> @[a] + e.rankings[a].likes]]
          /\ e.round \in Rounds
        BY <1>7 DEF RoundCompletedPayload, Hear, emitRoundCompleted, there
    <2>. QED
        BY <1>1, <2>1 DEF View
<1>8. ASSUME e \in TournamentFinishedPayload
      PROVE  /\ Hear(view, e).stage = "COMPLETED" /\ Hear(view, e).winner = e.winner
             /\ Hear(view, e).board = e.leaderboard
    BY <1>8 DEF TournamentFinishedPayload, Hear, emitTournamentFinished, View
<1>9. ASSUME e \in RoundProgressUpdatedPayload
      PROVE  /\ Hear(view, e).stage = "SUBMITTING" /\ Hear(view, e).round = e.round
             /\ Hear(view, e).submitted = e.submitted
    <2>1. /\ Hear(view, e) = [there EXCEPT !.stage = "SUBMITTING", !.submitted = e.submitted]
          /\ e.round \in Rounds
        BY <1>9 DEF RoundProgressUpdatedPayload, Hear, emitRoundProgressUpdated, there
    <2>. QED
        BY <1>1, <2>1 DEF View
<1>10. ASSUME e \in TournamentCancelledPayload
       PROVE  Hear(view, e).stage = "CANCELLED" /\ Hear(view, e).round = view.round
    BY <1>10 DEF TournamentCancelledPayload, Hear, emitTournamentCancelled, View
<1>. QED
    BY <1>2, <1>3, <1>4, <1>5, <1>6, <1>7, <1>8, <1>9, <1>10

(* While a handler has something to emit, its round is where it left it.   *)
LEMMA PendingRow ==
    ASSUME Known, EventsInv, Shaped, Prompt, NEW w \in Workers, Pending(w),
           NEW t, t = tasks[w], NEW r, r = t.round
    PROVE  /\ Shape(t, result[w])
           /\ t.pc = "idle" => status \in {"COMPLETED", "CANCELLED"}
           /\ t.pc # "idle" =>
                /\ r \in Rounds /\ Exists(r) /\ r = CurrentRound /\ status = "ACTIVE"
                /\ t.pc \in {"arming", "closed", "opened", "finalized", "delaying"}
           /\ t.pc = "arming" => rounds[r].phase = "SUBMISSION"
           /\ t.pc = "closed" => CanOpen(r)
           /\ t.pc = "opened" => VotingOpen(r) /\ rounds[r].step = t.step /\ t.step = 1
           /\ t.pc = "finalized" /\ t.step # 0 => VotingOpen(r) /\ rounds[r].step = t.step
           /\ t.pc = "finalized" /\ t.step = 0 => VotingFinished(r)
           /\ t.pc = "delaying" => rounds[r].completed
<1>1. /\ t \in Task /\ r \in Rounds /\ Shape(t, result[w])
      /\ rounds[r] \in RoundRow /\ RowAgrees(rounds[r], submissions[r])
    BY DEF Known, Inv, TypeOK, VotingCursor, Task, Shaped
<1>2. t.pc \in {"arming", "closed", "opened", "finalized", "delaying", "idle"}
    BY <1>1 DEF Shape, BeginsRound, ClosesPhase, RevealsFirst, FinalizesLast, RevealsNext,
                ScoresRound, EndsTournament, CancelsTournament
<1>3. t.pc = "idle" => status \in {"COMPLETED", "CANCELLED"}
    BY <1>1 DEF Shape, BeginsRound, ClosesPhase, RevealsFirst, FinalizesLast, RevealsNext,
                ScoresRound, EndsTournament, CancelsTournament
<1>4. CASE t.pc = "arming"
    <2>1. rounds[r].phase = "SUBMISSION" /\ Exists(r) /\ ~rounds[r].completed
        BY <1>1, <1>4 DEF Prompt, Exists, RowAgrees
    <2>. QED
        BY <1>1, <1>4, <2>1, IsCurrent
<1>5. CASE t.pc = "closed"
    <2>1. CanOpen(r) /\ Exists(r) /\ ~rounds[r].completed
        BY <1>1, <1>5 DEF Known, Alone, OneOpener, Opener, CanOpen, Exists, RowAgrees
    <2>. QED
        BY <1>1, <1>5, <2>1, IsCurrent
<1>6. CASE t.pc = "opened" \/ (t.pc = "finalized" /\ t.step # 0)
    <2>1. rounds[r].stepStatus # "IDLE" /\ t.step = rounds[r].step
        BY <1>6 DEF Prompt, HandlersAgree, HandlerAgrees
    <2>2. t.pc = "opened" => t.step = 1
        BY <1>1 DEF Shape, BeginsRound, ClosesPhase, RevealsFirst, FinalizesLast, RevealsNext,
                    ScoresRound, EndsTournament, CancelsTournament
    <2>3. rounds[r].stepStatus = "OPEN"
        BY <1>1, <1>6, <2>1, <2>2 DEF RowAgrees
    <2>4. rounds[r].phase = "VOTING" /\ Exists(r) /\ ~rounds[r].completed
        BY <1>1, <2>3 DEF RowAgrees, RoundRow, Phases, Exists, NoRound
    <2>. QED
        BY <1>1, <1>6, <2>1, <2>2, <2>3, <2>4, IsCurrent DEF VotingOpen
<1>7. CASE t.pc = "finalized" /\ t.step = 0
    <2>1. Unfinished(r)
        BY <1>1, <1>7 DEF Known, Alone, OneFinisher, Finisher
    <2>2. rounds[r].phase = "VOTING" /\ Exists(r) /\ ~rounds[r].completed
        BY <1>1, <2>1 DEF RowAgrees, RoundRow, Phases, Exists, NoRound, Unfinished
    <2>. QED
        BY <1>1, <1>7, <2>1, <2>2, IsCurrent DEF VotingFinished, Unfinished
<1>8. CASE t.pc = "delaying"
    <2>1. rounds[r].completed /\ IsNewest(r) /\ status = "ACTIVE" /\ Exists(r)
        BY <1>1, <1>8, CompletedExists DEF Known, Alone, OneDelays, Delays
    <2>. QED
        BY <1>1, <1>8, <2>1, IsCurrent
<1>. QED
    BY <1>1, <1>2, <1>3, <1>4, <1>5, <1>6, <1>7, <1>8

(* A cancelled tournament has no round.                                    *)
LEMMA NoneCancelled ==
    ASSUME Known, status = "CANCELLED"
    PROVE  CurrentRound = 0 /\ \A q \in Rounds : ~Exists(q)
<1>1. \A q \in Rounds : ~Exists(q)
    BY ExistsActive DEF Known
<1>2. /\ CurrentRound \in 0..RoundsCount /\ RoundsCount \in Nat
      /\ \A q \in Rounds : Exists(q) <=> q <= CurrentRound
    BY CurrentExists, SizesAssumption DEF Known
<1>3. CurrentRound \notin Rounds
    BY <1>1, <1>2 DEF Rounds
<1>. QED
    BY <1>1, <1>2, <1>3 DEF Rounds

(* Who hears what a handler has to emit knows where the tournament is.     *)
LEMMA NewsIsTrue ==
    ASSUME Known, EventsInv, Shaped, Prompt, NEW w \in Workers, Pending(w),
           NEW view, Agrees(view),
           NEW heard, heard = HearAll(view, result[w])
    PROVE  /\ Truth(heard)
           /\ Stage = "SUBMITTING" => heard.submitted = 0
<1>1. PICK t : t = tasks[w]
    OBVIOUS
<1>2. PICK r : r = t.round
    OBVIOUS
<1>3. PICK events : events = result[w]
    OBVIOUS
<1>0. view \in View
    BY DEF Agrees
<1>4. /\ Shape(t, events) /\ r \in Rounds
      /\ \A i \in 1..Len(events) : Fits(events[i])
    BY <1>1, <1>2, <1>3 DEF Shaped, Known, Inv, TypeOK, Task, EventsInv, AllFit
<1>5. CASE BeginsRound(t, events)
    <2>1. \E v \in View : heard = Hear(v, RoundCreated(r))
        <3>1. CASE events = <<RoundCreated(r)>>
            BY <1>0, <1>3, <3>1 DEF HearAll
        <3>2. CASE events = <<TournamentStarted, RoundCreated(1)>> /\ r = 1
            <4>1. heard = Hear(Hear(view, TournamentStarted), RoundCreated(r))
                BY <1>3, <3>2 DEF HearAll
            <4>2. Hear(view, TournamentStarted) \in View
                BY <1>0, HearShows, SizesAssumption DEF TournamentStarted, TournamentStartedPayload
            <4>. QED
                BY <4>1, <4>2
        <3>. QED
            BY <1>2, <1>5, <3>1, <3>2 DEF BeginsRound
    <2>2. RoundCreated(r) \in RoundCreatedPayload /\ RoundCreated(r).round = r
        BY <1>4 DEF RoundCreated, RoundCreatedPayload
    <2>3. heard.stage = "SUBMITTING" /\ heard.round = r /\ heard.submitted = 0
        BY <2>1, <2>2, HearShows
    <2>4. rounds[r].phase = "SUBMISSION" /\ r = CurrentRound /\ status = "ACTIVE"
        BY <1>1, <1>2, <1>5, PendingRow DEF BeginsRound
    <2>5. Stage = "SUBMITTING"
        BY <1>4, <2>4, StageIs
    <2>. QED
        BY <2>3, <2>4, <2>5 DEF Truth, StageShown
<1>6. CASE ClosesPhase(t, events)
    <2>1. heard = Hear(view, PhaseChanged(r)) /\ PhaseChanged(r) \in RoundPhaseChangedPayload
          /\ PhaseChanged(r).round = r
        BY <1>2, <1>3, <1>4, <1>6 DEF ClosesPhase, HearAll, PhaseChanged, RoundPhaseChangedPayload
    <2>2. heard.stage = "CLOSED" /\ heard.round = r
        BY <1>0, <2>1, HearShows
    <2>3. CanOpen(r) /\ r = CurrentRound /\ status = "ACTIVE"
        BY <1>1, <1>2, <1>6, PendingRow DEF ClosesPhase
    <2>4. Stage = "CLOSED"
        BY <1>4, <2>3, StageIs DEF CanOpen
    <2>. QED
        BY <2>2, <2>3, <2>4 DEF Truth, StageShown
<1>7. ASSUME NEW v \in View, NEW e \in VotingSubmissionRevealedPayload, heard = Hear(v, e),
             NEW k, Reveals(e, r, k), VotingOpen(r), rounds[r].step = k, r = CurrentRound,
             status = "ACTIVE"
      PROVE  Truth(heard) /\ Stage # "SUBMITTING"
    <2>1. heard.stage = "REVEALING" /\ heard.round = r
          /\ heard.step = e.revealIndex + 1 /\ heard.total = e.total
        BY <1>7, HearShows DEF Reveals
    <2>2. heard.step = k /\ heard.total = Len(submissions[r])
        BY <1>7, <2>1 DEF Reveals
    <2>3. Stage = "REVEALING" /\ Step = k /\ Total = Len(submissions[r])
        BY <1>4, <1>7, StageIs
    <2>. QED
        BY <1>7, <2>1, <2>2, <2>3 DEF Truth, StageShown
<1>8. CASE RevealsFirst(t, events)
    <2>1. PICK e \in VotingSubmissionRevealedPayload : events = <<e>> /\ Reveals(e, r, 1)
        BY <1>2, <1>8 DEF RevealsFirst
    <2>2. heard = Hear(view, e)
        BY <1>3, <2>1 DEF HearAll
    <2>3. VotingOpen(r) /\ rounds[r].step = 1 /\ r = CurrentRound /\ status = "ACTIVE"
        BY <1>1, <1>2, <1>8, PendingRow DEF RevealsFirst
    <2>. QED
        BY <1>0, <1>7, <2>1, <2>2, <2>3
<1>9. CASE RevealsNext(t, events)
    <2>1. PICK d \in VoteFinalizedPayload, e \in VotingSubmissionRevealedPayload :
              events = <<d, e>> /\ Reveals(e, r, t.step)
        BY <1>2, <1>9 DEF RevealsNext
    <2>2. heard = Hear(Hear(view, d), e) /\ Hear(view, d) \in View
        BY <1>0, <1>3, <2>1, HearShows DEF HearAll
    <2>3. VotingOpen(r) /\ rounds[r].step = t.step /\ r = CurrentRound /\ status = "ACTIVE"
        BY <1>1, <1>2, <1>9, PendingRow DEF RevealsNext
    <2>. QED
        BY <1>7, <2>1, <2>2, <2>3
<1>10. CASE FinalizesLast(t, events)
    <2>1. PICK d \in VoteFinalizedPayload : events = <<d>> /\ d.round = r
        BY <1>2, <1>10 DEF FinalizesLast
    <2>2. heard.stage = "FINALIZED" /\ heard.round = r
        BY <1>0, <1>3, <2>1, HearShows DEF HearAll
    <2>3. VotingFinished(r) /\ r = CurrentRound /\ status = "ACTIVE"
        BY <1>1, <1>2, <1>10, PendingRow DEF FinalizesLast
    <2>4. Len(submissions[r]) > 0
        <3>1. 1 \in 1..Len(events) /\ events[1] = d
            BY <2>1
        <3>2. Fits(d)
            BY <1>4, <3>1
        <3>3. Settled(d.round, d.author, d.tally)
            BY <2>1, <3>2
            DEF Fits, VoteFinalizedPayload, TournamentStartedPayload, TournamentCancelledPayload,
                RoundProgressUpdatedPayload, RoundCreatedPayload,
                RoundPhaseChangedPayload, VotingSubmissionRevealedPayload, RoundCompletedPayload,
                TournamentFinishedPayload
        <3>4. Len(submissions[r]) \in Nat
            BY <1>4 DEF Known, Inv, TypeOK
        <3>. QED
            BY <2>1, <3>3, <3>4 DEF Settled
    <2>5. Stage = "VOTED" /\ Total > 0
        BY <1>4, <2>3, <2>4, StageIs
    <2>. QED
        BY <2>2, <2>3, <2>5 DEF Truth, StageShown
<1>11. CASE ScoresRound(t, events)
    <2>1. PICK e \in RoundCompletedPayload : events = <<e>> /\ e.round = r
        BY <1>2, <1>11 DEF ScoresRound
    <2>2. heard.stage = "SCORED" /\ heard.round = r
        BY <1>0, <1>3, <2>1, HearShows DEF HearAll
    <2>3. rounds[r].completed /\ r = CurrentRound /\ status = "ACTIVE"
        BY <1>1, <1>2, <1>11, PendingRow DEF ScoresRound
    <2>4. Stage = "SCORED"
        BY <1>4, <2>3, StageIs
    <2>. QED
        BY <2>2, <2>3, <2>4 DEF Truth, StageShown
<1>12. CASE EndsTournament(t, events)
    <2>1. PICK e \in TournamentFinishedPayload :
              events = <<e>> /\ e.winner = winner /\ e.leaderboard = Leaderboard(score)
        BY <1>12 DEF EndsTournament
    <2>2. heard.stage = "COMPLETED" /\ heard.winner = winner /\ heard.board = Leaderboard(score)
        BY <1>0, <1>3, <2>1, HearShows DEF HearAll
    <2>3. Stage = "COMPLETED"
        BY <1>12 DEF EndsTournament, Stage
    <2>. QED
        BY <2>2, <2>3 DEF Truth, StageShown
<1>13. CASE CancelsTournament(t, events)
    <2>1. /\ heard = Hear(view, TournamentCancelled) /\ status = "CANCELLED"
          /\ TournamentCancelled \in TournamentCancelledPayload
        BY <1>3, <1>13 DEF CancelsTournament, HearAll, TournamentCancelled,
            TournamentCancelledPayload
    <2>2. heard.stage = "CANCELLED" /\ heard.round = view.round
        BY <1>0, <2>1, HearShows
    <2>3. view.round = 0 /\ CurrentRound = 0
        BY <1>0, <2>1, NoneCancelled DEF Agrees, View
    <2>4. Stage = "CANCELLED"
        BY <2>1 DEF Stage
    <2>. QED
        BY <2>2, <2>3, <2>4 DEF Truth, StageShown
<1>. QED
    BY <1>4, <1>5, <1>6, <1>8, <1>9, <1>10, <1>11, <1>12, <1>13 DEF Shape

(* With replies in order nobody commits what is to be announced while      *)
(* another still has to announce.                                          *)
LEMMA OneAtATime ==
    ASSUME Known, EventsInv, Shaped, Prompt, RepliesInOrder, NEW w \in Workers, Announcing(w),
           NEW x \in Workers, Pending(x)
    PROVE  FALSE
<1>1. PICK r : r = tasks[w].round
    OBVIOUS
<1>2. PICK t : t = tasks[x]
    OBVIOUS
<1>3. PICK q : q = t.round
    OBVIOUS
<1>4. /\ t \in Task /\ q \in Rounds /\ r \in Rounds /\ x # w /\ Announces(w)
      /\ rounds[q] \in RoundRow /\ RowAgrees(rounds[q], submissions[q])
    BY <1>1, <1>2, <1>3 DEF Known, Inv, TypeOK, VotingCursor, Task, Announcing
<1>5. /\ t.pc = "idle" => status \in {"COMPLETED", "CANCELLED"}
      /\ t.pc # "idle" =>
           /\ Exists(q) /\ q = CurrentRound /\ status = "ACTIVE"
           /\ t.pc \in {"arming", "closed", "opened", "finalized", "delaying"}
      /\ t.pc = "arming" => rounds[q].phase = "SUBMISSION"
      /\ t.pc = "closed" => CanOpen(q)
      /\ t.pc = "opened" => VotingOpen(q)
      /\ t.pc = "finalized" /\ t.step # 0 => VotingOpen(q)
      /\ t.pc = "finalized" /\ t.step = 0 => VotingFinished(q)
      /\ t.pc = "delaying" => rounds[q].completed
    BY <1>2, <1>3, PendingRow
<1>6. CASE status = "COMPLETED"
    <2>1. rounds[r].completed /\ rounds[r].stepStatus = "FINISHED" /\ rounds[r].phase # "SUBMISSION"
        BY <1>4, <1>6 DEF Known, SequenceInv, Inv, VotingCursor, RowAgrees
    <2>. QED
        BY <1>1, <1>4, <1>6, <2>1
        DEF Announces, Start, Closes, Opens, CanOpen, Finalizes, VotingOpen, Completes,
            FollowsUp
<1>16. CASE status = "CANCELLED"
    BY <1>1, <1>4, <1>16, NoneCancelled
    DEF Announces, Start, Closes, Opens, CanOpen, Finalizes, VotingOpen, Completes, FollowsUp,
        Exists
<1>. SUFFICES ASSUME status \notin {"COMPLETED", "CANCELLED"} PROVE FALSE
    BY <1>6, <1>16
<1>7. /\ Exists(q) /\ q = CurrentRound /\ status = "ACTIVE"
      /\ t.pc \in {"arming", "closed", "opened", "finalized", "delaying"}
    BY <1>5
<1>8. ASSUME Exists(r), ~rounds[r].completed \/ IsNewest(r) PROVE r = q
    BY <1>4, <1>7, <1>8, IsCurrent
<1>9. rounds[r] \in RoundRow /\ RowAgrees(rounds[r], submissions[r])
    BY <1>4 DEF Known, Inv, TypeOK, VotingCursor
<1>10. ~Start(w)
    BY <1>7 DEF Start
<1>11. ASSUME Closes(w), RepliesArrived(r) PROVE FALSE
    <2>1. rounds[r].phase = "SUBMISSION" /\ Exists(r) /\ ~rounds[r].completed
        BY <1>1, <1>9, <1>11 DEF Closes, Exists, RowAgrees
    <2>. QED
        BY <1>2, <1>3, <1>8, <1>11, <2>1 DEF RepliesArrived
<1>12. ASSUME Opens(w) PROVE FALSE
    <2>1. CanOpen(r) /\ Exists(r) /\ ~rounds[r].completed /\ Opener(w, r)
        BY <1>1, <1>9, <1>12 DEF Opens, OpenVoting, CanOpen, Exists, RowAgrees, Opener
    <2>2. r = q
        BY <1>8, <2>1
    <2>3. t.pc # "closed"
        BY <1>2, <1>3, <1>4, <2>1, <2>2 DEF Known, Alone, OneOpener, Opener
    <2>. QED
        BY <1>5, <1>7, <1>9, <2>1, <2>2, <2>3 DEF CanOpen, VotingOpen, VotingFinished, RowAgrees
<1>13. ASSUME Finalizes(w) PROVE FALSE
    <2>1. VotingOpen(r) /\ Exists(r) /\ ~rounds[r].completed /\ ~ReplyPending(r)
        BY <1>1, <1>9, <1>13 DEF Finalizes, Finalize, VotingOpen, Exists, RowAgrees
    <2>2. r = q
        BY <1>8, <2>1
    <2>3. t.pc \notin {"opened", "finalized"}
        BY <1>2, <1>3, <2>1, <2>2 DEF ReplyPending
    <2>. QED
        BY <1>5, <1>7, <1>9, <2>1, <2>2, <2>3 DEF CanOpen, VotingOpen, RowAgrees
<1>14. ASSUME Completes(w) PROVE FALSE
    <2>1. VotingFinished(r) /\ Exists(r) /\ ~rounds[r].completed /\ Finisher(w, r)
        BY <1>1, <1>9, <1>14
        DEF Completes, CompleteRound, VotingFinished, Exists, RowAgrees, Finisher
    <2>2. r = q
        BY <1>8, <2>1
    <2>3. ~Finisher(x, q)
        BY <1>4, <2>1, <2>2 DEF Known, Alone, OneFinisher
    <2>4. ~(t.pc = "finalized" /\ t.step = 0)
        BY <1>2, <1>3, <2>3 DEF Finisher
    <2>. QED
        BY <1>5, <1>7, <1>9, <2>1, <2>2, <2>4 DEF CanOpen, VotingOpen, VotingFinished, RowAgrees
<1>15. ASSUME FinishTournament(w) \/ CreateNextRound(w) PROVE FALSE
    <2>1. Delays(w)
        BY <1>15 DEF FinishTournament, CreateNextRound, Delays
    <2>2. rounds[r].completed /\ IsNewest(r) /\ Exists(r) /\ ~Delays(x)
        BY <1>1, <1>4, <2>1, CompletedExists DEF Known, Alone, OneDelays
    <2>3. r = q /\ t.pc # "delaying"
        BY <1>2, <1>8, <2>2 DEF Delays
    <2>4. rounds[q].stepStatus = "FINISHED" /\ rounds[q].completed /\ rounds[q].phase # "SUBMISSION"
        BY <1>9, <2>2, <2>3 DEF RowAgrees
    <2>. QED
        BY <1>5, <1>7, <2>3, <2>4 DEF CanOpen, VotingOpen, VotingFinished
<1>. QED
    BY <1>1, <1>4, <1>10, <1>11, <1>12, <1>13, <1>14, <1>15 DEF Announces

(* With replies in order the handlers stay in step with the rows.          *)
LEMMA PromptStep ==
    ASSUME Known, EventsInv, Shaped, Prompt, RepliesInOrder, [EventsNext]_allVars
    PROVE  Prompt'
<1>0. /\ TypeOK /\ ResultOK /\ behind \in BOOLEAN /\ tasks \in [Workers -> Task]
      /\ result \in [Workers -> Seq(Payloads)] /\ rounds \in [Rounds -> RoundRow]
    BY DEF Known, Inv, EventsInv, TypeOK, ResultOK
<1>1. HandlersAgree'
    BY EventsAreSteps, HandlersStep DEF Known, Prompt
<1>2. ASSUME NEW x \in Workers, NEW y \in Workers, Pending(x)', Pending(y)'
      PROVE  x = y
    <2>1. ASSUME ~\E w \in Workers : Announcing(w) \/ Cancelling(w)
          PROVE  \A z \in Workers : Pending(z)' => Pending(z)
        BY <1>0, <2>1, EventMoves
        DEF Known, Quiet, eventVars, Hearing, Emits, Losing, Joining, EventsJoin, Counting,
            EventsCountSubmissions, Pending
    <2>2. ASSUME NEW w \in Workers, Announcing(w)
          PROVE  \A z \in Workers : Pending(z)' => z = w
        <3>1. \A z \in Workers : ~Pending(z)
            BY <2>2, OneAtATime
        <3>. QED
            BY <1>0, <2>2, <3>1 DEF Announcing, Pending
    <2>3. ASSUME NEW w \in Workers, Cancelling(w)
          PROVE  \A z \in Workers : Pending(z)' => z = w
        <3>1. status = "DRAFT" /\ result' = [result EXCEPT ![w] = <<TournamentCancelled>>]
            BY <2>3 DEF Cancelling, EventsCancel, Cancel
        <3>2. \A z \in Workers : ~Pending(z)
            BY <3>1, PendingRow
        <3>. QED
            BY <1>0, <3>1, <3>2 DEF Pending
    <2>. QED
        BY <1>2, <2>1, <2>2, <2>3 DEF Prompt
<1>3. ASSUME NEW x \in Workers, Pending(x)', tasks'[x].pc = "arming", NEW r \in Rounds, r = tasks'[x].round
      PROVE  rounds'[r].phase = "SUBMISSION"
    <2>1. ASSUME NEW w \in Workers, Announcing(w) PROVE rounds'[r].phase = "SUBMISSION"
        <3>1. x = w
            <4>1. ~Pending(x)
                BY <2>1, OneAtATime
            <4>. QED
                BY <1>0, <1>3, <2>1, <4>1 DEF Announcing, Pending
        <3>2. Creates(w) /\ Others(w)
            BY <1>3, <2>1, <3>1
            DEF Announcing, Announces, Creates, Closes, Opens, Finalizes, Completes, Enters
        <3>3. ~Exists(r)
            BY <1>3, <3>1, <3>2, NewRoundIsNew DEF Known, Alone
        <3>4. CASE Start(w) /\ Enters(w, "arming", 1)
            <4>1. r = 1 /\ \E p : rounds' = [rounds EXCEPT ![1] = NewRound(p)]
                BY <1>3, <3>1, <3>4 DEF Start, Enters
            <4>. QED
                BY <1>0, <4>1 DEF NewRound, NoRound
        <3>5. CASE CreateNextRound(w) /\ FollowsUp(tasks[w].round) /\ Enters(w, "arming", tasks[w].round + 1)
            <4>1. r = tasks[w].round + 1
                BY <1>3, <3>1, <3>5 DEF Enters
            <4>2. \E p : rounds' = [rounds EXCEPT ![r] = NewRound(p)]
                BY <3>3, <3>5, <4>1 DEF CreateNextRound
            <4>. QED
                BY <1>0, <4>2 DEF NewRound, NoRound
        <3>. QED
            BY <3>2, <3>4, <3>5 DEF Creates
    <2>2. ASSUME ~\E w \in Workers : Announcing(w), Pending(x), tasks'[x] = tasks[x],
                 rounds' = rounds \/ \E w \in Workers : OpensNothing(w)
          PROVE  rounds'[r].phase = "SUBMISSION"
        <3>1. rounds[r].phase = "SUBMISSION"
            BY <1>3, <2>2 DEF Prompt
        <3>2. ASSUME NEW w \in Workers, OpensNothing(w) PROVE rounds'[r].phase = "SUBMISSION"
            <4>1. tasks[w].round \in Rounds
                BY <1>0 DEF Task
            <4>. QED
                BY <1>0, <3>1, <3>2, <4>1 DEF OpensNothing, OpenVoting, CanOpen, RoundRow
        <3>. QED
            BY <2>2, <3>1, <3>2
    <2>3. ASSUME ~\E w \in Workers : Announcing(w)
          PROVE  /\ Pending(x) /\ tasks'[x] = tasks[x]
                 /\ rounds' = rounds \/ \E w \in Workers : OpensNothing(w)
        <3>1. CASE Quiet
            BY <1>3, <3>1 DEF Quiet, eventVars, Pending
        <3>2. ASSUME NEW w \in Workers, Hearing(w)
              PROVE  Pending(x) /\ tasks'[x] = tasks[x] /\ rounds' = rounds
            BY <1>0, <1>3, <3>2 DEF Hearing, Emits, Others, Pending
        <3>3. CASE Losing
            BY <1>3, <3>3 DEF Losing, Pending
        <3>4. ASSUME NEW u \in Users, Joining(u)
              PROVE  Pending(x) /\ tasks'[x] = tasks[x] /\ rounds' = rounds
            BY <1>3, <3>4 DEF Joining, EventsJoin, Pending
        <3>5. ASSUME NEW w \in Workers, Cancelling(w)
              PROVE  Pending(x) /\ tasks'[x] = tasks[x] /\ rounds' = rounds
            <4>1. /\ result' = [result EXCEPT ![w] = <<TournamentCancelled>>]
                  /\ rounds' = rounds /\ tasks' = tasks /\ tasks[w].pc = "idle"
                BY <3>5 DEF Cancelling, EventsCancel, Cancel, Idle
            <4>2. x # w
                BY <1>3, <4>1
            <4>. QED
                BY <1>0, <1>3, <4>1, <4>2 DEF Pending
        <3>6. ASSUME NEW w \in Workers, Counting(w)
              PROVE  Pending(x) /\ tasks'[x] = tasks[x] /\ rounds' = rounds
            <4>1. result' = result /\ ~Pending(w) /\ Others(w) /\ rounds' = rounds
                BY <3>6 DEF Counting, EventsCountSubmissions, CountSubmissions
            <4>. QED
                BY <1>3, <4>1 DEF Others, Pending
        <3>. QED
            BY <1>0, <2>3, <3>1, <3>2, <3>3, <3>4, <3>5, <3>6, EventMoves DEF Known
    <2>. QED
        BY <2>1, <2>2, <2>3
<1>4. \A x \in Workers : tasks'[x].round \in Rounds
    BY KnownStep DEF Known, Inv, TypeOK, Task
<1>. QED
    BY <1>1, <1>2, <1>3, <1>4 DEF Prompt

(* An order without repetitions is as long as its authors are many.        *)
LEMMA OrderFits ==
    ASSUME NEW order \in Seq(Users), IsInjective(order)
    PROVE  /\ Cardinality({order[i] : i \in 1..Len(order)}) = Len(order)
           /\ Len(order) <= Cardinality(Users)
<1>. DEFINE n == Len(order)
            authors == {order[i] : i \in 1..n}
<1>1. n \in Nat /\ DOMAIN order = 1..n
    BY LenProperties
<1>2. \A i \in 1..n : order[i] \in Users
    BY <1>1, ElementOfSeq
<1>. HIDE DEF n
<1>3. IsFiniteSet(1..n) /\ Cardinality(1..n) = n
    <2>1. IsFiniteSet(1..n) /\ Cardinality(1..n) = IF 1 > n THEN 0 ELSE n - 1 + 1
        BY <1>1, FS_Interval
    <2>. QED
        BY <1>1, <2>1
<1>4. [i \in 1..n |-> order[i]] \in Bijection(1..n, authors)
    BY <1>1 DEF Bijection, Injection, Surjection, IsInjective
<1>5. Cardinality(authors) = n
    BY <1>3, <1>4, FS_Bijection DEF ExistsBijection
<1>6. authors \subseteq Users
    BY <1>2
<1>. HIDE DEF authors
<1>7. Cardinality(authors) <= Cardinality(Users)
    BY <1>6, UsersAssumption, FS_Subset
<1>. QED
    BY <1>5, <1>7 DEF n, authors

(* What is true of the tournament stays true while no commit is announced. *)
LEMMA TruthStays ==
    ASSUME Known, [EventsNext]_allVars, NEW view, Truth(view), status' = status,
           rounds' = rounds \/ \E w \in Workers : OpensNothing(w)
    PROVE  Truth(view)'
<1>0. /\ TypeOK /\ VotingCursor /\ [Next]_vars /\ status \in Statuses
      /\ rounds \in [Rounds -> RoundRow] /\ tasks \in [Workers -> Task]
    BY EventsAreSteps DEF Known, Inv, TypeOK
<1>1. ASSUME NEW w \in Workers, OpensNothing(w), rounds' # rounds
      PROVE  /\ tasks[w].round \in Rounds
             /\ CanOpen(tasks[w].round) /\ submissions[tasks[w].round] = << >>
             /\ rounds' = [rounds EXCEPT ![tasks[w].round].stepStatus = "FINISHED"]
    <2>1. PICK r \in Rounds : r = tasks[w].round
        BY <1>0 DEF Task
    <2>2. rounds' = [rounds EXCEPT ![r].stepStatus = IF CanOpen(r) THEN "FINISHED" ELSE @]
        BY <1>1, <2>1 DEF OpensNothing, OpenVoting, CanOpen
    <2>3. CanOpen(r)
        BY <1>0, <1>1, <2>1, <2>2 DEF RoundRow
    <2>. QED
        BY <1>1, <2>1, <2>2, <2>3 DEF OpensNothing
<1>2. CurrentRound' = CurrentRound
    <2>1. ASSUME NEW q \in Rounds, Created(q) PROVE FALSE
        <3>1. rounds'[q].phase = "SUBMISSION" /\ rounds[q].phase = "NONE"
            BY <1>0, <2>1 DEF Created, NewRound, NoRound
        <3>2. PICK w \in Workers : OpensNothing(w)
            BY <3>1
        <3>3. PICK r \in Rounds : rounds' = [rounds EXCEPT ![r].stepStatus = "FINISHED"]
            BY <1>1, <3>1, <3>2
        <3>4. rounds'[q].phase = rounds[q].phase
            BY <1>0, <3>3 DEF RoundRow
        <3>. QED
            BY <3>1, <3>4
    <2>. QED
        BY <1>0, <2>1, CurrentStep DEF Known
<1>3. CASE status # "ACTIVE"
    <2>1. Stage = status /\ Stage' = status
        BY <1>3 DEF Stage
    <2>2. StageShown = status /\ StageShown' = status
        BY <1>0, <2>1 DEF StageShown, Statuses
    <2>3. ASSUME status = "COMPLETED"
          PROVE  winner' = winner /\ Leaderboard(score)' = Leaderboard(score)
        <3>1. winner' = winner /\ UNCHANGED <<participants, score, createdAt>>
            BY <2>3, StandingsSettled
        <3>. QED
            BY <3>1 DEF Leaderboard, AtPlace, Ahead, RanksBefore, BreaksTie, Joined1st
    <2>. QED
        BY <1>0, <1>2, <2>1, <2>2, <2>3 DEF Truth, Statuses
<1>4. CASE status = "ACTIVE"
    <2>1. PICK r : r = CurrentRound
        OBVIOUS
    <2>2. r \in Rounds /\ Exists(r) /\ r # 0
        <3>1. CurrentRound \in 0..RoundsCount /\ (1 <= CurrentRound) /\ RoundsCount \in Nat
            <4>1. Exists(1) /\ 1 \in Rounds
                BY <1>4, SizesAssumption DEF Known, SequenceInv, Rounds
            <4>. QED
                BY <4>1, CurrentExists, SizesAssumption DEF Known
        <3>2. r \in Rounds
            BY <2>1, <3>1 DEF Rounds
        <3>. QED
            BY <2>1, <3>1, <3>2, CurrentExists DEF Known, Rounds
    <2>3. /\ rounds[r] \in RoundRow /\ rounds'[r] \in RoundRow
          /\ RowAgrees(rounds[r], submissions[r]) /\ RowAgrees(rounds'[r], submissions'[r])
        BY <1>0, <2>2, KnownStep DEF Known, Inv, TypeOK, VotingCursor
    <2>4. /\ Stage = RoundStage(rounds[r]) /\ Step = rounds[r].step /\ Total = Len(submissions[r])
          /\ Stage' = RoundStage(rounds'[r]) /\ Step' = rounds'[r].step /\ Total' = Len(submissions'[r])
        BY <1>2, <1>4, <2>1, <2>2 DEF Stage, Step, Total
    <2>5. rounds[r].phase = "VOTING" => submissions'[r] = submissions[r]
        BY <1>0, <2>2, FrozenStep DEF KeepsClosed, Known
    <2>6. CASE rounds'[r] = rounds[r]
        <3>1. CASE rounds[r].phase = "SUBMISSION"
            <4>1. RoundStage(rounds[r]) = "SUBMITTING"
                BY <2>2, <2>3, <3>1, Stages DEF Exists
            <4>2. Stage = "SUBMITTING" /\ Stage' = "SUBMITTING"
                BY <2>4, <2>6, <4>1
            <4>. QED
                BY <1>2, <4>2 DEF Truth, StageShown
        <3>2. CASE rounds[r].phase = "VOTING"
            <4>1. Stage' = Stage /\ Step' = Step /\ Total' = Total
                BY <2>4, <2>5, <2>6, <3>2
            <4>2. RoundStage(rounds[r]) # "COMPLETED"
                BY <2>2, <2>3, Stages DEF Exists, RoundRow, Phases, StepStatuses
            <4>. QED
                BY <1>2, <2>4, <4>1, <4>2 DEF Truth, StageShown
        <3>. QED
            BY <2>2, <2>3, <3>1, <3>2 DEF Exists, RoundRow, Phases
    <2>7. CASE rounds'[r] # rounds[r]
        <3>1. PICK w \in Workers : OpensNothing(w)
            BY <2>7
        <3>2. CanOpen(r) /\ submissions[r] = << >> /\ rounds'[r] = [rounds[r] EXCEPT !.stepStatus = "FINISHED"]
            BY <1>0, <1>1, <2>2, <2>7, <3>1
        <3>3. Stage = "CLOSED" /\ Total = 0
            BY <2>2, <2>3, <2>4, <3>2, Stages DEF CanOpen
        <3>4. rounds'[r].stepStatus = "FINISHED" /\ ~rounds'[r].completed /\ rounds'[r].phase = "VOTING"
            BY <2>3, <3>2 DEF CanOpen, RowAgrees, RoundRow
        <3>5. Stage' = "VOTED" /\ Total' = 0
            BY <2>3, <2>4, <2>5, <3>2, <3>3, <3>4, Stages DEF CanOpen
        <3>. QED
            BY <1>2, <3>3, <3>5 DEF Truth, StageShown
    <2>. QED
        BY <2>6, <2>7
<1>. QED
    BY <1>3, <1>4

(* When nobody has anything left to tell, what was told is where the       *)
(* tournament is, unless the last of it was lost in a fault, or was told   *)
(* too late.                                                               *)
ViewTells == ~behind /\ (\A w \in Workers : ~Pending(w)) => Truth(announced)

(* A round that accepts submissions is the current one.                    *)
LEMMA AcceptingIsCurrent ==
    ASSUME Known, NEW r \in Rounds, rounds[r].phase = "SUBMISSION"
    PROVE  r = CurrentRound /\ status = "ACTIVE" /\ Stage = "SUBMITTING"
<1>1. Exists(r) /\ ~rounds[r].completed
    BY DEF Exists, Known, Inv, VotingCursor, RowAgrees
<1>2. r = CurrentRound /\ status = "ACTIVE"
    BY <1>1, IsCurrent
<1>. QED
    BY <1>2, StageIs

(* A counter that is emitted in time tells where the tournament is.        *)
LEMMA CountsInTime ==
    ASSUME Known, NEW r \in Rounds, rounds[r].phase = "SUBMISSION", NEW view \in View,
           NEW heard, heard = Hear(view, Progress(r))
    PROVE  Truth(heard) /\ heard.submitted = Cardinality(SubmittedIn(r))
<1>1. PICK e : e = Progress(r)
    OBVIOUS
<1>2. /\ e \in RoundProgressUpdatedPayload /\ e.round = r
      /\ e.submitted = Cardinality(SubmittedIn(r))
    BY <1>1, ProgressType DEF Progress
<1>3. /\ heard.stage = "SUBMITTING" /\ heard.round = r
      /\ heard.submitted = Cardinality(SubmittedIn(r))
    BY <1>1, <1>2, HearShows
<1>4. r = CurrentRound /\ status = "ACTIVE" /\ Stage = "SUBMITTING"
    BY AcceptingIsCurrent
<1>. QED
    BY <1>3, <1>4 DEF Truth, StageShown

(* It stays so: who commits something then has it to tell.                 *)
LEMMA ViewTellsStep ==
    ASSUME Known, EventsInv, Shaped, Prompt, ViewTells, [EventsNext]_allVars
    PROVE  ViewTells'
<1>0. /\ TypeOK /\ ResultOK /\ OrderOK /\ behind \in BOOLEAN /\ tasks \in [Workers -> Task]
      /\ result \in [Workers -> Seq(Payloads)] /\ announced \in View /\ Agrees(announced)
    BY DEF Known, Inv, EventsInv, TypeOK, ResultOK, Agrees
<1>2. ASSUME announced' = announced, status' = status,
             rounds' = rounds \/ \E w \in Workers : OpensNothing(w),
             behind => behind', ~behind' => \A x \in Workers : Pending(x) => Pending(x)'
      PROVE  ViewTells'
    <2>1. SUFFICES ASSUME ~behind', \A w \in Workers : ~Pending(w)' PROVE Truth(announced)'
        BY DEF ViewTells
    <2>2. Truth(announced)
        BY <1>2, <2>1 DEF ViewTells
    <2>3. PICK view : view = announced
        OBVIOUS
    <2>4. Truth(view)'
        BY <1>2, <2>2, <2>3, TruthStays
    <2>. QED
        BY <1>2, <2>3, <2>4 DEF Truth
<1>3. CASE Quiet
    BY <1>2, <1>3 DEF Quiet, eventVars, tournamentVars, Pending
<1>4. ASSUME NEW w \in Workers, Announcing(w) PROVE ViewTells'
    <2>1. PICK events : events = result'[w]
        OBVIOUS
    <2>2. Len(events) \in 1..2
        BY <1>0, <1>4, <2>1, AnnouncementsFit
    <2>3. Pending(w)'
        BY <2>1, <2>2 DEF Pending
    <2>. QED
        BY <2>3 DEF ViewTells
<1>5. ASSUME NEW w \in Workers, Hearing(w) PROVE ViewTells'
    <2>1. /\ announced' = HearAll(announced, result[w]) /\ behind' = (behind /\ ~Pending(w))
          /\ \A x \in Workers \ {w} : result'[x] = result[x]
          /\ status' = status /\ rounds' = rounds
        BY <1>0, <1>5 DEF Hearing, Emits, Tells, tournamentVars
    <2>2. CASE ~Pending(w)
        <3>1. announced' = announced /\ \A x \in Workers : Pending(x) => Pending(x)'
            BY <2>1, <2>2 DEF HearAll, Pending
        <3>. QED
            BY <1>2, <2>1, <2>2, <3>1
    <2>3. CASE Pending(w)
        <3>1. PICK heard : heard = HearAll(announced, result[w])
            OBVIOUS
        <3>2. Truth(heard)
            BY <1>0, <2>3, <3>1, NewsIsTrue
        <3>3. Truth(heard)'
            BY <2>1, <3>2, TruthStays
        <3>. QED
            BY <2>1, <3>1, <3>3 DEF Truth, ViewTells
    <2>. QED
        BY <2>2, <2>3
<1>6. CASE Losing
    BY <1>2, <1>6 DEF Losing, tournamentVars, Pending
<1>7. ASSUME NEW u \in Users, Joining(u) PROVE ViewTells'
    BY <1>2, <1>7 DEF Joining, EventsJoin, Pending
<1>8. ASSUME NEW w \in Workers, Cancelling(w) PROVE ViewTells'
    <2>1. result'[w] = <<TournamentCancelled>>
        BY <1>0, <1>8 DEF Cancelling, EventsCancel
    <2>2. Pending(w)'
        BY <2>1 DEF Pending
    <2>. QED
        BY <2>2 DEF ViewTells
<1>9. ASSUME NEW w \in Workers, Counting(w) PROVE ViewTells'
    <2>. SUFFICES ASSUME ~behind' PROVE Truth(announced)'
        BY DEF ViewTells
    <2>1. PICK r \in Rounds : r = tasks[w].round
        BY <1>0 DEF Task
    <2>2. /\ announced' = Hear(announced, Progress(r)) /\ rounds[r].phase = "SUBMISSION"
          /\ status' = status /\ rounds' = rounds
        BY <1>9, <2>1
        DEF Counting, EventsCountSubmissions, CountSubmissions, Tells, tournamentVars
    <2>3. PICK heard : heard = Hear(announced, Progress(r))
        OBVIOUS
    <2>4. Truth(heard)
        BY <1>0, <2>2, <2>3, CountsInTime
    <2>5. Truth(heard)'
        BY <2>2, <2>4, TruthStays
    <2>. QED
        BY <2>2, <2>3, <2>5 DEF Truth
<1>. QED
    BY <1>0, <1>3, <1>4, <1>5, <1>6, <1>7, <1>8, <1>9, EventMoves DEF Known

(* Without faults the counter is brought up to date by a count, or a       *)
(* handler is on its way to it.                                            *)
LEMMA CountingGoesOn ==
    ASSUME Known, EventsInv, [EventsNext]_allVars, faults' = 0, NEW r \in Rounds,
           rounds[r].phase = "SUBMISSION"
    PROVE  \/ \E x \in Workers : WillCount(x, r)'
           \/ \E w \in Workers : Counting(w) /\ tasks[w].round = r
           \/ submissions'[r] = submissions[r] /\ ~\E x \in Workers : WillCount(x, r)
<1>0. /\ TypeOK /\ tasks \in [Workers -> Task] /\ submissions \in [Rounds -> Seq(Users)]
      /\ faults \in Nat /\ ResultOK
    BY SizesAssumption DEF Known, Inv, TypeOK, EventsInv
<1>1. ASSUME submissions'[r] = submissions[r],
             \A x \in Workers : WillCount(x, r) => tasks'[x] = tasks[x]
      PROVE  \/ \E x \in Workers : WillCount(x, r)'
             \/ submissions'[r] = submissions[r] /\ ~\E x \in Workers : WillCount(x, r)
    BY <1>1 DEF WillCount
<1>2. ASSUME NEW w \in Workers, Others(w), submissions' = submissions, ~WillCount(w, r)
      PROVE  \/ \E x \in Workers : WillCount(x, r)'
             \/ submissions'[r] = submissions[r] /\ ~\E x \in Workers : WillCount(x, r)
    BY <1>1, <1>2 DEF Others
<1>3. CASE UNCHANGED allVars
    BY <1>1, <1>3 DEF allVars, vars, contentVars
<1>4. CASE (\E w \in Workers : EventsCancel(w)) \/ \E u \in Users : EventsJoin(u)
    BY <1>1, <1>4 DEF EventsCancel, EventsJoin, Cancel, Join, contentVars
<1>5. ASSUME NEW w \in Workers, EventsStart(w)
      PROVE  Others(w) /\ submissions' = submissions /\ ~WillCount(w, r)
    BY <1>0, <1>5, HandlerMoves DEF EventsStart, Start, Idle, WillCount, contentVars
<1>6. ASSUME NEW w \in Workers, EventsRequest(w)
      PROVE  \/ \E x \in Workers : WillCount(x, r)'
             \/ submissions'[r] = submissions[r] /\ ~\E x \in Workers : WillCount(x, r)
    <2>1. ASSUME NEW q \in Rounds, NEW u \in Users, Submit(w, q, u)
          PROVE  \/ \E x \in Workers : WillCount(x, r)'
                 \/ submissions'[r] = submissions[r] /\ ~\E x \in Workers : WillCount(x, r)
        <3>1. Others(w) /\ tasks'[w].pc = "submissionSaved" /\ tasks'[w].round = q /\ ~WillCount(w, r)
            BY <1>0, <2>1, HandlerMoves DEF Submit, Idle, WillCount
        <3>2. CASE q = r
            BY <3>1, <3>2 DEF WillCount
        <3>3. CASE q # r
            <4>1. submissions'[r] = submissions[r]
                BY <1>0, <2>1, <3>3 DEF Submit
            <4>. QED
                BY <1>1, <3>1, <4>1 DEF Others
        <3>. QED
            BY <3>2, <3>3
    <2>2. ASSUME NEW q \in Rounds, NEW a \in Users, NEW v \in Users, NEW value \in VoteValues,
                 CastVote(w, q, a, v, value)
          PROVE  Others(w) /\ submissions' = submissions /\ ~WillCount(w, r)
        BY <1>0, <2>2, HandlerMoves DEF CastVote, Idle, WillCount
    <2>. QED
        BY <1>2, <1>6, <2>1, <2>2 DEF EventsRequest
<1>7. ASSUME NEW w \in Workers, EventsCountSubmissions(w)
      PROVE  \/ \E y \in Workers : Counting(y) /\ tasks[y].round = r
             \/ Others(w) /\ submissions' = submissions /\ ~WillCount(w, r)
    <2>1. Others(w) /\ submissions' = submissions
        BY <1>0, <1>7, HandlerMoves DEF EventsCountSubmissions, CountSubmissions, Others, contentVars
    <2>2. ~Pending(w)
        BY <1>0, <1>7 DEF ResultOK, Emitters, EventsCountSubmissions, CountSubmissions
    <2>. QED
        BY <1>7, <2>1, <2>2 DEF Counting, WillCount, EventsCountSubmissions, Pending
<1>8. ASSUME NEW w \in Workers,
             \/ EventsCloseSubmissions(w) \/ EventsOpenVoting(w) \/ EventsFinalize(w)
             \/ EventsCompleteRound(w) \/ EventsFinishTournament(w) \/ EventsCreateNextRound(w)
      PROVE  Others(w) /\ submissions' = submissions /\ ~WillCount(w, r)
    <2>1. CASE EventsCloseSubmissions(w)
        BY <1>0, <2>1, HandlerMoves DEF EventsCloseSubmissions, CloseSubmissions, WillCount, contentVars
    <2>2. CASE EventsOpenVoting(w)
        BY <1>0, <2>2, HandlerMoves DEF EventsOpenVoting, OpenVoting, WillCount, contentVars, Others
    <2>3. CASE EventsFinalize(w)
        BY <1>0, <2>3, HandlerMoves DEF EventsFinalize, Finalize, WillCount, contentVars, Others
    <2>4. CASE EventsCompleteRound(w)
        BY <1>0, <2>4, HandlerMoves DEF EventsCompleteRound, CompleteRound, WillCount, contentVars
    <2>5. CASE EventsFinishTournament(w)
        BY <1>0, <2>5, HandlerMoves DEF EventsFinishTournament, FinishTournament, WillCount, contentVars
    <2>6. CASE EventsCreateNextRound(w)
        BY <1>0, <2>6, HandlerMoves DEF EventsCreateNextRound, CreateNextRound, WillCount, contentVars, Others
    <2>. QED
        BY <1>8, <2>1, <2>2, <2>3, <2>4, <2>5, <2>6
<1>9. ASSUME NEW w \in Workers, EmitsCompleted(w)
      PROVE  \/ \E x \in Workers : WillCount(x, r)'
             \/ submissions'[r] = submissions[r] /\ ~\E x \in Workers : WillCount(x, r)
    BY <1>1, <1>9 DEF EmitsCompleted, vars, contentVars
<1>10. ASSUME NEW w \in Workers, Continues(w)
       PROVE  Others(w) /\ submissions' = submissions /\ ~WillCount(w, r)
    BY <1>0, <1>10, HandlerMoves
    DEF Continues, ArmSubmissionTimer, CancelSubmissionTimer, ArmVotingTimer, AfterFinalize, WillCount,
        contentVars
<1>11. ASSUME NEW w \in Workers, ReadsOnly(w)
       PROVE  \/ \E x \in Workers : WillCount(x, r)'
              \/ submissions'[r] = submissions[r] /\ ~\E x \in Workers : WillCount(x, r)
    <2>1. CASE HandleSubmissionSaved(w) /\ tasks[w].round = r
        <3>1. tasks'[w].pc = "countingSubmissions" /\ tasks'[w].round = r
            BY <1>0, <2>1, HandlerMoves DEF HandleSubmissionSaved
        <3>. QED
            BY <3>1 DEF WillCount
    <2>2. CASE HandleSubmissionSaved(w) /\ tasks[w].round # r
        <3>1. Others(w) /\ submissions' = submissions
            BY <1>0, <2>2, HandlerMoves DEF HandleSubmissionSaved, contentVars
        <3>. QED
            BY <1>2, <2>2, <3>1 DEF WillCount
    <2>3. CASE CheckVotingFinished(w) \/ HandleVoteSaved(w) \/ CountVotes(w) \/ BeginFinalization(w)
        <3>1. Others(w) /\ submissions' = submissions
            BY <1>0, <2>3, HandlerMoves
            DEF CheckVotingFinished, HandleVoteSaved, CountVotes, BeginFinalization, Others,
                contentVars
        <3>2. ~WillCount(w, r)
            BY <2>3 DEF CheckVotingFinished, HandleVoteSaved, CountVotes, BeginFinalization,
                WillCount
        <3>. QED
            BY <1>2, <3>1, <3>2
    <2>. QED
        BY <1>11, <2>1, <2>2, <2>3 DEF ReadsOnly
<1>12. ASSUME NEW q \in Rounds, Deadlines(q)
       PROVE  \/ \E x \in Workers : WillCount(x, r)'
              \/ submissions'[r] = submissions[r] /\ ~\E x \in Workers : WillCount(x, r)
    <2>1. CASE SubmissionDeadlinePasses(q) \/ VotingDeadlinePasses(q)
        BY <1>1, <2>1 DEF SubmissionDeadlinePasses, VotingDeadlinePasses, contentVars
    <2>2. CASE SubmissionTimerFires(q) \/ VotingTimerFires(q)
        <3>1. PICK w \in Workers : Idle(w) /\ \E pc : BeginOnDeadline(w, pc, q)
            BY <2>2 DEF SubmissionTimerFires, VotingTimerFires
        <3>2. Others(w) /\ ~WillCount(w, r) /\ submissions' = submissions
            BY <1>0, <2>2, <3>1, HandlerMoves
            DEF SubmissionTimerFires, VotingTimerFires, Idle, WillCount, contentVars
        <3>. QED
            BY <1>2, <3>2
    <2>. QED
        BY <1>12, <2>1, <2>2 DEF Deadlines
<1>13. ~EventsCrash /\ \A w \in Workers : ~EventsFault(w)
    BY <1>0 DEF EventsCrash, EventsFault, CrashRestart, RequestFails, ReplyLost, FaultHappens
<1>. QED
    BY <1>2, <1>3, <1>4, <1>5, <1>6, <1>7, <1>8, <1>9, <1>10, <1>11, <1>12, <1>13 DEF EventsNext

(* A new round that is still to be announced has no submission that is not *)
(* being counted; later the counter of those who were told is right, or    *)
(* somebody is about to correct it.                                        *)
CounterTells ==
    faults = 0 /\ Stage = "SUBMITTING" =>
        \/ \E x \in Workers : WillCount(x, CurrentRound)
        \/ /\ \A w \in Workers : Pending(w) => Total = 0
           /\ ~behind /\ (\A w \in Workers : ~Pending(w)) => announced.submitted = Total

(* While submissions are accepted, the only commit that is announced is    *)
(* the one that closes the phase.                                          *)
LEMMA OnlyClosing ==
    ASSUME Known, NEW w \in Workers, Announcing(w), NEW r \in Rounds, r = CurrentRound,
           rounds[r].phase = "SUBMISSION"
    PROVE  rounds'[r].phase = "VOTING"
<1>0. /\ rounds \in [Rounds -> RoundRow] /\ RowAgrees(rounds[r], submissions[r])
      /\ Exists(r) /\ status = "ACTIVE"
    <2>1. /\ rounds \in [Rounds -> RoundRow] /\ RowAgrees(rounds[r], submissions[r])
        BY DEF Known, Inv, TypeOK, VotingCursor
    <2>2. Exists(r) /\ ~rounds[r].completed
        BY <2>1 DEF Exists, RowAgrees
    <2>. QED
        BY <2>1, <2>2, IsCurrent
<1>1. PICK q \in Rounds : q = tasks[w].round
    BY DEF Known, Inv, TypeOK, Task
<1>2. rounds[q] \in RoundRow /\ RowAgrees(rounds[q], submissions[q])
    BY <1>1 DEF Known, Inv, TypeOK, VotingCursor
<1>3. ASSUME Exists(q), ~rounds[q].completed \/ IsNewest(q) PROVE q = r
    BY <1>3, IsCurrent
<1>4. CASE Closes(w)
    <2>1. q = r
        BY <1>1, <1>2, <1>3, <1>4 DEF Closes, Exists, RowAgrees
    <2>2. rounds' = [rounds EXCEPT ![r].phase = "VOTING"]
        BY <1>1, <1>4, <2>1 DEF Closes, CloseSubmissions
    <2>. QED
        BY <1>0, <2>2 DEF RoundRow
<1>5. ~Opens(w)
    BY <1>0, <1>1, <1>2, <1>3 DEF Opens, CanOpen, Exists, RowAgrees
<1>6. ~Finalizes(w)
    BY <1>0, <1>1, <1>2, <1>3 DEF Finalizes, VotingOpen, Exists, RowAgrees
<1>7. ~Completes(w)
    BY <1>0, <1>1, <1>2, <1>3 DEF Completes, VotingFinished, Exists, RowAgrees
<1>8. ~FinishTournament(w) /\ ~CreateNextRound(w)
    <2>1. ~Delays(w)
        <3>1. SUFFICES ASSUME Delays(w) PROVE FALSE
            OBVIOUS
        <3>2. rounds[q].completed /\ IsNewest(q) /\ Exists(q)
            BY <1>1, <3>1, CompletedExists DEF Known, Alone, OneDelays
        <3>. QED
            BY <1>0, <1>3, <3>2 DEF RowAgrees
    <2>. QED
        BY <2>1 DEF FinishTournament, CreateNextRound, Delays
<1>. QED
    BY <1>0, <1>4, <1>5, <1>6, <1>7, <1>8 DEF Announcing, Announces, Start

(* The counter stays right, or about to be corrected.                      *)
LEMMA CounterTellsStep ==
    ASSUME Known, EventsInv, Shaped, Prompt, CounterTells, RepliesInOrder,
           [EventsNext]_allVars
    PROVE  CounterTells'
<1>0. /\ TypeOK /\ ResultOK /\ behind \in BOOLEAN /\ tasks \in [Workers -> Task]
      /\ result \in [Workers -> Seq(Payloads)] /\ faults \in Nat /\ announced \in View
      /\ [Next]_vars /\ rounds \in [Rounds -> RoundRow]
    BY EventsAreSteps, SizesAssumption DEF Known, Inv, EventsInv, TypeOK, ResultOK, Agrees
<1>1. SUFFICES ASSUME faults' = 0, Stage' = "SUBMITTING",
                      ~\E x \in Workers : WillCount(x, CurrentRound)'
               PROVE  /\ \A w \in Workers : Pending(w)' => Total' = 0
                      /\ ~behind' /\ (\A w \in Workers : ~Pending(w)') => announced'.submitted = Total'
    BY DEF CounterTells
<1>2. faults = 0
    BY <1>0, <1>1, FaultsGrow
<1>3. PICK r : r = CurrentRound'
    OBVIOUS
<1>4. /\ r \in Rounds /\ r # 0 /\ status' = "ACTIVE" /\ rounds'[r].phase = "SUBMISSION"
      /\ Total' = Len(submissions'[r])
    <2>1. status' = "ACTIVE" /\ RoundStage(rounds'[r]) = "SUBMITTING"
        <3>1. status' \in Statuses
            BY KnownStep DEF Known, Inv, TypeOK
        <3>. QED
            BY <1>1, <1>3, <3>1 DEF Stage, Statuses
    <2>2. r \in Rounds
        <3>1. CASE \E q \in Rounds : Created(q)
            BY <1>0, <1>3, <3>1, CurrentStep DEF Known
        <3>2. CASE \A q \in Rounds : ~Created(q)
            <4>1. r = CurrentRound
                BY <1>0, <1>3, <3>2, CurrentStep DEF Known
            <4>2. 1 \in Rounds /\ Exists(1)'
                BY <2>1, KnownStep, SizesAssumption DEF Known, SequenceInv, Rounds
            <4>3. Exists(1)
                BY <1>0, <3>2, <4>2, RowHistory DEF Known
            <4>. QED
                BY <4>1, <4>2, <4>3, CurrentExists, SizesAssumption DEF Known, Rounds
        <3>. QED
            BY <3>1, <3>2
    <2>3. rounds'[r] \in RoundRow
        BY <2>2, KnownStep DEF Known, Inv, TypeOK
    <2>4. rounds'[r].phase = "SUBMISSION"
        BY <2>1, <2>3 DEF RoundStage, RoundRow, Phases, StepStatuses
    <2>. QED
        BY <1>3, <2>1, <2>2, <2>4 DEF Total, Rounds
<1>5. CASE Created(r)
    <2>1. Total' = 0
        BY <1>4, <1>5 DEF Created, SameOrder, Known, Inv, VotingCursor, RowAgrees
    <2>2. \E w \in Workers : Pending(w)'
        <3>1. rounds' # rounds /\ ~\E w \in Workers : OpensNothing(w)
            <4>1. rounds[r].phase = "NONE"
                BY <1>5 DEF Created
            <4>2. ASSUME NEW w \in Workers, OpensNothing(w) PROVE FALSE
                <5>1. PICK q \in Rounds : q = tasks[w].round
                    BY <1>0 DEF Task
                <5>2. rounds' = [rounds EXCEPT ![q].stepStatus = IF CanOpen(q) THEN "FINISHED" ELSE @]
                    BY <4>2, <5>1 DEF OpensNothing, OpenVoting, CanOpen
                <5>3. rounds'[r].phase = rounds[r].phase
                    BY <1>0, <1>4, <5>2 DEF RoundRow
                <5>. QED
                    BY <1>4, <4>1, <5>3
            <4>. QED
                BY <1>4, <4>1, <4>2
        <3>2. PICK w \in Workers : Announcing(w)
            BY <1>0, <3>1, EventMoves
            DEF Known, Quiet, Hearing, Losing, Joining, Cancelling, EventsCancel, Cancel,
                Counting, EventsCountSubmissions, CountSubmissions
        <3>3. PICK events : events = result'[w]
            OBVIOUS
        <3>4. Len(events) \in 1..2
            BY <3>2, <3>3, AnnouncementsFit DEF EventsInv
        <3>. QED
            BY <3>3, <3>4 DEF Pending
    <2>. QED
        BY <2>1, <2>2
<1>6. CASE ~Created(r)
    <2>1. /\ rounds[r].phase = "SUBMISSION" /\ r = CurrentRound /\ status = "ACTIVE" /\ Exists(r)
          /\ Stage = "SUBMITTING" /\ Total = Len(submissions[r])
        <3>1. rounds[r].phase = "SUBMISSION"
            <4>1. RoundMoves(r)
                BY <1>0, <1>4, RoundStep DEF Known, Inv
            <4>. QED
                BY <1>0, <1>4, <1>6, <4>1
                DEF RoundMoves, SameRow, Submitted, Closed, Opened, Cast, RevealedNext,
                    FinalizedLast, Completed, VotingOpen, VotingFinished, RoundRow
        <3>2. r = CurrentRound
            <4>1. ASSUME NEW q \in Rounds, Created(q) PROVE q = r
                BY <1>0, <1>3, <4>1, CurrentStep DEF Known
            <4>. QED
                BY <1>0, <1>3, <1>4, <1>6, <4>1, CurrentStep DEF Known
        <3>3. Exists(r) /\ ~rounds[r].completed
            BY <1>4, <3>1 DEF Exists, Known, Inv, VotingCursor, RowAgrees
        <3>4. status = "ACTIVE"
            BY <1>4, <3>3, IsCurrent
        <3>. QED
            BY <1>4, <3>1, <3>2, <3>3, <3>4, StageIs
    <2>2. ~\E w \in Workers : Announcing(w)
        BY <1>4, <2>1, OnlyClosing
    <2>3. ~\E x \in Workers : WillCount(x, r)'
        BY <1>1, <1>3
    <2>4. ASSUME NEW w \in Workers, Counting(w), tasks[w].round = r
          PROVE  /\ \A x \in Workers : ~Pending(x)'
                 /\ announced'.submitted = Total'
        <3>1. \A x \in Workers : ~Pending(x)
            <4>. SUFFICES ASSUME NEW x \in Workers, Pending(x) PROVE FALSE
                OBVIOUS
            <4>1. tasks[x].round = r
                BY <2>1, PendingRow
            <4>. QED
                BY <2>4, <4>1 DEF Counting, EventsCountSubmissions, RepliesArrived
        <3>4. announced'.submitted = Len(submissions[r])
            <4>1. Cardinality(SubmittedIn(r)) = Len(submissions[r])
                BY <1>4, OrderFits DEF SubmittedIn, Known, Inv, OneSubmissionEach, TypeOK
            <4>2. announced' = Hear(announced, Progress(r))
                BY <2>4 DEF Counting, EventsCountSubmissions, Tells
            <4>. QED
                BY <1>0, <1>4, <2>1, <4>1, <4>2, CountsInTime
        <3>5. submissions' = submissions /\ result' = result
            BY <2>4 DEF Counting, EventsCountSubmissions, CountSubmissions, contentVars
        <3>. QED
            BY <1>4, <3>1, <3>4, <3>5 DEF Pending
    <2>5. ASSUME submissions'[r] = submissions[r], ~\E x \in Workers : WillCount(x, r)
          PROVE  /\ \A w \in Workers : Pending(w)' => Total' = 0
                 /\ ~behind' /\ (\A w \in Workers : ~Pending(w)') => announced'.submitted = Total'
        <3>1. /\ Total' = Total
              /\ \A w \in Workers : Pending(w) => Total = 0
              /\ ~behind /\ (\A w \in Workers : ~Pending(w)) => announced.submitted = Total
            BY <1>2, <1>4, <2>1, <2>5 DEF CounterTells
        <3>2. ASSUME \A w \in Workers : Pending(w) <=> Pending(w)',
                     announced' = announced, behind' = behind
              PROVE  /\ \A w \in Workers : Pending(w)' => Total' = 0
                     /\ ~behind' /\ (\A w \in Workers : ~Pending(w)') => announced'.submitted = Total'
            BY <3>1, <3>2
        <3>3. CASE Quiet
            BY <3>2, <3>3 DEF Quiet, eventVars, Pending
        <3>4. ASSUME NEW w \in Workers, Hearing(w)
              PROVE  /\ \A x \in Workers : Pending(x)' => Total' = 0
                     /\ ~behind' /\ (\A x \in Workers : ~Pending(x)') => announced'.submitted = Total'
            <4>1. /\ announced' = HearAll(announced, result[w]) /\ result'[w] = << >>
                  /\ \A x \in Workers \ {w} : result'[x] = result[x]
                BY <1>0, <3>4 DEF Hearing, Emits, Tells
            <4>2. CASE ~Pending(w)
                <5>1. announced' = announced
                    BY <4>1, <4>2 DEF HearAll, Pending
                <5>2. behind' = behind
                    BY <1>0, <3>4, <4>2 DEF Hearing, Emits
                <5>. QED
                    BY <3>2, <4>1, <4>2, <5>1, <5>2 DEF Pending
            <4>3. CASE Pending(w)
                <5>1. PICK heard : heard = HearAll(announced, result[w])
                    OBVIOUS
                <5>2. heard.submitted = 0
                    BY <2>1, <4>3, <5>1, NewsIsTrue DEF EventsInv
                <5>. QED
                    BY <3>1, <4>1, <4>3, <5>1, <5>2 DEF Pending
            <4>. QED
                BY <4>2, <4>3
        <3>5. ~Losing
            BY <1>1 DEF Losing
        <3>6. ASSUME NEW u \in Users, Joining(u)
              PROVE  /\ \A x \in Workers : Pending(x)' => Total' = 0
                     /\ ~behind' /\ (\A x \in Workers : ~Pending(x)') => announced'.submitted = Total'
            BY <3>2, <3>6 DEF Joining, EventsJoin, Pending
        <3>7. ASSUME NEW w \in Workers, Cancelling(w) PROVE FALSE
            BY <2>1, <3>7 DEF Cancelling, EventsCancel, Cancel
        <3>8. ASSUME NEW w \in Workers, Counting(w), tasks[w].round # r
              PROVE  /\ \A x \in Workers : Pending(x)' => Total' = 0
                     /\ ~behind' /\ (\A x \in Workers : ~Pending(x)') => announced'.submitted = Total'
            <4>1. result' = result /\ behind' = (rounds[tasks[w].round].phase # "SUBMISSION")
                BY <3>8 DEF Counting, EventsCountSubmissions
            <4>2. rounds[tasks[w].round].phase # "SUBMISSION"
                <5>1. tasks[w].round \in Rounds
                    BY <1>0 DEF Task
                <5>. QED
                    BY <2>1, <3>8, <5>1, AcceptingIsCurrent
            <4>. QED
                BY <3>1, <4>1, <4>2 DEF Pending
        <3>. QED
            BY <1>0, <2>2, <2>4, <3>3, <3>4, <3>5, <3>6, <3>7, <3>8, EventMoves DEF Known
    <2>. QED
        BY <1>1, <1>4, <2>1, <2>3, <2>4, <2>5, CountingGoesOn
<1>. QED
    BY <1>5, <1>6

Telling == Known /\ EventsInv /\ Shaped /\ Prompt /\ ViewTells /\ CounterTells

(* Before the start there is nothing to tell.                              *)
LEMMA TellingInit == EventsInit => Telling
<1>. SUFFICES ASSUME EventsInit PROVE Telling
    OBVIOUS
<1>1. Known /\ EventsInv
    BY EventsInvInit
<1>2. /\ \A w \in Workers : ~Pending(w) /\ tasks[w].pc = "idle"
      /\ status = "DRAFT" /\ ~behind /\ announced = NoView
    BY DEF EventsInit, Init, Pending, IdleTask
<1>3. Stage = "DRAFT" /\ StageShown = "DRAFT"
    BY <1>2 DEF Stage, StageShown
<1>4. CurrentRound = 0
    <2>1. \A q \in Rounds : ~Exists(q)
        BY DEF EventsInit, Init, Exists, NoRound
    <2>. QED
        BY <2>1 DEF CurrentRound
<1>5. Truth(announced)
    BY <1>2, <1>3, <1>4 DEF Truth, NoView
<1>6. Prompt
    BY <1>2 DEF Prompt, HandlersAgree, HandlerAgrees
<1>. QED
    BY <1>1, <1>2, <1>3, <1>5, <1>6 DEF Telling, Shaped, ViewTells, CounterTells

(* Every step tells what it did, or leaves it to be told.                  *)
LEMMA TellingStep ==
    ASSUME RepliesInOrder, Telling, [EventsNext]_allVars
    PROVE  Telling'
BY KnownStep, EventsInvStep, ShapedStep, PromptStep, ViewTellsStep, CounterTellsStep DEF Telling

(* When no handler has anything left to emit, the clients know where the   *)
(* tournament is.  An event that a fault has lost, and a counter that came *)
(* after its phase was closed, keep them behind only until the next event. *)
THEOREM ViewCorrect == RepliesInOrder => (EventsSpec => []ViewCatchesUp)
<1>. SUFFICES ASSUME RepliesInOrder PROVE EventsSpec => []ViewCatchesUp
    OBVIOUS
<1>1. Telling /\ [EventsNext]_allVars => Telling'
    BY TellingStep
<1>2. Telling => ViewCatchesUp
    <2>. SUFFICES ASSUME Telling, ~behind, \A w \in Workers : ~Pending(w)
                  PROVE  /\ Truth(announced)
                         /\ Stage = "SUBMITTING" /\ faults = 0 =>
                                announced.submitted = Total \/ BeingCounted
        BY DEF ViewCatchesUp, Truth
    <2>. QED
        BY DEF Telling, ViewTells, CounterTells, WillCount, BeingCounted, InFlight
<1>. QED
    BY <1>1, <1>2, TellingInit, PTL DEF EventsSpec

-----------------------------------------------------------------------------
(* How far a round is, by its row.                                         *)

Furthest == 2 * Cardinality(Users) + 2

PlaceOf(row, order) ==
    CASE row.phase = "SUBMISSION" -> 0
      [] row.stepStatus = "OPEN" -> 2 * row.step
      [] row.completed -> Furthest
      [] row.stepStatus = "FINISHED" /\ ~row.completed /\ order # << >> -> Furthest - 1
      [] OTHER -> 1

RowPlace(r) == PlaceOf(rounds[r], submissions[r])

(* No more was told of a round than what happened in it.                   *)
Reached(view) ==
    \/ view.stage = "DRAFT"
    \/ view.stage \in {"CANCELLED", "COMPLETED"} /\ status = view.stage
    \/ /\ view.stage \in {"SUBMITTING", "CLOSED", "REVEALING", "FINALIZED", "SCORED"}
       /\ view.round \in Rounds /\ Exists(view.round)
       /\ Place(view) \in Nat /\ Place(view) <= RowPlace(view.round)

(* The place of a round by the columns of its row.                         *)
LEMMA RowPlaces ==
    ASSUME NEW row \in RoundRow, NEW order \in Seq(Users), RowAgrees(row, order),
           row.phase # "NONE", Len(order) <= Cardinality(Users)
    PROVE  /\ Furthest \in Nat /\ Furthest - 1 >= 1
           /\ row.phase = "SUBMISSION" => PlaceOf(row, order) = 0
           /\ row.phase = "VOTING" /\ row.stepStatus = "IDLE" => PlaceOf(row, order) = 1
           /\ row.stepStatus = "OPEN" =>
                PlaceOf(row, order) = 2 * row.step /\ 2 * row.step < Furthest - 1
           /\ row.stepStatus = "FINISHED" /\ ~row.completed =>
                PlaceOf(row, order) = IF order = << >> THEN 1 ELSE Furthest - 1
           /\ row.completed => PlaceOf(row, order) = Furthest
           /\ PlaceOf(row, order) \in Nat /\ PlaceOf(row, order) <= Furthest
           /\ row.phase = "VOTING" /\ ~row.completed => PlaceOf(row, order) >= 1
<1>1. Cardinality(Users) \in Nat /\ Len(order) \in Nat
    BY UsersAssumption, FS_CardinalityType
<1>2. Furthest \in Nat /\ Furthest = 2 * Cardinality(Users) + 2 /\ Furthest - 1 >= 1
    BY <1>1 DEF Furthest
<1>3. row.step \in Nat
    BY DEF RoundRow
<1>4. PICK two : two = 2 * row.step
    OBVIOUS
<1>5. CASE row.phase = "SUBMISSION"
    <2>1. row.stepStatus = "IDLE" /\ ~row.completed
        BY <1>5 DEF RowAgrees, RoundRow
    <2>2. PlaceOf(row, order) = 0
        BY <1>5, <2>1 DEF PlaceOf
    <2>. QED
        BY <1>2, <1>5, <2>1, <2>2
<1>6. CASE row.phase = "VOTING" /\ row.stepStatus = "IDLE"
    <2>1. ~row.completed
        BY <1>6 DEF RowAgrees, RoundRow
    <2>2. PlaceOf(row, order) = 1
        BY <1>6, <2>1 DEF PlaceOf
    <2>. QED
        BY <1>2, <1>6, <2>1, <2>2
<1>7. CASE row.phase = "VOTING" /\ row.stepStatus = "OPEN"
    <2>1. ~row.completed /\ row.step \in 1..Len(order)
        BY <1>7 DEF RowAgrees, RoundRow
    <2>2. PlaceOf(row, order) = two
        BY <1>4, <1>7, <2>1 DEF PlaceOf
    <2>3. two \in Nat /\ two < Furthest - 1 /\ two >= 1
        BY <1>1, <1>2, <1>3, <1>4, <2>1
    <2>. QED
        BY <1>2, <1>4, <1>7, <2>1, <2>2, <2>3
<1>8. CASE row.phase = "VOTING" /\ row.stepStatus = "FINISHED" /\ ~row.completed
    <2>1. PlaceOf(row, order) = IF order = << >> THEN 1 ELSE Furthest - 1
        BY <1>8 DEF PlaceOf
    <2>. QED
        BY <1>2, <1>8, <2>1
<1>9. CASE row.phase = "VOTING" /\ row.completed
    <2>1. row.stepStatus = "FINISHED"
        BY <1>9 DEF RowAgrees
    <2>2. PlaceOf(row, order) = Furthest
        BY <1>9, <2>1 DEF PlaceOf
    <2>. QED
        BY <1>2, <1>9, <2>1, <2>2
<1>10. /\ row.phase \in {"SUBMISSION", "VOTING"} /\ row.completed \in BOOLEAN
       /\ row.stepStatus \in {"IDLE", "OPEN", "FINISHED"}
    BY DEF RoundRow, Phases, StepStatuses
<1>. QED
    BY <1>5, <1>6, <1>7, <1>8, <1>9, <1>10

(* A row keeps its place until its round goes on.                          *)
LEMMA PlacesGrow ==
    ASSUME Known, [EventsNext]_allVars, NEW r \in Rounds, Exists(r)
    PROVE  /\ Exists(r)' /\ RowPlace(r) \in Nat /\ RowPlace(r)' \in Nat
           /\ RowPlace(r) <= RowPlace(r)'
<1>0. /\ rounds[r] \in RoundRow /\ RowAgrees(rounds[r], submissions[r])
      /\ rounds'[r] \in RoundRow /\ RowAgrees(rounds'[r], submissions'[r])
      /\ submissions[r] \in Seq(Users) /\ submissions'[r] \in Seq(Users)
      /\ Exists(r) /\ Exists(r)'
    BY KnownStep, RoundsStay DEF Known, Inv, TypeOK, VotingCursor
<1>1. RoundMoves(r)
    BY EventsAreSteps, RoundStep DEF Known, Inv
<1>2. Len(submissions[r]) <= Cardinality(Users) /\ Len(submissions'[r]) <= Cardinality(Users)
    <2>1. Known'
        BY KnownStep
    <2>2. Len(submissions'[r]) <= Cardinality(Users)
        BY <2>1, OrderFits DEF Known, Inv, OneSubmissionEach, TypeOK
    <2>. QED
        BY <2>2, OrderFits DEF Known, Inv, OneSubmissionEach, TypeOK
<1>6. PICK row : row = rounds[r]
    OBVIOUS
<1>7. PICK order : order = submissions[r]
    OBVIOUS
<1>8. PICK after : after = rounds'[r]
    OBVIOUS
<1>9. PICK later : later = submissions'[r]
    OBVIOUS
<1>10. /\ row \in RoundRow /\ RowAgrees(row, order) /\ row.phase # "NONE"
       /\ order \in Seq(Users) /\ Len(order) <= Cardinality(Users)
       /\ after \in RoundRow /\ RowAgrees(after, later) /\ after.phase # "NONE"
       /\ later \in Seq(Users) /\ Len(later) <= Cardinality(Users)
    BY <1>0, <1>2, <1>6, <1>7, <1>8, <1>9 DEF Exists
<1>11. PICK p : p = PlaceOf(row, order)
    OBVIOUS
<1>12. PICK q : q = PlaceOf(after, later)
    OBVIOUS
<1>13. /\ Furthest \in Nat /\ p \in Nat /\ q \in Nat /\ p <= Furthest
       /\ row.phase = "SUBMISSION" => p = 0
       /\ row.phase = "VOTING" /\ row.stepStatus = "IDLE" => p = 1
       /\ row.stepStatus = "OPEN" => p = 2 * row.step /\ 2 * row.step < Furthest - 1
       /\ after.phase = "VOTING" /\ ~after.completed => q >= 1
       /\ after.stepStatus = "OPEN" => q = 2 * after.step
       /\ after.stepStatus = "FINISHED" /\ ~after.completed /\ later # << >> => q = Furthest - 1
       /\ after.completed => q = Furthest
    BY <1>10, <1>11, <1>12, RowPlaces
<1>14. p <= q
    <2>1. CASE SameRow(r) /\ SameOrder(r)
        BY <1>6, <1>7, <1>8, <1>9, <1>11, <1>12, <1>13, <2>1 DEF SameRow, SameOrder
    <2>2. CASE Submitted(r) \/ Closed(r)
        BY <1>6, <1>13, <2>2 DEF Submitted, Closed
    <2>3. CASE Opened(r)
        <3>1. row.phase = "VOTING" /\ row.stepStatus = "IDLE" /\ ~row.completed
            BY <1>6, <1>10, <2>3 DEF Opened, RowAgrees, RoundRow
        <3>2. after.phase = "VOTING" /\ ~after.completed
            BY <1>6, <1>8, <1>10, <2>3, <3>1 DEF Opened, RoundRow
        <3>. QED
            BY <1>13, <3>1, <3>2
    <2>4. CASE Cast(r)
        BY <1>6, <1>7, <1>8, <1>9, <1>11, <1>12, <1>13, <2>4 DEF Cast, SameRow, SameOrder
    <2>5. CASE RevealedNext(r)
        <3>1. row.stepStatus = "OPEN" /\ after.stepStatus = "OPEN" /\ after.step = row.step + 1
            BY <1>6, <1>8, <1>10, <2>5 DEF RevealedNext, VotingOpen, RoundRow
        <3>2. row.step \in Nat
            BY <1>10 DEF RoundRow
        <3>. QED
            BY <1>13, <3>1, <3>2
    <2>6. CASE FinalizedLast(r)
        <3>1. /\ row.stepStatus = "OPEN" /\ row.step \in 1..Len(order) /\ later = order
              /\ after.stepStatus = "FINISHED"
            BY <1>6, <1>7, <1>8, <1>9, <1>10, <2>6
            DEF FinalizedLast, VotingOpen, SameOrder, RowAgrees, RoundRow
        <3>2. later # << >>
            BY <3>1
        <3>3. row.step \in Nat /\ after.completed \in BOOLEAN
            BY <1>10 DEF RoundRow
        <3>. QED
            BY <1>13, <3>1, <3>2, <3>3
    <2>7. CASE Completed(r)
        <3>1. after.completed
            BY <1>6, <1>8, <1>10, <2>7 DEF Completed, RoundRow
        <3>. QED
            BY <1>13, <3>1
    <2>8. ~Created(r)
        BY <1>0 DEF Created, Exists
    <2>. QED
        BY <1>1, <2>1, <2>2, <2>3, <2>4, <2>5, <2>6, <2>7, <2>8 DEF RoundMoves
<1>. QED
    BY <1>0, <1>6, <1>7, <1>8, <1>9, <1>11, <1>12, <1>13, <1>14 DEF RowPlace

(* A view that is true shows how far the current round is.                 *)
LEMMA TruthIsPlace ==
    ASSUME Known, NEW view, Truth(view), status = "ACTIVE"
    PROVE  /\ view.stage \in {"SUBMITTING", "CLOSED", "REVEALING", "FINALIZED", "SCORED"}
           /\ view.round \in Rounds /\ Exists(view.round)
           /\ Place(view) \in Nat /\ Place(view) = RowPlace(view.round)
<1>1. PICK r : r = CurrentRound
    OBVIOUS
<1>2. r \in Rounds /\ Exists(r)
    <2>1. Exists(1) /\ 1 \in Rounds
        BY SizesAssumption DEF Known, SequenceInv, Rounds
    <2>. QED
        BY <1>1, <2>1, CurrentExists, SizesAssumption DEF Known, Rounds
<1>3. PICK row : row = rounds[r]
    OBVIOUS
<1>4. PICK order : order = submissions[r]
    OBVIOUS
<1>5. /\ row \in RoundRow /\ RowAgrees(row, order) /\ row.phase \in {"SUBMISSION", "VOTING"}
      /\ order \in Seq(Users) /\ Len(order) <= Cardinality(Users) /\ Len(order) \in Nat
    <2>1. row \in RoundRow /\ RowAgrees(row, order) /\ order \in Seq(Users) /\ IsInjective(order)
        BY <1>2, <1>3, <1>4 DEF Known, Inv, TypeOK, VotingCursor, OneSubmissionEach
    <2>2. row.phase \in {"SUBMISSION", "VOTING"}
        BY <1>2, <1>3, <2>1 DEF Exists, RoundRow, Phases
    <2>3. Len(order) <= Cardinality(Users) /\ Len(order) \in Nat
        BY <2>1, OrderFits, LenProperties
    <2>. QED
        BY <2>1, <2>2, <2>3
<1>6. /\ Step = row.step /\ Total = Len(order)
      /\ row.phase = "SUBMISSION" => Stage = "SUBMITTING"
      /\ row.phase = "VOTING" /\ row.stepStatus = "IDLE" => Stage = "CLOSED"
      /\ row.phase = "VOTING" /\ row.stepStatus = "OPEN" => Stage = "REVEALING"
      /\ row.phase = "VOTING" /\ row.stepStatus = "FINISHED" /\ ~row.completed => Stage = "VOTED"
      /\ row.completed => Stage = "SCORED"
    BY <1>1, <1>2, <1>3, <1>4, StageIs DEF VotingOpen, VotingFinished
<1>7. PICK p : p = PlaceOf(row, order)
    OBVIOUS
<1>8. PICK f : f = Furthest
    OBVIOUS
<1>9. /\ f \in Nat /\ f - 1 >= 1 /\ p \in Nat
      /\ row.phase = "SUBMISSION" => p = 0
      /\ row.phase = "VOTING" /\ row.stepStatus = "IDLE" => p = 1
      /\ row.stepStatus = "OPEN" => p = 2 * row.step
      /\ row.stepStatus = "FINISHED" /\ ~row.completed => p = IF order = << >> THEN 1 ELSE f - 1
      /\ row.completed => p = f
    BY <1>5, <1>7, <1>8, RowPlaces
<1>10. /\ view.stage = "SUBMITTING" => Place(view) = 0
       /\ view.stage = "CLOSED" => Place(view) = 1
       /\ view.stage = "REVEALING" => Place(view) = 2 * view.step
       /\ view.stage = "FINALIZED" => Place(view) = f - 1
       /\ view.stage = "SCORED" => Place(view) = f
    <2>1. Cardinality(Users) \in Nat
        BY UsersAssumption, FS_CardinalityType
    <2>2. f = 2 * Cardinality(Users) + 2 /\ f - 1 = 2 * Cardinality(Users) + 1
        BY <1>8, <2>1 DEF Furthest
    <2>. QED
        BY <2>2 DEF Place
<1>11. view.round = r \/ Stage = "COMPLETED"
    BY <1>1 DEF Truth
<1>12. view.stage = StageShown
    BY DEF Truth
<1>13. CASE row.phase = "SUBMISSION"
    BY <1>6, <1>9, <1>10, <1>11, <1>12, <1>13, <1>2, <1>3, <1>4, <1>7 DEF StageShown, RowPlace
<1>14. CASE row.phase = "VOTING" /\ row.stepStatus = "IDLE"
    BY <1>6, <1>9, <1>10, <1>11, <1>12, <1>14, <1>2, <1>3, <1>4, <1>7 DEF StageShown, RowPlace
<1>15. CASE row.phase = "VOTING" /\ row.stepStatus = "OPEN"
    <2>1. view.stage = "REVEALING" /\ view.step = row.step /\ view.round = r
        BY <1>6, <1>11, <1>12, <1>15 DEF StageShown, Truth
    <2>. QED
        BY <1>9, <1>10, <1>15, <2>1, <1>2, <1>3, <1>4, <1>7 DEF RowPlace
<1>16. CASE row.phase = "VOTING" /\ row.stepStatus = "FINISHED" /\ ~row.completed
    <2>1. Stage = "VOTED" /\ view.round = r
        BY <1>6, <1>11, <1>16
    <2>2. CASE order = << >>
        BY <1>2, <1>3, <1>4, <1>6, <1>7, <1>9, <1>10, <1>12, <1>16, <2>1, <2>2 DEF StageShown, RowPlace
    <2>3. CASE order # << >>
        <3>1. Total > 0
            BY <1>5, <1>6, <2>3
        <3>. QED
            BY <1>2, <1>3, <1>4, <1>7, <1>9, <1>10, <1>12, <1>16, <2>1, <2>3, <3>1 DEF StageShown, RowPlace
    <2>. QED
        BY <2>2, <2>3
<1>17. CASE row.completed
    BY <1>6, <1>9, <1>10, <1>11, <1>12, <1>17, <1>2, <1>3, <1>4, <1>7 DEF StageShown, RowPlace
<1>18. row.stepStatus \in {"IDLE", "OPEN", "FINISHED"}
    BY <1>5 DEF RoundRow, StepStatuses
<1>. QED
    BY <1>5, <1>13, <1>14, <1>15, <1>16, <1>17, <1>18

(* What was reached is never undone.                                       *)
LEMMA ReachedStays ==
    ASSUME Known, [EventsNext]_allVars, NEW view, Reached(view)
    PROVE  Reached(view)'
<1>1. status = "COMPLETED" => status' = "COMPLETED"
    BY StandingsSettled
<1>2. status = "CANCELLED" => status' = "CANCELLED"
    BY EventsAreSteps, StatusMoves
<1>3. CASE /\ view.stage \in {"SUBMITTING", "CLOSED", "REVEALING", "FINALIZED", "SCORED"}
           /\ view.round \in Rounds /\ Exists(view.round)
           /\ Place(view) \in Nat /\ Place(view) <= RowPlace(view.round)
    <2>1. PICK r \in Rounds : r = view.round
        BY <1>3
    <2>2. Exists(r)' /\ RowPlace(r) \in Nat /\ RowPlace(r)' \in Nat /\ RowPlace(r) <= RowPlace(r)'
        BY <1>3, <2>1, PlacesGrow
    <2>3. PICK p : p = Place(view)
        OBVIOUS
    <2>4. p \in Nat /\ p <= RowPlace(r) /\ Place(view)' = p
        BY <1>3, <2>1, <2>3 DEF Place
    <2>5. p <= RowPlace(r)'
        BY <2>2, <2>4
    <2>. QED
        BY <1>3, <2>1, <2>2, <2>4, <2>5 DEF Reached
<1>. QED
    BY <1>1, <1>2, <1>3 DEF Reached

(* What is true of the tournament now is past all that was told.           *)
LEMMA TruthIsOnward ==
    ASSUME Known, NEW view, Truth(view), status \in {"ACTIVE", "COMPLETED", "CANCELLED"},
           NEW far, Reached(far)
    PROVE  Onward(far, view) /\ Reached(PointOf(view))
<1>1. CASE status # "ACTIVE"
    <2>1. view.stage = status
        BY <1>1 DEF Truth, StageShown, Stage
    <2>2. PointOf(view).stage = status
        BY <2>1 DEF PointOf
    <2>. QED
        BY <1>1, <2>1, <2>2 DEF Reached, Onward
<1>2. CASE status = "ACTIVE"
    <2>1. /\ view.stage \in {"SUBMITTING", "CLOSED", "REVEALING", "FINALIZED", "SCORED"}
          /\ view.round \in Rounds /\ Exists(view.round)
          /\ Place(view) \in Nat /\ Place(view) = RowPlace(view.round)
        BY <1>2, TruthIsPlace
    <2>2. Reached(PointOf(view))
        <3>1. /\ PointOf(view).stage = view.stage /\ PointOf(view).round = view.round
              /\ Place(PointOf(view)) = Place(view)
            BY DEF PointOf, Place
        <3>. QED
            BY <2>1, <3>1 DEF Reached
    <2>3. view.round = CurrentRound
        BY <1>2, <2>1 DEF Truth, StageShown, Stage
    <2>4. CASE far.stage = "DRAFT"
        BY <2>2, <2>4 DEF Onward
    <2>5. CASE /\ far.round \in Rounds /\ Exists(far.round)
               /\ Place(far) \in Nat /\ Place(far) <= RowPlace(far.round)
        <3>1. far.round <= view.round /\ far.round \in Int /\ view.round \in Int
            BY <2>1, <2>3, <2>5, CurrentExists DEF Known, Rounds
        <3>2. far.round = view.round => Place(view) >= Place(far)
            BY <2>1, <2>5
        <3>. QED
            BY <2>2, <3>1, <3>2 DEF Onward
    <2>. QED
        BY <1>2, <2>4, <2>5 DEF Reached
<1>. QED
    BY <1>1, <1>2

(* What clients are told is past all that was told before, but for a       *)
(* counter that comes late.                                                *)
LEMMA NewsGoesOn ==
    ASSUME Known, EventsInv, Shaped, Prompt, [EventsNext]_allVars,
           NEW far, far = furthest, Reached(far), NEW new, new = announced', new # announced
    PROVE  /\ Onward(far, new) \/ LateCounter
           /\ Reached(PointOf(new))
<1>0. /\ TypeOK /\ ResultOK /\ behind \in BOOLEAN /\ tasks \in [Workers -> Task]
      /\ announced \in View /\ Agrees(announced)
    BY DEF Known, Inv, EventsInv, TypeOK, Agrees
<1>1. ASSUME NEW w \in Workers, Hearing(w) PROVE Onward(far, new) /\ Reached(PointOf(new))
    <2>1. Pending(w) /\ new = HearAll(announced, result[w])
        BY <1>1 DEF Hearing, Emits, Tells, HearAll, Pending
    <2>2. Truth(new)
        BY <1>0, <2>1, NewsIsTrue
    <2>3. status \in {"ACTIVE", "COMPLETED", "CANCELLED"}
        BY <2>1, PendingRow
    <2>. QED
        BY <2>2, <2>3, TruthIsOnward
<1>2. ASSUME NEW w \in Workers, Counting(w)
      PROVE  /\ Onward(far, new) \/ LateCounter
             /\ Reached(PointOf(new))
    <2>1. PICK r : r = tasks[w].round
        OBVIOUS
    <2>2. /\ tasks[w].pc = "countingSubmissions" /\ new = Hear(announced, Progress(r))
          /\ UNCHANGED result
        BY <1>2, <2>1 DEF Counting, EventsCountSubmissions, CountSubmissions, Tells
    <2>3. r \in Rounds
        BY <1>0, <1>2, <2>1, <2>2 DEF Counting, EventsCountSubmissions, CountSubmissions, Task
    <2>4. Exists(r)
        BY <2>1, <2>2, <2>3 DEF EventsInv, CountersKnow, WillCount
    <2>5. new.stage = "SUBMITTING" /\ new.round = r
        BY <1>0, <2>2, <2>3, HearShows, ProgressType
    <2>6. CASE rounds[r].phase = "SUBMISSION"
        <3>1. Truth(new)
            BY <1>0, <2>2, <2>3, <2>6, CountsInTime
        <3>2. status = "ACTIVE"
            BY <1>0, <2>5, <3>1 DEF Truth, StageShown, Stage, TypeOK, Statuses
        <3>. QED
            BY <3>1, <3>2, TruthIsOnward
    <2>7. CASE rounds[r].phase # "SUBMISSION"
        <3>1. LateCounter
            BY <2>2, <2>5, <2>7 DEF LateCounter
        <3>2. Reached(PointOf(new))
            <4>1. PointOf(new).stage = "SUBMITTING" /\ PointOf(new).round = r
                BY <2>5 DEF PointOf
            <4>2. Place(PointOf(new)) = 0
                BY <4>1 DEF Place
            <4>3. RowPlace(r) \in Nat
                BY <2>3, <2>4, PlacesGrow
            <4>. QED
                BY <2>3, <2>4, <4>1, <4>2, <4>3 DEF Reached
        <3>. QED
            BY <3>1, <3>2
    <2>. QED
        BY <2>6, <2>7
<1>. QED
    BY <1>0, <1>1, <1>2, EventMoves
    DEF Known, Quiet, eventVars, Announcing, Losing, Joining, EventsJoin, Cancelling, EventsCancel

(* The furthest point that was told is one that was reached.               *)
LEMMA FurthestIsReached ==
    ASSUME Known, EventsInv, Shaped, Prompt, [EventsNext]_allVars,
           Reached(furthest), Reached(PointOf(announced))
    PROVE  /\ Reached(furthest)' /\ Reached(PointOf(announced))'
           /\ announced' # announced => Onward(furthest, announced') \/ LateCounter
<1>1. PICK far : far = furthest
    OBVIOUS
<1>2. PICK new : new = announced'
    OBVIOUS
<1>3. PICK point : point = furthest'
    OBVIOUS
<1>4. PICK now : now = PointOf(new)
    OBVIOUS
<1>5. Reached(far)
    BY <1>1
<1>6. new # announced => (Onward(far, new) \/ LateCounter) /\ Reached(now)
    BY <1>1, <1>2, <1>4, <1>5, NewsGoesOn
<1>7. Reached(now)
    BY <1>2, <1>4, <1>6
<1>8. Reached(point)
    <2>1. point = far \/ point = now
        BY <1>1, <1>2, <1>3, <1>4, FurthestMoves
    <2>. QED
        BY <1>5, <1>7, <2>1
<1>9. Reached(point)' /\ Reached(now)'
    BY <1>7, <1>8, ReachedStays
<1>10. Reached(furthest)'
    BY <1>3, <1>9 DEF Reached, Place, Exists, RowPlace
<1>11. Reached(PointOf(announced))'
    <2>1. now = PointOf(announced)'
        BY <1>2, <1>4 DEF PointOf
    <2>. QED
        BY <1>9, <2>1 DEF Reached, Place, Exists, RowPlace
<1>. QED
    BY <1>1, <1>2, <1>6, <1>10, <1>11

(* Whatever is lost, and however often a transaction is repeated after a   *)
(* fault, no event takes the clients back, or leaves them back, but one:   *)
(* the counter of a submission phase that has been closed since.           *)
THEOREM EventsGoOn == RepliesInOrder => (EventsSpec => NeverBackwards)
<1>. SUFFICES ASSUME RepliesInOrder PROVE EventsSpec => NeverBackwards
    OBVIOUS
<1>1. EventsInit => Telling /\ Reached(furthest) /\ Reached(PointOf(announced))
    BY TellingInit DEF EventsInit, Reached, NoView, PointOf
<1>2. Telling /\ Reached(furthest) /\ Reached(PointOf(announced)) /\ [EventsNext]_allVars
          => /\ Telling' /\ Reached(furthest)' /\ Reached(PointOf(announced))'
             /\ announced' # announced => Onward(furthest, announced') \/ LateCounter
    BY TellingStep, FurthestIsReached DEF Telling
<1>. QED
    BY <1>1, <1>2, PTL DEF EventsSpec, NeverBackwards

=============================================================================
