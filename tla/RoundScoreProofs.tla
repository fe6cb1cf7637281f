-------------------------- MODULE RoundScoreProofs --------------------------
(***************************************************************************)
(* What TLAPS proves of the scores of RoundLifecycle and of the answers of *)
(* RoundQueries.  The ledger needs to know who can be missing from the     *)
(* standings when a round is counted: an author who has left, and only     *)
(* those who asked to leave do.                                            *)
(***************************************************************************)
EXTENDS RoundQueries, RoundLifecycleProofs, SumTheorems

-----------------------------------------------------------------------------
(* The steps that touch scores, participants and leavers.                  *)

Counts(w) ==
    /\ CompleteRound(w)
    /\ VotingFinished(tasks[w].round)
    /\ status = "ACTIVE"

(* Scores change when somebody leaves and when a round is counted.         *)
LEMMA ScoreWriters ==
    ASSUME [Next]_vars
    PROVE  \/ UNCHANGED <<score, roundScore>>
           \/ \E w \in Workers : Leave(w)
           \/ \E w \in Workers : Counts(w)
<1>. USE DEF tournamentVars, contentVars
<1>1. ASSUME NEW w \in Workers, TaskStep(w)
      PROVE  UNCHANGED <<score, roundScore>> \/ Leave(w) \/ Counts(w)
    BY <1>1 DEF TaskStep, ArmSubmissionTimer, HandleSubmissionSaved, CountSubmissions,
                CloseSubmissions, CancelSubmissionTimer, OpenVoting, ArmVotingTimer,
                CheckVotingFinished, HandleVoteSaved, CountVotes, BeginFinalization, Finalize,
                AfterFinalize, CompleteRound, FinishTournament, CreateNextRound, Counts,
                FindParticipant
<1>2. ASSUME NEW w \in Workers, Request(w) PROVE UNCHANGED <<score, roundScore>>
    BY <1>2 DEF Request, Start, AskToLeave, Submit, CastVote
<1>3. CASE UNCHANGED vars
    BY <1>3 DEF vars
<1>. QED
    BY <1>1, <1>2, <1>3
    DEF Next, Cancel, Join, SubmissionDeadlinePasses, VotingDeadlinePasses,
        SubmissionTimerFires, VotingTimerFires, CrashRestart, RequestFails, ReplyLost

(* A participant is lost when the draft is cancelled, and by leaving.      *)
LEMMA ParticipantWriters ==
    ASSUME [Next]_vars
    PROVE  \/ participants \subseteq participants'
           \/ Cancel
           \/ \E w \in Workers : Leave(w)
<1>. USE DEF tournamentVars
<1>1. ASSUME NEW w \in Workers, TaskStep(w)
      PROVE  UNCHANGED participants \/ Leave(w)
    BY <1>1 DEF TaskStep, ArmSubmissionTimer, HandleSubmissionSaved, CountSubmissions,
                CloseSubmissions, CancelSubmissionTimer, OpenVoting, ArmVotingTimer,
                CheckVotingFinished, HandleVoteSaved, CountVotes, BeginFinalization, Finalize,
                AfterFinalize, CompleteRound, FinishTournament, CreateNextRound, FindParticipant
<1>2. ASSUME NEW w \in Workers, Request(w) PROVE UNCHANGED participants
    BY <1>2 DEF Request, Start, AskToLeave, Submit, CastVote
<1>3. CASE UNCHANGED vars
    BY <1>3 DEF vars
<1>. QED
    BY <1>1, <1>2, <1>3
    DEF Next, Join, SubmissionDeadlinePasses, VotingDeadlinePasses,
        SubmissionTimerFires, VotingTimerFires, CrashRestart, RequestFails, ReplyLost

(* A round becomes completed when it is counted, and not otherwise.        *)
LEMMA CompletedWriters ==
    ASSUME Inv, [Next]_vars, NEW q \in Rounds
    PROVE  \/ rounds'[q].completed = rounds[q].completed
           \/ \E w \in Workers : Counts(w) /\ tasks[w].round = q
<1>1. /\ rounds \in [Rounds -> RoundRow] /\ 1 \in Rounds
      /\ \A w \in Workers : tasks[w].round \in Rounds
    BY SizesAssumption DEF Inv, TypeOK, Task, Rounds
<1>2. \A r \in Rounds : ~Exists(r) => rounds[r].completed = FALSE
    BY <1>1, CompletedExists DEF RoundRow
<1>3. \A prompt \in Prompts : NewRound(prompt).completed = FALSE
    BY DEF NewRound, NoRound
<1>4. ASSUME NEW w \in Workers, Start(w) PROVE rounds'[q].completed = rounds[q].completed
    <2>1. PICK prompt \in Prompts : rounds' = [rounds EXCEPT ![1] = NewRound(prompt)]
        BY <1>4 DEF Start, UnusedPrompts
    <2>2. ~Exists(1)
        BY <1>1, <1>4 DEF Start, Inv, NothingBeforeStart
    <2>. QED
        BY <1>1, <1>2, <1>3, <2>1, <2>2
<1>5. ASSUME NEW w \in Workers, CloseSubmissions(w)
      PROVE  rounds'[q].completed = rounds[q].completed
    BY <1>1, <1>5 DEF CloseSubmissions, RoundRow
<1>6. ASSUME NEW w \in Workers, OpenVoting(w)
      PROVE  rounds'[q].completed = rounds[q].completed
    BY <1>1, <1>6 DEF OpenVoting, RoundRow
<1>7. ASSUME NEW w \in Workers, Finalize(w)
      PROVE  rounds'[q].completed = rounds[q].completed
    BY SMTT(30), <1>1, <1>7 DEF Finalize, RoundRow
<1>8. ASSUME NEW w \in Workers, CompleteRound(w)
      PROVE  \/ rounds'[q].completed = rounds[q].completed
             \/ Counts(w) /\ tasks[w].round = q
    BY <1>1, <1>8 DEF CompleteRound, Counts, RoundRow
<1>9. ASSUME NEW w \in Workers, CreateNextRound(w)
      PROVE  rounds'[q].completed = rounds[q].completed
    <2>1. CASE rounds' = rounds
        BY <2>1
    <2>2. CASE \E prompt \in Prompts :
                  /\ ~Exists(tasks[w].round + 1)
                  /\ rounds' = [rounds EXCEPT ![tasks[w].round + 1] = NewRound(prompt)]
        BY <1>1, <1>2, <1>3, <2>2
    <2>. QED
        BY <1>9, <2>1, <2>2 DEF CreateNextRound, UnusedPrompts
<1>. QED
    BY <1>4, <1>5, <1>6, <1>7, <1>8, <1>9, RowWriters DEF Submit, CastVote

-----------------------------------------------------------------------------
(* Who can be missing from the standings.                                  *)

Leaves(w) == tasks[w].pc \in {"leaving", "deleting"}

Leavers ==
    /\ \A w \in Workers : Leaves(w) => tasks[w].user \in MayLeave
    /\ \A r \in Rounds : SubmittedIn(r) \ MayLeave \subseteq participants

NoNewLeaver ==
    \A v \in Workers : Leaves(v)' => Leaves(v) /\ tasks'[v].user = tasks[v].user

(* The ways a handler moves on, but for a request to leave, begin none.    *)
LEMMA MovesBeginNoLeaving ==
    ASSUME TypeOK, NEW w \in Workers
    PROVE  /\ \A pc \in Steps \ {"leaving", "deleting"}, r \in Rounds :
                Begin(w, pc, r) \/ BeginOnDeadline(w, pc, r) \/ Goto(w, pc) => NoNewLeaver
           /\ Finish(w) => NoNewLeaver
           /\ Leaves(w) /\ Goto(w, "deleting") => NoNewLeaver
<1>1. tasks \in [Workers -> Task] /\ IdleTask \in Task
    BY IdleTaskType DEF TypeOK
<1>2. IdleTask.pc \notin {"leaving", "deleting"}
    BY DEF IdleTask
<1>3. ASSUME NEW pc \in Steps \ {"leaving", "deleting"}, NEW r \in Rounds
      PROVE  Begin(w, pc, r) \/ BeginOnDeadline(w, pc, r) \/ Goto(w, pc) => NoNewLeaver
    <2>1. /\ [IdleTask EXCEPT !.pc = pc, !.round = r].pc = pc
          /\ [IdleTask EXCEPT !.pc = pc, !.round = r, !.reason = "DEADLINE_EXPIRED"].pc = pc
          /\ [tasks[w] EXCEPT !.pc = pc].pc = pc
        BY <1>1 DEF Task
    <2>. QED
        BY <1>1, <2>1 DEF Begin, BeginOnDeadline, Goto, NoNewLeaver, Leaves
<1>4. Leaves(w) /\ Goto(w, "deleting") => NoNewLeaver
    <2>1. [tasks[w] EXCEPT !.pc = "deleting"].user = tasks[w].user
        BY <1>1 DEF Task
    <2>. QED
        BY <1>1, <2>1 DEF Goto, NoNewLeaver, Leaves
<1>. QED
    BY <1>1, <1>2, <1>3, <1>4 DEF Finish, NoNewLeaver, Leaves

(* Nobody begins to leave without having asked to.                         *)
LEMMA LeavingStep ==
    ASSUME TypeOK, [Next]_vars
    PROVE  NoNewLeaver \/ \E w \in Workers, u \in Users : AskToLeave(w, u)
<1>0. /\ tasks \in [Workers -> Task] /\ \A w \in Workers : tasks[w].round \in Rounds
      /\ 1 \in Rounds
    BY SizesAssumption DEF TypeOK, Task, Rounds
<1>1. CASE UNCHANGED tasks
    BY <1>1 DEF NoNewLeaver, Leaves
<1>2. ASSUME NEW w \in Workers, CountSubmissions(w) PROVE NoNewLeaver
    <2>1. \A online : [tasks[w] EXCEPT !.pc = "closing", !.online = online,
                          !.reason = "ALL_ACTIVE_PARTICIPANTS_SUBMITTED"].pc = "closing"
        BY <1>0 DEF Task
    <2>. QED
        BY <1>0, <1>2, <2>1, MovesBeginNoLeaving DEF CountSubmissions, NoNewLeaver, Leaves
<1>3. ASSUME NEW w \in Workers, OpenVoting(w) PROVE NoNewLeaver
    <2>1. [tasks[w] EXCEPT !.pc = "opened", !.step = 1].pc = "opened"
        BY <1>0 DEF Task
    <2>. QED
        BY <1>0, <1>3, <2>1, MovesBeginNoLeaving DEF OpenVoting, NoNewLeaver, Leaves, Steps
<1>4. ASSUME NEW w \in Workers, HandleVoteSaved(w) PROVE NoNewLeaver
    <2>1. \A a : [tasks[w] EXCEPT !.pc = "countingVotes", !.user = a].pc = "countingVotes"
        BY <1>0 DEF Task
    <2>. QED
        BY <1>0, <1>4, <2>1, MovesBeginNoLeaving DEF HandleVoteSaved, NoNewLeaver, Leaves
<1>5. ASSUME NEW w \in Workers, CountVotes(w) PROVE NoNewLeaver
    <2>1. \A online : [tasks[w] EXCEPT !.pc = "finalizing", !.online = online,
                          !.reason = "ALL_ACTIVE_ELIGIBLE_VOTERS_VOTED"].pc = "finalizing"
        BY <1>0 DEF Task
    <2>. QED
        BY <1>0, <1>5, <2>1, MovesBeginNoLeaving DEF CountVotes, NoNewLeaver, Leaves
<1>6. ASSUME NEW w \in Workers, Finalize(w) PROVE NoNewLeaver
    <2>1. \A n : [tasks[w] EXCEPT !.pc = "finalized", !.voters = {}, !.step = n].pc = "finalized"
        BY <1>0 DEF Task
    <2>. QED
        BY ZenonT(30), <1>0, <1>6, <2>1 DEF Finalize, NoNewLeaver, Leaves
<1>7. ASSUME NEW w \in Workers, CreateNextRound(w) PROVE NoNewLeaver
    <2>1. \A r : [tasks[w] EXCEPT !.pc = "arming", !.round = r].pc = "arming"
        BY <1>0 DEF Task
    <2>. QED
        BY <1>0, <1>7, <2>1, MovesBeginNoLeaving DEF CreateNextRound, NoNewLeaver, Leaves
<1>14. ASSUME NEW w \in Workers, BeginFinalization(w) PROVE NoNewLeaver
    <2>1. \A voters : [tasks[w] EXCEPT !.pc = "filling", !.voters = voters].pc = "filling"
        BY <1>0 DEF Task
    <2>. QED
        BY ZenonT(30), <1>0, <1>14, <2>1, MovesBeginNoLeaving
        DEF BeginFinalization, NoNewLeaver, Leaves
<1>15. ASSUME NEW w \in Workers, FindParticipant(w) PROVE NoNewLeaver
    BY <1>15, MovesBeginNoLeaving DEF FindParticipant, Leaves
<1>8. CASE CrashRestart
    BY <1>8 DEF CrashRestart, NoNewLeaver, Leaves, IdleTask
<1>9. ASSUME NEW w \in Workers, TaskStep(w) PROVE NoNewLeaver
    BY <1>0, <1>2, <1>3, <1>4, <1>5, <1>6, <1>7, <1>9, <1>14, <1>15,
       MovesBeginNoLeaving
    DEF TaskStep, FindParticipant, Leave, ArmSubmissionTimer, HandleSubmissionSaved, CloseSubmissions,
        CancelSubmissionTimer, ArmVotingTimer, CheckVotingFinished, AfterFinalize,
        CompleteRound, FinishTournament, Steps
<1>10. ASSUME NEW w \in Workers, Request(w)
       PROVE  NoNewLeaver \/ \E u \in Users : AskToLeave(w, u)
    BY <1>0, <1>10, MovesBeginNoLeaving DEF Request, Start, Submit, CastVote, Steps
<1>11. ASSUME NEW r \in Rounds, SubmissionTimerFires(r) \/ VotingTimerFires(r)
       PROVE  NoNewLeaver
    BY <1>11, MovesBeginNoLeaving DEF SubmissionTimerFires, VotingTimerFires, Steps
<1>12. ASSUME NEW w \in Workers, RequestFails(w) \/ ReplyLost(w) PROVE NoNewLeaver
    BY <1>12, MovesBeginNoLeaving DEF RequestFails, ReplyLost
<1>13. CASE \/ Cancel
            \/ \E u \in Users : Join(u)
            \/ \E r \in Rounds : SubmissionDeadlinePasses(r) \/ VotingDeadlinePasses(r)
            \/ UNCHANGED vars
    BY <1>1, <1>13 DEF Cancel, Join, SubmissionDeadlinePasses, VotingDeadlinePasses, vars
<1>. QED
    BY <1>8, <1>9, <1>10, <1>11, <1>12, <1>13 DEF Next

(* Who sends a submission again is one of its authors already.             *)
LEMMA ResubmittedAuthors ==
    ASSUME NEW order \in Seq(Users), NEW a \in {order[i] : i \in 1..Len(order)}, a \in Users,
           NEW k \in 1..Len(Resubmitted(a, order))
    PROVE  Resubmitted(a, order)[k] \in {order[i] : i \in 1..Len(order)}
<1>. DEFINE i == PositionOf(a, order)
            rest == SubSeq(order, 1, i - 1) \o SubSeq(order, i + 1, Len(order))
<1>1. i \in 1..Len(order) /\ order[i] = a /\ Len(order) \in Nat
    BY PositionIsThere, LenProperties
<1>2. Resubmitted(a, order) = Append(rest, a)
    BY DEF Resubmitted
<1>. HIDE DEF i
<1>3. /\ rest \in Seq(Users) /\ Len(rest) = Len(order) - 1
      /\ \A j \in 1..(Len(order) - 1) : rest[j] = IF j < i THEN order[j] ELSE order[j + 1]
    BY <1>1, WithoutPosition
<1>. HIDE DEF rest
<1>4. /\ Len(Append(rest, a)) = Len(order)
      /\ \A j \in 1..(Len(order) - 1) : Append(rest, a)[j] = rest[j]
      /\ Append(rest, a)[Len(order)] = a
    BY <1>1, <1>3, AppendProperties
<1>5. CASE k = Len(order)
    BY <1>2, <1>4, <1>5
<1>6. CASE k # Len(order)
    <2>1. k \in 1..(Len(order) - 1)
        BY <1>1, <1>2, <1>4, <1>6
    <2>2. \E j \in 1..Len(order) : rest[k] = order[j]
        BY <1>1, <1>3, <2>1
    <2>. QED
        BY <1>2, <1>4, <2>1, <2>2
<1>. QED
    BY <1>5, <1>6

(* A new author is a participant.                                          *)
LEMMA NewAuthor ==
    ASSUME Inv, [Next]_vars, NEW q \in Rounds, NEW a \in SubmittedIn(q)', a \notin SubmittedIn(q)
    PROVE  a \in participants /\ participants' = participants
<1>1. submissions \in [Rounds -> Seq(Users)]
    BY DEF Inv, TypeOK
<1>2. submissions'[q] # submissions[q]
    BY DEF SubmittedIn
<1>3. PICK w \in Workers, r \in Rounds, u \in Users : Submit(w, r, u)
    BY <1>2, RowWriters DEF Start, CloseSubmissions, OpenVoting, Finalize, CompleteRound,
                            CreateNextRound, CastVote, contentVars
<1>4. /\ participants' = participants /\ u \in participants /\ q = r
      /\ submissions'[q] = IF u \in SubmittedIn(q) THEN Resubmitted(u, submissions[q])
                                                   ELSE Append(submissions[q], u)
    BY <1>1, <1>2, <1>3 DEF Submit, tournamentVars
<1>5. PICK k \in 1..Len(submissions'[q]) : submissions'[q][k] = a
    BY DEF SubmittedIn
<1>6. CASE u \in SubmittedIn(q)
    BY <1>1, <1>4, <1>5, <1>6, ResubmittedAuthors DEF SubmittedIn
<1>7. CASE u \notin SubmittedIn(q)
    <2>1. /\ Len(submissions[q]) \in Nat
          /\ Len(Append(submissions[q], u)) = Len(submissions[q]) + 1
          /\ \A j \in 1..Len(submissions[q]) : Append(submissions[q], u)[j] = submissions[q][j]
          /\ Append(submissions[q], u)[Len(submissions[q]) + 1] = u
        BY <1>1, AppendProperties, LenProperties
    <2>2. k = Len(submissions[q]) + 1
        BY <1>4, <1>5, <1>7, <2>1 DEF SubmittedIn
    <2>. QED
        BY <1>4, <1>5, <1>7, <2>1, <2>2
<1>. QED
    BY <1>6, <1>7

(* Every author is a participant, but for those who asked to leave: a      *)
(* draft that can be cancelled has no authors.                             *)
LEMMA LeaversStep ==
    ASSUME Inv, Leavers, [Next]_vars
    PROVE  Leavers'
<1>1. ASSUME NEW v \in Workers, Leaves(v)' PROVE tasks'[v].user \in MayLeave
    <2>1. CASE NoNewLeaver
        BY <1>1, <2>1 DEF NoNewLeaver, Leavers
    <2>2. ASSUME NEW w \in Workers, NEW u \in Users, AskToLeave(w, u)
          PROVE  tasks'[v].user \in MayLeave
        <3>1. [IdleTask EXCEPT !.pc = "leaving", !.user = u].user = u
            BY DEF IdleTask
        <3>2. tasks \in [Workers -> Task]
            BY DEF Inv, TypeOK
        <3>. QED
            BY <1>1, <2>2, <3>1, <3>2 DEF AskToLeave, Leavers, Leaves
    <2>. QED
        BY <2>1, <2>2, LeavingStep DEF Inv
<1>2. ASSUME NEW r \in Rounds, NEW a \in SubmittedIn(r)', a \notin MayLeave
      PROVE  a \in participants'
    <2>1. CASE a \notin SubmittedIn(r)
        BY <1>2, <2>1, NewAuthor
    <2>2. CASE a \in SubmittedIn(r)
        <3>1. a \in participants
            BY <1>2, <2>2 DEF Leavers
        <3>2. ~Cancel
            <4>1. status # "DRAFT"
                <5>. SUFFICES ASSUME status = "DRAFT" PROVE FALSE
                    OBVIOUS
                <5>1. submissions[r] = << >>
                    BY DEF Inv, NothingBeforeStart, Exists, VotingCursor, RowAgrees
                <5>. QED
                    BY <2>2, <5>1, EmptySeq DEF SubmittedIn
            <4>. QED
                BY <4>1 DEF Cancel
        <3>3. ASSUME NEW w \in Workers, Leave(w) PROVE a \in participants'
            BY <1>2, <3>1, <3>3 DEF Leave, Leavers, Leaves
        <3>. QED
            BY <3>1, <3>2, <3>3, ParticipantWriters
    <2>. QED
        BY <2>1, <2>2
<1>. QED
    BY <1>1, <1>2 DEF Leavers

-----------------------------------------------------------------------------
(* The ledger.                                                             *)

(* A likeless author has no points, and neither has who is no author.      *)
LEMMA PointsAreLikes ==
    ASSUME Inv, NEW r \in Rounds, NEW a \in Users
    PROVE  PointsIn(r)[a] = Likes(r, a)
<1>1. CASE a \in SubmittedIn(r)
    BY <1>1 DEF PointsIn
<1>2. CASE a \notin SubmittedIn(r)
    <2>1. {v \in Users : votes[r][a][v] = "LIKE"} = {}
        BY <1>2 DEF Inv, BallotsAreLegal, SubmittedIn
    <2>. QED
        BY <1>2, <2>1, FS_EmptySet DEF PointsIn, Likes
<1>. QED
    BY <1>1, <1>2

(* The votes of a completed round do not change any more.                  *)
LEMMA CompletedVotes ==
    ASSUME Inv, [Next]_vars, NEW r \in Rounds, rounds[r].completed
    PROVE  votes'[r] = votes[r]
<1>1. rounds[r].stepStatus = "FINISHED" /\ Exists(r)
    BY CompletedExists DEF Inv, VotingCursor, RowAgrees
<1>. QED
    BY <1>1, RoundStep
    DEF Inv, RoundMoves, SameVotes, Created, Submitted, Closed, Opened, Cast, RevealedNext,
        FinalizedLast, Completed, VotingOpen, Exists

(* What counting a round does to the scores.                               *)
LEMMA CountsScores ==
    ASSUME Inv, Leavers, ScoreLedger, NEW w \in Workers, Counts(w)
    PROVE  /\ tasks[w].round \in Rounds /\ ~rounds[tasks[w].round].completed
           /\ rounds' = [rounds EXCEPT ![tasks[w].round].completed = TRUE]
           /\ votes' = votes /\ participants' = participants
           /\ roundScore' = [roundScore EXCEPT ![tasks[w].round] = PointsIn(tasks[w].round)]
           /\ \A u \in Users \ MayLeave :
                 score'[u] = score[u] + PointsIn(tasks[w].round)[u]
<1>. DEFINE r == tasks[w].round
<1>1. r \in Rounds /\ score \in [Users -> Nat] /\ PointsIn(r) \in [Users -> Nat]
    BY PointsType DEF Inv, TypeOK, Task
<1>2. /\ VotingFinished(r) /\ rounds' = [rounds EXCEPT ![r].completed = TRUE]
      /\ votes' = votes /\ participants' = participants
      /\ roundScore' = [roundScore EXCEPT ![r] = PointsIn(r)]
      /\ score' = StandingsAfter(r)
    BY DEF Counts, CompleteRound
<1>3. ASSUME NEW u \in Users \ MayLeave PROVE score'[u] = score[u] + PointsIn(r)[u]
    <2>1. CASE u \in participants
        BY <1>2, <2>1 DEF StandingsAfter
    <2>2. CASE u \notin participants
        <3>1. PointsIn(r)[u] = 0
            BY <1>1, <2>2 DEF Leavers, PointsIn
        <3>2. score'[u] = score[u]
            BY <1>2, <2>2 DEF StandingsAfter
        <3>. HIDE DEF r
        <3>. QED
            BY <1>1, <3>1, <3>2
    <2>. QED
        BY <2>1, <2>2
<1>. QED
    BY <1>1, <1>2, <1>3 DEF VotingFinished

(* Round scores are the likes of the round: they are written with the      *)
(* completion, and the votes stay.                                         *)
LEMMA RoundScoreStep ==
    ASSUME Inv, Leavers, ScoreLedger, [Next]_vars, NEW r \in Rounds, NEW a \in Users
    PROVE  roundScore'[r][a] = IF rounds'[r].completed THEN Likes(r, a)' ELSE 0
<1>1. /\ rounds \in [Rounds -> RoundRow] /\ roundScore \in [Rounds -> [Users -> Nat]]
      /\ roundScore[r][a] = IF rounds[r].completed THEN Likes(r, a) ELSE 0
    BY DEF Inv, TypeOK, ScoreLedger
<1>2. votes'[r] = votes[r] => Likes(r, a)' = Likes(r, a)
    BY DEF Likes
<1>3. ASSUME NEW w \in Workers, Counts(w), r = tasks[w].round
      PROVE  roundScore'[r][a] = IF rounds'[r].completed THEN Likes(r, a)' ELSE 0
    <2>1. /\ rounds' = [rounds EXCEPT ![r].completed = TRUE] /\ votes' = votes
          /\ roundScore' = [roundScore EXCEPT ![r] = PointsIn(r)]
        BY <1>3, CountsScores
    <2>2. rounds'[r].completed = TRUE
        BY <1>1, <2>1 DEF RoundRow
    <2>3. roundScore'[r][a] = Likes(r, a)
        BY <1>1, <2>1, PointsAreLikes
    <2>. QED
        BY <1>2, <2>1, <2>2, <2>3
<1>4. CASE \A w \in Workers : ~(Counts(w) /\ tasks[w].round = r)
    <2>1. rounds'[r].completed = rounds[r].completed
        BY <1>4, CompletedWriters
    <2>2. roundScore'[r] = roundScore[r]
        <3>1. ASSUME NEW w \in Workers, Counts(w) PROVE roundScore'[r] = roundScore[r]
            BY <1>1, <1>4, <3>1, CountsScores
        <3>. QED
            BY <3>1, ScoreWriters DEF Leave, contentVars
    <2>. QED
        BY <1>1, <1>2, <2>1, <2>2, CompletedVotes
<1>. QED
    BY <1>3, <1>4

(* Every step keeps the ledger.                                            *)
LEMMA LedgerStep ==
    ASSUME Inv, Leavers, ScoreLedger, [Next]_vars
    PROVE  ScoreLedger'
<1>1. /\ roundScore \in [Rounds -> [Users -> Nat]] /\ roundScore' \in [Rounds -> [Users -> Nat]]
      /\ score \in [Users -> Nat]
      /\ IsFiniteSet(Rounds)
    <2>1. IsFiniteSet(Rounds)
        BY FS_Interval, SizesAssumption DEF Rounds
    <2>2. TypeOK /\ TypeOK'
        BY InvStep DEF Inv
    <2>. QED
        BY <2>1, <2>2 DEF TypeOK
<1>2. ASSUME NEW u \in Users \ MayLeave PROVE score'[u] = Earned(u)'
    <2>0. score[u] = Earned(u)
        BY DEF ScoreLedger
    <2>1. CASE UNCHANGED <<score, roundScore>>
        BY <2>0, <2>1 DEF Earned
    <2>2. ASSUME NEW w \in Workers, Leave(w) PROVE score'[u] = Earned(u)'
        <3>1. score'[u] = score[u] /\ roundScore' = roundScore
            BY <1>1, <2>2 DEF Leave, Leavers, Leaves, contentVars
        <3>. QED
            BY <2>0, <3>1 DEF Earned
    <2>3. ASSUME NEW w \in Workers, Counts(w) PROVE score'[u] = Earned(u)'
        <3>. DEFINE r == tasks[w].round
                    before == [q \in Rounds |-> roundScore[q][u]]
                    after == [q \in Rounds |-> roundScore'[q][u]]
        <3>1. /\ r \in Rounds
              /\ roundScore' = [roundScore EXCEPT ![r] = PointsIn(r)]
              /\ score'[u] = score[u] + PointsIn(r)[u]
              /\ roundScore[r][u] = 0
            BY <2>3, CountsScores DEF ScoreLedger
        <3>2. /\ before[r] = 0 /\ after[r] = PointsIn(r)[u]
              /\ \A q \in Rounds : before[q] \in Int /\ after[q] \in Int
              /\ \A q \in Rounds \ {r} : before[q] = after[q]
            BY <1>1, <3>1
        <3>3. Earned(u) = SumFunctionOnSet(before, Rounds)
              /\ Earned(u)' = SumFunctionOnSet(after, Rounds)
            BY DEF Earned
        <3>. HIDE DEF before, after, r
        <3>4. Earned(u)' = Earned(u) + (after[r] - before[r])
            <4>0. \A f, g : /\ \A q \in Rounds : f[q] \in Int /\ g[q] \in Int
                            /\ \A q \in Rounds \ {r} : f[q] = g[q]
                            => SumFunctionOnSet(g, Rounds) =
                                   SumFunctionOnSet(f, Rounds) + (g[r] - f[r])
                BY <1>1, <3>1, SumChanged
            <4>1. SumFunctionOnSet(after, Rounds) =
                      SumFunctionOnSet(before, Rounds) + (after[r] - before[r])
                BY <3>2, <4>0
            <4>. QED
                BY <3>3, <4>1
        <3>. QED
            BY <1>1, <2>0, <3>1, <3>2, <3>4
    <2>. QED
        BY <2>1, <2>2, <2>3, ScoreWriters
<1>. QED
    BY <1>2, RoundScoreStep DEF ScoreLedger

(* There is nothing to count at first, and nobody leaves.                  *)
LEMMA LedgerInit == Init => Leavers /\ ScoreLedger
<1>. SUFFICES ASSUME Init PROVE Leavers /\ ScoreLedger
    OBVIOUS
<1>1. \A r \in Rounds : SubmittedIn(r) = {}
    BY EmptySeq DEF Init, SubmittedIn
<1>2. Leavers
    BY <1>1 DEF Init, Leavers, Leaves, IdleTask
<1>3. ASSUME NEW u \in Users PROVE Earned(u) = 0 /\ score[u] = 0
    <2>1. IsFiniteSet(Rounds)
        BY FS_Interval, SizesAssumption DEF Rounds
    <2>2. \A r \in Rounds : [q \in Rounds |-> roundScore[q][u]][r] = 0
        BY DEF Init
    <2>3. Earned(u) = 0
        BY <2>1, <2>2, SumZero DEF Earned
    <2>. QED
        BY <2>3 DEF Init
<1>4. \A r \in Rounds, a \in Users : roundScore[r][a] = 0 /\ ~rounds[r].completed
    BY DEF Init, NoRound
<1>. QED
    BY <1>2, <1>3, <1>4, UsersAssumption DEF ScoreLedger

(* The standings are the sums of the round scores in every state.         *)
LEMMA LedgerInvariance == Spec => [](Inv /\ Leavers /\ ScoreLedger)
<1>1. Init => Inv /\ Leavers /\ ScoreLedger
    BY InvInit, LedgerInit
<1>2. Inv /\ Leavers /\ ScoreLedger /\ [Next]_vars => (Inv /\ Leavers /\ ScoreLedger)'
    BY InvStep, LeaversStep, LedgerStep
<1>. QED
    BY <1>1, <1>2, PTL DEF Spec

-----------------------------------------------------------------------------
(* The ballots.  A finalization reads its voters first and fills in their  *)
(* ballots later; who took part when it read them is still among them.     *)

Here(v) == v \in participants \cup MayLeave

(* Whoever took part is a participant unless they asked to leave, and is   *)
(* among the voters of the finalization that is under way.                 *)
VotersKept ==
    /\ status # "CANCELLED" => \A v \in Joined : Here(v)
    /\ \A r \in Rounds, a, v \in Users : votes[r][a][v] # "NONE" => Here(v)
    /\ \A r \in Rounds, w \in Workers : Filler(w, r) =>
          /\ \A v \in tasks[w].voters : Here(v)
          /\ \A v \in Users \ MayLeave :
                TookPart(v, r, rounds[r].step) /\ v # rounds[r].current => v \in tasks[w].voters

(* A vote appears on a submission that is open, from a participant or from *)
(* a voter that its finalization has read.                                 *)
LEMMA NewVote ==
    ASSUME Inv, [Next]_vars, NEW q \in Rounds, NEW a \in Users, NEW v \in Users,
           votes'[q][a][v] # votes[q][a][v]
    PROVE  /\ VotingOpen(q) /\ a = rounds[q].current /\ participants' = participants
           /\ v \in participants \/ \E w \in Workers : Filler(w, q) /\ v \in tasks[w].voters
<1>1. /\ votes \in [Rounds -> [Users -> [Users -> Votes]]]
      /\ tasks \in [Workers -> Task]
    BY DEF Inv, TypeOK
<1>2. ASSUME NEW w \in Workers, NEW r \in Rounds, NEW b \in Users, NEW u \in Users,
             NEW value \in VoteValues, CastVote(w, r, b, u, value)
      PROVE  /\ VotingOpen(q) /\ a = rounds[q].current /\ participants' = participants
             /\ v \in participants
    <2>1. r = q /\ b = a /\ u = v
        BY <1>1, <1>2 DEF CastVote
    <2>. QED
        BY <1>2, <2>1 DEF CastVote, IsVotingTarget, tournamentVars
<1>3. ASSUME NEW w \in Workers, Finalize(w)
      PROVE  /\ VotingOpen(q) /\ a = rounds[q].current /\ participants' = participants
             /\ Filler(w, q) /\ v \in tasks[w].voters
    <2>. DEFINE r == tasks[w].round
                ballots == FilledBallots(r, tasks[w].voters)
    <2>1. /\ r \in Rounds /\ tasks[w].pc = "filling" /\ participants' = participants
          /\ votes' = [votes EXCEPT ![r][rounds[r].current] = ballots]
        BY <1>1, <1>3 DEF Finalize, Task, tournamentVars
    <2>2. \A u \in Users \ tasks[w].voters : ballots[u] = votes[r][rounds[r].current][u]
        BY DEF FilledBallots
    <2>. HIDE DEF ballots
    <2>3. r = q /\ a = rounds[q].current
        BY <1>1, <2>1
    <2>4. v \in tasks[w].voters
        BY <1>1, <2>1, <2>2, <2>3
    <2>. QED
        BY <1>3, <2>1, <2>3, <2>4, StepIsOpen DEF Filler
<1>. QED
    BY <1>2, <1>3, RowWriters
    DEF Start, CloseSubmissions, OpenVoting, CompleteRound, CreateNextRound, Submit, contentVars

(* Whoever does not leave stays, unless the draft is cancelled.            *)
LEMMA WhoIsHereStays ==
    ASSUME Leavers, [Next]_vars, NEW v, Here(v), ~Cancel
    PROVE  Here(v)'
<1>1. ASSUME NEW w \in Workers, Leave(w) PROVE Here(v)'
    <2>1. tasks[w].user \in MayLeave /\ participants' = participants \ {tasks[w].user}
        BY <1>1 DEF Leave, Leavers, Leaves
    <2>. QED
        BY <2>1 DEF Here
<1>. QED
    BY <1>1, ParticipantWriters DEF Here

(* Nothing is in the way of a draft that is cancelled: it has no rounds,   *)
(* no votes and no finalization.                                           *)
LEMMA DraftIsEmpty ==
    ASSUME Inv, status = "DRAFT", NEW r \in Rounds
    PROVE  /\ \A a, v \in Users : votes[r][a][v] = "NONE"
           /\ \A w \in Workers : ~Filler(w, r)
<1>1. rounds[r].phase = "NONE" /\ submissions[r] = << >>
    BY DEF Inv, NothingBeforeStart, Exists, VotingCursor, RowAgrees
<1>. QED
    BY <1>1, EmptySeq DEF Inv, BallotsAreLegal, FillersAgree, VotingOpen

(* In a round that exists, whoever took part is a participant or asked to  *)
(* leave.                                                                  *)
LEMMA TookPartIsHere ==
    ASSUME Inv, SequenceInv, Leavers, VotersKept, NEW r \in Rounds, Exists(r),
           NEW i \in 1..Len(submissions[r]), NEW v \in Users, TookPart(v, r, i)
    PROVE  Here(v)
<1>1. CASE v \in Joined
    BY <1>1 DEF VotersKept, SequenceInv
<1>2. CASE \E q \in 1..r : v \in SubmittedIn(q)
    BY <1>2, SizesAssumption DEF Leavers, Here, Rounds
<1>3. CASE \E q \in 1..(r - 1), a \in Users : votes[q][a][v] # "NONE"
    BY <1>3, SizesAssumption DEF VotersKept, Rounds
<1>4. CASE \E j \in 1..(i - 1) : votes[r][submissions[r][j]][v] # "NONE"
    <2>1. submissions[r] \in Seq(Users) /\ Len(submissions[r]) \in Nat
        BY LenProperties DEF Inv, TypeOK
    <2>2. \A j \in 1..(i - 1) : submissions[r][j] \in Users
        BY <2>1, ElementOfSeq
    <2>. QED
        BY <1>4, <2>2 DEF VotersKept
<1>. QED
    BY <1>1, <1>2, <1>3, <1>4 DEF TookPart

(* What took place before a submission of a closed round was revealed is   *)
(* settled when the ones before it are finalized.                          *)
LEMMA TookPartSettled ==
    ASSUME Inv, SequenceInv, [Next]_vars, NEW r \in Rounds, rounds[r].phase = "VOTING",
           NEW i \in 1..Len(submissions[r]), \A j \in 1..(i - 1) : Finalized(r, j),
           NEW v \in Users, TookPart(v, r, i)'
    PROVE  TookPart(v, r, i)
<1>1. rounds \in [Rounds -> RoundRow] /\ Len(submissions[r]) \in Nat /\ 1..r \subseteq Rounds
    <2>1. rounds \in [Rounds -> RoundRow] /\ submissions[r] \in Seq(Users)
        BY DEF Inv, TypeOK
    <2>. QED
        BY <2>1, SizesAssumption, LenProperties DEF Rounds
<1>2. \A q \in 1..(r - 1) : rounds[q].phase = "VOTING" /\ rounds[q].stepStatus = "FINISHED"
    <2>1. \A q \in 1..(r - 1) : q \in Rounds /\ rounds[q].completed
        BY <1>1 DEF SequenceInv, Exists, Rounds
    <2>. QED
        BY <1>1, <2>1 DEF Inv, VotingCursor, RowAgrees, NoRound, RoundRow, Phases
<1>3. CASE v \in Joined
    BY <1>3 DEF TookPart
<1>4. ASSUME NEW q \in 1..r, (v \in SubmittedIn(q))' PROVE TookPart(v, r, i)
    <2>1. q \in Rounds /\ rounds[q].phase = "VOTING"
        BY <1>1, <1>2 DEF Rounds
    <2>2. submissions'[q] = submissions[q]
        BY <2>1, FrozenStep DEF KeepsClosed
    <2>. QED
        BY <1>4, <2>2 DEF SubmittedIn, TookPart
<1>5. ASSUME NEW q \in 1..(r - 1), NEW a \in Users, votes'[q][a][v] # "NONE"
      PROVE  TookPart(v, r, i)
    <2>1. q \in Rounds /\ ~VotingOpen(q)
        BY <1>1, <1>2 DEF VotingOpen, Rounds
    <2>2. votes'[q][a][v] = votes[q][a][v]
        BY <2>1, NewVote
    <2>. QED
        BY <1>5, <2>2 DEF TookPart
<1>6. ASSUME NEW j \in 1..(i - 1), votes'[r][submissions'[r][j]][v] # "NONE"
      PROVE  TookPart(v, r, i)
    <2>1. j \in 1..Len(submissions[r]) /\ Finalized(r, j)
        BY <1>1
    <2>2. /\ submissions'[r] = submissions[r]
          /\ votes'[r][submissions[r][j]] = votes[r][submissions[r][j]]
        BY <2>1, FrozenStep DEF KeepsClosed
    <2>. QED
        BY <1>6, <2>2 DEF TookPart
<1>. QED
    BY <1>3, <1>4, <1>5, <1>6 DEF TookPart

(* Participants stay, votes are theirs, and a finalization that reads its  *)
(* voters finds all of them.                                               *)
LEMMA VotersKeptStep ==
    ASSUME Inv, SequenceInv, Leavers, VotersKept, [Next]_vars
    PROVE  VotersKept'
<1>1. /\ participants \subseteq Users /\ Inv'
      /\ tasks \in [Workers -> Task] /\ rounds \in [Rounds -> RoundRow]
    BY InvStep DEF Inv, TypeOK
<1>2. ASSUME status' # "CANCELLED", NEW v \in Joined PROVE Here(v)'
    <2>1. ~Cancel /\ status # "CANCELLED"
        BY <1>2, StatusMoves DEF Cancel, Inv, Start
    <2>. QED
        BY <2>1, WhoIsHereStays DEF VotersKept
<1>3. ASSUME NEW r \in Rounds, NEW a \in Users, NEW v \in Users, votes'[r][a][v] # "NONE"
      PROVE  Here(v)'
    <2>1. CASE votes'[r][a][v] = votes[r][a][v]
        <3>1. Here(v) /\ ~Cancel
            BY <1>3, <2>1, DraftIsEmpty DEF VotersKept, Cancel
        <3>. QED
            BY <3>1, WhoIsHereStays
    <2>2. CASE votes'[r][a][v] # votes[r][a][v]
        <3>1. Here(v) /\ participants' = participants
            BY <2>2, NewVote DEF VotersKept, Here
        <3>. QED
            BY <3>1 DEF Here
    <2>. QED
        BY <2>1, <2>2
<1>4. ASSUME NEW r \in Rounds, NEW w \in Workers, Filler(w, r)'
      PROVE  /\ \A v \in tasks'[w].voters : Here(v)'
             /\ \A v \in Users \ MayLeave :
                   TookPart(v, r, rounds[r].step)' /\ v # rounds'[r].current =>
                       v \in tasks'[w].voters
    <2>1. CASE Filler(w, r) /\ tasks'[w] = tasks[w] /\ rounds'[r] = rounds[r]
        <3>1. VotingOpen(r) /\ ~Cancel
            BY <2>1, DraftIsEmpty DEF Cancel, Inv, FillersAgree
        <3>2. /\ rounds[r].phase = "VOTING"
              /\ rounds[r].step \in 1..Len(submissions[r])
              /\ \A j \in 1..(rounds[r].step - 1) : Finalized(r, j)
            BY <3>1, PositionIsStep DEF Inv, VotingOpen, Finalized
        <3>3. ASSUME NEW v \in Users, TookPart(v, r, rounds[r].step)'
              PROVE  TookPart(v, r, rounds[r].step)
            <4>. DEFINE i == rounds[r].step
            <4>1. TookPart(v, r, i)' => TookPart(v, r, i)
                BY <2>1, <3>2, TookPartSettled
            <4>. QED
                BY <2>1, <3>3, <4>1
        <3>. QED
            BY <2>1, <3>1, <3>3, WhoIsHereStays DEF VotersKept
    <2>2. CASE Locks(w, r)
        <3>1. /\ UNCHANGED <<rounds, participants, submissions, votes>>
              /\ tasks'[w].voters = participants \ {rounds[r].current} /\ VotingOpen(r)
            BY <2>2 DEF Locks, BeginFinalization, EligibleVoters, tournamentVars, contentVars
        <3>2. rounds[r].step \in 1..Len(submissions[r]) /\ Exists(r)
            BY <3>1, PositionIsStep DEF Inv, VotingOpen, Exists
        <3>3. ASSUME NEW v \in Users, TookPart(v, r, rounds[r].step)' PROVE Here(v)
            <4>1. TookPart(v, r, rounds[r].step)
                BY <3>1, <3>3 DEF TookPart, SubmittedIn
            <4>. QED
                BY <3>2, <4>1, TookPartIsHere
        <3>. QED
            BY <3>1, <3>3 DEF Here
    <2>. QED
        BY <1>4, <2>1, <2>2, FillerMoves
<1>. QED
    BY <1>2, <1>3, <1>4 DEF VotersKept

(* A step that finalizes a submission finalizes the current one, with the  *)
(* votes that are missing filled in.                                       *)
LEMMA FillStep ==
    ASSUME Inv, [Next]_vars, NEW q \in Rounds, NEW i \in 1..Len(submissions[q]),
           ~Finalized(q, i), Finalized(q, i)'
    PROVE  /\ VotingOpen(q) /\ i = rounds[q].step
           /\ \E w \in Workers :
                 /\ Filler(w, q)
                 /\ votes'[q][submissions[q][i]] = FilledBallots(q, tasks[w].voters)
<1>1. /\ rounds[q] \in RoundRow /\ submissions[q] \in Seq(Users)
      /\ votes[q] \in [Users -> [Users -> Votes]]
      /\ submissions[q][i] \in Users /\ i \in Nat /\ Len(submissions[q]) \in Nat
    BY LenProperties, ElementOfSeq DEF Inv, TypeOK
<1>2. ~SameRow(q)
    BY DEF SameRow, Finalized
<1>3. ~Created(q)
    <2>1. Created(q) => rounds'[q].stepStatus = "IDLE"
        BY DEF Created, NewRound, NoRound, Inv, TypeOK
    <2>. QED
        BY <2>1 DEF Finalized
<1>4. ~Closed(q)
    <2>1. Closed(q) => rounds'[q].stepStatus = "IDLE"
        BY <1>1 DEF Closed, RoundRow, Inv, VotingCursor, RowAgrees
    <2>. QED
        BY <2>1 DEF Finalized
<1>5. ~Opened(q)
    <2>1. submissions[q] # << >>
        BY <1>1, EmptySeq
    <2>2. Opened(q) => rounds'[q].stepStatus = "OPEN" /\ rounds'[q].step = 1
        BY <1>1, <2>1 DEF Opened, RoundRow
    <2>. QED
        BY <1>1, <2>2 DEF Finalized
<1>6. ~Completed(q)
    BY <1>1 DEF Completed, VotingFinished, Finalized
<1>7. RevealedNext(q) \/ FinalizedLast(q)
    BY <1>2, <1>3, <1>4, <1>5, <1>6, RoundStep DEF RoundMoves, Submitted, Cast, Inv
<1>8. PICK w \in Workers :
          /\ VotingOpen(q) /\ Filler(w, q)
          /\ votes'[q] = [votes[q] EXCEPT ![rounds[q].current] = FilledBallots(q, tasks[w].voters)]
    BY <1>7 DEF RevealedNext, FinalizedLast, Filled
<1>9. /\ rounds[q].step \in 1..Len(submissions[q]) /\ rounds[q].stepStatus = "OPEN"
      /\ rounds[q].current = submissions[q][rounds[q].step]
    BY <1>8, PositionIsStep DEF Inv, VotingOpen
<1>10. i >= rounds[q].step
    BY <1>1, <1>9 DEF Finalized
<1>11. i = rounds[q].step
    <2>1. CASE RevealedNext(q)
        <3>1. rounds'[q].stepStatus = "OPEN" /\ rounds'[q].step = rounds[q].step + 1
            BY <1>1, <1>9, <2>1 DEF RevealedNext, RoundRow
        <3>. QED
            BY <1>1, <1>9, <1>10, <3>1 DEF Finalized
    <2>2. CASE FinalizedLast(q)
        BY <1>1, <1>9, <1>10, <2>2 DEF FinalizedLast
    <2>. QED
        BY <1>7, <2>1, <2>2
<1>12. votes'[q][submissions[q][i]] = FilledBallots(q, tasks[w].voters)
    BY <1>1, <1>8, <1>9, <1>11
<1>. QED
    BY <1>8, <1>11, <1>12

(* Every finalized submission keeps its ballots, and gets those that are   *)
(* missing when it is finalized.                                           *)
LEMMA NoBallotMissingStep ==
    ASSUME Inv, SequenceInv, VotersKept, NoBallotMissing, [Next]_vars
    PROVE  NoBallotMissing'
<1>. SUFFICES ASSUME NEW r \in Rounds, NEW v \in Users \ MayLeave,
                     NEW i \in 1..Len(submissions'[r]),
                     Finalized(r, i)', TookPart(v, r, i)', v # submissions'[r][i]
              PROVE  votes'[r][submissions'[r][i]][v] # "NONE"
    BY DEF NoBallotMissing
<1>1. /\ rounds \in [Rounds -> RoundRow] /\ submissions \in [Rounds -> Seq(Users)]
      /\ Len(submissions[r]) \in Nat
    BY LenProperties DEF Inv, TypeOK
<1>2. rounds[r].phase = "VOTING" /\ submissions'[r] = submissions[r]
    <2>1. rounds'[r].stepStatus # "IDLE"
        BY DEF Finalized
    <2>2. rounds[r].phase = "VOTING"
        <3>1. SameRow(r) \/ Opened(r) \/ RevealedNext(r) \/ FinalizedLast(r) \/ Completed(r)
                \/ Created(r) \/ Closed(r)
            BY RoundStep DEF RoundMoves, Submitted, Cast, Inv
        <3>2. SameRow(r) => rounds[r].phase = "VOTING"
            BY <1>1, <2>1 DEF SameRow, Inv, VotingCursor, RowAgrees, NoRound, RoundRow, Phases
        <3>3. ~Created(r) /\ ~Closed(r)
            BY <1>1, <2>1
            DEF Created, Closed, NewRound, NoRound, RoundRow, Inv, VotingCursor, RowAgrees
        <3>. QED
            BY <3>1, <3>2, <3>3
            DEF Opened, RevealedNext, FinalizedLast, Completed, VotingOpen, VotingFinished
    <2>. QED
        BY <2>2, FrozenStep DEF KeepsClosed
<1>3. CASE Finalized(r, i)
    <2>1. votes'[r][submissions[r][i]] = votes[r][submissions[r][i]]
        BY <1>2, <1>3, FrozenStep DEF KeepsClosed
    <2>2. \A j \in 1..(i - 1) : Finalized(r, j)
        BY <1>1, <1>2, <1>3 DEF Finalized, RoundRow
    <2>3. TookPart(v, r, i)
        BY <1>2, <2>2, TookPartSettled
    <2>. QED
        BY <1>2, <1>3, <2>1, <2>3 DEF NoBallotMissing
<1>4. CASE ~Finalized(r, i)
    <2>1. PICK w \in Workers :
              /\ Filler(w, r)
              /\ votes'[r][submissions[r][i]] = FilledBallots(r, tasks[w].voters)
        BY <1>2, <1>4, FillStep
    <2>2. VotingOpen(r) /\ i = rounds[r].step
        BY <1>2, <1>4, FillStep
    <2>3. rounds[r].current = submissions[r][i] /\ \A j \in 1..(i - 1) : Finalized(r, j)
        BY <2>2, PositionIsStep DEF Inv, VotingOpen, Finalized
    <2>4. TookPart(v, r, i)
        BY <1>2, <2>3, TookPartSettled
    <2>5. v \in tasks[w].voters
        BY <1>2, <2>1, <2>2, <2>3, <2>4 DEF VotersKept
    <2>. QED
        BY <1>2, <2>1, <2>5 DEF FilledBallots
<1>. QED
    BY <1>3, <1>4

(* In every state, a finalized submission has a vote of everyone who took  *)
(* part before it was revealed, whatever joins came in between: the voters *)
(* are read without the lock that a join takes, but after all that took    *)
(* place before.                                                           *)
THEOREM BallotsComplete == Spec => []NoBallotMissing
<1>1. Init => Inv /\ SequenceInv /\ Leavers /\ VotersKept /\ NoBallotMissing
    <2>1. Init => SequenceInv
        BY DEF Init, SequenceInv, Exists, NoRound
    <2>2. Init => VotersKept
        BY DEF Init, VotersKept, Here, Filler, IdleTask
    <2>3. Init => NoBallotMissing
        BY DEF Init, NoBallotMissing, Finalized, NoRound
    <2>. QED
        BY <2>1, <2>2, <2>3, InvInit, LedgerInit
<1>2. Inv /\ SequenceInv /\ Leavers /\ VotersKept /\ NoBallotMissing /\ [Next]_vars =>
          (Inv /\ SequenceInv /\ Leavers /\ VotersKept /\ NoBallotMissing)'
    BY InvStep, SequenceStep, LeaversStep, VotersKeptStep, NoBallotMissingStep
<1>. QED
    BY <1>1, <1>2, PTL DEF Spec

-----------------------------------------------------------------------------
(* The winner.                                                             *)

(* Once a tournament is completed, nobody joins it, no round is counted    *)
(* and the winner stays: all that happens to its standings is a leaving.   *)
LEMMA AfterCompletion ==
    ASSUME [Next]_vars, status = "COMPLETED"
    PROVE  /\ status' = "COMPLETED" /\ winner' = winner
           /\ \/ UNCHANGED <<participants, score>>
              \/ \E w \in Workers : Leave(w)
<1>. USE DEF tournamentVars
<1>1. ASSUME NEW w \in Workers, TaskStep(w)
      PROVE  /\ UNCHANGED <<status, winner>>
             /\ UNCHANGED <<participants, score>> \/ Leave(w)
    BY <1>1 DEF TaskStep, FindParticipant, Leave, ArmSubmissionTimer, HandleSubmissionSaved,
                CountSubmissions, CloseSubmissions, CancelSubmissionTimer, OpenVoting,
                ArmVotingTimer, CheckVotingFinished, HandleVoteSaved, CountVotes,
                BeginFinalization, Finalize, AfterFinalize, CompleteRound, FinishTournament,
                CreateNextRound, FollowsUp
<1>2. ASSUME NEW w \in Workers, Request(w) PROVE UNCHANGED tournamentVars
    BY <1>2 DEF Request, Start, AskToLeave, Submit, CastVote
<1>3. CASE UNCHANGED vars
    BY <1>3 DEF vars
<1>. QED
    BY <1>1, <1>2, <1>3
    DEF Next, Cancel, Join, SubmissionDeadlinePasses, VotingDeadlinePasses,
        SubmissionTimerFires, VotingTimerFires, CrashRestart, RequestFails, ReplyLost

(* The status becomes COMPLETED together with the choice of a leader.      *)
LEMMA CompletionChoosesLeader ==
    ASSUME [Next]_vars, status # "COMPLETED", status' = "COMPLETED"
    PROVE  winner' \in Leaders /\ UNCHANGED <<participants, score>>
<1>1. ASSUME NEW w \in Workers, TaskStep(w) PROVE FinishTournament(w)
    BY <1>1 DEF TaskStep, FindParticipant, Leave, ArmSubmissionTimer, HandleSubmissionSaved,
                CountSubmissions, CloseSubmissions, CancelSubmissionTimer, OpenVoting,
                ArmVotingTimer, CheckVotingFinished, HandleVoteSaved, CountVotes,
                BeginFinalization, Finalize, AfterFinalize, CompleteRound, CreateNextRound, tournamentVars
<1>2. ASSUME NEW w \in Workers, FinishTournament(w)
      PROVE  winner' \in Leaders /\ UNCHANGED <<participants, score>>
    BY <1>2 DEF FinishTournament
<1>3. ASSUME NEW w \in Workers, Request(w) PROVE FALSE
    BY <1>3 DEF Request, Start, AskToLeave, Submit, CastVote, tournamentVars
<1>4. CASE UNCHANGED vars
    BY <1>4 DEF vars, tournamentVars
<1>. QED
    BY <1>1, <1>2, <1>3, <1>4
    DEF Next, Cancel, Join, SubmissionDeadlinePasses, VotingDeadlinePasses, tournamentVars,
        SubmissionTimerFires, VotingTimerFires, CrashRestart, RequestFails, ReplyLost

(* FinishTournament names a leader.  Afterwards nobody joins and no score *)
(* grows; who leaves late takes theirs along.                             *)
LEMMA WinnerStep ==
    ASSUME Inv, Leavers, WinnerOnTop, [Next]_vars
    PROVE  WinnerOnTop'
<1>. SUFFICES ASSUME status' = "COMPLETED"
              PROVE  /\ winner' \in participants' \cup MayLeave
                     /\ winner' \in participants' =>
                           \A u \in participants' : score'[u] <= score'[winner']
    BY DEF WinnerOnTop
<1>1. CASE status # "COMPLETED"
    <2>1. winner' \in Leaders /\ UNCHANGED <<participants, score>>
        BY <1>1, CompletionChoosesLeader
    <2>. QED
        BY <2>1 DEF Leaders
<1>2. CASE status = "COMPLETED"
    <2>0. /\ score \in [Users -> Nat] /\ participants \subseteq Users /\ winner' = winner
          /\ winner \in participants \cup MayLeave
          /\ winner \in participants => \A u \in participants : score[u] <= score[winner]
        BY <1>2, AfterCompletion DEF Inv, TypeOK, WinnerOnTop
    <2>1. CASE UNCHANGED <<participants, score>>
        BY <2>0, <2>1
    <2>2. ASSUME NEW w \in Workers, Leave(w)
          PROVE  /\ winner' \in participants' \cup MayLeave
                 /\ winner' \in participants' =>
                       \A u \in participants' : score'[u] <= score'[winner']
        <3>1. /\ tasks[w].user \in MayLeave
              /\ participants' = participants \ {tasks[w].user}
              /\ \A u \in participants' : u \in participants /\ score'[u] = score[u]
            BY <2>0, <2>2 DEF Leave, Leavers, Leaves
        <3>. QED
            BY <2>0, <3>1
    <2>. QED
        BY <1>2, <2>1, <2>2, AfterCompletion
<1>. QED
    BY <1>1, <1>2

-----------------------------------------------------------------------------
(* The theorems about the scores.                                          *)

(* However often completeRound is reached, by the timer's handler, the     *)
(* last voter's and a retry, a round is counted once: the round scores are *)
(* the likes of the completed rounds, and a standing is their sum.         *)
THEOREM LedgerCorrect == Spec => []ScoreLedger
BY LedgerInvariance, PTL

(* The winner that finishTournament chooses stays on top: nobody joins and *)
(* nobody scores any more, and a late leaver only takes a row away.        *)
THEOREM WinnerCorrect == Spec => []WinnerOnTop
<1>1. Init => WinnerOnTop
    BY DEF Init, WinnerOnTop
<1>2. Inv /\ Leavers /\ WinnerOnTop /\ [Next]_vars => WinnerOnTop'
    BY WinnerStep
<1>. QED
    BY <1>1, <1>2, LedgerInvariance, PTL DEF Spec

-----------------------------------------------------------------------------
(* The answers of GET :id/full.                                            *)

(* What an answer holds, read by read.  n is the round after which its     *)
(* standings are; rounds up to n stay completed, so that the current round *)
(* read later is a later one.                                              *)
Tables == UNION {[S -> Nat] : S \in SUBSET Users}

AnswerType ==
    [reads : 0..3, status : Statuses, currentRound : 0..RoundsCount, standings : Tables]

StandingsAreOf(n) ==
    /\ \A r \in 1..n : rounds[r].completed
    /\ \A u \in Shown : answer.standings[u] = PointsAfter(n, u)

AnswerInv ==
    /\ answer \in AnswerType
    /\ answer.reads >= 1 /\ answer.status = "COMPLETED" => status = "COMPLETED"
    /\ answer.reads >= 2 =>
          \E n \in 0..RoundsCount :
              /\ StandingsAreOf(n)
              /\ answer.status = "COMPLETED" => n = RoundsCount
              /\ answer.reads = 3 /\ answer.currentRound # 0 => n < answer.currentRound

(* The empty answer is one, and so is what the reads make of an answer.    *)
LEMMA AnswerTypes ==
    /\ NoAnswer \in AnswerType /\ NoAnswer.reads = 0
    /\ \A n \in 0..3, s \in Statuses, k \in 0..RoundsCount, t \in Tables :
          [reads |-> n, status |-> s, currentRound |-> k, standings |-> t] \in AnswerType
    /\ \A a \in AnswerType : a.reads \in 0..3 /\ a.status \in Statuses
                            /\ a.currentRound \in 0..RoundsCount /\ a.standings \in Tables
<1>1. << >> \in [{} -> Nat]
    OBVIOUS
<1>2. << >> \in Tables
    BY <1>1 DEF Tables
<1>3. \A n \in 0..3, s \in Statuses, k \in 0..RoundsCount, t \in Tables :
          [reads |-> n, status |-> s, currentRound |-> k, standings |-> t] \in AnswerType
    BY DEF AnswerType
<1>4. 0 \in 0..3 /\ "DRAFT" \in Statuses /\ 0 \in 0..RoundsCount
    BY SizesAssumption DEF Statuses
<1>5. NoAnswer = [reads |-> 0, status |-> "DRAFT", currentRound |-> 0, standings |-> << >>]
    BY DEF NoAnswer
<1>6. NoAnswer \in AnswerType
    BY <1>2, <1>3, <1>4, <1>5
<1>. QED
    BY <1>3, <1>5, <1>6 DEF AnswerType

(* The reads, column by column.                                            *)
LEMMA AnswerUpdates ==
    ASSUME NEW a \in AnswerType, NEW n, NEW x
    PROVE  /\ [a EXCEPT !.reads = n, !.standings = x] =
                  [reads |-> n, status |-> a.status, currentRound |-> a.currentRound,
                   standings |-> x]
           /\ [a EXCEPT !.reads = n, !.currentRound = x] =
                  [reads |-> n, status |-> a.status, currentRound |-> x,
                   standings |-> a.standings]
           /\ [a EXCEPT !.reads = n, !.status = x] =
                  [reads |-> n, status |-> x, currentRound |-> a.currentRound,
                   standings |-> a.standings]
<1>. DEFINE b == [reads |-> n, status |-> a.status, currentRound |-> a.currentRound,
                  standings |-> a.standings]
<1>1. [a EXCEPT !.reads = n] = b
    BY DEF AnswerType
<1>2. [b EXCEPT !.standings = x] =
          [reads |-> n, status |-> a.status, currentRound |-> a.currentRound, standings |-> x]
    OBVIOUS
<1>3. [b EXCEPT !.currentRound = x] =
          [reads |-> n, status |-> a.status, currentRound |-> x, standings |-> a.standings]
    OBVIOUS
<1>4. [b EXCEPT !.status = x] =
          [reads |-> n, status |-> x, currentRound |-> a.currentRound, standings |-> a.standings]
    OBVIOUS
<1>. HIDE DEF b
<1>5. [a EXCEPT !.reads = n, !.standings = x] =
          [reads |-> n, status |-> a.status, currentRound |-> a.currentRound, standings |-> x]
    BY <1>1, <1>2, Zenon
<1>6. [a EXCEPT !.reads = n, !.currentRound = x] =
          [reads |-> n, status |-> a.status, currentRound |-> x, standings |-> a.standings]
    BY <1>1, <1>3, Zenon
<1>7. [a EXCEPT !.reads = n, !.status = x] =
          [reads |-> n, status |-> x, currentRound |-> a.currentRound, standings |-> a.standings]
    BY <1>1, <1>4, Zenon
<1>. QED
    BY <1>5, <1>6, <1>7

Ledger == Inv /\ SequenceInv /\ Leavers /\ ScoreLedger

(* The rounds that are completed are the first ones, and the standings are *)
(* those after the last of them.                                           *)
LEMMA StandingsNow ==
    ASSUME Ledger
    PROVE  \E n \in 0..RoundsCount :
               /\ \A r \in Rounds : rounds[r].completed <=> r <= n
               /\ \A u \in Users \ MayLeave : score[u] = PointsAfter(n, u)
<1>. DEFINE C == {r \in Rounds : rounds[r].completed}
<1>0. RoundsCount \in Nat /\ IsFiniteSet(Rounds) /\ Rounds = 1..RoundsCount
    BY FS_Interval, SizesAssumption DEF Rounds
<1>1. \A j, k \in Rounds : k \in C /\ j < k => j \in C
    BY CompletedExists DEF Ledger, SequenceInv
<1>2. PICK n \in 0..RoundsCount : C = 1..n
    <2>. HIDE DEF C
    <2>1. C \in SUBSET (1..RoundsCount)
        BY DEF C, Rounds
    <2>. QED
        BY <1>0, <1>1, <2>1, NoGaps
<1>3. ASSUME NEW u \in Users \ MayLeave PROVE score[u] = PointsAfter(n, u)
    <2>. DEFINE f == [r \in Rounds |-> roundScore[r][u]]
    <2>1. score[u] = SumFunctionOnSet(f, Rounds)
        BY DEF Ledger, ScoreLedger, Earned
    <2>2. /\ \A r \in Rounds : f[r] \in Int
          /\ \A r \in Rounds \ (1..n) : f[r] = 0
        BY <1>2 DEF Ledger, Inv, TypeOK, ScoreLedger
    <2>3. PointsAfter(n, u) = SumFunctionOnSet(f, 1..n)
        BY DEF PointsAfter
    <2>4. 1..n \in SUBSET Rounds
        BY <1>2
    <2>. HIDE DEF f
    <2>. QED
        BY <1>0, <2>1, <2>2, <2>3, <2>4, SumWithin
<1>4. \A r \in Rounds : rounds[r].completed <=> r <= n
    BY <1>0, <1>2
<1>. QED
    BY <1>3, <1>4

(* Standings after completed rounds do not change.                         *)
LEMMA PointsStay ==
    ASSUME Ledger, [Next]_vars, NEW n \in 0..RoundsCount, \A r \in 1..n : rounds[r].completed,
           NEW u \in Users
    PROVE  PointsAfter(n, u)' = PointsAfter(n, u)
<1>. DEFINE before == [r \in Rounds |-> roundScore[r][u]]
            after == [r \in Rounds |-> roundScore'[r][u]]
<1>1. IsFiniteSet(1..n) /\ 1..n \subseteq Rounds
    BY FS_Interval, SizesAssumption DEF Rounds
<1>2. \A r \in 1..n : roundScore'[r] = roundScore[r]
    <2>1. roundScore \in [Rounds -> [Users -> Nat]]
        BY DEF Ledger, Inv, TypeOK
    <2>2. ASSUME NEW w \in Workers, Counts(w) PROVE \A r \in 1..n : roundScore'[r] = roundScore[r]
        BY <1>1, <2>1, <2>2, CountsScores DEF Ledger
    <2>. QED
        BY <2>2, ScoreWriters DEF Leave, contentVars
<1>3. \A r \in 1..n : before[r] = after[r]
    BY <1>1, <1>2
<1>4. PointsAfter(n, u) = SumFunctionOnSet(before, 1..n)
      /\ PointsAfter(n, u)' = SumFunctionOnSet(after, 1..n)
    BY DEF PointsAfter
<1>. HIDE DEF before, after
<1>5. \A f, g : (\A r \in 1..n : f[r] = g[r]) =>
          SumFunctionOnSet(f, 1..n) = SumFunctionOnSet(g, 1..n)
    BY <1>1, SumEqual
<1>. QED
    BY <1>3, <1>4, <1>5

(* A query reads and changes nothing else; everything else is a step of    *)
(* RoundLifecycle that leaves the answer alone, or a restart.              *)
LEMMA QueryMoves ==
    ASSUME [QueriesNext]_queryVars
    PROVE  /\ [Next]_vars
           /\ (Query /\ UNCHANGED vars) \/ answer' \in {answer, NoAnswer}
<1>1. ASSUME Query PROVE UNCHANGED vars
    BY <1>1 DEF Query, ReadTournament, ReadParticipants, ReadCurrentRound
<1>2. ASSUME Changes PROVE Next
    BY <1>2 DEF Changes, Next
<1>. QED
    BY <1>1, <1>2 DEF QueriesNext, queryVars, Next

(* The read that a query does next, and the answer it goes on with.        *)
LEMMA ReadsInOrder ==
    ASSUME answer \in AnswerType
    PROVE  /\ NextRead("tournament") => SoFar \in AnswerType /\ SoFar.reads = 0
           /\ NextRead("participants") => SoFar = answer /\ answer.reads = 1
           /\ NextRead("round") => SoFar = answer /\ answer.reads = 2
<1>1. Len(ReadOrder) = 3 /\ ReadOrder[1] = "tournament" /\ ReadOrder[2] = "participants"
      /\ ReadOrder[3] = "round"
    BY DEF ReadOrder
<1>2. NoAnswer \in AnswerType /\ NoAnswer.reads = 0
    BY AnswerTypes
<1>3. /\ SoFar \in AnswerType
      /\ SoFar.reads # 3
      /\ SoFar.reads # 0 => SoFar = answer
    BY <1>1, <1>2 DEF SoFar, Answered
<1>4. SoFar.reads \in {0, 1, 2}
    BY <1>3 DEF AnswerType
<1>5. \A read : NextRead(read) =>
          \/ SoFar.reads = 0 /\ read = "tournament"
          \/ SoFar.reads = 1 /\ read = "participants"
          \/ SoFar.reads = 2 /\ read = "round"
    BY <1>1, <1>4 DEF NextRead
<1>. QED
    BY <1>3, <1>5

(* The reading of the participants finds the standings after the last      *)
(* round that is completed, and of a completed tournament after all.       *)
LEMMA ReadParticipantsStep ==
    ASSUME Ledger, AnswerInv, NEW user \in Users, ReadParticipants(user)
    PROVE  AnswerInv'
<1>1. /\ answer \in AnswerType /\ SoFar = answer /\ answer.reads = 1
      /\ answer' = IF user \in participants
                     THEN [answer EXCEPT !.reads = 2, !.standings = [u \in participants |-> score[u]]]
                     ELSE NoAnswer
      /\ UNCHANGED vars
    <2>1. answer \in AnswerType /\ SoFar = answer /\ answer.reads = 1
        BY ReadsInOrder DEF AnswerInv, ReadParticipants
    <2>2. answer.reads + 1 = 2
        BY <2>1
    <2>. QED
        BY <2>1, <2>2 DEF ReadParticipants
<1>2. CASE user \notin participants
    BY <1>1, <1>2, AnswerTypes DEF AnswerInv
<1>3. CASE user \in participants
    <2>. DEFINE table == [u \in participants |-> score[u]]
    <2>1. table \in [participants -> Nat] /\ participants \in SUBSET Users
        BY DEF Ledger, Inv, TypeOK
    <2>2. /\ answer'.reads = 2 /\ answer'.status = answer.status /\ answer'.standings = table
          /\ answer' \in AnswerType
        <3>1. table \in Tables
            BY <2>1 DEF Tables
        <3>2. answer' = [answer EXCEPT !.reads = 2, !.standings = table]
            BY <1>1, <1>3
        <3>. HIDE DEF table
        <3>3. answer' = [reads |-> 2, status |-> answer.status,
                         currentRound |-> answer.currentRound, standings |-> table]
            BY <1>1, <3>2, AnswerUpdates
        <3>4. /\ answer'.reads = 2 /\ answer'.status = answer.status
              /\ answer'.standings = table
            BY <3>3
        <3>5. answer.status \in Statuses /\ answer.currentRound \in 0..RoundsCount /\ 2 \in 0..3
            BY <1>1, AnswerTypes
        <3>6. answer' \in AnswerType
            BY <3>1, <3>3, <3>5, AnswerTypes
        <3>. QED
            BY <3>4, <3>6
    <2>3. PICK n \in 0..RoundsCount :
              /\ \A r \in Rounds : rounds[r].completed <=> r <= n
              /\ \A u \in Users \ MayLeave : score[u] = PointsAfter(n, u)
        BY StandingsNow
    <2>4. StandingsAreOf(n)'
        <3>1. \A r \in 1..n : rounds'[r].completed
            BY <1>1, <2>3, SizesAssumption DEF Rounds, vars
        <3>2. \A u : PointsAfter(n, u)' = PointsAfter(n, u)
            BY <1>1 DEF PointsAfter, vars, contentVars
        <3>3. \A u \in Shown' : u \in Users \ MayLeave /\ table[u] = score[u]
            BY <2>1, <2>2 DEF Shown
        <3>. HIDE DEF table
        <3>. QED
            BY <2>2, <2>3, <3>1, <3>2, <3>3 DEF StandingsAreOf
    <2>5. answer.status = "COMPLETED" => status = "COMPLETED" /\ n = RoundsCount
        <3>1. RoundsCount \in Rounds
            BY SizesAssumption DEF Rounds
        <3>2. answer.status = "COMPLETED" => status = "COMPLETED"
            BY <1>1 DEF AnswerInv
        <3>3. status = "COMPLETED" => RoundsCount <= n
            BY <2>3, <3>1 DEF Ledger, SequenceInv
        <3>. QED
            BY <2>3, <3>2, <3>3, SizesAssumption
    <2>. QED
        BY <1>1, <2>2, <2>4, <2>5 DEF AnswerInv, vars, tournamentVars
<1>. QED
    BY <1>2, <1>3

(* The reading of the current round finds a later one: at most one round   *)
(* is there and not completed.                                             *)
LEMMA ReadRoundStep ==
    ASSUME Ledger, AnswerInv, ReadCurrentRound
    PROVE  AnswerInv'
<1>1. /\ answer \in AnswerType /\ answer.reads = 2
      /\ answer' = [answer EXCEPT !.reads = 3, !.currentRound = LastOf(Uncompleted)]
      /\ UNCHANGED vars
    <2>1. answer \in AnswerType /\ SoFar = answer /\ answer.reads = 2
        BY ReadsInOrder DEF AnswerInv, ReadCurrentRound
    <2>2. answer.reads + 1 = 3
        BY <2>1
    <2>. QED
        BY <2>1, <2>2 DEF ReadCurrentRound
<1>2. LastOf(Uncompleted) = 0 \/ LastOf(Uncompleted) \in Uncompleted
    <2>. SUFFICES ASSUME Uncompleted # {} PROVE LastOf(Uncompleted) \in Uncompleted
        BY DEF LastOf
    <2>1. PICK r \in Uncompleted : TRUE
        OBVIOUS
    <2>2. \A q \in Uncompleted : q <= r
        BY DEF Uncompleted, Ledger, SequenceInv, Rounds
    <2>. QED
        BY <2>1, <2>2 DEF LastOf
<1>3. PICK n \in 0..RoundsCount :
          /\ StandingsAreOf(n)
          /\ answer.status = "COMPLETED" => n = RoundsCount
    BY <1>1 DEF AnswerInv
<1>4. \A r \in Uncompleted : r \in Rounds /\ r \in 0..RoundsCount /\ n < r
    BY <1>3, SizesAssumption DEF Uncompleted, StandingsAreOf, Rounds
<1>5. LastOf(Uncompleted) \in 0..RoundsCount
    BY <1>2, <1>4, SizesAssumption
<1>6. /\ answer' \in AnswerType /\ answer'.reads = 3 /\ answer'.status = answer.status
      /\ answer'.standings = answer.standings /\ answer'.currentRound = LastOf(Uncompleted)
    <2>. DEFINE last == LastOf(Uncompleted)
    <2>1. answer' = [answer EXCEPT !.reads = 3, !.currentRound = last] /\ last \in 0..RoundsCount
        BY <1>1, <1>5
    <2>. HIDE DEF last
    <2>2. answer' = [reads |-> 3, status |-> answer.status, currentRound |-> last,
                     standings |-> answer.standings]
        BY <1>1, <2>1, AnswerUpdates
    <2>3. /\ answer' \in AnswerType /\ answer'.reads = 3 /\ answer'.status = answer.status
          /\ answer'.standings = answer.standings /\ answer'.currentRound = last
        <3>1. answer.status \in Statuses /\ answer.standings \in Tables /\ 3 \in 0..3
            BY <1>1, AnswerTypes
        <3>2. last \in 0..RoundsCount
            BY <2>1
        <3>3. answer' \in AnswerType
            BY <2>2, <3>1, <3>2, AnswerTypes
        <3>4. /\ answer'.reads = 3 /\ answer'.status = answer.status
              /\ answer'.standings = answer.standings /\ answer'.currentRound = last
            BY <2>2
        <3>. QED
            BY <3>3, <3>4
    <2>. QED
        BY <2>3 DEF last
<1>7. StandingsAreOf(n)'
    <2>1. \A u : PointsAfter(n, u)' = PointsAfter(n, u)
        BY <1>1 DEF PointsAfter, vars, contentVars
    <2>. QED
        BY <1>1, <1>3, <1>6, <2>1 DEF StandingsAreOf, Shown, vars
<1>8. answer'.currentRound # 0 => n < answer'.currentRound
    BY <1>2, <1>4, <1>6
<1>. QED
    BY <1>1, <1>3, <1>6, <1>7, <1>8 DEF AnswerInv, vars, tournamentVars

(* No step between two reads spoils what the first of them has seen.       *)
LEMMA AnswerStep ==
    ASSUME Ledger, AnswerInv, [QueriesNext]_queryVars
    PROVE  AnswerInv'
<1>0. [Next]_vars
    BY QueryMoves
<1>1. CASE answer' = answer
    <2>1. answer.reads >= 1 /\ answer.status = "COMPLETED" => status' = "COMPLETED"
        BY <1>0, AfterCompletion DEF AnswerInv
    <2>2. ASSUME NEW n \in 0..RoundsCount, StandingsAreOf(n) PROVE StandingsAreOf(n)'
        <3>1. ASSUME NEW r \in 1..n PROVE rounds'[r].completed
            <4>1. r \in Rounds /\ rounds[r].completed /\ rounds \in [Rounds -> RoundRow]
                BY <2>2, SizesAssumption DEF StandingsAreOf, Rounds, Ledger, Inv, TypeOK
            <4>2. ~\E w \in Workers : Counts(w) /\ tasks[w].round = r
                BY <4>1, CountsScores DEF Ledger
            <4>. QED
                BY <1>0, <4>1, <4>2, CompletedWriters DEF Ledger
        <3>2. \A u \in Shown : u \in Users
            BY DEF Shown, AnswerInv, AnswerType, Tables
        <3>3. \A u \in Shown : PointsAfter(n, u)' = PointsAfter(n, u)
            BY <1>0, <2>2, <3>2, PointsStay DEF StandingsAreOf
        <3>. QED
            BY <1>1, <2>2, <3>1, <3>3 DEF StandingsAreOf, Shown
    <2>. QED
        BY <1>1, <2>1, <2>2 DEF AnswerInv
<1>2. CASE answer' = NoAnswer
    BY <1>2, AnswerTypes DEF AnswerInv
<1>3. CASE ReadTournament
    <2>1. /\ answer' = [SoFar EXCEPT !.reads = @ + 1, !.status = status] /\ status' = status
          /\ SoFar \in AnswerType /\ SoFar.reads = 0 /\ status \in Statuses
        BY <1>3, ReadsInOrder
        DEF ReadTournament, AnswerInv, vars, tournamentVars, Ledger, Inv, TypeOK
    <2>2. answer' = [SoFar EXCEPT !.reads = 1, !.status = status]
        BY <2>1
    <2>3. answer' = [reads |-> 1, status |-> status, currentRound |-> SoFar.currentRound,
                     standings |-> SoFar.standings]
        BY ZenonT(30), <2>1, <2>2, AnswerUpdates
    <2>4. answer' \in AnswerType /\ answer'.reads = 1 /\ answer'.status = status
        <3>1. SoFar.currentRound \in 0..RoundsCount /\ SoFar.standings \in Tables /\ 1 \in 0..3
            BY <2>1, AnswerTypes
        <3>2. status \in Statuses
            BY <2>1
        <3>3. answer' \in AnswerType
            BY <2>3, <3>1, <3>2, AnswerTypes
        <3>4. answer'.reads = 1 /\ answer'.status = status
            BY <2>3
        <3>. QED
            BY <3>3, <3>4
    <2>. QED
        BY <2>1, <2>4 DEF AnswerInv
<1>4. ASSUME NEW user \in Users, ReadParticipants(user) PROVE AnswerInv'
    BY <1>4, ReadParticipantsStep
<1>. QED
    BY <1>1, <1>2, <1>3, <1>4, ReadRoundStep, QueryMoves DEF Query

(* What the ledger knows holds beside the queries too.                     *)
LEMMA AnswerInvariance == QueriesSpec => [](Ledger /\ AnswerInv)
<1>1. QueriesInit => Ledger /\ AnswerInv
    <2>. SUFFICES ASSUME QueriesInit PROVE Ledger /\ AnswerInv
        OBVIOUS
    <2>1. Ledger
        BY InvInit, LedgerInit DEF QueriesInit, Ledger, Init, SequenceInv, Exists, NoRound
    <2>2. answer \in AnswerType /\ answer.reads = 0
        BY AnswerTypes DEF QueriesInit
    <2>. QED
        BY <2>1, <2>2 DEF AnswerInv
<1>2. Ledger /\ AnswerInv /\ [QueriesNext]_queryVars => (Ledger /\ AnswerInv)'
    BY QueryMoves, InvStep, SequenceStep, LeaversStep, LedgerStep, AnswerStep DEF Ledger
<1>. QED
    BY <1>1, <1>2, PTL DEF QueriesSpec

(* The three queries of GET :id/full have no common transaction, and still *)
(* the standings of an answer are those after a round before the one that  *)
(* it shows as current, because the round is read last.                    *)
THEOREM AnswerConsistent == QueriesSpec => []StandingsPrecedeRound
<1>1. AnswerInv => StandingsPrecedeRound
    <2>. SUFFICES ASSUME AnswerInv, answer.reads = 3 PROVE StandingsPrecedeRound
        BY DEF StandingsPrecedeRound, Answered, ReadOrder
    <2>. QED
        BY DEF AnswerInv, StandingsAreOf, StandingsPrecedeRound
<1>. QED
    BY <1>1, AnswerInvariance, PTL

(* An answer with status COMPLETED carries the final standings, because    *)
(* the status is read first and nothing is counted afterwards.             *)
THEOREM AnswerFinal == QueriesSpec => []CompletedIsFinal
<1>1. AnswerInv => CompletedIsFinal
    <2>. SUFFICES ASSUME AnswerInv, answer.reads = 3, answer.status = "COMPLETED"
                  PROVE  /\ answer.currentRound = 0
                         /\ \A u \in Shown : answer.standings[u] = PointsAfter(RoundsCount, u)
        BY DEF CompletedIsFinal, Answered, ReadOrder
    <2>1. answer.currentRound \in 0..RoundsCount
        BY DEF AnswerInv, AnswerType
    <2>. QED
        BY <2>1, SizesAssumption DEF AnswerInv, StandingsAreOf
<1>. QED
    BY <1>1, AnswerInvariance, PTL

=============================================================================
