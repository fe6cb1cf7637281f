------------------------ MODULE RoundLifecycleProofs ------------------------
(***************************************************************************)
(* What TLAPS proves of RoundLifecycle for every value of its constants.   *)
(* TypeOK is not inductive by itself: Finalize looks up the position of    *)
(* the current submission, which VotingCursor says there is.  The ballots  *)
(* need in addition that nobody is in a reveal order twice and that the    *)
(* start finds no rounds; and all of it, that whoever holds the lock of a  *)
(* round for a finalization holds it alone, with the step still open: Inv  *)
(* is the conjunction of these.  RoundStep says once what a step can do to *)
(* a round; the rest goes by cases on it.                                  *)
(***************************************************************************)
EXTENDS RoundLifecycle, TLAPS, SequenceTheorems, FiniteSetTheorems

-----------------------------------------------------------------------------
(* The reveal order.                                                       *)

(* PositionOf returns a position of an author who submitted.               *)
LEMMA PositionIsThere ==
    ASSUME NEW order \in Seq(Users), NEW a \in {order[i] : i \in 1..Len(order)}
    PROVE  PositionOf(a, order) \in 1..Len(order) /\ order[PositionOf(a, order)] = a
<1>1. PICK i \in 1..Len(order) : order[i] = a
    OBVIOUS
<1>. QED
    BY <1>1 DEF PositionOf

(* Taking a position out of a sequence leaves the others, in order.        *)
LEMMA WithoutPosition ==
    ASSUME NEW order \in Seq(Users), NEW i \in 1..Len(order)
    PROVE  LET rest == SubSeq(order, 1, i - 1) \o SubSeq(order, i + 1, Len(order))
           IN  /\ rest \in Seq(Users)
               /\ Len(rest) = Len(order) - 1
               /\ \A k \in 1..(Len(order) - 1) :
                     rest[k] = IF k < i THEN order[k] ELSE order[k + 1]
<1>. DEFINE front == SubSeq(order, 1, i - 1)
            back == SubSeq(order, i + 1, Len(order))
            rest == front \o back
<1>2. Len(order) \in Nat /\ \A k \in 1..Len(order) : order[k] \in Users
    BY LenProperties, ElementOfSeq
<1>3. /\ front \in Seq(Users) /\ Len(front) = i - 1
      /\ \A k \in 1..(i - 1) : front[k] = order[k]
    BY <1>2, SubSeqProperties
<1>4. /\ back \in Seq(Users) /\ Len(back) = Len(order) - i
      /\ \A k \in 1..(Len(order) - i) : back[k] = order[i + k]
    BY <1>2, SubSeqProperties
<1>. HIDE DEF front, back
<1>5. /\ rest \in Seq(Users)
      /\ Len(rest) = Len(front) + Len(back)
      /\ \A k \in 1..(Len(front) + Len(back)) :
            rest[k] = IF k <= Len(front) THEN front[k] ELSE back[k - Len(front)]
    BY <1>3, <1>4, ConcatProperties
<1>. HIDE DEF rest
<1>6. rest \in Seq(Users) /\ Len(rest) = Len(order) - 1
    BY <1>2, <1>3, <1>4, <1>5
<1>7. ASSUME NEW k \in 1..(Len(order) - 1)
      PROVE  rest[k] = IF k < i THEN order[k] ELSE order[k + 1]
    <2>1. rest[k] = IF k <= i - 1 THEN front[k] ELSE back[k - (i - 1)]
        BY <1>2, <1>3, <1>4, <1>5
    <2>2. CASE k < i
        BY <1>2, <1>3, <2>1, <2>2
    <2>3. CASE ~(k < i)
        <3>. DEFINE j == k - (i - 1)
        <3>1. j \in 1..(Len(order) - i) /\ i + j = k + 1
            BY <1>2, <2>3
        <3>2. rest[k] = back[j]
            BY <1>2, <1>7, <2>1, <2>3
        <3>. HIDE DEF j
        <3>3. back[j] = order[i + j]
            BY <1>4, <3>1
        <3>. QED
            BY <2>3, <3>1, <3>2, <3>3
    <2>. QED
        BY <2>2, <2>3
<1>. QED
    BY <1>6, <1>7 DEF rest, front, back

(* Sending a submission again keeps the reveal order one of users, of the  *)
(* same length.                                                            *)
LEMMA ResubmittedIsOrder ==
    ASSUME NEW order \in Seq(Users), NEW a \in {order[i] : i \in 1..Len(order)}, a \in Users
    PROVE  Resubmitted(a, order) \in Seq(Users) /\ Len(Resubmitted(a, order)) = Len(order)
<1>. DEFINE i == PositionOf(a, order)
            rest == SubSeq(order, 1, i - 1) \o SubSeq(order, i + 1, Len(order))
<1>1. i \in 1..Len(order)
    BY PositionIsThere
<1>. HIDE DEF i
<1>2. rest \in Seq(Users) /\ Len(rest) = Len(order) - 1
    BY <1>1, WithoutPosition
<1>3. Resubmitted(a, order) = Append(rest, a)
    BY DEF Resubmitted, i
<1>. HIDE DEF rest
<1>. QED
    BY <1>2, <1>3, AppendProperties

-----------------------------------------------------------------------------
(* Types.                                                                  *)

(* The rows that the transactions insert are rows.                         *)
LEMMA RowTypes ==
    /\ NoRound \in RoundRow
    /\ \A p \in Prompts : NewRound(p) \in RoundRow
BY DEF NoRound, NewRound, RoundRow, Phases, StepStatuses

(* The updates of a row that the transactions make keep it a row.          *)
LEMMA RowUpdates ==
    ASSUME NEW row \in RoundRow, NEW n \in Nat, NEW c \in Users \cup {None}
    PROVE  /\ [row EXCEPT !.phase = "VOTING"] \in RoundRow
           /\ [row EXCEPT !.completed = TRUE] \in RoundRow
           /\ [row EXCEPT !.stepStatus = "FINISHED"] \in RoundRow
           /\ [row EXCEPT !.stepStatus = @] = row
           /\ [row EXCEPT !.stepStatus = "OPEN", !.step = n, !.current = c] \in RoundRow
           /\ [row EXCEPT !.current = c, !.step = n] \in RoundRow
           /\ [row EXCEPT !.current = c, !.step = n, !.stepStatus = "FINISHED"] \in RoundRow
BY DEF RoundRow, Phases, StepStatuses

(* A free handler slot is a handler.                                       *)
LEMMA IdleTaskType == IdleTask \in Task
BY SizesAssumption DEF IdleTask, Task, Steps, Reasons, Rounds

(* The three ways a handler moves on keep tasks a function to Task.        *)
LEMMA TaskMoves ==
    ASSUME tasks \in [Workers -> Task], NEW w \in Workers
    PROVE  /\ \A pc \in Steps, r \in Rounds : Begin(w, pc, r) => tasks' \in [Workers -> Task]
           /\ \A pc \in Steps : Goto(w, pc) => tasks' \in [Workers -> Task]
           /\ Finish(w) => tasks' \in [Workers -> Task]
           /\ \A pc \in Steps, r \in Rounds :
                BeginOnDeadline(w, pc, r) => tasks' \in [Workers -> Task]
<1>1. \A pc \in Steps, r \in Rounds :
          [IdleTask EXCEPT !.pc = pc, !.round = r] \in Task
    BY IdleTaskType DEF Task
<1>2. \A pc \in Steps, r \in Rounds :
          [IdleTask EXCEPT !.pc = pc, !.round = r, !.reason = "DEADLINE_EXPIRED"] \in Task
    BY IdleTaskType DEF Task, Reasons
<1>3. \A pc \in Steps : [tasks[w] EXCEPT !.pc = pc] \in Task
    BY DEF Task
<1>. QED
    BY <1>1, <1>2, <1>3, IdleTaskType DEF Begin, Goto, Finish, BeginOnDeadline

(* The number of likes is a number.                                        *)
LEMMA PointsType ==
    ASSUME NEW r \in Rounds
    PROVE  PointsIn(r) \in [Users -> Nat]
<1>1. \A a \in Users : Likes(r, a) \in Nat
    <2>. TAKE a \in Users
    <2>1. IsFiniteSet({v \in Users : votes[r][a][v] = "LIKE"})
        BY UsersAssumption, FS_Subset
    <2>. QED
        BY <2>1, FS_CardinalityType DEF Likes
<1>. QED
    BY <1>1 DEF PointsIn

(* The position of the current submission of an open step.                 *)
LEMMA CurrentPosition ==
    ASSUME TypeOK, VotingCursor, NEW r \in Rounds, VotingOpen(r)
    PROVE  /\ rounds[r].current \in Users
           /\ PositionOf(rounds[r].current, submissions[r]) \in 1..Len(submissions[r])
           /\ submissions[r][PositionOf(rounds[r].current, submissions[r])] = rounds[r].current
<1>1. submissions[r] \in Seq(Users) /\ rounds[r].step \in 1..Len(submissions[r])
      /\ rounds[r].current = submissions[r][rounds[r].step]
    BY DEF TypeOK, VotingCursor, RowAgrees, VotingOpen
<1>2. rounds[r].current \in {submissions[r][i] : i \in 1..Len(submissions[r])}
    BY <1>1
<1>. QED
    BY <1>1, <1>2, PositionIsThere, ElementOfSeq

(* Whoever fills in the ballots of a round does so alone, with a step open *)
(* whose author is not among the voters.                                   *)
Filler(w, r) == tasks[w].pc = "filling" /\ tasks[w].round = r

FillersAgree ==
    \A r \in Rounds, w \in Workers : Filler(w, r) =>
        /\ VotingOpen(r)
        /\ tasks[w].voters \subseteq Users \ {rounds[r].current}
        /\ \A x \in Workers : Filler(x, r) => x = w

(* The initial values are of their types.                                  *)
LEMMA TypeInit == Init => TypeOK
<1>1. 0 \in 0..MaxFaults
    BY SizesAssumption
<1>. QED
    BY <1>1, UsersAssumption, RowTypes, IdleTaskType, EmptySeq
    DEF Init, TypeOK, Statuses, Votes

(* Every step keeps the types.                                             *)
LEMMA TypeStep ==
    ASSUME TypeOK, VotingCursor, FillersAgree, [Next]_vars
    PROVE  TypeOK'
<1>. USE DEF TypeOK, tournamentVars, contentVars, clockVars, timerVars
<1>1. ASSUME NEW w \in Workers, Leave(w) PROVE TypeOK'
    <2>1. tasks' \in [Workers -> Task]
        BY <1>1, TaskMoves DEF Leave
    <2>. QED
        BY <1>1, <2>1 DEF Leave
<1>2. ASSUME NEW w \in Workers, ArmSubmissionTimer(w) PROVE TypeOK'
    <2>1. tasks' \in [Workers -> Task] /\ tasks[w].round \in Rounds
        BY <1>2, TaskMoves DEF ArmSubmissionTimer, Task
    <2>. QED
        BY <1>2, <2>1 DEF ArmSubmissionTimer
<1>3. ASSUME NEW w \in Workers, HandleSubmissionSaved(w) PROVE TypeOK'
    <2>1. tasks' \in [Workers -> Task]
        BY <1>3, TaskMoves DEF HandleSubmissionSaved, Steps
    <2>. QED
        BY <1>3, <2>1 DEF HandleSubmissionSaved
<1>4. ASSUME NEW w \in Workers, CountSubmissions(w) PROVE TypeOK'
    <2>1. \A online \in SUBSET Users :
              [tasks[w] EXCEPT !.pc = "closing", !.online = online,
                               !.reason = "ALL_ACTIVE_PARTICIPANTS_SUBMITTED"] \in Task
        BY ZenonT(30) DEF Task, Steps, Reasons
    <2>2. tasks' \in [Workers -> Task]
        BY <1>4, <2>1, TaskMoves DEF CountSubmissions
    <2>. QED
        BY <1>4, <2>2 DEF CountSubmissions
<1>5. ASSUME NEW w \in Workers, CloseSubmissions(w) PROVE TypeOK'
    <2>1. tasks' \in [Workers -> Task] /\ tasks[w].round \in Rounds
        BY <1>5, TaskMoves DEF CloseSubmissions, Task, Steps
    <2>2. [rounds[tasks[w].round] EXCEPT !.phase = "VOTING"] \in RoundRow
        BY <2>1, RowUpdates
    <2>3. rounds' \in [Rounds -> RoundRow]
        BY <1>5, <2>1, <2>2 DEF CloseSubmissions
    <2>. QED
        BY <1>5, <2>1, <2>3 DEF CloseSubmissions
<1>6. ASSUME NEW w \in Workers, CancelSubmissionTimer(w) PROVE TypeOK'
    <2>1. tasks' \in [Workers -> Task]
        BY <1>6, TaskMoves DEF CancelSubmissionTimer, Steps
    <2>. QED
        BY <1>6, <2>1 DEF CancelSubmissionTimer
<1>7. ASSUME NEW w \in Workers, OpenVoting(w) PROVE TypeOK'
    <2>. DEFINE r == tasks[w].round
    <2>1. r \in Rounds /\ [tasks[w] EXCEPT !.pc = "opened", !.step = 1] \in Task
        BY DEF Task, Steps
    <2>2. tasks' \in [Workers -> Task]
        BY <1>7, <2>1, TaskMoves DEF OpenVoting, Steps
    <2>3. submissions[r] # << >> => submissions[r][1] \in Users
        BY <2>1, EmptySeq, ElementOfSeq
    <2>4. /\ [rounds[r] EXCEPT !.stepStatus = "FINISHED"] \in RoundRow
          /\ rounds[r] \in RoundRow
          /\ submissions[r] # << >> =>
               [rounds[r] EXCEPT !.stepStatus = "OPEN", !.step = 1,
                                 !.current = submissions[r][1]] \in RoundRow
        BY <2>1, <2>3, RowUpdates
    <2>5. [rounds[r] EXCEPT !.stepStatus = @] = rounds[r]
        BY <2>1, RowUpdates
    <2>6. rounds' \in [Rounds -> RoundRow]
        BY <1>7, <2>1, <2>4, <2>5 DEF OpenVoting
    <2>. QED
        BY <1>7, <2>2, <2>6 DEF OpenVoting
<1>8. ASSUME NEW w \in Workers, ArmVotingTimer(w) PROVE TypeOK'
    <2>1. tasks' \in [Workers -> Task] /\ tasks[w].step \in Nat
        BY <1>8, TaskMoves DEF ArmVotingTimer, Task
    <2>. QED
        BY <1>8, <2>1 DEF ArmVotingTimer
<1>9. ASSUME NEW w \in Workers, CheckVotingFinished(w) PROVE TypeOK'
    <2>1. tasks' \in [Workers -> Task]
        BY <1>9, TaskMoves DEF CheckVotingFinished, Steps
    <2>. QED
        BY <1>9, <2>1 DEF CheckVotingFinished
<1>10. ASSUME NEW w \in Workers, HandleVoteSaved(w) PROVE TypeOK'
    <2>. DEFINE r == tasks[w].round
    <2>1. [tasks[w] EXCEPT !.pc = "countingVotes", !.user = rounds[r].current] \in Task
        BY ZenonT(30) DEF Task, RoundRow, Steps
    <2>2. tasks' \in [Workers -> Task]
        BY <1>10, <2>1, TaskMoves DEF HandleVoteSaved
    <2>. QED
        BY <1>10, <2>2 DEF HandleVoteSaved
<1>11. ASSUME NEW w \in Workers, CountVotes(w) PROVE TypeOK'
    <2>1. \A online \in SUBSET EligibleVoters(tasks[w].user) :
              [tasks[w] EXCEPT !.pc = "finalizing", !.online = online,
                               !.reason = "ALL_ACTIVE_ELIGIBLE_VOTERS_VOTED"] \in Task
        BY ZenonT(30) DEF Task, Steps, Reasons, EligibleVoters
    <2>2. tasks' \in [Workers -> Task]
        BY <1>11, <2>1, TaskMoves DEF CountVotes
    <2>. QED
        BY <1>11, <2>2 DEF CountVotes
<1>12. ASSUME NEW w \in Workers, Finalize(w) PROVE TypeOK'
    <2>. DEFINE r == tasks[w].round
                next == NextPosition(r)
    <2>1. r \in Rounds /\ submissions[r] \in Seq(Users) /\ rounds[r] \in RoundRow
        BY DEF Task
    <2>2. VotingOpen(r)
        BY <1>12, <2>1 DEF Finalize, FillersAgree, Filler
    <2>3. rounds[r].current \in Users /\ next \in Nat
        BY SMTT(30), <2>1, <2>2, CurrentPosition, LenProperties DEF NextPosition
    <2>4. next <= Len(submissions[r]) => submissions[r][next] \in Users
        BY SMTT(30), <2>1, <2>2, CurrentPosition, LenProperties, ElementOfSeq DEF NextPosition
    <2>5. votes' \in [Rounds -> [Users -> [Users -> Votes]]]
        <3>. DEFINE ballots == FilledBallots(r, tasks[w].voters)
        <3>1. ballots \in [Users -> Votes]
            BY <2>1, <2>3 DEF FilledBallots, Votes
        <3>2. votes' = [votes EXCEPT ![r][rounds[r].current] = ballots]
            BY <1>12 DEF Finalize
        <3>. HIDE DEF r, ballots
        <3>3. [votes[r] EXCEPT ![rounds[r].current] = ballots] \in [Users -> [Users -> Votes]]
            BY <2>1, <2>3, <3>1
        <3>. QED
            BY <2>1, <3>2, <3>3
    <2>6. /\ next <= Len(submissions[r]) =>
               [rounds[r] EXCEPT !.current = submissions[r][next], !.step = next] \in RoundRow
          /\ [rounds[r] EXCEPT !.current = None, !.step = 0, !.stepStatus = "FINISHED"]
               \in RoundRow
        BY <2>1, <2>3, <2>4, RowUpdates
    <2>7. \A n \in Nat : [tasks[w] EXCEPT !.pc = "finalized", !.voters = {}, !.step = n] \in Task
        BY ZenonT(60) DEF Task, Steps
    <2>. HIDE DEF next
    <2>8. CASE next <= Len(submissions[r])
        <3>1. rounds' \in [Rounds -> RoundRow] /\ tasks' \in [Workers -> Task]
            BY <1>12, <2>1, <2>3, <2>6, <2>7, <2>8 DEF Finalize, next
        <3>. QED
            BY <1>12, <2>5, <3>1 DEF Finalize
    <2>9. CASE ~(next <= Len(submissions[r]))
        <3>1. rounds' \in [Rounds -> RoundRow] /\ tasks' \in [Workers -> Task]
            BY <1>12, <2>1, <2>3, <2>6, <2>7, <2>9 DEF Finalize, next
        <3>. QED
            BY <1>12, <2>5, <3>1 DEF Finalize
    <2>. QED
        BY <2>8, <2>9
<1>13. ASSUME NEW w \in Workers, AfterFinalize(w) PROVE TypeOK'
    <2>1. tasks' \in [Workers -> Task] /\ tasks[w].step \in Nat
        BY <1>13, TaskMoves DEF AfterFinalize, Steps, Task
    <2>. QED
        BY <1>13, <2>1 DEF AfterFinalize
<1>14. ASSUME NEW w \in Workers, CompleteRound(w) PROVE TypeOK'
    <2>. DEFINE r == tasks[w].round
    <2>1. r \in Rounds /\ tasks' \in [Workers -> Task]
        BY <1>14, TaskMoves DEF CompleteRound, Task, Steps
    <2>2. PointsIn(r) \in [Users -> Nat]
        BY <2>1, PointsType
    <2>3. [rounds[r] EXCEPT !.completed = TRUE] \in RoundRow
        BY <2>1, RowUpdates
    <2>4. rounds' \in [Rounds -> RoundRow]
        BY <1>14, <2>1, <2>3 DEF CompleteRound
    <2>5. roundScore' \in [Rounds -> [Users -> Nat]]
        BY <1>14, <2>1, <2>2 DEF CompleteRound
    <2>6. score' \in [Users -> Nat]
        <3>1. \A u \in Users : score[u] \in Nat /\ score[u] + PointsIn(r)[u] \in Nat
            BY <2>2
        <3>2. \/ score' = score
              \/ score' = [u \in Users |-> IF u \in participants
                                             THEN score[u] + PointsIn(r)[u] ELSE score[u]]
            BY <1>14 DEF CompleteRound, StandingsAfter
        <3>. QED
            BY <3>1, <3>2
    <2>. QED
        BY <1>14, <2>1, <2>4, <2>5, <2>6 DEF CompleteRound
<1>15. ASSUME NEW w \in Workers, FinishTournament(w) PROVE TypeOK'
    <2>1. tasks' \in [Workers -> Task]
        BY <1>15, TaskMoves DEF FinishTournament
    <2>. QED
        BY <1>15, <2>1 DEF FinishTournament, Statuses, Leaders
<1>16. ASSUME NEW w \in Workers, CreateNextRound(w) PROVE TypeOK'
    <2>. DEFINE r == tasks[w].round
    <2>1. r \in Rounds /\ r + 1 \in Rounds
        BY <1>16, SizesAssumption DEF CreateNextRound, IsLastRound, Task, Rounds
    <2>2. [tasks[w] EXCEPT !.pc = "arming", !.round = r + 1] \in Task
        BY ZenonT(60), <2>1 DEF Task, Steps
    <2>3. tasks' \in [Workers -> Task]
        BY <1>16, <2>2, TaskMoves DEF CreateNextRound
    <2>4. \A p \in UnusedPrompts : [rounds EXCEPT ![r + 1] = NewRound(p)] \in [Rounds -> RoundRow]
        BY <2>1, RowTypes DEF UnusedPrompts
    <2>5. \/ UNCHANGED rounds
          \/ \E p \in UnusedPrompts : rounds' = [rounds EXCEPT ![r + 1] = NewRound(p)]
        BY <1>16 DEF CreateNextRound
    <2>6. rounds' \in [Rounds -> RoundRow]
        BY <2>4, <2>5
    <2>. QED
        BY <1>16, <2>3, <2>6 DEF CreateNextRound
<1>17. ASSUME NEW w \in Workers, Start(w) PROVE TypeOK'
    <2>1. 1 \in Rounds
        BY SizesAssumption DEF Rounds
    <2>2. tasks' \in [Workers -> Task]
        BY <1>17, <2>1, TaskMoves DEF Start, Steps
    <2>3. rounds' \in [Rounds -> RoundRow]
        BY <1>17, <2>1, RowTypes DEF Start, UnusedPrompts
    <2>. QED
        BY <1>17, <2>2, <2>3 DEF Start, Statuses
<1>18. ASSUME NEW w \in Workers, NEW u \in Users, AskToLeave(w, u) PROVE TypeOK'
    <2>1. [IdleTask EXCEPT !.pc = "leaving", !.user = u] \in Task
        BY IdleTaskType DEF Task, Steps
    <2>. QED
        BY <1>18, <2>1 DEF AskToLeave
<1>19. ASSUME NEW w \in Workers, NEW r \in Rounds, NEW u \in Users, Submit(w, r, u) PROVE TypeOK'
    <2>1. tasks' \in [Workers -> Task]
        BY <1>19, TaskMoves DEF Submit, Steps
    <2>2. u \in SubmittedIn(r) => Resubmitted(u, submissions[r]) \in Seq(Users)
        BY ResubmittedIsOrder DEF SubmittedIn
    <2>3. Append(submissions[r], u) \in Seq(Users)
        BY AppendProperties
    <2>4. submissions' \in [Rounds -> Seq(Users)]
        BY <1>19, <2>2, <2>3 DEF Submit
    <2>. QED
        BY <1>19, <2>1, <2>4 DEF Submit
<1>20. ASSUME NEW w \in Workers, NEW r \in Rounds, NEW a \in Users, NEW v \in Users,
              NEW value \in VoteValues, CastVote(w, r, a, v, value)
       PROVE  TypeOK'
    <2>1. tasks' \in [Workers -> Task]
        BY <1>20, TaskMoves DEF CastVote, Steps
    <2>2. value \in Votes
        BY EnvironmentAssumption DEF Votes
    <2>3. votes' \in [Rounds -> [Users -> [Users -> Votes]]]
        BY <1>20, <2>2 DEF CastVote
    <2>. QED
        BY <1>20, <2>1, <2>3 DEF CastVote
<1>21. CASE Cancel
    BY <1>21 DEF Cancel, Statuses
<1>22. ASSUME NEW u \in Users, Join(u) PROVE TypeOK'
    BY <1>22 DEF Join
<1>23. ASSUME NEW r \in Rounds, SubmissionDeadlinePasses(r) PROVE TypeOK'
    BY <1>23 DEF SubmissionDeadlinePasses
<1>24. ASSUME NEW r \in Rounds, VotingDeadlinePasses(r) PROVE TypeOK'
    BY <1>24 DEF VotingDeadlinePasses
<1>25. ASSUME NEW r \in Rounds, SubmissionTimerFires(r) PROVE TypeOK'
    <2>1. tasks' \in [Workers -> Task]
        BY <1>25, TaskMoves DEF SubmissionTimerFires, Steps
    <2>. QED
        BY <1>25, <2>1 DEF SubmissionTimerFires
<1>26. ASSUME NEW r \in Rounds, VotingTimerFires(r) PROVE TypeOK'
    <2>1. tasks' \in [Workers -> Task]
        BY <1>26, TaskMoves DEF VotingTimerFires, Steps
    <2>. QED
        BY <1>26, <2>1 DEF VotingTimerFires
<1>27. FaultHappens("crash") \/ FaultHappens("requestFails") \/ FaultHappens("replyLost")
           => faults' \in 0..MaxFaults
    BY SizesAssumption DEF FaultHappens
<1>28. CASE CrashRestart
    <2>1. votingTimer' \in [Rounds -> Nat]
        BY <1>28 DEF CrashRestart, VotingTimersAtBoot, RoundRow
    <2>. QED
        BY <1>27, <1>28, <2>1, IdleTaskType DEF CrashRestart, SubmissionTimersAtBoot
<1>29. ASSUME NEW w \in Workers, RequestFails(w) PROVE TypeOK'
    <2>1. tasks' \in [Workers -> Task]
        BY <1>29, TaskMoves DEF RequestFails
    <2>. QED
        BY <1>27, <1>29, <2>1 DEF RequestFails
<1>30. ASSUME NEW w \in Workers, ReplyLost(w) PROVE TypeOK'
    <2>1. tasks' \in [Workers -> Task]
        BY <1>30, TaskMoves DEF ReplyLost
    <2>. QED
        BY <1>27, <1>30, <2>1 DEF ReplyLost
<1>31. CASE UNCHANGED vars
    BY <1>31 DEF vars
<1>32. ASSUME NEW w \in Workers, FindParticipant(w) PROVE TypeOK'
    <2>1. tasks' \in [Workers -> Task]
        BY <1>32, TaskMoves DEF FindParticipant, Steps
    <2>. QED
        BY <1>32, <2>1 DEF FindParticipant
<1>33. ASSUME NEW w \in Workers, BeginFinalization(w) PROVE TypeOK'
    <2>. DEFINE c == rounds[tasks[w].round].current
               filling == [tasks[w] EXCEPT !.pc = "filling", !.voters = EligibleVoters(c)]
    <2>1. filling \in Task
        BY ZenonT(30) DEF Task, Steps, EligibleVoters
    <2>2. tasks' \in [Workers -> Task]
        <3>1. tasks' = [tasks EXCEPT ![w] = filling] \/ Finish(w)
            BY <1>33 DEF BeginFinalization
        <3>. HIDE DEF filling
        <3>. QED
            BY <2>1, <3>1, TaskMoves
    <2>. QED
        BY <1>33, <2>2 DEF BeginFinalization
<1>. QED
    BY <1>1, <1>2, <1>3, <1>4, <1>5, <1>6, <1>7, <1>8, <1>9, <1>10, <1>11, <1>12, <1>13, <1>14,
       <1>15, <1>16, <1>17, <1>18, <1>19, <1>20, <1>21, <1>22, <1>23, <1>24, <1>25, <1>26,
       <1>28, <1>29, <1>30, <1>31, <1>32, <1>33 DEF Next, Request, TaskStep

-----------------------------------------------------------------------------
(* What a step does to the handlers.                                       *)

Others(w) == \A x \in Workers \ {w} : tasks'[x] = tasks[x]

(* The four ways in which a handler moves on.                              *)
LEMMA HandlerMoves ==
    ASSUME TypeOK, NEW w \in Workers
    PROVE  /\ \A pc, r : Begin(w, pc, r) =>
                /\ Others(w)
                /\ tasks'[w].pc = pc /\ tasks'[w].round = r
           /\ \A pc : Goto(w, pc) =>
                /\ Others(w)
                /\ tasks'[w].pc = pc /\ tasks'[w].round = tasks[w].round
                /\ tasks'[w].reason = tasks[w].reason /\ tasks'[w].step = tasks[w].step
           /\ Finish(w) => Others(w) /\ tasks'[w].pc = "idle"
           /\ \A pc, r : BeginOnDeadline(w, pc, r) =>
                /\ Others(w)
                /\ tasks'[w].pc = pc /\ tasks'[w].round = r
                /\ tasks'[w].reason = "DEADLINE_EXPIRED"
<1>1. tasks \in [Workers -> Task]
    BY DEF TypeOK
<1>2. ASSUME NEW pc, NEW r, Begin(w, pc, r)
      PROVE  Others(w) /\ tasks'[w].pc = pc /\ tasks'[w].round = r
    BY <1>1, <1>2 DEF Begin, IdleTask, Others
<1>3. ASSUME NEW pc, Goto(w, pc)
      PROVE  /\ Others(w)
             /\ tasks'[w].pc = pc /\ tasks'[w].round = tasks[w].round
             /\ tasks'[w].reason = tasks[w].reason /\ tasks'[w].step = tasks[w].step
    BY <1>1, <1>3 DEF Goto, Others, Task
<1>4. ASSUME Finish(w) PROVE Others(w) /\ tasks'[w].pc = "idle"
    BY <1>1, <1>4 DEF Finish, IdleTask, Others
<1>5. ASSUME NEW pc, NEW r, BeginOnDeadline(w, pc, r)
      PROVE  /\ Others(w)
             /\ tasks'[w].pc = pc /\ tasks'[w].round = r
             /\ tasks'[w].reason = "DEADLINE_EXPIRED"
    BY <1>1, <1>5 DEF BeginOnDeadline, IdleTask, Others
<1>. QED
    BY <1>2, <1>3, <1>4, <1>5

(* Only these transactions have a continuation that relies on the row, the *)
(* first of a finalization's two steps among them.                         *)
LEMMA Committers ==
    ASSUME TypeOK, [Next]_vars, NEW x \in Workers, tasks'[x] # tasks[x],
           tasks'[x].pc \in {"closed", "opened", "filling", "finalized"}
    PROVE  CloseSubmissions(x) \/ OpenVoting(x) \/ BeginFinalization(x) \/ Finalize(x)
<1>0. tasks \in [Workers -> Task]
    BY DEF TypeOK
<1>1. ASSUME NEW w \in Workers, TaskStep(w)
      PROVE  CloseSubmissions(x) \/ OpenVoting(x) \/ BeginFinalization(x) \/ Finalize(x)
    <2>1. ASSUME Goto(w, "completing") \/ Finish(w) \/ Goto(w, "openingVoting")
                    \/ Goto(w, "countingSubmissions") \/ Goto(w, "delaying")
                    \/ Goto(w, "deleting")
          PROVE FALSE
        BY <2>1, HandlerMoves DEF Others
    <2>2. CASE FindParticipant(w) \/ Leave(w) \/ ArmSubmissionTimer(w) \/ HandleSubmissionSaved(w)
                  \/ CancelSubmissionTimer(w) \/ ArmVotingTimer(w) \/ CheckVotingFinished(w)
                  \/ AfterFinalize(w) \/ CompleteRound(w) \/ FinishTournament(w)
        BY <2>1, <2>2 DEF FindParticipant, Leave, ArmSubmissionTimer, HandleSubmissionSaved,
               CancelSubmissionTimer, ArmVotingTimer, CheckVotingFinished, AfterFinalize,
               CompleteRound, FinishTournament
    <2>3. ASSUME NEW r, tasks' = [tasks EXCEPT ![w].pc = "arming", ![w].round = r] PROVE FALSE
        BY <1>0, <2>3 DEF Task
    <2>5. ASSUME NEW u, tasks' = [tasks EXCEPT ![w].pc = "countingVotes", ![w].user = u] PROVE FALSE
        BY <1>0, <2>5 DEF Task
    <2>6. ASSUME NEW online, NEW reason,
                 \/ tasks' = [tasks EXCEPT ![w].pc = "closing", ![w].online = online,
                                           ![w].reason = reason]
                 \/ tasks' = [tasks EXCEPT ![w].pc = "finalizing", ![w].online = online,
                                           ![w].reason = reason]
          PROVE FALSE
        BY <1>0, <2>6 DEF Task
    <2>7. CASE CountSubmissions(w)
        <3>1. PICK online \in SUBSET Users :
                  \/ tasks' = [tasks EXCEPT ![w].pc = "closing", ![w].online = online,
                                            ![w].reason = "ALL_ACTIVE_PARTICIPANTS_SUBMITTED"]
                  \/ Finish(w)
            BY <2>7 DEF CountSubmissions
        <3>. QED
            BY <2>1, <2>6, <3>1
    <2>8. CASE CountVotes(w)
        <3>1. PICK online \in SUBSET EligibleVoters(tasks[w].user) :
                  \/ tasks' = [tasks EXCEPT ![w].pc = "finalizing", ![w].online = online,
                                            ![w].reason = "ALL_ACTIVE_ELIGIBLE_VOTERS_VOTED"]
                  \/ Finish(w)
            BY <2>8 DEF CountVotes
        <3>. QED
            BY <2>1, <2>6, <3>1
    <2>9. CASE HandleVoteSaved(w)
        BY <2>1, <2>5, <2>9 DEF HandleVoteSaved
    <2>10. CASE CreateNextRound(w)
        BY <2>1, <2>3, <2>10 DEF CreateNextRound
    <2>4. CASE CloseSubmissions(w) \/ OpenVoting(w) \/ BeginFinalization(w) \/ Finalize(w)
        <3>1. x = w
            BY <1>0, <2>1, <2>4
            DEF CloseSubmissions, OpenVoting, BeginFinalization, Finalize, Goto, Finish
        <3>. QED
            BY <2>4, <3>1
    <2>. QED
        BY <1>1, <2>2, <2>4, <2>7, <2>8, <2>9, <2>10 DEF TaskStep
<1>2. ASSUME NEW w \in Workers, Request(w) PROVE FALSE
    <2>1. ASSUME NEW r, Begin(w, "arming", r) \/ Begin(w, "submissionSaved", r) \/ Begin(w, "voteSaved", r)
          PROVE FALSE
        BY <2>1, HandlerMoves DEF Others
    <2>2. CASE \E u \in Users : AskToLeave(w, u)
        BY <1>0, <2>2 DEF AskToLeave, IdleTask
    <2>. QED
        BY <1>2, <2>1, <2>2 DEF Request, Start, Submit, CastVote
<1>3. ASSUME NEW w \in Workers, RequestFails(w) \/ ReplyLost(w) PROVE FALSE
    BY <1>3, HandlerMoves DEF RequestFails, ReplyLost, Others
<1>4. ASSUME NEW r \in Rounds, SubmissionTimerFires(r) \/ VotingTimerFires(r) PROVE FALSE
    <2>1. PICK w \in Workers : BeginOnDeadline(w, "closing", r) \/ BeginOnDeadline(w, "finalizing", r)
        BY <1>4 DEF SubmissionTimerFires, VotingTimerFires
    <2>. QED
        BY <2>1, HandlerMoves DEF Others
<1>5. CASE CrashRestart
    BY <1>5 DEF CrashRestart, IdleTask
<1>. QED
    BY <1>1, <1>2, <1>3, <1>4, <1>5
    DEF Next, Cancel, Join, SubmissionDeadlinePasses, VotingDeadlinePasses, vars

-----------------------------------------------------------------------------
(* The voting cursor.                                                      *)

(* The steps that write a row, a reveal order or a vote, and the others.   *)
LEMMA RowWriters ==
    ASSUME [Next]_vars
    PROVE  \/ UNCHANGED <<rounds, submissions, votes>>
           \/ \E w \in Workers : \/ Start(w) \/ CloseSubmissions(w) \/ OpenVoting(w)
                                 \/ Finalize(w) \/ CompleteRound(w) \/ CreateNextRound(w)
           \/ \E w \in Workers, r \in Rounds, u \in Users : Submit(w, r, u)
           \/ \E w \in Workers, r \in Rounds, a, v \in Users, value \in VoteValues :
                  CastVote(w, r, a, v, value)
<1>. USE DEF tournamentVars, contentVars, clockVars, timerVars
<1>1. ASSUME NEW w \in Workers, TaskStep(w)
      PROVE  \/ UNCHANGED <<rounds, submissions, votes>>
             \/ CloseSubmissions(w) \/ OpenVoting(w)
             \/ Finalize(w) \/ CompleteRound(w) \/ CreateNextRound(w)
    BY <1>1 DEF TaskStep, FindParticipant, Leave, ArmSubmissionTimer, HandleSubmissionSaved,
                CountSubmissions, CancelSubmissionTimer, ArmVotingTimer, CheckVotingFinished,
                HandleVoteSaved, CountVotes, BeginFinalization, AfterFinalize, FinishTournament
<1>2. ASSUME NEW w \in Workers, Request(w)
      PROVE  \/ UNCHANGED <<rounds, submissions, votes>>
             \/ Start(w)
             \/ \E r \in Rounds, u \in Users : Submit(w, r, u)
             \/ \E r \in Rounds, a, v \in Users, value \in VoteValues :
                    CastVote(w, r, a, v, value)
    BY <1>2 DEF Request, AskToLeave
<1>3. ASSUME \/ Cancel
             \/ \E u \in Users : Join(u)
             \/ \E r \in Rounds : SubmissionDeadlinePasses(r)
             \/ \E r \in Rounds : VotingDeadlinePasses(r)
             \/ \E r \in Rounds : SubmissionTimerFires(r)
             \/ \E r \in Rounds : VotingTimerFires(r)
             \/ CrashRestart
             \/ \E w \in Workers : RequestFails(w)
             \/ \E w \in Workers : ReplyLost(w)
      PROVE  UNCHANGED <<rounds, submissions, votes>>
    BY <1>3 DEF Cancel, Join, SubmissionDeadlinePasses, VotingDeadlinePasses,
                SubmissionTimerFires, VotingTimerFires, CrashRestart, RequestFails, ReplyLost
<1>4. CASE UNCHANGED vars
    BY <1>4 DEF vars
<1>. QED
    BY <1>1, <1>2, <1>3, <1>4 DEF Next

(* What the transactions do to a row keeps its columns in agreement.       *)
LEMMA RowTransactions ==
    ASSUME NEW row \in RoundRow, NEW order \in Seq(Users), RowAgrees(row, order)
    PROVE  /\ row.phase = "SUBMISSION" =>
                RowAgrees([row EXCEPT !.phase = "VOTING"], order)
           /\ row.phase = "SUBMISSION" => \A longer \in Seq(Users) : RowAgrees(row, longer)
           /\ row.phase = "VOTING" /\ row.stepStatus = "IDLE" =>
                RowAgrees([row EXCEPT !.stepStatus = "FINISHED"], order)
           /\ row.phase = "VOTING" /\ row.stepStatus = "IDLE" /\ order # << >> =>
                RowAgrees([row EXCEPT !.stepStatus = "OPEN", !.step = 1,
                                      !.current = order[1]], order)
           /\ row.phase = "VOTING" /\ row.stepStatus = "OPEN" =>
                \A n \in 1..Len(order) :
                    RowAgrees([row EXCEPT !.current = order[n], !.step = n], order)
           /\ row.phase = "VOTING" /\ row.stepStatus = "OPEN" =>
                RowAgrees([row EXCEPT !.current = None, !.step = 0,
                                      !.stepStatus = "FINISHED"], order)
           /\ row.phase = "VOTING" /\ row.stepStatus = "FINISHED" =>
                RowAgrees([row EXCEPT !.completed = TRUE], order)
<1>1. order # << >> => 1 \in 1..Len(order)
    BY EmptySeq, LenProperties
<1>. QED
    BY <1>1 DEF RowAgrees, RoundRow

(* A round that does not exist and a new round are in agreement.           *)
LEMMA NewRoundAgrees ==
    /\ RowAgrees(NoRound, << >>)
    /\ \A prompt \in Prompts, order \in Seq(Users) : RowAgrees(NewRound(prompt), order)
BY DEF RowAgrees, NewRound, NoRound

(* A step that writes one row.                                             *)
LEMMA OneRow ==
    ASSUME VotingCursor, NEW r \in Rounds,
           \A q \in Rounds \ {r} : rounds'[q] = rounds[q] /\ submissions'[q] = submissions[q],
           RowAgrees(rounds'[r], submissions'[r])
    PROVE  VotingCursor'
BY DEF VotingCursor

(* There is no round to disagree about at first.                           *)
LEMMA CursorInit == Init => VotingCursor
BY NewRoundAgrees DEF Init, VotingCursor

(* Every step keeps the columns of the round rows in agreement.            *)
LEMMA CursorStep ==
    ASSUME TypeOK, VotingCursor, FillersAgree, [Next]_vars
    PROVE  VotingCursor'
<1>0. /\ \A q \in Rounds : /\ rounds[q] \in RoundRow /\ submissions[q] \in Seq(Users)
                           /\ RowAgrees(rounds[q], submissions[q])
      /\ \A w \in Workers : tasks[w].round \in Rounds
      /\ DOMAIN rounds = Rounds /\ DOMAIN submissions = Rounds
    BY DEF TypeOK, VotingCursor, Task
<1>1. CASE UNCHANGED <<rounds, submissions>>
    BY <1>1 DEF VotingCursor
<1>2. ASSUME NEW w \in Workers, Start(w) PROVE VotingCursor'
    <2>1. PICK prompt \in UnusedPrompts :
              rounds' = [rounds EXCEPT ![1] = NewRound(prompt)] /\ submissions' = submissions
        BY <1>2 DEF Start, contentVars
    <2>2. 1 \in Rounds /\ prompt \in Prompts
        BY SizesAssumption DEF Rounds, UnusedPrompts
    <2>3. RowAgrees(rounds'[1], submissions'[1])
        BY <1>0, <2>1, <2>2, NewRoundAgrees
    <2>. QED
        BY <1>0, <2>1, <2>2, <2>3, OneRow
<1>3. ASSUME NEW w \in Workers, CloseSubmissions(w) PROVE VotingCursor'
    <2>. DEFINE r == tasks[w].round
    <2>1. r \in Rounds /\ submissions' = submissions
        BY <1>0, <1>3 DEF CloseSubmissions, contentVars
    <2>2. \/ UNCHANGED rounds
          \/ rounds[r].phase = "SUBMISSION" /\ rounds' = [rounds EXCEPT ![r].phase = "VOTING"]
        BY <1>3 DEF CloseSubmissions
    <2>. HIDE DEF r
    <2>3. \/ rounds'[r] = rounds[r]
          \/ /\ rounds[r].phase = "SUBMISSION"
             /\ rounds'[r] = [rounds[r] EXCEPT !.phase = "VOTING"]
        BY <1>0, <2>1, <2>2
    <2>4. RowAgrees(rounds'[r], submissions'[r])
        BY <1>0, <2>1, <2>3, RowTransactions
    <2>. QED
        BY <1>0, <2>1, <2>2, <2>4, OneRow
<1>4. ASSUME NEW w \in Workers, OpenVoting(w) PROVE VotingCursor'
    <2>. DEFINE r == tasks[w].round
    <2>1. r \in Rounds /\ submissions' = submissions
        BY <1>0, <1>4 DEF OpenVoting, contentVars
    <2>2. [rounds[r] EXCEPT !.stepStatus = @] = rounds[r]
        BY <1>0, <2>1, RowUpdates
    <2>3. \/ rounds[r].phase = "VOTING" /\ rounds[r].stepStatus = "IDLE" /\ submissions[r] # << >>
             /\ rounds' = [rounds EXCEPT ![r].stepStatus = "OPEN", ![r].step = 1,
                                         ![r].current = submissions[r][1]]
          \/ rounds[r].phase = "VOTING" /\ rounds[r].stepStatus = "IDLE"
             /\ rounds' = [rounds EXCEPT ![r].stepStatus = "FINISHED"]
          \/ rounds' = [rounds EXCEPT ![r].stepStatus = @]
        BY <1>4 DEF OpenVoting
    <2>. HIDE DEF r
    <2>4. \/ rounds[r].phase = "VOTING" /\ rounds[r].stepStatus = "IDLE" /\ submissions[r] # << >>
             /\ rounds'[r] = [rounds[r] EXCEPT !.stepStatus = "OPEN", !.step = 1,
                                               !.current = submissions[r][1]]
          \/ rounds[r].phase = "VOTING" /\ rounds[r].stepStatus = "IDLE"
             /\ rounds'[r] = [rounds[r] EXCEPT !.stepStatus = "FINISHED"]
          \/ rounds'[r] = rounds[r]
        BY <1>0, <2>1, <2>2, <2>3
    <2>5. RowAgrees(rounds'[r], submissions'[r])
        BY <1>0, <2>1, <2>4, RowTransactions
    <2>. QED
        BY <1>0, <2>1, <2>3, <2>5, OneRow
<1>5. ASSUME NEW w \in Workers, Finalize(w) PROVE VotingCursor'
    <2>. DEFINE r == tasks[w].round
                next == NextPosition(r)
    <2>1. r \in Rounds /\ submissions' = submissions
        BY <1>0, <1>5 DEF Finalize
    <2>2. VotingOpen(r) /\ rounds[r].phase = "VOTING" /\ rounds[r].stepStatus = "OPEN"
        BY <1>5, <2>1 DEF Finalize, FillersAgree, Filler, VotingOpen
    <2>3. next <= Len(submissions[r]) => next \in 1..Len(submissions[r])
        BY <1>0, <2>1, <2>2, CurrentPosition, LenProperties DEF NextPosition
    <2>4. next \in Nat
        BY <2>1, <2>2, CurrentPosition, LenProperties DEF NextPosition, TypeOK
    <2>5. \/ /\ next <= Len(submissions[r])
             /\ rounds' = [rounds EXCEPT ![r].current = submissions[r][next], ![r].step = next]
          \/ rounds' = [rounds EXCEPT ![r].current = None, ![r].step = 0,
                                      ![r].stepStatus = "FINISHED"]
        BY <1>5, <2>4 DEF Finalize
    <2>. HIDE DEF r, next
    <2>6. \/ /\ next \in 1..Len(submissions[r])
             /\ rounds'[r] = [rounds[r] EXCEPT !.current = submissions[r][next], !.step = next]
          \/ rounds'[r] = [rounds[r] EXCEPT !.current = None, !.step = 0,
                                            !.stepStatus = "FINISHED"]
        BY <1>0, <2>1, <2>3, <2>5
    <2>7. RowAgrees(rounds'[r], submissions'[r])
        BY ZenonT(30), <1>0, <2>1, <2>2, <2>6, RowTransactions
    <2>. QED
        BY <1>0, <2>1, <2>5, <2>7, OneRow
<1>6. ASSUME NEW w \in Workers, CompleteRound(w) PROVE VotingCursor'
    <2>. DEFINE r == tasks[w].round
    <2>1. r \in Rounds /\ submissions' = submissions
        BY <1>0, <1>6 DEF CompleteRound
    <2>2. \/ UNCHANGED rounds
          \/ rounds[r].phase = "VOTING" /\ rounds[r].stepStatus = "FINISHED"
             /\ rounds' = [rounds EXCEPT ![r].completed = TRUE]
        BY <1>6 DEF CompleteRound, VotingFinished
    <2>. HIDE DEF r
    <2>3. \/ rounds'[r] = rounds[r]
          \/ /\ rounds[r].phase = "VOTING" /\ rounds[r].stepStatus = "FINISHED"
             /\ rounds'[r] = [rounds[r] EXCEPT !.completed = TRUE]
        BY <1>0, <2>1, <2>2
    <2>4. RowAgrees(rounds'[r], submissions'[r])
        BY <1>0, <2>1, <2>3, RowTransactions
    <2>. QED
        BY <1>0, <2>1, <2>2, <2>4, OneRow
<1>7. ASSUME NEW w \in Workers, CreateNextRound(w) PROVE VotingCursor'
    <2>. DEFINE r == tasks[w].round
    <2>1. r + 1 \in Rounds /\ submissions' = submissions
        <3>1. r \in Rounds /\ ~IsLastRound(r) /\ UNCHANGED contentVars
            BY <1>0, <1>7 DEF CreateNextRound
        <3>. QED
            BY <3>1, SizesAssumption DEF Rounds, IsLastRound, contentVars
    <2>2. \/ UNCHANGED rounds
          \/ \E prompt \in Prompts : rounds' = [rounds EXCEPT ![r + 1] = NewRound(prompt)]
        BY <1>7 DEF CreateNextRound, UnusedPrompts
    <2>. HIDE DEF r
    <2>3. RowAgrees(rounds'[r + 1], submissions'[r + 1])
        BY <1>0, <2>1, <2>2, NewRoundAgrees
    <2>. QED
        BY <1>0, <2>1, <2>2, <2>3, OneRow
<1>8. ASSUME NEW w \in Workers, NEW r \in Rounds, NEW u \in Users, Submit(w, r, u)
      PROVE  VotingCursor'
    <2>1. rounds' = rounds /\ rounds[r].phase = "SUBMISSION"
          /\ \A q \in Rounds \ {r} : submissions'[q] = submissions[q]
        BY <1>0, <1>8 DEF Submit, AcceptsSubmissions
    <2>2. submissions'[r] \in Seq(Users)
        BY <1>8, TypeStep DEF TypeOK
    <2>3. RowAgrees(rounds'[r], submissions'[r])
        BY <1>0, <2>1, <2>2, RowTransactions
    <2>. QED
        BY <2>1, <2>3, OneRow
<1>9. ASSUME NEW w \in Workers, NEW r \in Rounds, NEW a \in Users, NEW v \in Users,
             NEW value \in VoteValues, CastVote(w, r, a, v, value)
      PROVE  VotingCursor'
    BY <1>9 DEF CastVote, VotingCursor
<1>. QED
    BY <1>1, <1>2, <1>3, <1>4, <1>5, <1>6, <1>7, <1>8, <1>9, RowWriters

-----------------------------------------------------------------------------
(* One submission of each author.                                          *)

(* Sending a submission again keeps the authors of a round distinct.       *)
LEMMA ResubmittedIsInjective ==
    ASSUME NEW order \in Seq(Users), NEW a \in {order[i] : i \in 1..Len(order)}, a \in Users,
           IsInjective(order)
    PROVE  IsInjective(Resubmitted(a, order))
<1>. DEFINE i == PositionOf(a, order)
            rest == SubSeq(order, 1, i - 1) \o SubSeq(order, i + 1, Len(order))
<1>1. i \in 1..Len(order) /\ order[i] = a
    BY PositionIsThere
<1>2. \A j, k \in 1..Len(order) : order[j] = order[k] => j = k
    BY LenProperties DEF IsInjective
<1>3. Resubmitted(a, order) = Append(rest, a)
    BY DEF Resubmitted
<1>. HIDE DEF i
<1>4. /\ rest \in Seq(Users) /\ Len(rest) = Len(order) - 1
      /\ \A k \in 1..(Len(order) - 1) : rest[k] = IF k < i THEN order[k] ELSE order[k + 1]
    BY <1>1, WithoutPosition
<1>. HIDE DEF rest
<1>5. Len(order) \in Nat
    BY LenProperties
<1>6. \A k \in 1..(Len(order) - 1) : rest[k] # a
    BY <1>1, <1>2, <1>4, <1>5
<1>7. \A j, k \in 1..(Len(order) - 1) : rest[j] = rest[k] => j = k
    BY <1>1, <1>2, <1>4, <1>5
<1>8. /\ Append(rest, a) \in Seq(Users) /\ Len(Append(rest, a)) = Len(order)
      /\ \A k \in 1..(Len(order) - 1) : Append(rest, a)[k] = rest[k]
      /\ Append(rest, a)[Len(order)] = a
    BY <1>4, <1>5, AppendProperties
<1>9. \A j, k \in 1..Len(order) : Append(rest, a)[j] = Append(rest, a)[k] => j = k
    BY <1>5, <1>6, <1>7, <1>8
<1>. QED
    BY <1>3, <1>8, <1>9, LenProperties DEF IsInjective

(* A first submission does so too.                                         *)
LEMMA AppendIsInjective ==
    ASSUME NEW order \in Seq(Users), NEW a \in Users \ {order[i] : i \in 1..Len(order)},
           IsInjective(order)
    PROVE  IsInjective(Append(order, a))
<1>1. Len(order) \in Nat /\ \A j, k \in 1..Len(order) : order[j] = order[k] => j = k
    BY LenProperties DEF IsInjective
<1>2. /\ Append(order, a) \in Seq(Users) /\ Len(Append(order, a)) = Len(order) + 1
      /\ \A k \in 1..Len(order) : Append(order, a)[k] = order[k]
      /\ Append(order, a)[Len(order) + 1] = a
    BY AppendProperties
<1>3. \A j, k \in 1..(Len(order) + 1) : Append(order, a)[j] = Append(order, a)[k] => j = k
    BY <1>1, <1>2
<1>. QED
    BY <1>2, <1>3, LenProperties DEF IsInjective

(* The position of the current submission is the step.                     *)
LEMMA PositionIsStep ==
    ASSUME TypeOK, VotingCursor, OneSubmissionEach, NEW r \in Rounds, VotingOpen(r)
    PROVE  /\ rounds[r].step \in 1..Len(submissions[r])
           /\ rounds[r].current = submissions[r][rounds[r].step]
           /\ NextPosition(r) = rounds[r].step + 1
<1>1. submissions[r] \in Seq(Users) /\ rounds[r].step \in 1..Len(submissions[r])
      /\ rounds[r].current = submissions[r][rounds[r].step]
    BY DEF TypeOK, VotingCursor, RowAgrees, VotingOpen
<1>2. \A j, k \in 1..Len(submissions[r]) : submissions[r][j] = submissions[r][k] => j = k
    BY <1>1, LenProperties DEF OneSubmissionEach, IsInjective
<1>. QED
    BY <1>1, <1>2, CurrentPosition DEF NextPosition

-----------------------------------------------------------------------------
(* What a step does to a round: the ways in which its row, its reveal      *)
(* order and its votes change together.                                    *)

SameRow(r) == rounds'[r] = rounds[r]
SameOrder(r) == submissions'[r] = submissions[r]
SameVotes(r) == votes'[r] = votes[r]

Created(r) ==
    /\ rounds[r].phase = "NONE"
    /\ \E prompt \in UnusedPrompts : rounds' = [rounds EXCEPT ![r] = NewRound(prompt)]
    /\ \/ r = 1 /\ status = "DRAFT" /\ status' = "ACTIVE"
       \/ r - 1 \in Rounds /\ FollowsUp(r - 1) /\ status' = "ACTIVE"
    /\ SameOrder(r) /\ SameVotes(r)

Submitted(r) ==
    /\ rounds[r].phase = "SUBMISSION"
    /\ SameRow(r) /\ SameVotes(r)

Closed(r) ==
    /\ rounds[r].phase = "SUBMISSION"
    /\ rounds'[r] = [rounds[r] EXCEPT !.phase = "VOTING"]
    /\ SameOrder(r) /\ SameVotes(r)

Opened(r) ==
    /\ rounds[r].phase = "VOTING" /\ rounds[r].stepStatus = "IDLE"
    /\ \/ /\ submissions[r] # << >>
          /\ rounds'[r] = [rounds[r] EXCEPT !.stepStatus = "OPEN", !.step = 1,
                                            !.current = submissions[r][1]]
       \/ /\ submissions[r] = << >>
          /\ rounds'[r] = [rounds[r] EXCEPT !.stepStatus = "FINISHED"]
    /\ SameOrder(r) /\ SameVotes(r)

Cast(r) ==
    /\ VotingOpen(r)
    /\ \E voter \in Users \ {rounds[r].current}, value \in Votes \ {"NONE"} :
           votes'[r] = [votes[r] EXCEPT ![rounds[r].current][voter] = value]
    /\ SameRow(r) /\ SameOrder(r)

Filled(r) ==
    \E w \in Workers :
        /\ Filler(w, r)
        /\ votes'[r] = [votes[r] EXCEPT ![rounds[r].current] = FilledBallots(r, tasks[w].voters)]

RevealedNext(r) ==
    /\ VotingOpen(r) /\ Filled(r)
    /\ rounds[r].step + 1 <= Len(submissions[r])
    /\ rounds'[r] = [rounds[r] EXCEPT !.current = submissions[r][rounds[r].step + 1],
                                      !.step = rounds[r].step + 1]
    /\ SameOrder(r)

FinalizedLast(r) ==
    /\ VotingOpen(r) /\ Filled(r)
    /\ ~(rounds[r].step + 1 <= Len(submissions[r]))
    /\ rounds'[r] = [rounds[r] EXCEPT !.current = None, !.step = 0, !.stepStatus = "FINISHED"]
    /\ SameOrder(r)

Completed(r) ==
    /\ VotingFinished(r)
    /\ rounds'[r] = [rounds[r] EXCEPT !.completed = TRUE]
    /\ SameOrder(r) /\ SameVotes(r)

RoundMoves(r) ==
    \/ SameRow(r) /\ SameOrder(r) /\ SameVotes(r)
    \/ Created(r) \/ Submitted(r) \/ Closed(r) \/ Opened(r) \/ Cast(r)
    \/ RevealedNext(r) \/ FinalizedLast(r) \/ Completed(r)

(* Every step does one of these things to a round.                         *)
LEMMA RoundStep ==
    ASSUME TypeOK, VotingCursor, OneSubmissionEach, NothingBeforeStart, FillersAgree,
           [Next]_vars, NEW q \in Rounds
    PROVE  RoundMoves(q)
<1>. USE DEF RoundMoves, SameRow, SameOrder, SameVotes
<1>0. /\ rounds[q] \in RoundRow
      /\ \A w \in Workers : tasks[w].round \in Rounds
      /\ DOMAIN rounds = Rounds /\ DOMAIN submissions = Rounds /\ DOMAIN votes = Rounds
    BY DEF TypeOK, Task
<1>1. CASE UNCHANGED <<rounds, submissions, votes>>
    BY <1>1
<1>2. ASSUME NEW w \in Workers, Start(w) PROVE RoundMoves(q)
    <2>1. PICK prompt \in UnusedPrompts :
              /\ rounds' = [rounds EXCEPT ![1] = NewRound(prompt)]
              /\ submissions' = submissions /\ votes' = votes
        BY <1>2 DEF Start, contentVars
    <2>2. rounds[q].phase = "NONE" /\ status = "DRAFT" /\ status' = "ACTIVE"
        BY <1>2 DEF Start, NothingBeforeStart, Exists
    <2>. QED
        BY <1>0, <2>1, <2>2 DEF Created
<1>3. ASSUME NEW w \in Workers, CloseSubmissions(w) PROVE RoundMoves(q)
    <2>. DEFINE r == tasks[w].round
    <2>1. r \in Rounds /\ submissions' = submissions /\ votes' = votes
        BY <1>0, <1>3 DEF CloseSubmissions, contentVars
    <2>2. \/ UNCHANGED rounds
          \/ rounds[r].phase = "SUBMISSION" /\ rounds' = [rounds EXCEPT ![r].phase = "VOTING"]
        BY <1>3 DEF CloseSubmissions
    <2>. HIDE DEF r
    <2>. QED
        BY <1>0, <2>1, <2>2 DEF Closed
<1>4. ASSUME NEW w \in Workers, OpenVoting(w) PROVE RoundMoves(q)
    <2>. DEFINE r == tasks[w].round
    <2>1. r \in Rounds /\ submissions' = submissions /\ votes' = votes
        BY <1>0, <1>4 DEF OpenVoting, contentVars
    <2>2. [rounds[r] EXCEPT !.stepStatus = @] = rounds[r]
        BY <2>1, RowUpdates DEF TypeOK
    <2>3. \/ rounds[r].phase = "VOTING" /\ rounds[r].stepStatus = "IDLE" /\ submissions[r] # << >>
             /\ rounds' = [rounds EXCEPT ![r].stepStatus = "OPEN", ![r].step = 1,
                                         ![r].current = submissions[r][1]]
          \/ rounds[r].phase = "VOTING" /\ rounds[r].stepStatus = "IDLE" /\ submissions[r] = << >>
             /\ rounds' = [rounds EXCEPT ![r].stepStatus = "FINISHED"]
          \/ rounds' = [rounds EXCEPT ![r].stepStatus = @]
        BY <1>4 DEF OpenVoting
    <2>. HIDE DEF r
    <2>. QED
        BY <1>0, <2>1, <2>2, <2>3 DEF Opened
<1>5. ASSUME NEW w \in Workers, Finalize(w) PROVE RoundMoves(q)
    <2>. DEFINE r == tasks[w].round
                ballots == FilledBallots(r, tasks[w].voters)
    <2>1. r \in Rounds /\ submissions' = submissions /\ Filler(w, r)
        BY <1>0, <1>5 DEF Finalize, Filler
    <2>2. VotingOpen(r) /\ NextPosition(r) = rounds[r].step + 1 /\ rounds[r].step \in Nat
        BY <2>1, PositionIsStep DEF FillersAgree, TypeOK, RoundRow
    <2>3. votes' = [votes EXCEPT ![r][rounds[r].current] = ballots]
        BY <1>5 DEF Finalize
    <2>4. \/ /\ rounds[r].step + 1 <= Len(submissions[r])
             /\ rounds' = [rounds EXCEPT ![r].current = submissions[r][rounds[r].step + 1],
                                         ![r].step = rounds[r].step + 1]
          \/ /\ ~(rounds[r].step + 1 <= Len(submissions[r]))
             /\ rounds' = [rounds EXCEPT ![r].current = None, ![r].step = 0,
                                         ![r].stepStatus = "FINISHED"]
        <3>. DEFINE next == NextPosition(r)
        <3>1. \/ /\ next <= Len(submissions[r])
                 /\ rounds' = [rounds EXCEPT ![r].current = submissions[r][next], ![r].step = next]
              \/ /\ ~(next <= Len(submissions[r]))
                 /\ rounds' = [rounds EXCEPT ![r].current = None, ![r].step = 0,
                                             ![r].stepStatus = "FINISHED"]
            <4>1. next # 0
                BY <2>2
            <4>. QED
                BY <1>5, <4>1 DEF Finalize
        <3>. QED
            BY <2>2, <3>1
    <2>5. q = r /\ votes'[q] = [votes[q] EXCEPT ![rounds[q].current] = ballots] => Filled(q)
        BY <2>1 DEF Filled
    <2>. HIDE DEF r, ballots
    <2>6. CASE q = r
        BY <1>0, <2>1, <2>2, <2>3, <2>4, <2>5, <2>6 DEF RevealedNext, FinalizedLast
    <2>7. CASE q # r
        BY <1>0, <2>1, <2>3, <2>4, <2>7
    <2>. QED
        BY <2>6, <2>7
<1>6. ASSUME NEW w \in Workers, CompleteRound(w) PROVE RoundMoves(q)
    <2>. DEFINE r == tasks[w].round
    <2>1. r \in Rounds /\ submissions' = submissions /\ votes' = votes
        BY <1>0, <1>6 DEF CompleteRound
    <2>2. \/ UNCHANGED rounds
          \/ VotingFinished(r) /\ rounds' = [rounds EXCEPT ![r].completed = TRUE]
        BY <1>6 DEF CompleteRound
    <2>. HIDE DEF r
    <2>. QED
        BY <1>0, <2>1, <2>2 DEF Completed
<1>7. ASSUME NEW w \in Workers, CreateNextRound(w) PROVE RoundMoves(q)
    <2>. DEFINE r == tasks[w].round
    <2>1. /\ r \in Rounds /\ r + 1 - 1 = r
          /\ submissions' = submissions /\ votes' = votes /\ status' = status
        BY <1>0, <1>7 DEF CreateNextRound, contentVars, tournamentVars, Rounds
    <2>2. \/ UNCHANGED rounds
          \/ /\ ~Exists(r + 1) /\ FollowsUp(r)
             /\ \E prompt \in UnusedPrompts : rounds' = [rounds EXCEPT ![r + 1] = NewRound(prompt)]
        BY <1>7 DEF CreateNextRound
    <2>. HIDE DEF r
    <2>3. CASE q = r + 1
        BY <1>0, <2>1, <2>2, <2>3 DEF Created, Exists, FollowsUp
    <2>4. CASE q # r + 1
        BY <1>0, <2>1, <2>2, <2>4
    <2>. QED
        BY <2>3, <2>4
<1>8. ASSUME NEW w \in Workers, NEW r \in Rounds, NEW u \in Users, Submit(w, r, u)
      PROVE  RoundMoves(q)
    BY <1>0, <1>8 DEF Submit, AcceptsSubmissions, Submitted
<1>9. ASSUME NEW w \in Workers, NEW r \in Rounds, NEW a \in Users, NEW v \in Users,
             NEW value \in VoteValues, CastVote(w, r, a, v, value)
      PROVE  RoundMoves(q)
    <2>1. value \in Votes \ {"NONE"}
        BY EnvironmentAssumption DEF Votes
    <2>2. /\ VotingOpen(r) /\ a = rounds[r].current /\ v \in Users \ {a}
          /\ votes' = [votes EXCEPT ![r][a][v] = value]
          /\ rounds' = rounds /\ submissions' = submissions
        BY <1>9 DEF CastVote, IsVotingTarget
    <2>. QED
        BY <1>0, <2>1, <2>2 DEF Cast
<1>. QED
    BY <1>1, <1>2, <1>3, <1>4, <1>5, <1>6, <1>7, <1>8, <1>9, RowWriters

-----------------------------------------------------------------------------
(* The inductive invariant.                                                *)

Inv ==
    /\ TypeOK /\ VotingCursor /\ OneSubmissionEach /\ NothingBeforeStart /\ BallotsAreLegal
    /\ FillersAgree

(* How the status changes, and the rows that are there when it does.       *)
LEMMA StatusMoves ==
    ASSUME [Next]_vars
    PROVE  \/ status' = status
           \/ status = "DRAFT" /\ status' = "CANCELLED" /\ rounds' = rounds
           \/ status = "DRAFT" /\ status' = "ACTIVE" /\ \E w \in Workers : Start(w)
           \/ /\ status = "ACTIVE" /\ status' = "COMPLETED" /\ rounds' = rounds
              /\ \E w \in Workers : IsLastRound(tasks[w].round) /\ FollowsUp(tasks[w].round)
<1>. USE DEF tournamentVars
<1>1. ASSUME NEW w \in Workers, TaskStep(w), status' # status PROVE FinishTournament(w)
    BY <1>1 DEF TaskStep, FindParticipant, Leave, ArmSubmissionTimer, HandleSubmissionSaved,
                CountSubmissions, CloseSubmissions, CancelSubmissionTimer, OpenVoting,
                ArmVotingTimer, CheckVotingFinished, HandleVoteSaved, CountVotes,
                BeginFinalization, Finalize, AfterFinalize, CompleteRound, CreateNextRound
<1>2. ASSUME NEW w \in Workers, FinishTournament(w), status' # status
      PROVE  /\ status = "ACTIVE" /\ status' = "COMPLETED" /\ rounds' = rounds
             /\ IsLastRound(tasks[w].round) /\ FollowsUp(tasks[w].round)
    BY <1>2 DEF FinishTournament, FollowsUp
<1>3. ASSUME NEW w \in Workers, Request(w), status' # status PROVE Start(w)
    BY <1>3 DEF Request, AskToLeave, Submit, CastVote
<1>4. ASSUME NEW w \in Workers, Start(w) PROVE status = "DRAFT" /\ status' = "ACTIVE"
    BY <1>4 DEF Start
<1>5. CASE UNCHANGED vars
    BY <1>5 DEF vars
<1>6. CASE Cancel
    BY <1>6 DEF Cancel
<1>. QED
    BY <1>1, <1>2, <1>3, <1>4, <1>5, <1>6
    DEF Next, Join, SubmissionDeadlinePasses, VotingDeadlinePasses,
        SubmissionTimerFires, VotingTimerFires, CrashRestart, RequestFails, ReplyLost

(* Only the start and createNextRound create rounds, neither in a draft.   *)
LEMMA DraftStep ==
    ASSUME Inv, [Next]_vars
    PROVE  NothingBeforeStart'
<1>. SUFFICES ASSUME status' = "DRAFT", NEW q \in Rounds
              PROVE  rounds'[q].phase = "NONE"
    BY DEF NothingBeforeStart, Exists
<1>1. rounds[q].phase = "NONE"
    BY StatusMoves DEF Inv, NothingBeforeStart, Exists
<1>. QED
    BY <1>1, RoundStep DEF Inv, RoundMoves, SameRow, Created, Submitted, Closed, Opened, Cast,
                           RevealedNext, FinalizedLast, Completed, VotingOpen, VotingFinished

(* A submission sent twice is one submission.                              *)
LEMMA OneSubmissionStep ==
    ASSUME Inv, [Next]_vars
    PROVE  OneSubmissionEach'
<1>. SUFFICES ASSUME NEW q \in Rounds PROVE IsInjective(submissions'[q])
    BY DEF OneSubmissionEach, IsInjective
<1>1. submissions[q] \in Seq(Users) /\ IsInjective(submissions[q])
    BY DEF Inv, TypeOK, OneSubmissionEach
<1>2. CASE SameOrder(q)
    BY <1>1, <1>2 DEF SameOrder
<1>3. CASE \E w \in Workers, r \in Rounds, u \in Users : Submit(w, r, u)
    <2>1. PICK w \in Workers, r \in Rounds, u \in Users : Submit(w, r, u)
        BY <1>3
    <2>2. \/ submissions'[q] = submissions[q]
          \/ u \in SubmittedIn(q) /\ submissions'[q] = Resubmitted(u, submissions[q])
          \/ u \notin SubmittedIn(q) /\ submissions'[q] = Append(submissions[q], u)
        BY <2>1 DEF Submit, Inv, TypeOK
    <2>. QED
        BY <1>1, <2>2, ResubmittedIsInjective, AppendIsInjective DEF SubmittedIn
<1>4. CASE ~\E w \in Workers, r \in Rounds, u \in Users : Submit(w, r, u)
    <2>1. UNCHANGED submissions
        BY <1>4, RowWriters DEF Start, CloseSubmissions, OpenVoting, Finalize, CompleteRound,
                                CreateNextRound, CastVote, contentVars
    <2>. QED
        BY <1>2, <2>1 DEF SameOrder
<1>. QED
    BY <1>3, <1>4

(* No step makes a ballot illegal: before the first reveal there is none,  *)
(* and later the position of the open step only grows.                     *)
LEMMA BallotsStep ==
    ASSUME Inv, [Next]_vars
    PROVE  BallotsAreLegal'
<1>. SUFFICES ASSUME NEW q \in Rounds, NEW a \in Users, NEW v \in Users,
                     votes'[q][a][v] # "NONE"
              PROVE  v # a /\ \E i \in 1..Len(submissions'[q]) :
                                  submissions'[q][i] = a /\ Revealed(q, i)'
    BY DEF BallotsAreLegal
<1>1. /\ rounds[q] \in RoundRow /\ submissions[q] \in Seq(Users)
      /\ votes[q] \in [Users -> [Users -> Votes]]
    BY DEF Inv, TypeOK
<1>2. votes[q][a][v] # "NONE" =>
          v # a /\ \E i \in 1..Len(submissions[q]) : submissions[q][i] = a /\ Revealed(q, i)
    BY DEF Inv, BallotsAreLegal
<1>3. rounds[q].stepStatus = "IDLE" => votes[q][a][v] = "NONE"
    BY <1>2 DEF Revealed
<1>4. VotingOpen(q) => /\ rounds[q].step \in 1..Len(submissions[q])
                       /\ rounds[q].current = submissions[q][rounds[q].step]
                       /\ rounds[q].stepStatus = "OPEN"
    BY PositionIsStep DEF Inv, VotingOpen
<1>5. CASE SameRow(q) /\ SameOrder(q) /\ SameVotes(q)
    BY <1>2, <1>5 DEF SameRow, SameOrder, SameVotes, Revealed
<1>6. CASE Created(q) \/ Submitted(q) \/ Closed(q) \/ Opened(q)
    <2>1. rounds[q].stepStatus = "IDLE"
        BY <1>6 DEF Created, Submitted, Closed, Opened, Inv, VotingCursor, RowAgrees, NoRound
    <2>. QED
        BY <1>3, <1>6, <2>1 DEF Created, Submitted, Closed, Opened, SameVotes
<1>7. CASE Cast(q)
    <2>1. PICK voter \in Users \ {rounds[q].current}, value \in Votes \ {"NONE"} :
              votes'[q] = [votes[q] EXCEPT ![rounds[q].current][voter] = value]
        BY <1>7 DEF Cast
    <2>2. \/ votes'[q][a][v] = votes[q][a][v]
          \/ a = rounds[q].current /\ v # a
        BY <1>1, <2>1
    <2>3. a = rounds[q].current =>
              submissions[q][rounds[q].step] = a /\ Revealed(q, rounds[q].step)
        BY <1>4, <1>7 DEF Cast, Revealed
    <2>. QED
        BY <1>2, <1>4, <1>7, <2>2, <2>3 DEF Cast, SameRow, SameOrder, Revealed
<1>8. CASE RevealedNext(q) \/ FinalizedLast(q)
    <2>1. VotingOpen(q) /\ Filled(q) /\ submissions'[q] = submissions[q]
        BY <1>8 DEF RevealedNext, FinalizedLast, SameOrder
    <2>2. \A i \in 1..Len(submissions[q]) : Revealed(q, i) => Revealed(q, i)'
        <3>1. \/ rounds'[q].stepStatus = "FINISHED"
              \/ rounds'[q].stepStatus = "OPEN" /\ rounds'[q].step = rounds[q].step + 1
            BY <1>1, <1>4, <1>8, <2>1 DEF RevealedNext, FinalizedLast, RoundRow
        <3>. QED
            BY <1>1, <1>4, <2>1, <3>1 DEF Revealed
    <2>3. CASE votes[q][a][v] # "NONE"
        BY <1>2, <2>1, <2>2, <2>3
    <2>4. CASE votes[q][a][v] = "NONE"
        <3>1. PICK w \in Workers :
                  /\ Filler(w, q)
                  /\ votes'[q] = [votes[q] EXCEPT ![rounds[q].current] =
                                      FilledBallots(q, tasks[w].voters)]
            BY <2>1 DEF Filled
        <3>2. a = rounds[q].current
            BY <1>1, <2>4, <3>1
        <3>3. v \in tasks[w].voters
            BY <1>1, <2>4, <3>1, <3>2 DEF FilledBallots
        <3>4. v # a
            BY <3>1, <3>2, <3>3 DEF Inv, FillersAgree
        <3>5. Revealed(q, rounds[q].step)
            BY <1>4, <2>1 DEF Revealed
        <3>. QED
            BY <1>4, <2>1, <2>2, <3>2, <3>4, <3>5
    <2>. QED
        BY <2>3, <2>4
<1>9. CASE Completed(q)
    <2>1. rounds'[q].stepStatus = "FINISHED" /\ rounds[q].stepStatus = "FINISHED"
        BY <1>1, <1>9 DEF Completed, VotingFinished, RoundRow
    <2>. QED
        BY <1>2, <1>9, <2>1 DEF Completed, SameOrder, SameVotes, Revealed
<1>. QED
    BY <1>5, <1>6, <1>7, <1>8, <1>9, RoundStep DEF RoundMoves, Inv

(* A handler gets the lock of a free round with an open step, and reads    *)
(* its eligible voters.                                                    *)
Locks(x, r) ==
    /\ BeginFinalization(x) /\ tasks[x].round = r
    /\ ~Locked(r) /\ VotingOpen(r) /\ Others(x)
    /\ tasks'[x].voters = EligibleVoters(rounds[r].current)

(* Who is to fill in the ballots of a round was about to before, and then  *)
(* nobody else has written its row meanwhile, or has just got its lock.    *)
LEMMA FillerMoves ==
    ASSUME Inv, [Next]_vars, NEW r \in Rounds, NEW w \in Workers, Filler(w, r)'
    PROVE  \/ Filler(w, r) /\ tasks'[w] = tasks[w] /\ rounds'[r] = rounds[r]
           \/ Locks(w, r)
<1>0. /\ tasks \in [Workers -> Task] /\ rounds \in [Rounds -> RoundRow] /\ TypeOK
    BY DEF Inv, TypeOK
<1>1. ASSUME tasks'[w] = tasks[w] PROVE Filler(w, r) /\ rounds'[r] = rounds[r]
    <2>1. /\ Filler(w, r) /\ VotingOpen(r) /\ Exists(r) /\ Locked(r)
          /\ \A x \in Workers : Filler(x, r) => x = w
        BY <1>1 DEF Inv, FillersAgree, VotingOpen, Exists, Locked, Filler
    <2>2. ASSUME NEW x \in Workers, CloseSubmissions(x) \/ OpenVoting(x) \/ CompleteRound(x)
          PROVE  rounds'[r] = rounds[r]
        <3>1. tasks[x].round # r
            BY <2>1, <2>2 DEF CloseSubmissions, OpenVoting, CompleteRound
        <3>. QED
            BY <1>0, <2>2, <3>1 DEF CloseSubmissions, OpenVoting, CompleteRound
    <2>3. ASSUME NEW x \in Workers, Finalize(x) PROVE rounds'[r] = rounds[r]
        <3>1. tasks'[x].pc = "finalized"
            BY <1>0, <2>3 DEF Finalize, Task
        <3>2. tasks[x].round # r
            BY <1>1, <2>1, <2>3, <3>1 DEF Finalize, Filler
        <3>. QED
            BY <1>0, <2>3, <3>2 DEF Finalize
    <2>4. ASSUME NEW x \in Workers, Start(x) \/ CreateNextRound(x) PROVE rounds'[r] = rounds[r]
        BY <1>0, <2>1, <2>4 DEF Start, CreateNextRound, Inv, NothingBeforeStart
    <2>. QED
        BY <2>1, <2>2, <2>3, <2>4, RowWriters DEF Submit, CastVote
<1>2. ASSUME tasks'[w] # tasks[w] PROVE Locks(w, r)
    <2>1. tasks'[w].pc = "filling" /\ tasks'[w].round = r
        BY DEF Filler
    <2>2. ~CloseSubmissions(w)
        BY <1>0, <2>1, HandlerMoves DEF CloseSubmissions
    <2>3. ~OpenVoting(w)
        BY <1>0, <2>1, HandlerMoves DEF OpenVoting, Task
    <2>4. ~Finalize(w)
        BY <1>0, <2>1 DEF Finalize, Task
    <2>5. BeginFinalization(w)
        BY <1>0, <1>2, <2>1, <2>2, <2>3, <2>4, Committers
    <2>6. /\ CanFinalize(tasks[w].round, tasks[w].reason)
          /\ tasks' = [tasks EXCEPT ![w].pc = "filling",
                             ![w].voters = EligibleVoters(rounds[tasks[w].round].current)]
        BY <1>0, <2>1, <2>5, HandlerMoves DEF BeginFinalization
    <2>7. tasks[w].round = r /\ Others(w)
          /\ tasks'[w].voters = EligibleVoters(rounds[r].current)
        BY <1>0, <2>1, <2>6 DEF Task, Others
    <2>. QED
        BY <2>5, <2>6, <2>7 DEF BeginFinalization, CanFinalize, Locks
<1>. QED
    BY <1>1, <1>2

(* Who comes to fill in the ballots of a round found it free, and its      *)
(* step open; until they commit nobody else writes its row.                *)
LEMMA FillersStep ==
    ASSUME Inv, [Next]_vars
    PROVE  FillersAgree'
<1>. SUFFICES ASSUME NEW r \in Rounds, NEW w \in Workers, Filler(w, r)'
              PROVE  /\ VotingOpen(r)'
                     /\ tasks'[w].voters \subseteq Users \ {rounds'[r].current}
                     /\ \A x \in Workers : Filler(x, r)' => x = w
    BY DEF FillersAgree
<1>0. participants \subseteq Users
    BY DEF Inv, TypeOK
<1>1. VotingOpen(r)' /\ tasks'[w].voters \subseteq Users \ {rounds'[r].current}
    <2>1. CASE Filler(w, r) /\ tasks'[w] = tasks[w] /\ rounds'[r] = rounds[r]
        BY <2>1 DEF Inv, FillersAgree, VotingOpen
    <2>2. CASE Locks(w, r)
        BY <1>0, <2>2 DEF Locks, BeginFinalization, EligibleVoters, VotingOpen
    <2>. QED
        BY <2>1, <2>2, FillerMoves
<1>2. ASSUME NEW x \in Workers, Filler(x, r)' PROVE x = w
    <2>1. CASE Filler(x, r) /\ Filler(w, r)
        BY <2>1 DEF Inv, FillersAgree
    <2>2. CASE Locks(x, r)
        <3>1. ~Filler(w, r) /\ (x # w => tasks'[w] = tasks[w])
            BY <2>2 DEF Locks, Locked, Filler, Others
        <3>. QED
            BY <3>1 DEF Filler
    <2>3. CASE Locks(w, r)
        <3>1. ~Filler(x, r) /\ (x # w => tasks'[x] = tasks[x])
            BY <2>3 DEF Locks, Locked, Filler, Others
        <3>. QED
            BY <1>2, <3>1 DEF Filler
    <2>. QED
        BY <1>2, <2>1, <2>2, <2>3, FillerMoves
<1>. QED
    BY <1>1, <1>2

(* A commit finds the step of its round open.                              *)
LEMMA StepIsOpen ==
    ASSUME Inv, NEW w \in Workers, Finalize(w)
    PROVE  VotingOpen(tasks[w].round)
<1>1. tasks[w].round \in Rounds
    BY DEF Inv, TypeOK, Task
<1>. QED
    BY <1>1 DEF Finalize, Filler, Inv, FillersAgree

(* The invariant holds of a new tournament.                                *)
LEMMA InvInit == Init => Inv
<1>1. Init => OneSubmissionEach
    BY EmptySeq DEF Init, OneSubmissionEach, IsInjective
<1>2. Init => NothingBeforeStart
    BY DEF Init, NothingBeforeStart, Exists, NoRound
<1>3. Init => BallotsAreLegal
    BY DEF Init, BallotsAreLegal
<1>4. Init => FillersAgree
    BY DEF Init, FillersAgree, Filler, IdleTask
<1>. QED
    BY <1>1, <1>2, <1>3, <1>4, TypeInit, CursorInit DEF Inv

(* Every step keeps the invariant.                                         *)
LEMMA InvStep ==
    ASSUME Inv, [Next]_vars
    PROVE  Inv'
BY TypeStep, CursorStep, OneSubmissionStep, DraftStep, BallotsStep, FillersStep DEF Inv

(* So it holds always.                                                     *)
LEMMA Invariance == Spec => []Inv
BY InvInit, InvStep, PTL DEF Spec

-----------------------------------------------------------------------------
(* The sequence of the rounds.                                             *)

(* RoundSequence, with every earlier round completed instead of the one    *)
(* before, so that the last one completed means all of them.               *)
SequenceInv ==
    /\ status \in {"DRAFT", "CANCELLED"} => \A r \in Rounds : ~Exists(r)
    /\ status \in {"ACTIVE", "COMPLETED"} => Exists(1)
    /\ \A q, r \in Rounds : q < r /\ Exists(r) => rounds[q].completed
    /\ status = "COMPLETED" => \A r \in Rounds : rounds[r].completed
    /\ \A q, r \in Rounds : Exists(q) /\ Exists(r) /\ rounds[q].prompt = rounds[r].prompt => q = r

(* A round that is not created keeps its prompt, and its completion.       *)
LEMMA RowHistory ==
    ASSUME Inv, [Next]_vars, NEW q \in Rounds, ~Created(q)
    PROVE  /\ Exists(q)' = Exists(q)
           /\ rounds'[q].prompt = rounds[q].prompt
           /\ rounds[q].completed => rounds'[q].completed
<1>1. rounds[q] \in RoundRow
    BY DEF Inv, TypeOK
<1>. QED
    BY <1>1, RoundStep DEF Inv, RoundMoves, SameRow, Submitted, Closed, Opened, Cast, RevealedNext,
                           FinalizedLast, Completed, Exists, RoundRow, VotingOpen, VotingFinished

(* A completed round exists.                                               *)
LEMMA CompletedExists ==
    ASSUME Inv, NEW q \in Rounds, rounds[q].completed
    PROVE  Exists(q)
BY DEF Inv, VotingCursor, RowAgrees, NoRound, Exists

(* Every step keeps the sequence.                                          *)
LEMMA SequenceStep ==
    ASSUME Inv, SequenceInv, [Next]_vars
    PROVE  SequenceInv'
<1>1. ASSUME NEW q \in Rounds, Created(q) PROVE SequenceInv'
    <2>1. PICK prompt \in UnusedPrompts : rounds' = [rounds EXCEPT ![q] = NewRound(prompt)]
        BY <1>1 DEF Created
    <2>2. /\ Exists(q)' /\ ~Exists(q) /\ ~rounds[q].completed
          /\ rounds'[q].prompt = prompt /\ status' = "ACTIVE"
          /\ \A r \in Rounds \ {q} : rounds'[r] = rounds[r] /\ Exists(r)' = Exists(r)
          /\ \A r \in Rounds : rounds[r].prompt # prompt
        BY <1>1, <2>1, CompletedExists
        DEF Created, Exists, NewRound, NoRound, UnusedPrompts, Inv, TypeOK
    <2>3. CASE q = 1 /\ status = "DRAFT"
        <3>1. \A r \in Rounds : Exists(r)' => r = 1
            BY <2>2, <2>3 DEF SequenceInv
        <3>2. \A k \in Rounds : ~(k < 1)
            BY DEF Rounds
        <3>. QED
            BY <2>2, <2>3, <3>1, <3>2 DEF SequenceInv
    <2>4. CASE q - 1 \in Rounds /\ FollowsUp(q - 1)
        <3>1. \A k \in Rounds : k < q => rounds[k].completed
            <4>1. Exists(q - 1)
                BY <2>4, CompletedExists DEF FollowsUp
            <4>2. \A k \in Rounds : k < q => k = q - 1 \/ k < q - 1
                BY SizesAssumption DEF Rounds
            <4>. QED
                BY <2>4, <4>1, <4>2 DEF FollowsUp, SequenceInv
        <3>2. 1 \in Rounds /\ Exists(1) /\ 1 # q
            BY <2>2, <2>4, SizesAssumption DEF Rounds, FollowsUp, SequenceInv
        <3>3. \A k, r \in Rounds : k < r /\ Exists(r)' => rounds'[k].completed
            <4>. SUFFICES ASSUME NEW k \in Rounds, NEW r \in Rounds, k < r, Exists(r)'
                          PROVE  rounds'[k].completed
                OBVIOUS
            <4>1. rounds[k].completed
                BY <2>2, <3>1 DEF SequenceInv
            <4>. QED
                BY <2>2, <4>1
        <3>4. \A k, r \in Rounds :
                  Exists(k)' /\ Exists(r)' /\ rounds'[k].prompt = rounds'[r].prompt => k = r
            BY <2>2 DEF SequenceInv
        <3>. QED
            BY <2>2, <3>2, <3>3, <3>4 DEF SequenceInv
    <2>. QED
        BY <1>1, <2>3, <2>4 DEF Created
<1>2. CASE \A q \in Rounds : ~Created(q)
    <2>1. \A q \in Rounds : /\ Exists(q)' = Exists(q)
                            /\ rounds'[q].prompt = rounds[q].prompt
                            /\ rounds[q].completed => rounds'[q].completed
        BY <1>2, RowHistory
    <2>2. 1 \in Rounds
        BY SizesAssumption DEF Rounds
    <2>3. /\ \A k, r \in Rounds : k < r /\ Exists(r)' => rounds'[k].completed
          /\ \A k, r \in Rounds :
                Exists(k)' /\ Exists(r)' /\ rounds'[k].prompt = rounds'[r].prompt => k = r
        BY <2>1 DEF SequenceInv
    <2>4. CASE status' = status
        BY <2>1, <2>2, <2>3, <2>4 DEF SequenceInv
    <2>5. CASE status = "DRAFT" /\ status' = "CANCELLED"
        BY <2>1, <2>2, <2>3, <2>5 DEF SequenceInv
    <2>6. ASSUME NEW w \in Workers, Start(w) PROVE FALSE
        <3>1. Exists(1)'
            BY <2>2, <2>6 DEF Start, Exists, NewRound, NoRound, Inv, TypeOK
        <3>2. ~Exists(1)
            BY <2>2, <2>6 DEF Start, SequenceInv
        <3>. QED
            BY <2>1, <2>2, <3>1, <3>2
    <2>7. CASE /\ status = "ACTIVE" /\ status' = "COMPLETED"
               /\ \E w \in Workers : IsLastRound(tasks[w].round) /\ FollowsUp(tasks[w].round)
        <3>1. PICK w \in Workers : IsLastRound(tasks[w].round) /\ FollowsUp(tasks[w].round)
            BY <2>7
        <3>. DEFINE r == tasks[w].round
        <3>2. r \in Rounds /\ rounds[r].completed /\ \A k \in Rounds : k = r \/ k < r
            BY <3>1, SizesAssumption DEF IsLastRound, FollowsUp, Rounds, Inv, TypeOK, Task
        <3>3. \A k \in Rounds : rounds[k].completed
            BY <3>2, CompletedExists DEF SequenceInv
        <3>. QED
            BY <2>1, <2>2, <2>3, <2>7, <3>3 DEF SequenceInv
    <2>. QED
        BY <2>4, <2>5, <2>6, <2>7, StatusMoves
<1>. QED
    BY <1>1, <1>2

(* The sequence holds always, and is the one RoundSequence speaks of.      *)
LEMMA SequenceInvariance == Spec => [](Inv /\ SequenceInv)
<1>1. Init => Inv /\ SequenceInv
    <2>1. Init => SequenceInv
        BY DEF Init, SequenceInv, Exists, NoRound
    <2>. QED
        BY <2>1, InvInit
<1>2. Inv /\ SequenceInv /\ [Next]_vars => (Inv /\ SequenceInv)'
    BY InvStep, SequenceStep
<1>. QED
    BY <1>1, <1>2, PTL DEF Spec

-----------------------------------------------------------------------------
(* What a step may not do.                                                 *)

(* Once a round is closed, its order is frozen, and so are the votes on    *)
(* what is finalized: a step writes votes only where the cursor points.    *)
LEMMA FrozenStep ==
    ASSUME Inv, [Next]_vars, NEW q \in Rounds
    PROVE  KeepsClosed(q)
<1>. SUFFICES ASSUME rounds[q].phase = "VOTING"
              PROVE  /\ rounds'[q].phase = "VOTING" /\ submissions'[q] = submissions[q]
                     /\ \A i \in 1..Len(submissions[q]) : Finalized(q, i) =>
                           /\ Finalized(q, i)'
                           /\ votes'[q][submissions[q][i]] = votes[q][submissions[q][i]]
    BY DEF KeepsClosed
<1>1. /\ rounds[q] \in RoundRow /\ submissions[q] \in Seq(Users)
      /\ votes[q] \in [Users -> [Users -> Votes]]
    BY DEF Inv, TypeOK
<1>2. \A i, j \in 1..Len(submissions[q]) : submissions[q][i] = submissions[q][j] => i = j
    BY <1>1, LenProperties DEF Inv, OneSubmissionEach, IsInjective
<1>3. VotingOpen(q) => /\ rounds[q].step \in 1..Len(submissions[q])
                       /\ rounds[q].current = submissions[q][rounds[q].step]
                       /\ rounds[q].stepStatus = "OPEN"
    BY PositionIsStep DEF Inv, VotingOpen
<1>4. CASE SameRow(q) /\ SameOrder(q) /\ SameVotes(q)
    BY <1>4 DEF SameRow, SameOrder, SameVotes, Finalized
<1>5. CASE Created(q) \/ Submitted(q) \/ Closed(q)
    BY <1>5 DEF Created, Submitted, Closed
<1>6. CASE Opened(q)
    <2>1. rounds'[q].phase = "VOTING"
        BY <1>1, <1>6 DEF Opened, RoundRow
    <2>. QED
        BY <1>6, <2>1 DEF Opened, SameOrder, SameVotes, Finalized
<1>7. CASE Cast(q)
    <2>1. ASSUME NEW i \in 1..Len(submissions[q]), Finalized(q, i)
          PROVE  submissions[q][i] # rounds[q].current
        BY <1>2, <1>3, <1>7, <2>1 DEF Cast, Finalized
    <2>2. \A i \in 1..Len(submissions[q]) : submissions[q][i] \in Users
        BY <1>1, ElementOfSeq
    <2>3. \A b \in Users \ {rounds[q].current} : votes'[q][b] = votes[q][b]
        BY <1>1, <1>7 DEF Cast
    <2>. QED
        BY <1>7, <2>1, <2>2, <2>3 DEF Cast, SameRow, SameOrder, Finalized
<1>8. CASE RevealedNext(q) \/ FinalizedLast(q)
    <2>1. VotingOpen(q) /\ submissions'[q] = submissions[q]
        BY <1>8 DEF RevealedNext, FinalizedLast, SameOrder
    <2>2. ASSUME NEW i \in 1..Len(submissions[q]), Finalized(q, i)
          PROVE  submissions[q][i] # rounds[q].current
        BY <1>2, <1>3, <2>1, <2>2 DEF Finalized
    <2>3. \A i \in 1..Len(submissions[q]) : submissions[q][i] \in Users
        BY <1>1, ElementOfSeq
    <2>4. \A b \in Users \ {rounds[q].current} : votes'[q][b] = votes[q][b]
        BY <1>1, <1>8 DEF RevealedNext, FinalizedLast, Filled
    <2>5. /\ rounds'[q].phase = "VOTING"
          /\ \/ rounds'[q].stepStatus = "FINISHED"
             \/ rounds'[q].stepStatus = "OPEN" /\ rounds'[q].step = rounds[q].step + 1
        BY <1>1, <1>3, <1>8, <2>1 DEF RevealedNext, FinalizedLast, RoundRow
    <2>6. ASSUME NEW i \in 1..Len(submissions[q]), Finalized(q, i) PROVE Finalized(q, i)'
        BY <1>1, <1>3, <2>1, <2>5, <2>6 DEF Finalized
    <2>. QED
        BY <2>1, <2>2, <2>3, <2>4, <2>5, <2>6
<1>9. CASE Completed(q)
    <2>1. rounds'[q].phase = "VOTING" /\ rounds'[q].stepStatus = "FINISHED"
        BY <1>1, <1>9 DEF Completed, VotingFinished, RoundRow
    <2>. QED
        BY <1>9, <2>1 DEF Completed, SameOrder, SameVotes, Finalized
<1>. QED
    BY <1>4, <1>5, <1>6, <1>7, <1>8, <1>9, RoundStep DEF RoundMoves, Inv

-----------------------------------------------------------------------------
(* What will move a round on.                                              *)

(* Continuations run in the order of their commits, and no timer fires     *)
(* before its deadline.                                                    *)
InOrder == RepliesInOrder = TRUE /\ TimersMayFireEarly = FALSE

(* The continuation of a commit finds the row as the commit left it.       *)
HandlerAgrees(t) ==
    /\ t.pc = "closed" => rounds[t.round].phase = "VOTING"
    /\ t.pc \in {"opened", "finalized"} =>
          rounds[t.round].stepStatus # "IDLE" /\ t.step = rounds[t.round].step

HandlersAgree == \A w \in Workers : HandlerAgrees(tasks[w])

(* While a continuation is pending, its round's cursor stays.              *)
LEMMA CursorWaits ==
    ASSUME Inv, [Next]_vars, RepliesInOrder, NEW q \in Rounds, ReplyPending(q),
           rounds[q].stepStatus # "IDLE"
    PROVE  rounds'[q].step = rounds[q].step /\ rounds'[q].stepStatus # "IDLE"
<1>0. rounds \in [Rounds -> RoundRow] /\ rounds[q] \in RoundRow /\ rounds[q].phase = "VOTING"
    BY DEF Inv, TypeOK, VotingCursor, RowAgrees, RoundRow, Phases, NoRound
<1>1. CASE UNCHANGED rounds
    BY <1>1
<1>2. ASSUME NEW w \in Workers, OpenVoting(w) PROVE rounds'[q] = rounds[q]
    BY <1>0, <1>2, RowUpdates DEF OpenVoting
<1>3. ASSUME NEW w \in Workers, Finalize(w) PROVE rounds'[q] = rounds[q]
    BY <1>0, <1>3 DEF Finalize
<1>4. ASSUME NEW w \in Workers, CloseSubmissions(w) \/ CompleteRound(w)
      PROVE  rounds'[q].step = rounds[q].step /\ rounds'[q].stepStatus = rounds[q].stepStatus
    BY <1>0, <1>4 DEF CloseSubmissions, CompleteRound, RoundRow
<1>5. ASSUME NEW w \in Workers, Start(w) \/ CreateNextRound(w) PROVE rounds'[q] = rounds[q]
    BY <1>0, <1>5 DEF Start, CreateNextRound, Inv, NothingBeforeStart, Exists
<1>. QED
    BY <1>1, <1>2, <1>3, <1>4, <1>5, RowWriters DEF Submit, CastVote
(* Every step keeps the agreement of the handlers with the rows.           *)
LEMMA HandlersStep ==
    ASSUME Inv, HandlersAgree, [Next]_vars, RepliesInOrder
    PROVE  HandlersAgree'
<1>. SUFFICES ASSUME NEW x \in Workers PROVE HandlerAgrees(tasks[x])'
    BY DEF HandlersAgree
<1>0. /\ tasks \in [Workers -> Task] /\ rounds \in [Rounds -> RoundRow]
      /\ tasks[x] \in Task /\ tasks[x].round \in Rounds
    BY DEF Inv, TypeOK, Task
<1>. DEFINE r == tasks[x].round
<1>1. CASE tasks'[x] = tasks[x]
    <2>1. r \in Rounds /\ HandlerAgrees(tasks[x])
        BY <1>0 DEF HandlersAgree
    <2>2. tasks[x].pc = "closed" => rounds'[r].phase = "VOTING"
        BY <2>1, FrozenStep DEF HandlerAgrees, KeepsClosed
    <2>3. tasks[x].pc \in {"opened", "finalized"} =>
              rounds'[r].stepStatus # "IDLE" /\ tasks[x].step = rounds'[r].step
        BY <2>1, CursorWaits DEF HandlerAgrees, ReplyPending
    <2>. QED
        BY <1>1, <2>2, <2>3 DEF HandlerAgrees
<1>2. CASE tasks'[x] # tasks[x] /\ tasks'[x].pc \in {"closed", "opened", "finalized"}
    <2>1. CASE CloseSubmissions(x)
        <3>1. rounds' = [rounds EXCEPT ![r].phase = "VOTING"] /\ tasks'[x].round = r
              /\ tasks'[x].pc = "closed"
            BY <1>2, <2>1, HandlerMoves DEF CloseSubmissions, Inv
        <3>. QED
            BY <1>0, <3>1 DEF HandlerAgrees, RoundRow
    <2>2. CASE OpenVoting(x)
        <3>1. /\ rounds' = [rounds EXCEPT ![r].stepStatus = "OPEN", ![r].step = 1,
                                          ![r].current = submissions[r][1]]
              /\ tasks' = [tasks EXCEPT ![x].pc = "opened", ![x].step = 1]
            BY <1>2, <2>2, HandlerMoves DEF OpenVoting, Inv
        <3>2. tasks'[x].pc = "opened" /\ tasks'[x].step = 1 /\ tasks'[x].round = r
            BY <1>0, <3>1 DEF Task
        <3>3. rounds'[r].stepStatus = "OPEN" /\ rounds'[r].step = 1
            BY <1>0, <3>1 DEF RoundRow
        <3>. QED
            BY <3>2, <3>3 DEF HandlerAgrees
    <2>3. CASE Finalize(x)
        <3>1. VotingOpen(r)
            BY <2>3, StepIsOpen
        <3>2. PICK n \in {NextPosition(r), 0} :
                  /\ tasks' = [tasks EXCEPT ![x].pc = "finalized", ![x].voters = {}, ![x].step = n]
                  /\ \/ rounds' = [rounds EXCEPT ![r].current = submissions[r][n], ![r].step = n]
                     \/ rounds' = [rounds EXCEPT ![r].current = None, ![r].step = n,
                                                 ![r].stepStatus = "FINISHED"]
            <4>1. NextPosition(r) \in Nat /\ NextPosition(r) # 0
                BY SMTT(30), <1>0, <3>1, PositionIsStep DEF Inv, TypeOK, RoundRow
            <4>. QED
                BY <2>3, <4>1 DEF Finalize
        <3>3. tasks'[x].pc = "finalized" /\ tasks'[x].step = n /\ tasks'[x].round = r
            BY <1>0, <3>2 DEF Task
        <3>4. rounds'[r].stepStatus # "IDLE" /\ rounds'[r].step = n
            BY <1>0, <3>1, <3>2 DEF RoundRow, VotingOpen
        <3>. QED
            BY <3>3, <3>4 DEF HandlerAgrees
    <2>4. CASE BeginFinalization(x)
        <3>1. tasks'[x].pc \in {"filling", "idle"}
            BY <1>0, <2>4, HandlerMoves DEF BeginFinalization, Inv, Task
        <3>. QED
            BY <1>2, <3>1
    <2>. QED
        BY <1>2, <2>1, <2>2, <2>3, <2>4, Committers DEF Inv
<1>3. CASE tasks'[x].pc \notin {"closed", "opened", "finalized"}
    BY <1>3 DEF HandlerAgrees
<1>. QED
    BY <1>1, <1>2, <1>3

(* What a round needs in each of its stages.                               *)
Driven(r) ==
    /\ rounds[r].phase = "SUBMISSION" => SubmissionPhaseDriven(r)
    /\ rounds[r].phase = "VOTING" /\ rounds[r].stepStatus = "IDLE" =>
           InFlight(r, {"closed", "openingVoting"})
    /\ VotingOpen(r) => VotingStepDriven(r)
    /\ VotingFinished(r) => CompletionDriven(r)
    /\ rounds[r].completed => FollowUpDriven(r)

(* The handler with this task is one that moves the round on.              *)
Drives(t, r) ==
    /\ t.round = r
    /\ \/ /\ rounds[r].phase = "SUBMISSION"
          /\ t.pc = "arming" \/ (t.pc = "closing" /\ t.reason = "DEADLINE_EXPIRED")
       \/ /\ rounds[r].phase = "VOTING" /\ rounds[r].stepStatus = "IDLE"
          /\ t.pc \in {"closed", "openingVoting"}
       \/ VotingOpen(r) /\ t.pc \in {"opened", "filling", "finalized"}
       \/ /\ VotingOpen(r) /\ VotingDeadlinePassed(r)
          /\ t.pc = "finalizing" /\ t.reason = "DEADLINE_EXPIRED"
       \/ VotingFinished(r) /\ t.pc \in {"checkingFinished", "finalized", "completing"}
       \/ rounds[r].completed /\ t.pc = "delaying"

(* A round whose row and drivers are left alone is driven as before.       *)
LEMMA LeftAlone ==
    ASSUME NEW r \in Rounds, Driven(r), NEW W \in SUBSET Workers,
           \A x \in Workers \ W : tasks'[x] = tasks[x],
           \A w \in W : ~Drives(tasks[w], r),
           rounds'[r] = rounds[r],
           rounds[r].phase = "SUBMISSION" /\ r \in submissionTimer => r \in submissionTimer',
           VotingOpen(r) /\ votingTimer[r] = rounds[r].step => votingTimer'[r] = votingTimer[r],
           VotingDeadlinePassed(r) => VotingDeadlinePassed(r)',
           status = "COMPLETED" => status' = "COMPLETED",
           r + 1 \in Rounds => (Exists(r + 1) => Exists(r + 1)')
    PROVE  Driven(r)'
<1>1. ASSUME NEW x \in Workers, Drives(tasks[x], r) PROVE tasks'[x] = tasks[x]
    BY <1>1
<1>3. rounds[r].phase = "SUBMISSION" => SubmissionPhaseDriven(r)'
    BY <1>1 DEF Driven, SubmissionPhaseDriven, InFlight, TimedOut, Drives
<1>4. rounds[r].phase = "VOTING" /\ rounds[r].stepStatus = "IDLE" =>
          InFlight(r, {"closed", "openingVoting"})'
    BY <1>1 DEF Driven, InFlight, Drives
<1>5. VotingOpen(r) => VotingStepDriven(r)'
    BY <1>1 DEF Driven, VotingStepDriven, TimedOut, InFlight, Drives
<1>6. VotingFinished(r) => CompletionDriven(r)'
    BY <1>1 DEF Driven, CompletionDriven, InFlight, Drives
<1>7. rounds[r].completed => FollowUpDriven(r)'
    <2>1. r # RoundsCount => r + 1 \in Rounds
        BY SizesAssumption DEF Rounds
    <2>. QED
        BY <1>1, <2>1 DEF Driven, FollowUpDriven, InFlight, Drives
<1>. QED
    BY <1>3, <1>4, <1>5, <1>6, <1>7 DEF Driven, VotingOpen, VotingFinished

(* What never goes back.                                                   *)
LEMMA NothingGoesBack ==
    ASSUME Inv, [Next]_vars
    PROVE  /\ \A k \in Rounds : Exists(k) => Exists(k)'
           /\ status = "COMPLETED" => status' = "COMPLETED"
<1>1. \A k \in Rounds : Exists(k) => ~Created(k)
    BY DEF Exists, Created
<1>. QED
    BY <1>1, RowHistory, StatusMoves

(* A round that exists is one of a tournament that is active, or that has  *)
(* completed it and all the others.                                        *)
LEMMA ExistsActive ==
    ASSUME Inv, SequenceInv, NEW q \in Rounds, Exists(q)
    PROVE  \/ status = "ACTIVE"
           \/ status = "COMPLETED" /\ \A k \in Rounds : rounds[k].completed /\ Exists(k)
BY CompletedExists DEF SequenceInv, Inv, TypeOK, Statuses

(* Closing and opening.                                                    *)
LEMMA SubmissionTasksDrive ==
    ASSUME Inv, HandlersAgree, [Next]_vars, NEW q \in Rounds, Driven(q), NEW w \in Workers,
           \/ ArmSubmissionTimer(w) \/ CloseSubmissions(w) \/ CancelSubmissionTimer(w)
           \/ OpenVoting(w)
    PROVE  Driven(q)'
<1>. DEFINE r == tasks[w].round
<1>. USE DEF tournamentVars, contentVars, clockVars, timerVars
<1>0. /\ rounds \in [Rounds -> RoundRow] /\ r \in Rounds /\ tasks[w] \in Task
      /\ tasks \in [Workers -> Task] /\ Others(w) /\ submissionTimer \subseteq Rounds
      /\ \A k \in Rounds \ {r} : rounds'[k] = rounds[k] /\ votingTimer' = votingTimer
      /\ \A k \in Rounds \ {r} : k \in submissionTimer => k \in submissionTimer'
      /\ votingExpired' = votingExpired
      /\ RowAgrees(rounds[q], submissions[q]) /\ rounds[q] \in RoundRow
    BY SMTT(30), HandlerMoves
    DEF Inv, TypeOK, VotingCursor, Task, ArmSubmissionTimer, CloseSubmissions,
                        CancelSubmissionTimer, OpenVoting, Others
<1>1. ASSUME rounds'[q] = rounds[q], ~Drives(tasks[w], q), votingTimer' = votingTimer,
             rounds[q].phase = "SUBMISSION" /\ q \in submissionTimer => q \in submissionTimer'
      PROVE  Driven(q)'
    <2>. DEFINE W == {w}
    <2>1. W \in SUBSET Workers /\ (\A x \in Workers \ W : tasks'[x] = tasks[x])
          /\ \A x \in W : ~Drives(tasks[x], q)
        BY <1>0, <1>1 DEF Others
    <2>2. VotingDeadlinePassed(q) => VotingDeadlinePassed(q)'
        BY <1>0, <1>1 DEF VotingDeadlinePassed
    <2>. HIDE DEF W
    <2>. QED
        BY <1>1, <2>1, <2>2, LeftAlone, NothingGoesBack
<1>2. CASE q # r
    <2>1. votingTimer' = votingTimer
        BY <1>2 DEF ArmSubmissionTimer, CloseSubmissions, CancelSubmissionTimer, OpenVoting
    <2>. QED
        BY <1>0, <1>1, <1>2, <2>1 DEF Drives
<1>3. CASE q = r /\ ArmSubmissionTimer(w)
    <2>1. rounds'[q] = rounds[q] /\ q \in submissionTimer' /\ votingTimer' = votingTimer
        BY <1>3 DEF ArmSubmissionTimer
    <2>2. CASE rounds[q].phase = "SUBMISSION"
        BY <1>0, <2>1, <2>2
        DEF Driven, SubmissionPhaseDriven, VotingOpen, VotingFinished, RowAgrees
    <2>3. CASE rounds[q].phase # "SUBMISSION"
        BY <1>1, <1>3, <2>1, <2>3 DEF Drives, ArmSubmissionTimer
    <2>. QED
        BY <2>2, <2>3
<1>4. CASE q = r /\ CloseSubmissions(w)
    <2>1. CASE rounds[q].phase = "SUBMISSION"
        <3>1. /\ rounds'[q] = [rounds[q] EXCEPT !.phase = "VOTING"]
              /\ tasks'[w].pc = "closed" /\ tasks'[w].round = q
            BY <1>0, <1>4, <2>1, HandlerMoves DEF CloseSubmissions, Inv
        <3>2. /\ rounds'[q].phase = "VOTING" /\ rounds'[q].stepStatus = "IDLE"
              /\ rounds'[q].completed = FALSE
            BY <1>0, <2>1, <3>1 DEF RoundRow, RowAgrees
        <3>. QED
            BY <3>1, <3>2 DEF Driven, InFlight, VotingOpen, VotingFinished
    <2>2. CASE rounds[q].phase # "SUBMISSION"
        BY <1>1, <1>4, <2>2 DEF CloseSubmissions, Drives
    <2>. QED
        BY <2>1, <2>2
<1>5. CASE q = r /\ CancelSubmissionTimer(w)
    <2>1. /\ rounds'[q] = rounds[q] /\ votingTimer' = votingTimer
          /\ tasks'[w].pc = "openingVoting" /\ tasks'[w].round = q
        BY <1>5, HandlerMoves DEF CancelSubmissionTimer, Inv
    <2>2. rounds[q].phase = "VOTING"
        BY <1>5 DEF HandlersAgree, HandlerAgrees, CancelSubmissionTimer
    <2>3. CASE rounds[q].stepStatus = "IDLE"
        BY <1>0, <2>1, <2>2, <2>3 DEF Driven, InFlight, VotingOpen, VotingFinished, RowAgrees
    <2>4. CASE rounds[q].stepStatus # "IDLE"
        BY <1>1, <1>5, <2>1, <2>2, <2>4 DEF Drives, CancelSubmissionTimer
    <2>. QED
        BY <2>3, <2>4
<1>6. CASE q = r /\ OpenVoting(w)
    <2>1. CASE rounds[q].phase = "VOTING" /\ rounds[q].stepStatus = "IDLE" /\ submissions[q] # << >>
        <3>1. /\ rounds' = [rounds EXCEPT ![q].stepStatus = "OPEN", ![q].step = 1,
                                          ![q].current = submissions[q][1]]
              /\ tasks' = [tasks EXCEPT ![w].pc = "opened", ![w].step = 1]
            BY <1>6, <2>1 DEF OpenVoting
        <3>2. /\ tasks'[w].pc = "opened" /\ tasks'[w].step = 1 /\ tasks'[w].round = q
              /\ rounds'[q].phase = "VOTING" /\ rounds'[q].stepStatus = "OPEN"
              /\ rounds'[q].step = 1 /\ rounds'[q].completed = FALSE
            BY <1>0, <1>6, <2>1, <3>1 DEF Task, RoundRow, RowAgrees
        <3>. QED
            BY <3>2 DEF Driven, VotingStepDriven, VotingFinished
    <2>2. CASE rounds[q].phase = "VOTING" /\ rounds[q].stepStatus = "IDLE" /\ submissions[q] = << >>
        <3>1. /\ rounds'[q] = [rounds[q] EXCEPT !.stepStatus = "FINISHED"]
              /\ tasks'[w].pc = "checkingFinished" /\ tasks'[w].round = q
            BY <1>0, <1>6, <2>2, HandlerMoves DEF OpenVoting, Inv
        <3>2. /\ rounds'[q].phase = "VOTING" /\ rounds'[q].stepStatus = "FINISHED"
              /\ rounds'[q].completed = FALSE
            BY <1>0, <2>2, <3>1 DEF RoundRow, RowAgrees
        <3>. QED
            BY <3>1, <3>2 DEF Driven, CompletionDriven, InFlight, VotingOpen
    <2>3. CASE ~(rounds[q].phase = "VOTING" /\ rounds[q].stepStatus = "IDLE")
        <3>1. rounds'[q] = rounds[q] /\ votingTimer' = votingTimer /\ submissionTimer' = submissionTimer
            BY <1>0, <1>6, <2>3, RowUpdates DEF OpenVoting
        <3>2. ~Drives(tasks[w], q)
            BY <1>6, <2>3 DEF Drives, OpenVoting
        <3>. QED
            BY <1>1, <3>1, <3>2
    <2>. QED
        BY <2>1, <2>2, <2>3
<1>. QED
    BY <1>2, <1>3, <1>4, <1>5, <1>6

(* Revealing and finalizing.                                               *)
LEMMA VotingTasksDrive ==
    ASSUME Inv, HandlersAgree, [Next]_vars, NEW q \in Rounds, Driven(q), NEW w \in Workers,
           \/ ArmVotingTimer(w) \/ CheckVotingFinished(w) \/ BeginFinalization(w)
           \/ Finalize(w) \/ AfterFinalize(w)
    PROVE  Driven(q)'
<1>. DEFINE r == tasks[w].round
<1>. USE DEF tournamentVars, contentVars, clockVars, timerVars
<1>0. /\ rounds \in [Rounds -> RoundRow] /\ r \in Rounds /\ tasks[w] \in Task
      /\ tasks \in [Workers -> Task] /\ Others(w) /\ votingTimer \in [Rounds -> Nat]
      /\ \A k \in Rounds \ {r} : rounds'[k] = rounds[k] /\ votingTimer'[k] = votingTimer[k]
      /\ submissionTimer' = submissionTimer /\ votingExpired' = votingExpired
      /\ RowAgrees(rounds[q], submissions[q]) /\ rounds[q] \in RoundRow
    BY SMTT(30), HandlerMoves
    DEF Inv, TypeOK, VotingCursor, Task, ArmVotingTimer, CheckVotingFinished,
                        BeginFinalization, Finalize, AfterFinalize, Others
<1>1. ASSUME rounds'[q] = rounds[q], ~Drives(tasks[w], q),
             VotingOpen(q) /\ votingTimer[q] = rounds[q].step => votingTimer'[q] = votingTimer[q]
      PROVE  Driven(q)'
    <2>. DEFINE W == {w}
    <2>1. W \in SUBSET Workers /\ (\A x \in Workers \ W : tasks'[x] = tasks[x])
          /\ \A x \in W : ~Drives(tasks[x], q)
        BY <1>0, <1>1 DEF Others
    <2>2. VotingDeadlinePassed(q) => VotingDeadlinePassed(q)'
        BY <1>0, <1>1 DEF VotingDeadlinePassed
    <2>. HIDE DEF W
    <2>. QED
        BY <1>0, <1>1, <2>1, <2>2, LeftAlone, NothingGoesBack
<1>2. CASE q # r
    BY <1>0, <1>1, <1>2 DEF Drives
<1>3. CASE q = r /\ ArmVotingTimer(w)
    <2>1. /\ rounds'[q] = rounds[q] /\ votingTimer'[q] = tasks[w].step
          /\ tasks[w].step = rounds[q].step /\ tasks[w].pc = "opened"
        BY <1>0, <1>3 DEF ArmVotingTimer, HandlersAgree, HandlerAgrees
    <2>2. CASE VotingOpen(q)
        BY <1>0, <2>1, <2>2 DEF Driven, VotingStepDriven, VotingOpen, VotingFinished, RowAgrees
    <2>3. CASE ~VotingOpen(q)
        <3>1. ~Drives(tasks[w], q)
            BY <2>1, <2>3 DEF Drives
        <3>. QED
            BY <1>1, <2>1, <2>3, <3>1
    <2>. QED
        BY <2>2, <2>3
<1>4. CASE q = r /\ CheckVotingFinished(w)
    <2>1. rounds'[q] = rounds[q] /\ votingTimer' = votingTimer /\ tasks[w].pc = "checkingFinished"
        BY <1>4 DEF CheckVotingFinished
    <2>2. CASE VotingFinished(q)
        <3>1. tasks'[w].pc = "completing" /\ tasks'[w].round = q
            BY <1>4, <2>2, HandlerMoves DEF CheckVotingFinished, Inv
        <3>. QED
            BY <2>1, <2>2, <3>1 DEF Driven, CompletionDriven, InFlight, VotingOpen, VotingFinished
    <2>3. CASE ~VotingFinished(q)
        <3>1. ~Drives(tasks[w], q)
            BY <2>1, <2>3 DEF Drives
        <3>. QED
            BY <1>1, <2>1, <3>1
    <2>. QED
        BY <2>2, <2>3
<1>5. CASE q = r /\ BeginFinalization(w)
    <2>1. rounds'[q] = rounds[q] /\ votingTimer' = votingTimer /\ tasks[w].pc = "finalizing"
        BY <1>5 DEF BeginFinalization
    <2>2. CASE CanFinalize(q, tasks[w].reason)
        <3>1. VotingOpen(q) /\ tasks'[w].pc = "filling" /\ tasks'[w].round = q
            BY <1>0, <1>5, <2>2 DEF BeginFinalization, CanFinalize, Task
        <3>. QED
            BY <1>0, <2>1, <3>1
            DEF Driven, VotingStepDriven, InFlight, VotingOpen, VotingFinished, RowAgrees
    <2>3. CASE ~CanFinalize(q, tasks[w].reason)
        <3>1. ~Drives(tasks[w], q)
            BY <2>1, <2>3 DEF Drives, CanFinalize
        <3>. QED
            BY <1>1, <2>1, <3>1
    <2>. QED
        BY <2>2, <2>3
<1>7. CASE q = r /\ Finalize(w)
    <2>1. VotingOpen(q) /\ NextPosition(q) \in Nat /\ NextPosition(q) # 0
        BY <1>0, <1>7, StepIsOpen, PositionIsStep DEF Inv, RoundRow
    <2>2. CASE NextPosition(q) <= Len(submissions[q])
        <3>1. /\ rounds' = [rounds EXCEPT ![q].current = submissions[q][NextPosition(q)],
                                          ![q].step = NextPosition(q)]
              /\ tasks' = [tasks EXCEPT ![w].pc = "finalized", ![w].voters = {},
                                        ![w].step = NextPosition(q)]
            BY <1>7, <2>1, <2>2 DEF Finalize
        <3>2. /\ tasks'[w].pc = "finalized" /\ tasks'[w].step = NextPosition(q)
              /\ tasks'[w].round = q
            BY <1>0, <1>7, <3>1 DEF Task
        <3>3. /\ rounds'[q].phase = "VOTING" /\ rounds'[q].stepStatus = "OPEN"
              /\ rounds'[q].step = NextPosition(q) /\ rounds'[q].completed = FALSE
            BY <1>0, <2>1, <3>1 DEF RoundRow, RowAgrees, VotingOpen
        <3>. QED
            BY <3>2, <3>3 DEF Driven, VotingStepDriven, VotingFinished
    <2>3. CASE ~(NextPosition(q) <= Len(submissions[q]))
        <3>1. /\ rounds' = [rounds EXCEPT ![q].current = None, ![q].step = 0,
                                          ![q].stepStatus = "FINISHED"]
              /\ tasks' = [tasks EXCEPT ![w].pc = "finalized", ![w].voters = {}, ![w].step = 0]
            BY <1>7, <2>3 DEF Finalize
        <3>2. tasks'[w].pc = "finalized" /\ tasks'[w].round = q
            BY <1>0, <1>7, <3>1 DEF Task
        <3>3. /\ rounds'[q].phase = "VOTING" /\ rounds'[q].stepStatus = "FINISHED"
              /\ rounds'[q].completed = FALSE
            BY <1>0, <2>1, <3>1 DEF RoundRow, RowAgrees, VotingOpen
        <3>. QED
            BY <3>2, <3>3 DEF Driven, CompletionDriven, InFlight, VotingOpen
    <2>. QED
        BY <2>2, <2>3
<1>6. CASE q = r /\ AfterFinalize(w)
    <2>1. /\ rounds'[q] = rounds[q] /\ votingTimer'[q] = tasks[w].step
          /\ tasks[w].step = rounds[q].step /\ tasks[w].pc = "finalized"
        BY <1>0, <1>6 DEF AfterFinalize, HandlersAgree, HandlerAgrees
    <2>2. CASE VotingOpen(q)
        BY <1>0, <2>1, <2>2 DEF Driven, VotingStepDriven, VotingOpen, VotingFinished, RowAgrees
    <2>3. CASE VotingFinished(q)
        <3>1. tasks[w].step = 0
            BY <1>0, <2>1, <2>3 DEF VotingFinished, RowAgrees
        <3>2. tasks'[w].pc = "completing" /\ tasks'[w].round = q
            BY <1>6, <3>1, HandlerMoves DEF AfterFinalize, Inv
        <3>. QED
            BY <2>1, <2>3, <3>2 DEF Driven, CompletionDriven, InFlight, VotingOpen, VotingFinished
    <2>4. CASE ~VotingOpen(q) /\ ~VotingFinished(q)
        <3>1. ~Drives(tasks[w], q)
            BY <2>1, <2>4 DEF Drives
        <3>. QED
            BY <1>1, <2>1, <2>4, <3>1
    <2>. QED
        BY <2>2, <2>3, <2>4
<1>. QED
    BY <1>2, <1>3, <1>4, <1>5, <1>6, <1>7

(* Completing, and going on to the next round or to the end.               *)
LEMMA CompletionTasksDrive ==
    ASSUME Inv, SequenceInv, [Next]_vars, NEW q \in Rounds, Driven(q), NEW w \in Workers,
           CompleteRound(w) \/ FinishTournament(w) \/ CreateNextRound(w)
    PROVE  Driven(q)'
<1>. DEFINE r == tasks[w].round
<1>. USE DEF tournamentVars, contentVars, clockVars, timerVars
<1>0. /\ rounds \in [Rounds -> RoundRow] /\ r \in Rounds /\ tasks[w] \in Task
      /\ tasks \in [Workers -> Task] /\ votingTimer' = votingTimer
      /\ submissionTimer' = submissionTimer /\ votingExpired' = votingExpired
      /\ RowAgrees(rounds[q], submissions[q]) /\ rounds[q] \in RoundRow
    BY DEF Inv, TypeOK, VotingCursor, Task, CompleteRound, FinishTournament, CreateNextRound
<1>1. Others(w)
    BY <1>0, HandlerMoves DEF Inv, CompleteRound, FinishTournament, CreateNextRound, Others
<1>2. ASSUME rounds'[q] = rounds[q], ~Drives(tasks[w], q) PROVE Driven(q)'
    <2>. DEFINE W == {w}
    <2>1. W \in SUBSET Workers /\ (\A x \in Workers \ W : tasks'[x] = tasks[x])
          /\ \A x \in W : ~Drives(tasks[x], q)
        BY <1>1, <1>2 DEF Others
    <2>2. VotingDeadlinePassed(q) => VotingDeadlinePassed(q)'
        BY <1>0, <1>2 DEF VotingDeadlinePassed
    <2>. HIDE DEF W
    <2>. QED
        BY <1>0, <1>2, <2>1, <2>2, LeftAlone, NothingGoesBack
<1>3. CASE q # r /\ (CompleteRound(w) \/ FinishTournament(w))
    <2>1. rounds'[q] = rounds[q]
        BY <1>0, <1>3 DEF CompleteRound, FinishTournament
    <2>. QED
        BY <1>2, <1>3, <2>1 DEF Drives
<1>4. CASE q = r /\ CompleteRound(w)
    <2>1. CASE VotingFinished(q)
        <3>1. status = "ACTIVE"
            BY <2>1, ExistsActive DEF VotingFinished, Exists
        <3>2. /\ rounds' = [rounds EXCEPT ![q].completed = TRUE]
              /\ tasks'[w].pc = "delaying" /\ tasks'[w].round = q
            BY <1>4, <2>1, <3>1, HandlerMoves DEF CompleteRound, Inv
        <3>3. /\ rounds'[q].phase = "VOTING" /\ rounds'[q].stepStatus = "FINISHED"
              /\ rounds'[q].completed
            BY <1>0, <2>1, <3>2 DEF RoundRow, VotingFinished
        <3>. QED
            BY <3>2, <3>3 DEF Driven, FollowUpDriven, InFlight, VotingOpen, VotingFinished
    <2>2. CASE ~VotingFinished(q)
        <3>1. rounds'[q] = rounds[q] /\ ~Drives(tasks[w], q)
            BY <1>4, <2>2 DEF CompleteRound, Drives
        <3>. QED
            BY <1>2, <3>1
    <2>. QED
        BY <2>1, <2>2
<1>5. CASE q = r /\ FinishTournament(w)
    <2>1. rounds'[q] = rounds[q] /\ q = RoundsCount /\ tasks[w].pc = "delaying"
        BY <1>0, <1>5, SizesAssumption DEF FinishTournament, IsLastRound, Rounds
    <2>2. CASE rounds[q].completed = TRUE
        <3>1. status' = "COMPLETED"
            BY <1>5, <2>2, CompletedExists, ExistsActive, NothingGoesBack
            DEF FinishTournament, FollowsUp
        <3>2. rounds[q].phase = "VOTING" /\ rounds[q].stepStatus = "FINISHED"
            BY <1>0, <2>2, CompletedExists DEF RowAgrees, Exists, RoundRow, Phases
        <3>. QED
            BY <2>1, <2>2, <3>1, <3>2
            DEF Driven, FollowUpDriven, VotingOpen, VotingFinished
    <2>3. CASE rounds[q].completed = FALSE
        BY <1>2, <2>1, <2>3 DEF Drives
    <2>. QED
        BY <1>0, <2>2, <2>3 DEF RoundRow
<1>6. CASE CreateNextRound(w)
    <2>1. r + 1 \in Rounds /\ tasks[w].pc = "delaying" /\ r # r + 1 /\ r # RoundsCount
        BY <1>0, <1>6, SizesAssumption DEF CreateNextRound, IsLastRound, Rounds
    <2>2. CASE q = r
        <3>1. rounds'[q] = rounds[q]
            BY <1>0, <1>6, <2>1, <2>2 DEF CreateNextRound
        <3>2. CASE rounds[q].completed = TRUE
            <4>1. Exists(q + 1)'
                <5>1. CASE status = "ACTIVE" /\ ~Exists(q + 1)
                    <6>1. PICK prompt \in UnusedPrompts :
                              rounds' = [rounds EXCEPT ![q + 1] = NewRound(prompt)]
                        BY <1>6, <2>2, <3>2, <5>1 DEF CreateNextRound, FollowsUp
                    <6>. QED
                        BY <1>0, <2>1, <2>2, <6>1 DEF Exists, NewRound, NoRound
                <5>2. CASE Exists(q + 1)
                    BY <2>1, <2>2, <5>2, NothingGoesBack
                <5>3. CASE status = "COMPLETED"
                    BY <2>1, <2>2, <3>2, <5>3, CompletedExists, ExistsActive, NothingGoesBack
                <5>. QED
                    BY <3>2, <5>1, <5>2, <5>3, CompletedExists, ExistsActive
            <4>2. rounds[q].phase = "VOTING" /\ rounds[q].stepStatus = "FINISHED"
                BY <1>0, <3>2, CompletedExists DEF RowAgrees, Exists, RoundRow, Phases
            <4>. QED
                BY <2>1, <2>2, <3>1, <3>2, <4>1, <4>2
                DEF Driven, FollowUpDriven, VotingOpen, VotingFinished
        <3>3. CASE rounds[q].completed = FALSE
            BY <1>2, <2>1, <3>1, <3>3 DEF Drives
        <3>. QED
            BY <1>0, <3>2, <3>3 DEF RoundRow
    <2>3. CASE q # r /\ rounds'[q] = rounds[q]
        BY <1>2, <2>3 DEF Drives
    <2>4. CASE q # r /\ rounds'[q] # rounds[q]
        <3>1. /\ q = r + 1
              /\ \E prompt \in UnusedPrompts : rounds' = [rounds EXCEPT ![q] = NewRound(prompt)]
              /\ tasks' = [tasks EXCEPT ![w].pc = "arming", ![w].round = q]
            BY <1>0, <1>6, <2>4 DEF CreateNextRound
        <3>2. /\ rounds'[q].phase = "SUBMISSION" /\ rounds'[q].completed = FALSE
              /\ tasks'[w].pc = "arming" /\ tasks'[w].round = q
            BY <1>0, <3>1 DEF NewRound, NoRound, Task
        <3>. QED
            BY <3>2 DEF Driven, SubmissionPhaseDriven, InFlight, VotingOpen, VotingFinished
    <2>. QED
        BY <2>2, <2>3, <2>4
<1>. QED
    BY <1>3, <1>4, <1>5, <1>6

(* A timer that fires leaves a handler that has what it needs.             *)
LEMMA TimersDrive ==
    ASSUME Inv, InOrder, [Next]_vars, NEW q \in Rounds, Driven(q), NEW r \in Rounds,
           SubmissionTimerFires(r) \/ VotingTimerFires(r)
    PROVE  Driven(q)'
<1>. USE DEF tournamentVars, contentVars, clockVars, timerVars
<1>0. /\ rounds' = rounds /\ votingExpired' = votingExpired /\ tasks \in [Workers -> Task]
      /\ votingTimer \in [Rounds -> Nat] /\ submissionTimer \subseteq Rounds
      /\ \A k \in Rounds \ {r} : votingTimer'[k] = votingTimer[k]
      /\ \A k \in Rounds \ {r} : k \in submissionTimer => k \in submissionTimer'
      /\ RowAgrees(rounds[q], submissions[q])
      /\ votingExpired \in [Rounds -> Nat] /\ rounds[q].step \in Nat
    BY DEF Inv, TypeOK, VotingCursor, RoundRow, SubmissionTimerFires, VotingTimerFires
<1>1. PICK w \in Workers :
          /\ Idle(w)
          /\ \/ SubmissionTimerFires(r) /\ BeginOnDeadline(w, "closing", r)
             \/ VotingTimerFires(r) /\ BeginOnDeadline(w, "finalizing", r)
    BY DEF SubmissionTimerFires, VotingTimerFires
<1>2. Others(w) /\ tasks'[w].round = r /\ tasks'[w].reason = "DEADLINE_EXPIRED"
      /\ ~Drives(tasks[w], q)
    BY <1>1, HandlerMoves DEF Inv, Idle, Drives
<1>3. ASSUME rounds[q].phase = "SUBMISSION" /\ q \in submissionTimer => q \in submissionTimer',
             VotingOpen(q) /\ votingTimer[q] = rounds[q].step => votingTimer'[q] = votingTimer[q]
      PROVE  Driven(q)'
    <2>. DEFINE W == {w}
    <2>1. W \in SUBSET Workers /\ (\A x \in Workers \ W : tasks'[x] = tasks[x])
          /\ \A x \in W : ~Drives(tasks[x], q)
        BY <1>2 DEF Others
    <2>2. VotingDeadlinePassed(q) => VotingDeadlinePassed(q)'
        BY <1>0 DEF VotingDeadlinePassed
    <2>. HIDE DEF W
    <2>. QED
        BY <1>0, <1>3, <2>1, <2>2, LeftAlone, NothingGoesBack
<1>4. CASE q # r
    BY <1>0, <1>3, <1>4
<1>5. CASE q = r /\ SubmissionTimerFires(r)
    <2>1. votingTimer' = votingTimer
        BY <1>5 DEF SubmissionTimerFires
    <2>2. CASE rounds[q].phase = "SUBMISSION"
        <3>1. tasks'[w].pc = "closing"
            <4>1. votingTimer[r] \in Nat /\ (VotingTimerFires(r) => votingTimer'[r] # votingTimer[r])
                BY <1>0 DEF VotingTimerFires
            <4>. QED
                BY <1>1, <2>1, <4>1, HandlerMoves DEF Inv
        <3>2. SubmissionPhaseDriven(q)'
            BY <1>2, <1>5, <3>1 DEF SubmissionPhaseDriven, TimedOut
        <3>. QED
            BY <1>0, <2>2, <3>2 DEF Driven, VotingOpen, VotingFinished, RowAgrees
    <2>3. CASE rounds[q].phase # "SUBMISSION"
        BY <1>3, <2>1, <2>3
    <2>. QED
        BY <2>2, <2>3
<1>6. CASE q = r /\ VotingTimerFires(r)
    <2>1. submissionTimer' = submissionTimer
        BY <1>6 DEF VotingTimerFires
    <2>2. CASE VotingOpen(q) /\ votingTimer[q] = rounds[q].step
        <3>1. tasks'[w].pc = "finalizing"
            <4>1. ~SubmissionTimerFires(r)
                BY <2>1 DEF SubmissionTimerFires
            <4>. QED
                BY <1>1, <4>1, HandlerMoves DEF Inv
        <3>2. VotingDeadlinePassed(q)'
            BY <1>0, <1>6, <2>2 DEF VotingTimerFires, VotingDeadlinePassed, InOrder
        <3>3. VotingStepDriven(q)'
            BY <1>2, <1>6, <3>1, <3>2 DEF VotingStepDriven, TimedOut
        <3>. QED
            BY <1>0, <2>2, <3>3 DEF Driven, VotingOpen, VotingFinished, RowAgrees
    <2>3. CASE ~(VotingOpen(q) /\ votingTimer[q] = rounds[q].step)
        BY <1>3, <2>1, <2>3
    <2>. QED
        BY <2>2, <2>3
<1>. QED
    BY <1>4, <1>5, <1>6

(* Requests, and the handlers that only count, leave the drivers alone.    *)
LEMMA BystandersDrive ==
    ASSUME Inv, [Next]_vars, NEW q \in Rounds, Driven(q), NEW w \in Workers,
           \/ Request(w) \/ FindParticipant(w) \/ Leave(w) \/ HandleSubmissionSaved(w) \/ CountSubmissions(w)
           \/ HandleVoteSaved(w) \/ CountVotes(w)
    PROVE  Driven(q)'
<1>. USE DEF tournamentVars, contentVars, clockVars, timerVars
<1>0. rounds \in [Rounds -> RoundRow] /\ tasks \in [Workers -> Task] /\ 1 \in Rounds
    BY SizesAssumption DEF Inv, TypeOK, Rounds
<1>1. Others(w)
    BY <1>0, HandlerMoves DEF Inv, Request, Start, AskToLeave, Submit, CastVote, FindParticipant, Leave,
                              HandleSubmissionSaved, CountSubmissions, HandleVoteSaved, CountVotes,
                              Others
<1>2. ~Drives(tasks[w], q)
    BY DEF Request, Start, AskToLeave, Submit, CastVote, FindParticipant, Leave, HandleSubmissionSaved,
           CountSubmissions, HandleVoteSaved, CountVotes, Drives, Idle
<1>3. votingTimer' = votingTimer /\ submissionTimer' = submissionTimer /\ votingExpired' = votingExpired
    BY DEF Request, Start, AskToLeave, Submit, CastVote, FindParticipant, Leave, HandleSubmissionSaved,
           CountSubmissions, HandleVoteSaved, CountVotes
<1>4. CASE rounds'[q] = rounds[q]
    <2>. DEFINE W == {w}
    <2>1. W \in SUBSET Workers /\ (\A x \in Workers \ W : tasks'[x] = tasks[x])
          /\ \A x \in W : ~Drives(tasks[x], q)
        BY <1>1, <1>2 DEF Others
    <2>2. VotingDeadlinePassed(q) => VotingDeadlinePassed(q)'
        BY <1>3, <1>4 DEF VotingDeadlinePassed
    <2>. HIDE DEF W
    <2>. QED
        BY <1>3, <1>4, <2>1, <2>2, LeftAlone, NothingGoesBack
<1>5. CASE rounds'[q] # rounds[q]
    <2>1. Start(w)
        BY <1>5 DEF Request, AskToLeave, Submit, CastVote, FindParticipant, Leave, HandleSubmissionSaved,
                    CountSubmissions, HandleVoteSaved, CountVotes
    <2>2. /\ rounds'[q].phase = "SUBMISSION" /\ rounds'[q].completed = FALSE
          /\ tasks'[w].pc = "arming" /\ tasks'[w].round = q
        BY <1>0, <1>5, <2>1, HandlerMoves DEF Start, NewRound, NoRound, Inv
    <2>. QED
        BY <2>2 DEF Driven, SubmissionPhaseDriven, InFlight, VotingOpen, VotingFinished
<1>. QED
    BY <1>4, <1>5

DriveInv == faults = 0 => \A r \in Rounds : Driven(r)

(* Every step that is not a fault leaves every round driven.               *)
LEMMA DriveStep ==
    ASSUME Inv, SequenceInv, HandlersAgree, DriveInv, InOrder, [Next]_vars
    PROVE  DriveInv'
<1>. SUFFICES ASSUME faults' = 0, NEW q \in Rounds PROVE Driven(q)'
    BY DEF DriveInv
<1>0. faults \in Nat
    BY SizesAssumption DEF Inv, TypeOK
<1>1. faults = 0
    <2>1. ASSUME NEW w \in Workers, TaskStep(w) PROVE faults' = faults
        BY <2>1 DEF TaskStep, FindParticipant, Leave, ArmSubmissionTimer, HandleSubmissionSaved,
            CountSubmissions, CloseSubmissions, CancelSubmissionTimer, OpenVoting, ArmVotingTimer,
            CheckVotingFinished, HandleVoteSaved, CountVotes, BeginFinalization, Finalize,
            AfterFinalize, CompleteRound, FinishTournament, CreateNextRound
    <2>2. ASSUME NEW w \in Workers, Request(w) PROVE faults' = faults
        BY <2>2 DEF Request, Start, AskToLeave, Submit, CastVote
    <2>3. ASSUME CrashRestart \/ \E w \in Workers : RequestFails(w) \/ ReplyLost(w) PROVE FALSE
        BY <1>0, <2>3 DEF CrashRestart, RequestFails, ReplyLost, FaultHappens
    <2>. QED
        BY <2>1, <2>2, <2>3 DEF Next, Cancel, Join, SubmissionDeadlinePasses,
            VotingDeadlinePasses, SubmissionTimerFires, VotingTimerFires, vars
<1>2. Driven(q)
    BY <1>1 DEF DriveInv
<1>3. ASSUME NEW w \in Workers, TaskStep(w) \/ Request(w) PROVE Driven(q)'
    BY <1>2, <1>3, SubmissionTasksDrive, VotingTasksDrive, CompletionTasksDrive, BystandersDrive
    DEF TaskStep
<1>4. ASSUME NEW r \in Rounds, SubmissionTimerFires(r) \/ VotingTimerFires(r) PROVE Driven(q)'
    BY <1>2, <1>4, TimersDrive
<1>5. ASSUME UNCHANGED <<rounds, tasks, submissionTimer, votingTimer>>,
             votingExpired[q] <= votingExpired'[q]
      PROVE  Driven(q)'
    <2>1. {} \in SUBSET Workers /\ (\A x \in Workers \ {} : tasks'[x] = tasks[x])
        BY <1>5
    <2>2. VotingDeadlinePassed(q) => VotingDeadlinePassed(q)'
        <3>1. rounds[q].step \in Nat /\ votingExpired[q] \in Nat /\ Inv'
            BY InvStep DEF Inv, TypeOK, RoundRow
        <3>2. votingExpired'[q] \in Nat
            BY <3>1 DEF Inv, TypeOK
        <3>. QED
            BY <1>5, <3>1, <3>2 DEF VotingDeadlinePassed
    <2>. QED
        BY <1>2, <1>5, <2>1, <2>2, LeftAlone, NothingGoesBack
<1>6. votingExpired[q] \in Nat /\ votingExpired \in [Rounds -> Nat]
    BY DEF Inv, TypeOK
<1>7. ASSUME NEW r \in Rounds, SubmissionDeadlinePasses(r) \/ VotingDeadlinePasses(r) PROVE Driven(q)'
    <2>1. votingExpired[q] <= votingExpired'[q]
        BY <1>6, <1>7 DEF SubmissionDeadlinePasses, VotingDeadlinePasses, contentVars, clockVars
    <2>. QED
        BY <1>5, <1>7, <2>1 DEF SubmissionDeadlinePasses, VotingDeadlinePasses, timerVars
<1>8. CASE Cancel \/ (\E u \in Users : Join(u)) \/ UNCHANGED vars
    <2>1. UNCHANGED <<rounds, tasks, submissionTimer, votingTimer, votingExpired>>
        BY <1>8 DEF Cancel, Join, vars, timerVars, clockVars
    <2>. QED
        BY <1>5, <1>6, <2>1
<1>9. ASSUME CrashRestart \/ \E w \in Workers : RequestFails(w) \/ ReplyLost(w) PROVE FALSE
    BY <1>0, <1>9 DEF CrashRestart, RequestFails, ReplyLost, FaultHappens
<1>. QED
    BY <1>3, <1>4, <1>7, <1>8, <1>9 DEF Next

-----------------------------------------------------------------------------
(* The theorems.                                                           *)

(* Every column, timer and handler holds a value of its type, whatever     *)
(* requests, deadlines and faults come in whichever order.                 *)
THEOREM TypeCorrect == Spec => []TypeOK
<1>1. Inv => TypeOK
    BY DEF Inv
<1>. QED
    BY <1>1, Invariance, PTL

(* The columns of a round row agree, after any number of users, rounds and *)
(* faults: an open step points at its own submission and only a round      *)
(* whose voting is finished is completed.                                  *)
THEOREM CursorCorrect == Spec => []VotingCursor
<1>1. Inv => VotingCursor
    BY DEF Inv
<1>. QED
    BY <1>1, Invariance, PTL

(* Nobody has a vote on their own submission, nor on one that is not yet   *)
(* revealed: upsertManualVote and the automatic dislikes both go by the    *)
(* current submission, and that one is theirs to vote on.                  *)
THEOREM BallotsCorrect == Spec => []BallotsAreLegal
<1>1. Inv => BallotsAreLegal
    BY DEF Inv
<1>. QED
    BY <1>1, Invariance, PTL

(* A closed phase stays closed, its reveal order does not change, and the  *)
(* votes on a finalized submission never change again.                     *)
THEOREM FrozenCorrect == Spec => ClosedIsFrozen
<1>1. Inv /\ [Next]_vars => [\A r \in Rounds : KeepsClosed(r)]_vars
    BY FrozenStep
<1>. QED
    BY <1>1, Invariance, PTL DEF Spec, ClosedIsFrozen

(* Rounds come one at a time and in order, each with a prompt of its own,  *)
(* and the tournament is completed only after its last one: completeRound  *)
(* may be reached twice and its follow-up may be late, but each of them    *)
(* looks at the rows again.                                                *)
THEOREM SequenceCorrect == Spec => []RoundSequence
<1>1. Inv /\ SequenceInv => RoundSequence
    <2>. SUFFICES ASSUME Inv, SequenceInv PROVE RoundSequence
        OBVIOUS
    <2>1. 1 \in Rounds /\ status \in Statuses
        BY SizesAssumption DEF Rounds, Inv, TypeOK
    <2>2. (status \in {"DRAFT", "CANCELLED"}) = ~Exists(1)
        BY <2>1 DEF SequenceInv, Statuses, Exists
    <2>3. \A r \in Rounds \ {1} : r - 1 \in Rounds /\ r - 1 < r
        BY SizesAssumption DEF Rounds
    <2>. QED
        BY <2>2, <2>3 DEF SequenceInv, RoundSequence
<1>. QED
    BY <1>1, SequenceInvariance, PTL

(* As long as nothing has failed, every round of a tournament is moved on  *)
(* by a timer or by a handler in flight, if the continuations of commits   *)
(* run in their order and no timer fires early: each transaction leaves    *)
(* behind what takes the next step.                                        *)
THEOREM NothingIsOrphaned ==
    RepliesInOrder /\ ~TimersMayFireEarly => (Spec => [](faults = 0 => NoOrphanRound))
<1>. SUFFICES ASSUME InOrder PROVE Spec => [](faults = 0 => NoOrphanRound)
    BY EnvironmentAssumption DEF InOrder
<1>1. Init => Inv /\ SequenceInv /\ HandlersAgree /\ DriveInv
    <2>1. Init => SequenceInv
        BY DEF Init, SequenceInv, Exists, NoRound
    <2>2. Init => HandlersAgree
        BY DEF Init, HandlersAgree, HandlerAgrees, IdleTask
    <2>3. Init => DriveInv
        BY DEF Init, DriveInv, Driven, NoRound, VotingOpen, VotingFinished
    <2>. QED
        BY <2>1, <2>2, <2>3, InvInit
<1>2. Inv /\ SequenceInv /\ HandlersAgree /\ DriveInv /\ [Next]_vars =>
          (Inv /\ SequenceInv /\ HandlersAgree /\ DriveInv)'
    BY InvStep, SequenceStep, HandlersStep, DriveStep DEF InOrder
<1>3. DriveInv => (faults = 0 => NoOrphanRound)
    BY DEF DriveInv, Driven, NoOrphanRound
<1>. QED
    BY <1>1, <1>2, <1>3, PTL DEF Spec

=============================================================================
