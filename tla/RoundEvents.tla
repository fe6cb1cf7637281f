----------------------------- MODULE RoundEvents -----------------------------
(***************************************************************************)
(* What those who follow a tournament over the socket know of it: the      *)
(* events that RoundLifecycle's handlers emit after their transactions,    *)
(* and the view that a client makes of them.                               *)
(*                                                                         *)
(* A transaction builds the payloads from what it read and wrote, and      *)
(* returns them; the handler emits them once the commit is confirmed, so   *)
(* that a crash, or a reply that is lost, loses the events.  What is       *)
(* emitted reaches the room in the order of emission (Realtime has the     *)
(* queue and the worker).                                                  *)
(***************************************************************************)
EXTENDS RoundRefinement, SequencesExt

ASSUME NobodyLeaves == MayLeave = {} \* bound: RoundLifecycle has what leaving does

VARIABLES
    createdAt, \* the participants by tournament_participants.created_at
    result,    \* the events each handler still has to emit
    announced, \* the clients' view of the tournament
    furthest,  \* history: the furthest point there was a view of
    behind     \* history: the last event was lost, or was a counter that came late

eventVars == <<createdAt, result, announced, furthest, behind>>
allVars == <<vars, eventVars>>

-----------------------------------------------------------------------------
(* Payloads                                                                *)

Tally == [likes : Nat, dislikes : Nat]

LeaderboardEntry == [user : Users, score : Nat]

TournamentCancelledPayload == [event : {"TOURNAMENT_CANCELLED"}]
TournamentStartedPayload == [event : {"TOURNAMENT_STARTED"}, roundsCount : {RoundsCount}]
RoundCreatedPayload == [event : {"ROUND_CREATED"}, round : Rounds]
RoundProgressUpdatedPayload ==
    [event : {"ROUND_PROGRESS_UPDATED"}, round : Rounds, phase : {"SUBMISSION"}, submitted : Nat]
RoundPhaseChangedPayload == [event : {"ROUND_PHASE_CHANGED"}, round : Rounds]
VotingSubmissionRevealedPayload ==
    [event : {"VOTING_SUBMISSION_REVEALED"}, round : Rounds, author : Users,
     revealIndex : Nat, total : Nat \ {0}]
VoteFinalizedPayload == [event : {"VOTE_FINALIZED"}, round : Rounds, author : Users, tally : Tally]
RoundCompletedPayload ==
    [event : {"ROUND_COMPLETED"}, round : Rounds, rankings : [Users -> Tally],
     leaderboard : Seq(LeaderboardEntry), isLastRound : BOOLEAN]
TournamentFinishedPayload ==
    [event : {"TOURNAMENT_FINISHED"}, winner : Users, leaderboard : Seq(LeaderboardEntry)]

Payloads ==
    TournamentCancelledPayload \cup TournamentStartedPayload \cup RoundCreatedPayload
        \cup RoundProgressUpdatedPayload \cup RoundPhaseChangedPayload
        \cup VotingSubmissionRevealedPayload \cup VoteFinalizedPayload
        \cup RoundCompletedPayload \cup TournamentFinishedPayload

NoTally == [likes |-> 0, dislikes |-> 0]

TallyOf(r, author) == [likes |-> Likes(r, author), dislikes |-> Dislikes(r, author)]

(* finalizedPayload counts the votes on the submission with the missing    *)
(* ones filled in.                                                         *)
FilledTally(r, voters) ==
    [likes |-> Cardinality({v \in Users : FilledBallots(r, voters)[v] = "LIKE"}),
     dislikes |-> Cardinality({v \in Users : FilledBallots(r, voters)[v] \in {"DISLIKE", "AUTO"}})]

CastTally(r, voters) == TallyOf(r, rounds[r].current) \* variant: before they are filled in

TallyAtFinalization(r, voters) == FilledTally(r, voters)

(* calculate: the result of each submission; its score is its likes.  The  *)
(* order of equal scores is that of random ids and is left out.            *)
Rankings(r) == [a \in Users |-> IF a \in SubmittedIn(r) THEN TallyOf(r, a) ELSE NoTally]

Joined1st(u, v) == PositionOf(u, createdAt) < PositionOf(v, createdAt)
Joined2nd(u, v) == Joined1st(v, u) \* variant: the last to join is first among equals
BreaksTie(u, v) == Joined1st(u, v)

(* cumulative_score descending, created_at ascending.                      *)
RanksBefore(points, u, v) ==
    points[u] > points[v] \/ (points[u] = points[v] /\ BreaksTie(u, v))

Ahead(points, u) == {v \in participants : RanksBefore(points, v, u)}

AtPlace(points, i) == CHOOSE u \in participants : Cardinality(Ahead(points, u)) = i - 1

Leaderboard(points) ==
    [i \in 1..Cardinality(participants) |->
        [user |-> AtPlace(points, i), score |-> points[AtPlace(points, i)]]]

TournamentCancelled == [event |-> "TOURNAMENT_CANCELLED"]

TournamentStarted == [event |-> "TOURNAMENT_STARTED", roundsCount |-> RoundsCount]

RoundCreated(r) == [event |-> "ROUND_CREATED", round |-> r]

Progress(r) ==
    [event |-> "ROUND_PROGRESS_UPDATED", round |-> r, phase |-> "SUBMISSION",
     submitted |-> Cardinality(SubmittedIn(r))]

PhaseChanged(r) == [event |-> "ROUND_PHASE_CHANGED", round |-> r]

Remaining(r, i) == \* variant: total is how many are still to come
    [event |-> "VOTING_SUBMISSION_REVEALED", round |-> r, author |-> submissions[r][i],
     revealIndex |-> i - 1, total |-> Len(submissions[r]) - i]

Countdown(r, i) == \* variant: the index counts down
    [event |-> "VOTING_SUBMISSION_REVEALED", round |-> r, author |-> submissions[r][i],
     revealIndex |-> Len(submissions[r]) - i, total |-> Len(submissions[r])]

Reveal(r, i) ==
    [event |-> "VOTING_SUBMISSION_REVEALED", round |-> r, author |-> submissions[r][i],
     revealIndex |-> i - 1, total |-> Len(submissions[r])]

VoteFinalized(r, voters) ==
    [event |-> "VOTE_FINALIZED", round |-> r, author |-> rounds[r].current,
     tally |-> TallyAtFinalization(r, voters)]

RevealFirst(r, voters, step) == \* variant: the result comes after the next reveal
    IF step = 0 THEN <<VoteFinalized(r, voters)>>
    ELSE <<Reveal(r, step), VoteFinalized(r, voters)>>

FinalizationEvents(r, voters, step) ==
    IF step = 0 THEN <<VoteFinalized(r, voters)>>
    ELSE <<VoteFinalized(r, voters), Reveal(r, step)>>

BeforeUpdate(r, points) == \* variant: the leaderboard is read before the update
    [event |-> "ROUND_COMPLETED", round |-> r, rankings |-> Rankings(r),
     leaderboard |-> Leaderboard(score), isLastRound |-> IsLastRound(r)]

RoundCompleted(r, points) ==
    [event |-> "ROUND_COMPLETED", round |-> r, rankings |-> Rankings(r),
     leaderboard |-> Leaderboard(points), isLastRound |-> IsLastRound(r)]

TournamentFinished(board) ==
    [event |-> "TOURNAMENT_FINISHED", winner |-> board[1].user, leaderboard |-> board]

-----------------------------------------------------------------------------
(* The clients' view, one operator per emit method of the events service:  *)
(* what the event it documents tells the room.                             *)

NoView == [stage |-> "DRAFT", round |-> 0, submitted |-> 0, step |-> 0,
           total |-> 0, tallies |-> [a \in Users |-> None],
           earned |-> [a \in Users |-> 0], board |-> <<>>, winner |-> None]

(* An event of another round than the one shown starts the view of it.     *)
InRound(view, r) ==
    IF view.round = r THEN view
    ELSE [view EXCEPT !.round = r, !.submitted = 0, !.step = 0, !.total = 0,
                      !.tallies = NoView.tallies]

emitTournamentStarted(view, e) == [view EXCEPT !.stage = "ACTIVE"]

emitTournamentCancelled(view, e) == [view EXCEPT !.stage = "CANCELLED"]

emitRoundCreated(view, e) ==
    [InRound(view, e.round) EXCEPT !.stage = "SUBMITTING", !.submitted = 0]

(* The counter names the phase it was counted in, and is emitted whatever  *)
(* became of the round meanwhile: one that comes late tells of the past.   *)
emitRoundProgressUpdated(view, e) ==
    [InRound(view, e.round) EXCEPT !.stage = "SUBMITTING", !.submitted = e.submitted]

emitRoundPhaseChanged(view, e) ==
    [InRound(view, e.round) EXCEPT !.stage = "CLOSED", !.submitted = 0]

emitVotingSubmissionRevealed(view, e) ==
    [InRound(view, e.round) EXCEPT !.stage = "REVEALING",
                                   !.step = e.revealIndex + 1, !.total = e.total]

emitVoteFinalized(view, e) ==
    [InRound(view, e.round) EXCEPT !.stage = "FINALIZED", !.tallies[e.author] = e.tally]

emitRoundCompleted(view, e) ==
    [InRound(view, e.round) EXCEPT !.stage = "SCORED", !.board = e.leaderboard,
                                   !.earned = [a \in Users |-> @[a] + e.rankings[a].likes]]

emitTournamentFinished(view, e) ==
    [view EXCEPT !.stage = "COMPLETED", !.board = e.leaderboard, !.winner = e.winner]

Hear(view, e) ==
    CASE e.event = "TOURNAMENT_CANCELLED" -> emitTournamentCancelled(view, e)
      [] e.event = "TOURNAMENT_STARTED" -> emitTournamentStarted(view, e)
      [] e.event = "ROUND_CREATED" -> emitRoundCreated(view, e)
      [] e.event = "ROUND_PROGRESS_UPDATED" -> emitRoundProgressUpdated(view, e)
      [] e.event = "ROUND_PHASE_CHANGED" -> emitRoundPhaseChanged(view, e)
      [] e.event = "VOTING_SUBMISSION_REVEALED" -> emitVotingSubmissionRevealed(view, e)
      [] e.event = "VOTE_FINALIZED" -> emitVoteFinalized(view, e)
      [] e.event = "ROUND_COMPLETED" -> emitRoundCompleted(view, e)
      [] e.event = "TOURNAMENT_FINISHED" -> emitTournamentFinished(view, e)

(* A transaction returns at most two events.                               *)
HearAll(view, events) ==
    CASE Len(events) = 0 -> view
      [] Len(events) = 1 -> Hear(view, events[1])
      [] Len(events) = 2 -> Hear(Hear(view, events[1]), events[2])

(* The point of the tournament that a view shows, how far into its round   *)
(* it is, and what is no step back.                                        *)
PointOf(view) == [stage |-> view.stage, round |-> view.round, step |-> view.step]

Place(view) ==
    CASE view.stage = "SUBMITTING" -> 0
      [] view.stage = "CLOSED" -> 1
      [] view.stage = "REVEALING" -> 2 * view.step
      [] view.stage = "FINALIZED" -> 2 * Cardinality(Users) + 1
      [] OTHER -> 2 * Cardinality(Users) + 2

Onward(from, view) ==
    \/ from.stage = "DRAFT"
    \/ view.stage \in {"COMPLETED", "CANCELLED"}
    \/ view.round > from.round
    \/ view.round = from.round /\ Place(view) >= Place(from)

-----------------------------------------------------------------------------
(* The steps of RoundLifecycle with what they return and emit.             *)

EventsInit ==
    /\ Init
    /\ createdAt \in {s \in SetToSeqs(Joined) : s[1] = Owner}
    /\ result = [w \in Workers |-> <<>>]
    /\ announced = NoView
    /\ furthest = PointOf(NoView)
    /\ behind = FALSE

Pending(w) == result[w] # <<>>

Silently == UNCHANGED eventVars

Returns(w, events) ==
    /\ result' = [result EXCEPT ![w] = events]
    /\ UNCHANGED <<createdAt, announced, furthest, behind>>

Tells(view) ==
    /\ announced' = view
    /\ furthest' = IF Onward(furthest, view) THEN PointOf(view) ELSE furthest

(* The handler goes on after the commit.                                   *)
Emits(w) ==
    /\ Tells(HearAll(announced, result[w]))
    /\ result' = [result EXCEPT ![w] = <<>>]
    /\ behind' = (behind /\ ~Pending(w))
    /\ UNCHANGED createdAt

(* created_at is the time at which a transaction starts: a participant who *)
(* joins may be older than one whose row is already there, but not older   *)
(* than the owner, whose row is written with the tournament's.             *)
EventsJoin(u) ==
    /\ Join(u)
    /\ \E i \in 1..Len(createdAt) : createdAt' = InsertAt(createdAt, i + 1, u)
    /\ UNCHANGED <<result, announced, furthest, behind>>

EventsCancel(w) ==
    /\ Cancel /\ Idle(w) /\ ~Pending(w)
    /\ createdAt' = <<>>
    /\ result' = [result EXCEPT ![w] = <<TournamentCancelled>>]
    /\ UNCHANGED <<announced, furthest, behind>>

EventsStart(w) ==
    /\ Start(w) /\ ~Pending(w)
    /\ Returns(w, <<TournamentStarted, RoundCreated(1)>>)

EventsRequest(w) ==
    /\ ~Pending(w)
    /\ \/ \E r \in Rounds, u \in Users : Submit(w, r, u)
       \/ \E r \in Rounds, a, v \in Users, value \in VoteValues : CastVote(w, r, a, v, value)
    /\ Silently

(* The reply to a commit comes before what happens next on the round.      *)
RepliesArrived(r) == RepliesInOrder => \A w \in Workers : tasks[w].round = r => ~Pending(w)

(* A counter that is emitted in time shows where the tournament is, as     *)
(* every other event does.                                                 *)
EventsCountSubmissions(w) ==
    LET r == tasks[w].round IN
    /\ CountSubmissions(w) /\ RepliesArrived(r)
    /\ Tells(Hear(announced, Progress(r)))
    /\ behind' = (rounds[r].phase # "SUBMISSION")
    /\ UNCHANGED <<createdAt, result>>

EventsCloseSubmissions(w) ==
    LET r == tasks[w].round IN
    /\ CloseSubmissions(w) /\ RepliesArrived(r)
    /\ Returns(w, IF tasks'[w].pc = "closed" THEN <<PhaseChanged(r)>> ELSE <<>>)

EventsOpenVoting(w) ==
    /\ OpenVoting(w)
    /\ Returns(w, IF tasks'[w].pc = "opened" THEN <<Reveal(tasks[w].round, 1)>> ELSE <<>>)

EventsFinalize(w) ==
    /\ Finalize(w)
    /\ Returns(w, FinalizationEvents(tasks[w].round, tasks[w].voters, tasks'[w].step))

EventsCompleteRound(w) ==
    /\ CompleteRound(w)
    /\ Returns(w, IF tasks'[w].pc = "delaying" THEN <<RoundCompleted(tasks[w].round, score')>> ELSE <<>>)

(* emitRoundCompleted, emitTournamentFinished and emitTournamentCancelled  *)
(* are all that the handler does after these commits: the first before the *)
(* delay, the second at its end.                                           *)
EmitsCompleted(w) ==
    /\ tasks[w].pc \in {"delaying", "idle"} /\ Pending(w)
    /\ Emits(w)
    /\ UNCHANGED vars

EventsFinishTournament(w) ==
    LET board == Leaderboard(score) IN
    /\ FinishTournament(w) /\ ~Pending(w)
    /\ IF status' = status THEN Silently
       ELSE winner' = board[1].user /\ Returns(w, <<TournamentFinished(board)>>)

EventsCreateNextRound(w) ==
    /\ CreateNextRound(w) /\ ~Pending(w)
    /\ Returns(w, IF tasks'[w].pc = "arming" THEN <<RoundCreated(tasks'[w].round)>> ELSE <<>>)

Continues(w) ==
    /\ ArmSubmissionTimer(w) \/ CancelSubmissionTimer(w) \/ ArmVotingTimer(w) \/ AfterFinalize(w)
    /\ Emits(w)

ReadsOnly(w) ==
    /\ HandleSubmissionSaved(w) \/ CheckVotingFinished(w) \/ HandleVoteSaved(w) \/ CountVotes(w)
       \/ BeginFinalization(w)
    /\ Silently

(* A slot is free again when its handler has emitted everything.           *)
Deadlines(r) ==
    /\ \/ SubmissionDeadlinePasses(r) \/ VotingDeadlinePasses(r)
       \/ SubmissionTimerFires(r) \/ VotingTimerFires(r)
    /\ \A w \in Workers : Pending(w) => tasks'[w] = tasks[w]
    /\ Silently

Loses(w) ==
    /\ result' = [result EXCEPT ![w] = <<>>]
    /\ behind' = (behind \/ Pending(w))
    /\ UNCHANGED <<createdAt, announced, furthest>>

(* While a round waits for its delay, a fault of its last commit comes     *)
(* before ROUND_COMPLETED, one of the next transaction after it.           *)
EventsFault(w) ==
    /\ \/ RequestFails(w) /\ ~Pending(w)
       \/ ReplyLost(w) /\ (tasks[w].pc = "delaying" => Pending(w))
    /\ Loses(w)

EventsCrash ==
    /\ CrashRestart
    /\ result' = [w \in Workers |-> <<>>]
    /\ behind' = (behind \/ \E w \in Workers : Pending(w))
    /\ UNCHANGED <<createdAt, announced, furthest>>

EventsNext ==
    \/ \E u \in Users : EventsJoin(u)
    \/ \E w \in Workers :
         \/ EventsCancel(w) \/ EventsStart(w) \/ EventsRequest(w)
         \/ EventsCountSubmissions(w) \/ EventsCloseSubmissions(w)
         \/ EventsOpenVoting(w) \/ EventsFinalize(w)
         \/ EventsCompleteRound(w) \/ EmitsCompleted(w)
         \/ EventsFinishTournament(w) \/ EventsCreateNextRound(w)
         \/ Continues(w) \/ ReadsOnly(w)
         \/ EventsFault(w)
    \/ \E r \in Rounds : Deadlines(r)
    \/ EventsCrash

EventsSpec == EventsInit /\ [][EventsNext]_allVars

-----------------------------------------------------------------------------
(* Properties                                                              *)

(* What is returned is a payload of the contract.                          *)
EventsTypeOK ==
    /\ createdAt \in Seq(Users) /\ IsInjective(createdAt) /\ ToSet(createdAt) = participants
    /\ \A w \in Workers : \A i \in DOMAIN result[w] : result[w][i] \in Payloads
    /\ announced.round \in {0} \cup Rounds
    /\ announced.tallies \in [Users -> Tally \cup {None}]
    /\ announced.board \in Seq(LeaderboardEntry)
    /\ furthest.round \in {0} \cup Rounds
    /\ behind \in BOOLEAN

(* When no handler has anything left to emit, the clients know where the   *)
(* tournament is.  An event that a fault has lost, and a counter that came *)
(* after its phase was closed, keep them behind only until the next event: *)
(* none builds on the one before.                                          *)
StageShown ==
    IF Stage # "VOTED" THEN Stage
    ELSE IF Total > 0 THEN "FINALIZED" ELSE "CLOSED"

BeingCounted == InFlight(CurrentRound, {"submissionSaved", "countingSubmissions"})

ViewCatchesUp ==
    ~behind /\ (\A w \in Workers : ~Pending(w)) =>
        /\ announced.stage = StageShown
        /\ Stage # "COMPLETED" => announced.round = CurrentRound
        /\ Stage = "REVEALING" => announced.step = Step /\ announced.total = Total
        /\ Stage = "COMPLETED" => announced.winner = winner /\ announced.board = Leaderboard(score)
        /\ Stage = "SUBMITTING" /\ faults = 0 => announced.submitted = Total \/ BeingCounted

(* A result that was announced for a submission is the one that counts: no *)
(* vote is changed between its VOTE_FINALIZED and the round's completion.  *)
FinalTalliesStand ==
    \A a \in Users : announced.tallies[a] # None =>
        announced.tallies[a] = TallyOf(announced.round, a)

(* Who adds up the results of the rounds gets the leaderboard that comes   *)
(* with them, which is in order.                                           *)
StandingsAddUp ==
    /\ faults = 0 =>
          \A i \in DOMAIN announced.board :
              announced.board[i].score = announced.earned[announced.board[i].user]
    /\ \A i \in 1..(Len(announced.board) - 1) :
          announced.board[i].score >= announced.board[i + 1].score

(* The winner is the one who led when the last round was completed,        *)
(* whoever joins between that and the end.                                 *)
WinnerHadLed ==
    [][/\ furthest.stage = "SCORED" /\ furthest.round = RoundsCount
       /\ announced.stage # "COMPLETED" /\ announced'.stage = "COMPLETED"
       => announced'.winner = announced.board[1].user]_allVars

(* Whatever is lost, and however often a transaction is repeated after a   *)
(* fault, no event takes the clients back, or leaves them back, but one:   *)
(* the counter of a submission phase that has been closed since.           *)
LateCounter ==
    /\ announced'.stage = "SUBMITTING"
    /\ rounds[announced'.round].phase # "SUBMISSION"
    /\ UNCHANGED result

NeverBackwards ==
    [][announced' # announced => Onward(furthest, announced') \/ LateCounter]_allVars

=============================================================================
