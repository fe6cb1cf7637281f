--------------------------- MODULE RoundLifecycle ---------------------------
(***************************************************************************)
(* One tournament from DRAFT to COMPLETED: joining, starting and leaving   *)
(* it (tournament.service), submitting and voting in its rounds, closing   *)
(* a submission phase, revealing and finalizing the submissions one after  *)
(* the other, completing a round and creating the next one, with the two   *)
(* in-process deadline registries that drive all of this.                  *)
(*                                                                         *)
(* The handlers run concurrently in one Node process.  A handler is a task *)
(* in a slot of Workers; each of its steps is what runs without giving     *)
(* way: one database transaction, or the synchronous code between two      *)
(* awaits.  tasks[w].pc names the step that comes next.  A transaction is  *)
(* one step where the row lock it holds covers all that it reads and       *)
(* writes; a finalization, which reads the participants under the lock of  *)
(* the round alone, is two.                                                *)
(***************************************************************************)
EXTENDS Integers, FiniteSets, Sequences, Functions

CONSTANTS
    Users,                      \* every registered user
    Owner,                      \* the user who created the tournament
    Joined,                     \* the participants of the draft at the start
    MayLeave,                   \* bound: the users who ever ask to leave
    None,                       \* the null of a nullable column
    RoundsCount,                \* tournaments.rounds_count
    Prompts,                    \* ROUND_PROMPTS
    MinimumParticipantsToStart, \* 4 in the code, smaller in small instances
    VoteValues,                 \* bound: the values manual votes take
    Workers,                    \* bound: handlers in flight at the same time
    FaultKinds,                 \* which of "crash", "requestFails", "replyLost"
    MaxFaults,                  \* bound: faults in one behaviour
    RepliesInOrder,             \* see Finalize
    TimersMayFireEarly          \* see VotingTimerFires

ASSUME UsersAssumption ==
    /\ IsFiniteSet(Users)
    /\ Owner \in Joined
    /\ Joined \subseteq Users
    /\ MayLeave \subseteq Users \ {Owner}
    /\ None \notin Users \cup Prompts

ASSUME SizesAssumption ==
    /\ RoundsCount \in Nat \ {0}
    /\ MinimumParticipantsToStart \in Nat
    /\ MaxFaults \in Nat
    /\ IsFiniteSet(Prompts) /\ Cardinality(Prompts) >= RoundsCount

ASSUME EnvironmentAssumption ==
    /\ VoteValues \subseteq {"LIKE", "DISLIKE"}
    /\ FaultKinds \subseteq {"crash", "requestFails", "replyLost"}
    /\ RepliesInOrder \in BOOLEAN
    /\ TimersMayFireEarly \in BOOLEAN

VARIABLES
    status,            \* tournaments.status
    winner,            \* tournaments.winner_id
    participants,      \* the users with a tournament_participants row
    score,             \* cumulative_score of that row
    rounds,            \* tournament_rounds, by number
    submissions,       \* authors of a round's submissions in reveal order
    votes,             \* votes[round][author][voter]
    roundScore,        \* round_score of the submission of round and author
    submissionExpired, \* rounds whose submission deadline has passed
    votingExpired,     \* how many of a round's voting deadlines have passed
    submissionTimer,   \* rounds with a timer in the submission registry
    votingTimer,       \* step whose deadline the voting registry waits for
    tasks,             \* the handlers in flight
    faults             \* faults so far

tournamentVars == <<status, winner, participants, score>>
contentVars == <<submissions, votes, roundScore>>
clockVars == <<submissionExpired, votingExpired>>
timerVars == <<submissionTimer, votingTimer>>
vars == <<tournamentVars, rounds, contentVars, clockVars, timerVars, tasks, faults>>

Rounds == 1..RoundsCount

Statuses == {"DRAFT", "ACTIVE", "COMPLETED", "CANCELLED"}
Phases == {"NONE", "SUBMISSION", "VOTING"}
(* FINALIZING is overwritten in the transaction that writes it.            *)
StepStatuses == {"IDLE", "OPEN", "FINISHED"}

(* A vote is cast by hand (LIKE, DISLIKE) or is the DISLIKE of source      *)
(* AUTO_TIMEOUT that finalization writes for a missing one.                *)
Votes == {"NONE", "LIKE", "DISLIKE", "AUTO"}

(* A row of tournament_rounds.  step is current_reveal_index + 1, 0 for    *)
(* null; the k-th voting deadline issued in a round is that of its k-th    *)
(* step, so voting_deadline is not a field of its own.  A round that has   *)
(* no row yet is NoRound.                                                  *)
RoundRow == [phase : Phases, prompt : Prompts \cup {None},
             stepStatus : StepStatuses, current : Users \cup {None},
             step : Nat, completed : BOOLEAN]

NoRound == [phase |-> "NONE", prompt |-> None, stepStatus |-> "IDLE",
            current |-> None, step |-> 0, completed |-> FALSE]

NewRound(prompt) == [NoRound EXCEPT !.phase = "SUBMISSION", !.prompt = prompt]

Exists(r) == rounds[r].phase # "NONE"

Reasons == {"NONE", "DEADLINE_EXPIRED", "ALL_ACTIVE_PARTICIPANTS_SUBMITTED",
            "ALL_ACTIVE_ELIGIBLE_VOTERS_VOTED"}

(* A handler in flight: the round it works on, the user it is about (who   *)
(* leaves, or the author of the submission it counts votes for), the users *)
(* it read as online, why it closes or finalizes, the eligible voters it   *)
(* read, the step to schedule.                                             *)
Steps == {"idle", "leaving", "deleting", "arming", "submissionSaved", "countingSubmissions",
          "closing", "closed", "openingVoting", "opened", "checkingFinished",
          "voteSaved", "countingVotes", "finalizing", "filling", "finalized",
          "completing", "delaying"}

Task == [pc : Steps, round : Rounds, user : Users \cup {None}, online : SUBSET Users,
         reason : Reasons, voters : SUBSET Users, step : Nat]

IdleTask == [pc |-> "idle", round |-> 1, user |-> None, online |-> {},
             reason |-> "NONE", voters |-> {}, step |-> 0]

Idle(w) == tasks[w].pc = "idle"

Begin(w, pc, r) == tasks' = [tasks EXCEPT ![w] = [IdleTask EXCEPT !.pc = pc, !.round = r]]

Goto(w, pc) == tasks' = [tasks EXCEPT ![w].pc = pc]

Finish(w) == tasks' = [tasks EXCEPT ![w] = IdleTask]

(* The row lock of a round, while a finalization is under way.  Whoever    *)
(* writes the round waits for it; plain reads do not.                      *)
Locked(r) == \E w \in Workers : tasks[w].pc = "filling" /\ tasks[w].round = r

SubmittedIn(r) == {submissions[r][i] : i \in 1..Len(submissions[r])}

PositionOf(author, order) == CHOOSE i \in 1..Len(order) : order[i] = author

(* A new submission is the last to be revealed; one sent again gets a new  *)
(* submitted_at and becomes the last.                                      *)
Resubmitted(author, order) ==
    LET i == PositionOf(author, order)
    IN  Append(SubSeq(order, 1, i - 1) \o SubSeq(order, i + 1, Len(order)), author)

AnyPrompt == Prompts \* variant: the used prompts are not left out

UnusedPrompts == Prompts \ {rounds[r].prompt : r \in Rounds}

Likes(r, author) == Cardinality({v \in Users : votes[r][author][v] = "LIKE"})

Dislikes(r, author) == Cardinality({v \in Users : votes[r][author][v] \in {"DISLIKE", "AUTO"}})

NetLikes(r) == \* variant: dislikes count against the author
    [a \in Users |-> IF a \in SubmittedIn(r) THEN Likes(r, a) - Dislikes(r, a) ELSE 0]

VotesReceived(r) == \* variant: every vote is a point
    [a \in Users |-> Likes(r, a) + Dislikes(r, a)]

(* The likes of a submission are its author's score in the round.          *)
PointsIn(r) == [a \in Users |-> IF a \in SubmittedIn(r) THEN Likes(r, a) ELSE 0]

(* The users who can be first of the final leaderboard; which one of equal *)
(* scores is first is left open here.                                      *)
AnyParticipant == participants \* variant: the standings are not ordered

Leaders == {u \in participants : \A v \in participants : score[v] <= score[u]}

Init ==
    /\ status = "DRAFT"
    /\ winner = None
    /\ participants = Joined
    /\ score = [u \in Users |-> 0]
    /\ rounds = [r \in Rounds |-> NoRound]
    /\ submissions = [r \in Rounds |-> << >>]
    /\ votes = [r \in Rounds |-> [a \in Users |-> [v \in Users |-> "NONE"]]]
    /\ roundScore = [r \in Rounds |-> [a \in Users |-> 0]]
    /\ submissionExpired = {}
    /\ votingExpired = [r \in Rounds |-> 0]
    /\ submissionTimer = {}
    /\ votingTimer = [r \in Rounds |-> 0]
    /\ tasks = [w \in Workers |-> IdleTask]
    /\ faults = 0

-----------------------------------------------------------------------------
(* tournament.service: who takes part, and the start.                      *)

Join(u) ==
    /\ status \in {"DRAFT", "ACTIVE"}
    /\ u \notin participants
    /\ participants' = participants \cup {u}
    /\ UNCHANGED <<status, winner, score, rounds, contentVars, clockVars, timerVars, tasks, faults>>

(* leave reads the tournament, then the participant, outside any           *)
(* transaction, and deletes the row in a third query.                      *)
AskToLeave(w, u) ==
    /\ Idle(w)
    /\ u \in MayLeave
    /\ status = "DRAFT"
    /\ tasks' = [tasks EXCEPT ![w] = [IdleTask EXCEPT !.pc = "leaving", !.user = u]]
    /\ UNCHANGED <<tournamentVars, rounds, contentVars, clockVars, timerVars, faults>>

FindParticipant(w) ==
    /\ tasks[w].pc = "leaving"
    /\ IF tasks[w].user \in participants THEN Goto(w, "deleting") ELSE Finish(w)
    /\ UNCHANGED <<tournamentVars, rounds, contentVars, clockVars, timerVars, faults>>

Leave(w) ==
    /\ tasks[w].pc = "deleting"
    /\ participants' = participants \ {tasks[w].user}
    /\ score' = [score EXCEPT ![tasks[w].user] = 0]
    /\ Finish(w)
    /\ UNCHANGED <<status, winner, rounds, contentVars, clockVars, timerVars, faults>>

Cancel ==
    /\ status = "DRAFT"
    /\ status' = "CANCELLED"
    /\ participants' = {}
    /\ UNCHANGED <<winner, score, rounds, contentVars, clockVars, timerVars, tasks, faults>>

Start(w) ==
    /\ Idle(w)
    /\ status = "DRAFT"
    /\ Cardinality(participants) >= MinimumParticipantsToStart
    /\ status' = "ACTIVE"
    /\ \E prompt \in UnusedPrompts : rounds' = [rounds EXCEPT ![1] = NewRound(prompt)]
    /\ Begin(w, "arming", 1)
    /\ UNCHANGED <<winner, participants, score, contentVars, clockVars, timerVars, faults>>

(* scheduleSubmissionDeadline, for the first round and for the later ones. *)
ArmSubmissionTimer(w) ==
    /\ tasks[w].pc = "arming"
    /\ submissionTimer' = submissionTimer \cup {tasks[w].round}
    /\ Finish(w)
    /\ UNCHANGED <<tournamentVars, rounds, contentVars, clockVars, votingTimer, faults>>

-----------------------------------------------------------------------------
(* Submitting, and closing the submission phase.                           *)

AcceptsUntilDeadline(r) == Exists(r) /\ r \notin submissionExpired \* variant: no phase check

AcceptsSubmissions(r) == rounds[r].phase = "SUBMISSION" /\ r \notin submissionExpired

Submit(w, r, u) ==
    /\ Idle(w)
    /\ ~Locked(r) /\ AcceptsSubmissions(r)
    /\ u \in participants
    /\ submissions' = [submissions EXCEPT ![r] =
                          IF u \in SubmittedIn(r) THEN Resubmitted(u, @) ELSE Append(@, u)]
    /\ Begin(w, "submissionSaved", r)
    /\ UNCHANGED <<tournamentVars, rounds, votes, roundScore, clockVars, timerVars, faults>>

(* handleSubmissionSaved reads the round again.                            *)
HandleSubmissionSaved(w) ==
    /\ tasks[w].pc = "submissionSaved"
    /\ IF rounds[tasks[w].round].phase = "SUBMISSION"
         THEN Goto(w, "countingSubmissions")
         ELSE Finish(w)
    /\ UNCHANGED <<tournamentVars, rounds, contentVars, clockVars, timerVars, faults>>

(* It compares the number of authors with the number of users online.  Who *)
(* is online is not this module's concern: any set of users is.            *)
CountSubmissions(w) ==
    /\ tasks[w].pc = "countingSubmissions"
    /\ \E online \in SUBSET Users :
          IF online # {} /\ Cardinality(SubmittedIn(tasks[w].round)) >= Cardinality(online)
            THEN tasks' = [tasks EXCEPT ![w].pc = "closing", ![w].online = online,
                                        ![w].reason = "ALL_ACTIVE_PARTICIPANTS_SUBMITTED"]
            ELSE Finish(w)
    /\ UNCHANGED <<tournamentVars, rounds, contentVars, clockVars, timerVars, faults>>

(* completeSubmissionPhaseInTransaction: the first to get the row lock     *)
(* closes the phase, the others find it closed.                            *)
CloseSubmissions(w) ==
    LET r == tasks[w].round
    IN  /\ tasks[w].pc = "closing" /\ ~Locked(r)
        /\ IF rounds[r].phase = "SUBMISSION"
             THEN /\ rounds' = [rounds EXCEPT ![r].phase = "VOTING"]
                  /\ Goto(w, "closed")
             ELSE UNCHANGED rounds /\ Finish(w)
        /\ UNCHANGED <<tournamentVars, contentVars, clockVars, timerVars, faults>>

CancelSubmissionTimer(w) ==
    /\ tasks[w].pc = "closed"
    /\ submissionTimer' = submissionTimer \ {tasks[w].round}
    /\ Goto(w, "openingVoting")
    /\ UNCHANGED <<tournamentVars, rounds, contentVars, clockVars, votingTimer, faults>>

-----------------------------------------------------------------------------
(* Revealing and voting.                                                   *)

(* startVotingPhaseInTransaction; a round without submissions has nothing  *)
(* to vote on and is finished at once.                                     *)
OpenVoting(w) ==
    LET r == tasks[w].round
        Opens == rounds[r].phase = "VOTING" /\ rounds[r].stepStatus = "IDLE"
    IN  /\ tasks[w].pc = "openingVoting" /\ ~Locked(r)
        /\ IF Opens /\ submissions[r] # << >>
             THEN /\ rounds' = [rounds EXCEPT ![r].stepStatus = "OPEN", ![r].step = 1,
                                              ![r].current = submissions[r][1]]
                  /\ tasks' = [tasks EXCEPT ![w].pc = "opened", ![w].step = 1]
             ELSE /\ rounds' = [rounds EXCEPT ![r].stepStatus = IF Opens THEN "FINISHED" ELSE @]
                  /\ Goto(w, "checkingFinished")
        /\ UNCHANGED <<tournamentVars, contentVars, clockVars, timerVars, faults>>

ArmVotingTimer(w) ==
    /\ tasks[w].pc = "opened"
    /\ votingTimer' = [votingTimer EXCEPT ![tasks[w].round] = tasks[w].step]
    /\ Finish(w)
    /\ UNCHANGED <<tournamentVars, rounds, contentVars, clockVars, submissionTimer, faults>>

FinishedWithBallots(r) == \* variant: forgets the round without submissions
    rounds[r].stepStatus = "FINISHED" /\ ~rounds[r].completed /\ submissions[r] # << >>

VotingFinished(r) ==
    rounds[r].phase = "VOTING" /\ rounds[r].stepStatus = "FINISHED" /\ ~rounds[r].completed

CheckVotingFinished(w) ==
    /\ tasks[w].pc = "checkingFinished"
    /\ IF VotingFinished(tasks[w].round) THEN Goto(w, "completing") ELSE Finish(w)
    /\ UNCHANGED <<tournamentVars, rounds, contentVars, clockVars, timerVars, faults>>

VotingOpen(r) == rounds[r].phase = "VOTING" /\ rounds[r].stepStatus = "OPEN"

VotingDeadlinePassed(r) == rounds[r].step <= votingExpired[r]

WasSubmitted(r, author) == author \in SubmittedIn(r) \* variant: any submission of the round

IsVotingTarget(r, author) == rounds[r].current = author

(* upsertManualVote: a vote can be changed while its submission is the     *)
(* current one.                                                            *)
CastVote(w, r, author, voter, value) ==
    /\ Idle(w)
    /\ ~Locked(r) /\ VotingOpen(r)
    /\ IsVotingTarget(r, author)
    /\ ~VotingDeadlinePassed(r)
    /\ voter # author
    /\ voter \in participants
    /\ votes' = [votes EXCEPT ![r][author][voter] = value]
    /\ Begin(w, "voteSaved", r)
    /\ UNCHANGED <<tournamentVars, rounds, submissions, roundScore, clockVars, timerVars, faults>>

EveryParticipant(author) == participants \* variant: the author votes too

EveryAuthor(author) == \* variant: only those who submitted vote
    UNION {SubmittedIn(r) : r \in Rounds} \ {author}

EligibleVoters(author) == participants \ {author}

(* handleManualVoteSaved keeps the submission that is current now.         *)
HandleVoteSaved(w) ==
    LET r == tasks[w].round
    IN  /\ tasks[w].pc = "voteSaved"
        /\ IF VotingOpen(r)
             THEN tasks' = [tasks EXCEPT ![w].pc = "countingVotes", ![w].user = rounds[r].current]
             ELSE Finish(w)
        /\ UNCHANGED <<tournamentVars, rounds, contentVars, clockVars, timerVars, faults>>

(* It counts the votes on it of those eligible voters who are online.      *)
CountVotes(w) ==
    LET author == tasks[w].user
    IN  /\ tasks[w].pc = "countingVotes"
        /\ \E online \in SUBSET EligibleVoters(author) :
              IF online # {} /\ \A v \in online : votes[tasks[w].round][author][v] # "NONE"
                THEN tasks' = [tasks EXCEPT ![w].pc = "finalizing", ![w].online = online,
                                            ![w].reason = "ALL_ACTIVE_ELIGIBLE_VOTERS_VOTED"]
                ELSE Finish(w)
        /\ UNCHANGED <<tournamentVars, rounds, contentVars, clockVars, timerVars, faults>>

(* A committed step of the round's voting whose continuation (cancel the   *)
(* old timer, arm the new one) has not run yet.                            *)
ReplyPending(r) == \E w \in Workers : tasks[w].round = r /\ tasks[w].pc \in {"opened", "finalized"}

(* A finalization is refused when no step is open any more, and when the   *)
(* timer that asks for it finds the deadline of the step still ahead.      *)
CanFinalize(r, reason) ==
    VotingOpen(r) /\ (reason = "DEADLINE_EXPIRED" => VotingDeadlinePassed(r))

(* The votes on the current submission, those of voters filled in.         *)
FilledBallots(r, voters) ==
    LET cast == votes[r][rounds[r].current]
    IN  [v \in Users |-> IF v \in voters /\ cast[v] = "NONE" THEN "AUTO" ELSE cast[v]]

NextPosition(r) == PositionOf(rounds[r].current, submissions[r]) + 1

(* finalizeCurrentSubmissionInTransaction takes the submission that is     *)
(* current when it gets the row lock, whichever the caller counted votes   *)
(* for, and reads the eligible voters.  It does not lock the tournament:   *)
(* participants may still come and go until it commits.                    *)
BeginFinalization(w) ==
    LET r == tasks[w].round
    IN  /\ tasks[w].pc = "finalizing" /\ ~Locked(r)
        /\ IF CanFinalize(r, tasks[w].reason)
             THEN tasks' = [tasks EXCEPT ![w].pc = "filling",
                                         ![w].voters = EligibleVoters(rounds[r].current)]
             ELSE Finish(w)
        /\ UNCHANGED <<tournamentVars, rounds, contentVars, clockVars, timerVars, faults>>

(* Its commit.  The registries are updated afterwards: with RepliesInOrder *)
(* the continuation of one commit runs before the next one's, as it does   *)
(* unless the reply of the first is held up on its connection.             *)
Finalize(w) ==
    LET r == tasks[w].round
        next == NextPosition(r)
        nextStep == IF next <= Len(submissions[r]) THEN next ELSE 0
    IN  /\ tasks[w].pc = "filling"
        /\ RepliesInOrder => ~ReplyPending(r)
        /\ votes' = [votes EXCEPT ![r][rounds[r].current] = FilledBallots(r, tasks[w].voters)]
        /\ IF nextStep # 0
             THEN rounds' = [rounds EXCEPT ![r].current = submissions[r][next], ![r].step = next]
             ELSE rounds' = [rounds EXCEPT ![r].current = None, ![r].step = 0,
                                           ![r].stepStatus = "FINISHED"]
        /\ tasks' = [tasks EXCEPT ![w].pc = "finalized", ![w].voters = {}, ![w].step = nextStep]
        /\ UNCHANGED <<tournamentVars, submissions, roundScore, clockVars, timerVars, faults>>

ScheduleThenCancel(w) == \* variant: the new timer is the one that is cancelled
    /\ tasks[w].pc = "finalized"
    /\ votingTimer' = [votingTimer EXCEPT ![tasks[w].round] = 0]
    /\ IF tasks[w].step = 0 THEN Goto(w, "completing") ELSE Finish(w)
    /\ UNCHANGED <<tournamentVars, rounds, contentVars, clockVars, submissionTimer, faults>>

(* The continuation of tryFinalizeCurrentSubmission: cancel, then schedule *)
(* the next step or complete the round.                                    *)
AfterFinalize(w) ==
    /\ tasks[w].pc = "finalized"
    /\ votingTimer' = [votingTimer EXCEPT ![tasks[w].round] = tasks[w].step]
    /\ IF tasks[w].step = 0 THEN Goto(w, "completing") ELSE Finish(w)
    /\ UNCHANGED <<tournamentVars, rounds, contentVars, clockVars, submissionTimer, faults>>

-----------------------------------------------------------------------------
(* Completing a round.                                                     *)

(* A standing is updated where the participant still has a row.            *)
StandingsAfter(r) ==
    [u \in Users |-> IF u \in participants THEN score[u] + PointsIn(r)[u] ELSE score[u]]

(* completeRoundInTransaction.                                             *)
CompleteRound(w) ==
    LET r == tasks[w].round
    IN  /\ tasks[w].pc = "completing" /\ ~Locked(r)
        /\ IF VotingFinished(r) /\ status = "ACTIVE"
             THEN /\ roundScore' = [roundScore EXCEPT ![r] = PointsIn(r)]
                  /\ score' = StandingsAfter(r)
                  /\ rounds' = [rounds EXCEPT ![r].completed = TRUE]
                  /\ Goto(w, "delaying")
             ELSE UNCHANGED <<roundScore, score, rounds>> /\ Finish(w)
        /\ UNCHANGED <<status, winner, participants, submissions, votes, clockVars, timerVars, faults>>

PenultimateIsLast(r) == r + 1 >= RoundsCount \* variant: off by one

IsLastRound(r) == r >= RoundsCount

(* After nextRoundDelayMs the same handler finishes the tournament or      *)
(* creates the next round, if it finds both rows as it left them.          *)
FollowsUp(r) == rounds[r].completed /\ status = "ACTIVE"

FinishTournament(w) ==
    LET r == tasks[w].round
    IN  /\ tasks[w].pc = "delaying"
        /\ IsLastRound(r)
        /\ IF FollowsUp(r)
             THEN status' = "COMPLETED" /\ winner' \in Leaders
             ELSE UNCHANGED <<status, winner>>
        /\ Finish(w)
        /\ UNCHANGED <<participants, score, rounds, contentVars, clockVars, timerVars, faults>>

CreateNextRound(w) ==
    LET r == tasks[w].round
    IN  /\ tasks[w].pc = "delaying"
        /\ ~IsLastRound(r)
        /\ IF FollowsUp(r)
             THEN /\ IF Exists(r + 1)
                       THEN UNCHANGED rounds
                       ELSE \E prompt \in UnusedPrompts :
                              rounds' = [rounds EXCEPT ![r + 1] = NewRound(prompt)]
                  /\ tasks' = [tasks EXCEPT ![w].pc = "arming", ![w].round = r + 1]
             ELSE UNCHANGED rounds /\ Finish(w)
        /\ UNCHANGED <<tournamentVars, contentVars, clockVars, timerVars, faults>>

-----------------------------------------------------------------------------
(* Time and the deadline registries.                                       *)

SubmissionDeadlinePasses(r) ==
    /\ Exists(r)
    /\ r \notin submissionExpired
    /\ submissionExpired' = submissionExpired \cup {r}
    /\ UNCHANGED <<tournamentVars, rounds, contentVars, votingExpired, timerVars, tasks, faults>>

(* Only deadlines that were issued pass, in the order they were issued.    *)
VotingDeadlinePasses(r) ==
    /\ votingExpired[r] < rounds[r].step \/ votingExpired[r] < votingTimer[r]
    /\ votingExpired' = [votingExpired EXCEPT ![r] = @ + 1]
    /\ UNCHANGED <<tournamentVars, rounds, contentVars, submissionExpired, timerVars, tasks, faults>>

(* A timer deletes itself from the registry and starts its handler.        *)
BeginOnDeadline(w, pc, r) ==
    tasks' = [tasks EXCEPT ![w] = [IdleTask EXCEPT !.pc = pc, !.round = r,
                                                   !.reason = "DEADLINE_EXPIRED"]]

SubmissionTimerFires(r) ==
    /\ r \in submissionTimer
    /\ r \in submissionExpired \/ TimersMayFireEarly
    /\ submissionTimer' = submissionTimer \ {r}
    /\ \E w \in Workers : Idle(w) /\ BeginOnDeadline(w, "closing", r)
    /\ UNCHANGED <<tournamentVars, rounds, contentVars, clockVars, votingTimer, faults>>

(* setTimeout counts on another clock than Date.now(): where the two       *)
(* disagree, the callback runs before the deadline it was armed for.       *)
VotingTimerFires(r) ==
    /\ votingTimer[r] # 0
    /\ votingTimer[r] <= votingExpired[r] \/ TimersMayFireEarly
    /\ votingTimer' = [votingTimer EXCEPT ![r] = 0]
    /\ \E w \in Workers : Idle(w) /\ BeginOnDeadline(w, "finalizing", r)
    /\ UNCHANGED <<tournamentVars, rounds, contentVars, clockVars, submissionTimer, faults>>

-----------------------------------------------------------------------------
(* Faults.                                                                 *)

FaultHappens(kind) ==
    /\ kind \in FaultKinds
    /\ faults < MaxFaults
    /\ faults' = faults + 1

(* The onApplicationBootstrap of both services re-arms the timers of the   *)
(* rounds in SUBMISSION and of those with an open voting step; a deadline  *)
(* that passed meanwhile fires at once.                                    *)
SubmissionTimersStillAhead == \* variant: not for a deadline that has passed
    {r \in Rounds : rounds[r].phase = "SUBMISSION" /\ r \notin submissionExpired}

SubmissionTimersAtBoot == {r \in Rounds : rounds[r].phase = "SUBMISSION"}

VotingTimersStillAhead == \* variant: not for a deadline that has passed
    [r \in Rounds |-> IF VotingOpen(r) /\ ~VotingDeadlinePassed(r) THEN rounds[r].step ELSE 0]

VotingTimersAtBoot ==
    [r \in Rounds |-> IF VotingOpen(r) /\ ~rounds[r].completed THEN rounds[r].step ELSE 0]

(* The process dies and starts again: its handlers and timers are gone.    *)
CrashRestart ==
    /\ FaultHappens("crash")
    /\ tasks' = [w \in Workers |-> IdleTask]
    /\ submissionTimer' = SubmissionTimersAtBoot
    /\ votingTimer' = VotingTimersAtBoot
    /\ UNCHANGED <<tournamentVars, rounds, contentVars, clockVars>>

(* A handler that serves a request fails and the client gets an error;     *)
(* nothing else reacts.  (In a timer's callback the rejected promise is    *)
(* not handled and ends the process: CrashRestart.)                        *)
ServesRequest(w) == tasks[w].reason # "DEADLINE_EXPIRED"

(* The next query or transaction fails, before it commits.                 *)
RequestFails(w) ==
    /\ FaultHappens("requestFails")
    /\ ServesRequest(w)
    /\ tasks[w].pc \in {"leaving", "deleting", "submissionSaved", "countingSubmissions", "closing",
                        "openingVoting", "checkingFinished", "voteSaved", "countingVotes",
                        "finalizing", "filling", "completing", "delaying"}
    /\ Finish(w)
    /\ UNCHANGED <<tournamentVars, rounds, contentVars, clockVars, timerVars>>

(* A transaction commits, but the handler sees its connection fail.        *)
ReplyLost(w) ==
    /\ FaultHappens("replyLost")
    /\ ServesRequest(w)
    /\ tasks[w].pc \in {"arming", "submissionSaved", "closed", "opened", "checkingFinished",
                        "voteSaved", "finalized", "delaying"}
    /\ Finish(w)
    /\ UNCHANGED <<tournamentVars, rounds, contentVars, clockVars, timerVars>>

-----------------------------------------------------------------------------
TaskStep(w) ==
    \/ FindParticipant(w)
    \/ Leave(w)
    \/ ArmSubmissionTimer(w)
    \/ HandleSubmissionSaved(w)
    \/ CountSubmissions(w)
    \/ CloseSubmissions(w)
    \/ CancelSubmissionTimer(w)
    \/ OpenVoting(w)
    \/ ArmVotingTimer(w)
    \/ CheckVotingFinished(w)
    \/ HandleVoteSaved(w)
    \/ CountVotes(w)
    \/ BeginFinalization(w)
    \/ Finalize(w)
    \/ AfterFinalize(w)
    \/ CompleteRound(w)
    \/ FinishTournament(w)
    \/ CreateNextRound(w)

Request(w) ==
    \/ Start(w)
    \/ \E u \in Users : AskToLeave(w, u)
    \/ \E r \in Rounds, u \in Users : Submit(w, r, u)
    \/ \E r \in Rounds, a, v \in Users, value \in VoteValues : CastVote(w, r, a, v, value)

Next ==
    \/ Cancel
    \/ \E u \in Users : Join(u)
    \/ \E w \in Workers : Request(w)
    \/ \E w \in Workers : TaskStep(w)
    \/ \E r \in Rounds : SubmissionDeadlinePasses(r)
    \/ \E r \in Rounds : VotingDeadlinePasses(r)
    \/ \E r \in Rounds : SubmissionTimerFires(r)
    \/ \E r \in Rounds : VotingTimerFires(r)
    \/ CrashRestart
    \/ \E w \in Workers : RequestFails(w)
    \/ \E w \in Workers : ReplyLost(w)

Spec == Init /\ [][Next]_vars

(* Handlers go on, time passes, and a timer that is due gets its turn.     *)
(* Users owe nothing: no fairness on requests, and none on faults.         *)
Fairness ==
    /\ \A w \in Workers : WF_vars(TaskStep(w))
    /\ \A r \in Rounds : WF_vars(SubmissionDeadlinePasses(r))
    /\ \A r \in Rounds : WF_vars(VotingDeadlinePasses(r))
    /\ \A r \in Rounds : SF_vars(SubmissionTimerFires(r))
    /\ \A r \in Rounds : SF_vars(VotingTimerFires(r))

FairSpec == Spec /\ Fairness

-----------------------------------------------------------------------------
(* Invariants.                                                             *)

(* Every column, timer and handler holds a value of its type.              *)
TypeOK ==
    /\ status \in Statuses
    /\ winner \in Users \cup {None}
    /\ participants \subseteq Users
    /\ score \in [Users -> Nat]
    /\ rounds \in [Rounds -> RoundRow]
    /\ submissions \in [Rounds -> Seq(Users)]
    /\ votes \in [Rounds -> [Users -> [Users -> Votes]]]
    /\ roundScore \in [Rounds -> [Users -> Nat]]
    /\ submissionExpired \subseteq Rounds
    /\ votingExpired \in [Rounds -> Nat]
    /\ submissionTimer \subseteq Rounds
    /\ votingTimer \in [Rounds -> Nat]
    /\ tasks \in [Workers -> Task]
    /\ faults \in 0..MaxFaults

(* The columns of a round row agree with one another: a step is open       *)
(* exactly while a submission is current, the current submission is the    *)
(* one at current_reveal_index of the reveal order, and only a round whose *)
(* voting is finished is completed.  The row is written by five            *)
(* transactions, and the reveal order is read again in each of them.       *)
RowAgrees(row, order) ==
    /\ row.phase = "NONE" => row = NoRound /\ order = << >>
    /\ row.phase = "SUBMISSION" => row.stepStatus = "IDLE"
    /\ row.stepStatus = "OPEN" => row.step \in 1..Len(order) /\ row.current = order[row.step]
    /\ row.stepStatus # "OPEN" => row.step = 0 /\ row.current = None
    /\ row.completed => row.stepStatus = "FINISHED"

VotingCursor == \A r \in Rounds : RowAgrees(rounds[r], submissions[r])

(* Nobody has two submissions in a round, and so none is revealed twice.   *)
OneSubmissionEach == \A r \in Rounds : IsInjective(submissions[r])

(* A tournament has no rounds before its start.                            *)
NothingBeforeStart == status = "DRAFT" => \A r \in Rounds : ~Exists(r)

Revealed(r, i) ==
    \/ rounds[r].stepStatus = "FINISHED"
    \/ rounds[r].stepStatus = "OPEN" /\ i <= rounds[r].step

(* Nobody votes for a submission before it is revealed, for a submission   *)
(* that is not in the round, or for their own: neither by hand nor by the  *)
(* automatic dislike, whichever of a vote, a deadline and a restart came   *)
(* first.                                                                  *)
BallotsAreLegal ==
    \A r \in Rounds, a, v \in Users :
        votes[r][a][v] # "NONE" =>
            v # a /\ \E i \in 1..Len(submissions[r]) : submissions[r][i] = a /\ Revealed(r, i)

Finalized(r, i) ==
    \/ rounds[r].stepStatus = "FINISHED"
    \/ rounds[r].stepStatus = "OPEN" /\ i < rounds[r].step

(* Who took part before the i-th submission of a round was revealed: they  *)
(* were in the draft from the beginning, submitted by then, or had a vote  *)
(* on a submission that was revealed before it.                            *)
TookPart(v, r, i) ==
    \/ v \in Joined
    \/ \E q \in 1..r : v \in SubmittedIn(q)
    \/ \E q \in 1..(r - 1), a \in Users : votes[q][a][v] # "NONE"
    \/ \E j \in 1..(i - 1) : votes[r][submissions[r][j]][v] # "NONE"

(* A finalized submission has a vote of everyone who took part before, its *)
(* author aside, cast by hand or filled in: only they can be without who   *)
(* joined while it was voted on, after the finalization had read the       *)
(* voters.  Of those who leave, a vote is filled in or not.                *)
NoBallotMissing ==
    \A r \in Rounds, v \in Users \ MayLeave : \A i \in 1..Len(submissions[r]) :
        Finalized(r, i) /\ TookPart(v, r, i) /\ v # submissions[r][i] =>
            votes[r][submissions[r][i]][v] # "NONE"

(* Rounds exist one at a time and in order: a round's row appears only     *)
(* when the previous round is completed, a completed tournament has        *)
(* completed all of its rounds, and no two rounds have the same prompt.    *)
RoundSequence ==
    /\ (status \in {"DRAFT", "CANCELLED"}) = ~Exists(1)
    /\ \A r \in Rounds \ {1} : Exists(r) => rounds[r - 1].completed
    /\ status = "COMPLETED" => \A r \in Rounds : rounds[r].completed
    /\ \A r, q \in Rounds : Exists(r) /\ Exists(q) /\ rounds[r].prompt = rounds[q].prompt => r = q

(* A completed round is counted once and for all: the stored round scores  *)
(* are the likes of its submissions, and a standing is the sum of them:    *)
(* no vote changes after its round was counted, and none is counted before *)
(* it is final.  Those who leave lose theirs.                              *)
Earned(u) == SumFunctionOnSet([r \in Rounds |-> roundScore[r][u]], Rounds)

ScoreLedger ==
    /\ \A r \in Rounds, a \in Users :
          roundScore[r][a] = IF rounds[r].completed THEN Likes(r, a) ELSE 0
    /\ \A u \in Users \ MayLeave : score[u] = Earned(u)

(* The winner of a completed tournament is on top of the final standings,  *)
(* from which only somebody whose leaving came late can be missing.        *)
WinnerOnTop ==
    status = "COMPLETED" =>
        /\ winner \in participants \cup MayLeave
        /\ winner \in participants => \A u \in participants : score[u] <= score[winner]

(* What will move an active tournament on is always there: an armed timer  *)
(* or a handler in flight that will get it one step further.  Between two  *)
(* transactions the database alone says nothing of what comes next.        *)
InFlight(r, pcs) == \E w \in Workers : tasks[w].round = r /\ tasks[w].pc \in pcs

TimedOut(r, pc) ==
    \E w \in Workers : /\ tasks[w].round = r
                      /\ tasks[w].pc = pc
                      /\ tasks[w].reason = "DEADLINE_EXPIRED"

SubmissionPhaseDriven(r) ==
    r \in submissionTimer \/ InFlight(r, {"arming"}) \/ TimedOut(r, "closing")

VotingStepDriven(r) ==
    \/ votingTimer[r] = rounds[r].step
    \/ \E w \in Workers : /\ tasks[w].round = r
                          /\ tasks[w].pc \in {"opened", "finalized"}
                          /\ tasks[w].step = rounds[r].step
    \/ TimedOut(r, "finalizing") /\ VotingDeadlinePassed(r)
    \/ InFlight(r, {"filling"})

CompletionDriven(r) == InFlight(r, {"checkingFinished", "finalized", "completing"})

FollowUpDriven(r) ==
    \/ InFlight(r, {"delaying"})
    \/ IF r = RoundsCount THEN status = "COMPLETED" ELSE Exists(r + 1)

NoOrphanRound ==
    \A r \in Rounds :
        /\ rounds[r].phase = "SUBMISSION" => SubmissionPhaseDriven(r)
        /\ rounds[r].phase = "VOTING" /\ rounds[r].stepStatus = "IDLE" =>
               InFlight(r, {"closed", "openingVoting"})
        /\ VotingOpen(r) => VotingStepDriven(r)
        /\ VotingFinished(r) => CompletionDriven(r)
        /\ rounds[r].completed => FollowUpDriven(r)
-----------------------------------------------------------------------------
(* Action properties.                                                      *)

KeepsClosed(r) ==
    rounds[r].phase = "VOTING" =>
        /\ rounds'[r].phase = "VOTING"
        /\ submissions'[r] = submissions[r]
        /\ \A i \in 1..Len(submissions[r]) : Finalized(r, i) =>
              /\ Finalized(r, i)'
              /\ votes'[r][submissions[r][i]] = votes[r][submissions[r][i]]

(* Once the submission phase is closed, neither the submissions nor their  *)
(* order change; once a submission is finalized, it stays finalized and    *)
(* its votes do not change: no late vote, no second finalization.          *)
ClosedIsFrozen == [][\A r \in Rounds : KeepsClosed(r)]_vars

-----------------------------------------------------------------------------
(* Liveness.                                                               *)

(* A submission phase ends, at the latest after its deadline.              *)
SubmissionPhaseEnds ==
    \A r \in Rounds : rounds[r].phase = "SUBMISSION" ~> rounds[r].phase = "VOTING"

(* So does every voting step.                                              *)
VotingStepEnds ==
    \A r \in Rounds, k \in 1..Cardinality(Users) :
        VotingOpen(r) /\ rounds[r].step = k ~> ~(VotingOpen(r) /\ rounds[r].step = k)

(* A tournament that was started is completed, whatever the users do, as   *)
(* long as nothing fails: no restart and no retry resumes the handler that *)
(* carries it from one round to the next.                                  *)
TournamentFinishes == status = "ACTIVE" ~> status = "COMPLETED" \/ faults > 0

-----------------------------------------------------------------------------
(* What the repository says of the program and the code does not keep.     *)

(* CANNOT_LEAVE_ACTIVE_TOURNAMENT: You cannot leave a tournament after it  *)
(* has started.                                                            *)
NobodyLeavesAfterStart ==
    [][status = "ACTIVE" => participants \subseteq participants']_vars

(* A phase closed for ALL_ACTIVE_PARTICIPANTS_SUBMITTED is one in which    *)
(* every participant who was online had submitted.                         *)
AllActiveParticipantsSubmitted ==
    \A w \in Workers :
        tasks[w].pc = "closing" /\ tasks[w].reason = "ALL_ACTIVE_PARTICIPANTS_SUBMITTED" =>
            tasks[w].online \cap participants \subseteq SubmittedIn(tasks[w].round)

(* A submission finalized for ALL_ACTIVE_ELIGIBLE_VOTERS_VOTED is one the  *)
(* online voters that were counted, its author aside, had voted on.        *)
AllActiveEligibleVotersVoted ==
    [][\A w \in Workers :
        LET r == tasks[w].round
            author == rounds[r].current
        IN  /\ tasks[w].pc = "filling" /\ tasks'[w].pc = "finalized"
            /\ tasks[w].reason = "ALL_ACTIVE_ELIGIBLE_VOTERS_VOTED"
            => \A v \in tasks[w].online \ {author} : votes[r][author][v] # "NONE"]_vars

(* Voting is sequential: after a submission is finalized, the server       *)
(* reveals the next submission or completes the round.                     *)
FinalizationIsFollowedUp ==
    \A r \in Rounds : rounds[r].stepStatus = "FINISHED" ~> rounds[r].completed

=============================================================================
