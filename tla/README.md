# A formal specification of Tournament Hub Backend

The backend runs tournaments of short rounds: the participants of a round submit a
text for a prompt, the submissions are revealed one after the other, everybody votes
on each of them, and the likes decide who wins. It is a NestJS application with a
PostgreSQL database, Redis for presence and queues, and Socket.IO for the clients.

What is hard about it is that nothing but handlers in flight and timers in memory
carries a tournament from one step to the next, while requests, timers, restarts and
failures come in any order. The modules here specify that part first, and around it who
takes part in what, who is online and told what, and who is signed in. Paths below are
relative to the repository; `services/` stands for
`src/domain/tournaments/services/`.

## 1. Inventory

### Components

| Component | State | Operations |
|---|---|---|
| Tournament lifecycle (`services/tournament.service.ts`) | `tournaments` (status, winner, rounds_count), `tournament_participants` (cumulative score) | create, join, start, leave, cancel |
| Submissions (`services/tournament-round-submission.service.ts`) | `tournament_round_submissions` | upsert |
| Submission phase (`services/round-submission-phase.service.ts`) | `tournament_rounds.phase`, one timer per round | progress check, early close, close at the deadline, re-arm at boot |
| Voting flow (`services/round-voting-flow.service.ts`) | `tournament_rounds` voting columns, one timer per round | open, progress check, finalize and reveal the next, re-arm at boot |
| Manual votes (`services/tournament-round-vote.service.ts`) | `tournament_round_votes` | upsert a vote |
| Round completion (`services/round-completion.service.ts`) | round scores, cumulative scores, `completed_at` | score a round; after 3 s create the next round or end the tournament |
| Deadline registries (`services/*-deadline-registry.service.ts`) | a map from round to timer, in memory | schedule, cancel, fire |
| Round prompts (`services/round-prompt.service.ts`) | none (a fixed catalogue) | choose an unused prompt |
| Round results (`services/round-result-calculator.service.ts`) | none | score and rank the submissions of a round |
| Active participation policy, advisory locks | none (reads many tournaments) | forbid a second ACTIVE tournament |
| Presence (`services/tournament-presence.service.ts`) | Redis sets of sockets and users per tournament | add, remove, count, list |
| Realtime gateway, room access, socket authentication | sockets and the rooms they joined | connect, disconnect, join and leave a room |
| Event broadcasting (`services/tournament-events.service.ts`, worker, emitter) | a BullMQ queue | enqueue, deliver, eject |
| Queries (draft, full and live tournaments) | none | reads |
| Authentication (`src/domain/auth`) | refresh tokens in Redis by user and fingerprint | register, login, refresh, logout |
| Users (`src/domain/users`) | `users` | create, validate, profile |
| Fingerprint, controllers, contracts, shared infrastructure, bootstrap | none | hashing, routing, validation, configuration |

### Interactions

* A request runs a transaction and then, in the same handler, the consequences:
  `upsert` of a submission calls `handleSubmissionSaved`, which may close the phase,
  which opens the voting; a vote calls `handleManualVoteSaved`, which may finalize the
  current submission, which may complete the round, which (three seconds later) creates
  the next one.
* The same steps are reached from a timer: each registry holds one timer per round and
  calls `tryCompleteSubmissionPhase` or `tryFinalizeCurrentSubmission`.
* Handlers meet in the database. A transaction on a round locks its row
  (`pessimistic_write`), one on a tournament locks the tournament's; between two
  transactions a handler holds nothing, and what it has read may be stale. A round's lock
  does not hold up who joins: a finalization reads the participants while they change.
* At boot, `onApplicationBootstrap` arms timers for the rounds in SUBMISSION and for
  those with an OPEN voting step. It resumes no handler.
* Presence decides who is waited for: the phase closes early, and a submission is
  finalized early, when those online have submitted or voted.
* Every step sends events through the queue; no step waits for one.

### Behaviours that are hard, and what makes each component correct

* **Interleaving.** The last voter, the voter before, and the timer may all finalize.
  *Correct:* a submission is finalized once, its votes are then fixed, everybody who
  took part before it was revealed has one, nobody has one on their own or on what is
  not revealed.
* **Ordering.** The counter of submissions says that its round is in SUBMISSION and may
  be emitted after the phase has closed. *Correct:* it is the only event that takes the
  clients back, and the next event sets them right.
* **More ordering.** Sending a submission again changes the reveal order; the registries
  are updated after commits. *Correct:* the cursor always points at the submission it
  names; an open step always has its timer or a handler about to arm it.
* **Crashes and partial failure.** *Correct:* the stored columns agree with each other
  whatever was lost; an open phase and an open step end in spite of a restart.
* **Long sequences.** *Correct:* rounds come one at a time and in order, each completed
  before the next; prompts do not repeat; the standings are the sum of the round
  scores; the winner is on top of them.
* **Several tournaments** (participation): nobody is in two ACTIVE tournaments; locks
  do not deadlock. **Presence:** a user is online exactly while a socket of theirs is
  in the room. **Events:** what is emitted arrives, in order. **Authentication:** the
  last token handed out is the one that works.

`PROJECT.json` lists the hazards line by line, with the properties that cover each, and
the components, the source lines of every definition, the runs, mutants and theorems.

## 2. Plan

1. `RoundLifecycle`, with `SequentialTournament` as what it promises and
   `RoundRefinement` between them; their proofs. **Done**, section 3.
2. `Participation`: users and several tournaments, with create, join, start, leave and
   cancel under row locks and advisory locks taken one at a time, and `Membership` as what
   it promises. **Done**, section 4; proofs in `ParticipationProofs`, section 6.
3. `Realtime`: gateway, presence, event queue and room of one tournament. **Done**,
   section 4; proofs in `RealtimeProofs`.
4. `RoundEvents`: the payloads of the round events, with the result calculator and the
   leaderboard, and the view clients make of them; composed with `RoundLifecycle`.
   **Done**, section 4; proofs in `RoundEventsProofs`.
5. `RoundQueries`: the full state query among the handlers of `RoundLifecycle`. **Done**,
   section 4; proofs in `RoundScoreProofs`.
6. `Auth`: registration, and tokens by user and fingerprint. **Done**, section 4; proofs in
   `AuthProofs`.
7. Left: a resource model of the connection pool (the nested connection of a submission).

## 3. The core model

### Modules

| Module | Content |
|---|---|
| `RoundLifecycle` | one tournament: its rows, its timers, its handlers; invariants, action and liveness properties |
| `SequentialTournament` | the abstract promise: submit, close, reveal one after the other, complete, next round |
| `RoundRefinement` | the refinement mapping; `SequentialSpec` |
| `MCRoundLifecycle` | constants and symmetry for TLC |
| `RoundLifecycleProofs` | the theorems about rows, ballots, rounds and what drives them |
| `RoundRefinementProofs` | the theorem that `RoundLifecycle` implements `SequentialTournament` |
| `RoundScoreProofs` | the theorems about the standings, the winner and the answers of `RoundQueries` |
| `SumTheorems` | lemmas about finite sets of numbers and sums over them |

### State

| Variable | In the code |
|---|---|
| `status`, `winner` | `tournaments.status`, `winner_id` |
| `participants`, `score` | rows of `tournament_participants`, `cumulative_score` (0 where there is no row) |
| `rounds[r]` | the `tournament_rounds` row with number r: `phase`, `prompt`, `stepStatus` (`voting_step_status`), `current` (`current_voting_submission_id`), `step` (`current_reveal_index` + 1), `completed` (`completed_at` is set) |
| `submissions[r]` | authors of the round's submissions, ordered by `submitted_at, id` |
| `votes[r][a][v]` | the vote of v on the submission of a; `AUTO` is a DISLIKE with source AUTO_TIMEOUT |
| `roundScore[r][a]` | `round_score` of a submission |
| `submissionExpired`, `votingExpired` | which deadlines `Date.now()` has passed; the k-th voting deadline of a round is that of its k-th step, which is why a deadline is not a field |
| `submissionTimer`, `votingTimer` | the two registries; `votingTimer[r]` is the step its deadline belongs to |
| `tasks[w]` | the handlers in flight: where each stands, its round, what it has read |
| `faults` | a counter, bounded by `MaxFaults` |

### Actions

One action is what runs without giving way to another handler: one transaction, or
the code between two awaits. A transaction on a round is one action because each begins with
the lock of the round's row, and each on the tournament with the tournament's. Two are not.
A finalization reads the participants, which the round's lock does not cover, and writes
later: it is `BeginFinalization`, up to that read (the voters go into `tasks[w].voters`), and
`Finalize`, from there to the commit. In between the round is `Locked`, and the other
transactions on it wait, while plain reads of it, and joins and leaves, go on. Leaving has no
transaction and so is three actions, one for each query (`AskToLeave`, `FindParticipant`,
`Leave`). Of the other transactions only the completion reads participants under the round's
lock; its one update per author and its leaderboard come out as if who joins in between,
without points, had joined before it.

| Actions | Code |
|---|---|
| `Join`, `AskToLeave`, `FindParticipant`, `Leave`, `Cancel`, `Start` | `tournament.service` |
| `Submit` | `upsert` of a submission |
| `HandleSubmissionSaved`, `CountSubmissions` | `handleSubmissionSaved`, before and after its reads of presence and count |
| `CloseSubmissions`, `CancelSubmissionTimer` | `tryCompleteSubmissionPhase`: its transaction, what follows |
| `OpenVoting`, `ArmVotingTimer`, `CheckVotingFinished` | `startVotingPhase`: its transaction, what follows it, the branch where it opened nothing |
| `CastVote`, `HandleVoteSaved`, `CountVotes` | `upsertManualVote`, `handleManualVoteSaved` |
| `BeginFinalization`, `Finalize`, `AfterFinalize` | `tryFinalizeCurrentSubmission`: its transaction, up to the read of the voters and from there, and what follows |
| `CompleteRound`, `FinishTournament`, `CreateNextRound`, `ArmSubmissionTimer` | `completeRound`: its first transaction, then after the delay the second one, then the timer |
| `SubmissionDeadlinePasses`, `VotingDeadlinePasses` | time |
| `SubmissionTimerFires`, `VotingTimerFires` | the registries' `setTimeout` callbacks |
| `CrashRestart`, `RequestFails`, `ReplyLost` | the process dies and boots; a query fails; a commit is reported as failed |

### Abstractions

* Presence: whenever the code asks who is online, any set of users answers. Every
  presence is covered, stale ones too. The set is kept in the task only so that the
  properties can speak of it.
* The text of a submission, the content of a prompt and the payload of an event are left
  out, and so is the time of a deadline: it has passed or not.
* `FINALIZING` never leaves the transaction that writes it and is not a value of
  `stepStatus`. A round with no row is `NoRound`.
* Dislike counts are derived from votes and are not stored in the model.
* Ties on the leaderboard are broken by `created_at` and then the user id; the winner is
  any of those who lead.
* The tournament starts as `create` leaves it, with `Joined` as its participants; the
  owner's checks in start, cancel and leave are who may take the action. The invite token
  and the participation policy, which only refuse some joins and starts, are left out: the
  model has the behaviours of the code and those that the policy would refuse.

Comments `\* variant` mark definitions no action uses: plausible mistakes, which the
mutants of `PROJECT.json` put in the place of the definition next to them, to show that
the property concerned notices.

## 4. Around the core

| Module | Content |
|---|---|
| `Participation` | several tournaments, concurrent requests, their locks |
| `Membership` | its abstract promise: each request takes effect at once |
| `ParticipationProofs` | its theorems |
| `Realtime` | sockets, room, presence in Redis and event queue of one tournament |
| `RoundEvents` | extends `RoundRefinement`, so `RoundLifecycle`, with the events emitted and what clients make of them |
| `RoundQueries` | extends `RoundLifecycle` with a client that reads the full state of the tournament |
| `Auth` | registrations and sessions |
| `RealtimeProofs`, `AuthProofs`, `RoundEventsProofs` | the theorems about `Realtime`, `Auth` and `RoundEvents` |
| `MCParticipation`, `MCRealtime`, `MCRoundEvents`, `MCRoundQueries`, `MCAuth` | constants and symmetry for TLC |

How they fit: `RoundLifecycle` takes the start of one tournament and its participants as
`Participation` decides them for all (it refuses less, so it has all of its behaviours);
`Participation` has the end of a tournament, `TournamentCompletes`, as one action. Who is
online is any set in `RoundLifecycle`; `Realtime` says what that set is. What
`RoundEvents` emits arrives in the order of emission, or is lost; `Realtime` has the queue
that carries it.

### Participation

A request is a record with a program counter, and each step is one SQL statement with the
checks that follow it, under READ COMMITTED. `requests[w].row` and `.locked` are the locks
its transaction holds: the row of the tournament (`pessimistic_write`) and the keys
`hashtext(userId)` of the advisory locks, which the constant `KeyOf` may make collide. The
writes of a transaction and its commit are one step, after which its locks are gone.

| Actions | Code in `tournament.service` |
|---|---|
| `AskToCreate`, `LockUser`, `CheckOwned`, `SaveCreate` | `create` |
| `Ask`, `LockRow`, `CheckMember`, (`LockUser`, `CheckUser`), `SaveJoin` | `join`; the locks only when the tournament is ACTIVE |
| `CountParticipants`, `ReadParticipants`, `LockUser`, `CheckUser`, `SaveStart` | `start` |
| `ReadParticipants`, `SaveCancel` | `cancel` |
| `LeaveRead`, `LeaveFind`, `LeaveDelete` | `leave`, which has no transaction |
| `DetailsRead`, `DetailsParticipants`, `DetailsAnswered` | the draft details query |
| `TournamentCompletes` | the second transaction of `completeRound` |
| `RequestFails` | a failed query, an aborted transaction, a process that dies |

Two things in this code that no property can express: `create` returns the transaction
without awaiting it, so its `catch`, and the error `CREATION_FAILED`, are never reached;
and `start` counts the participants before it reads them, so that a leave in between lets
a tournament start with fewer than the minimum.

### Realtime

A step of a handler is the code between two awaits. `handlers[s][k]` is where the join,
leave or disconnect handler of a socket stands; `socketSet` and `userSet` are the Redis
sets; `joined` counts `client.data.joinedTournaments`, which an eject does not clear, so a
socket may have the same tournament in it twice. Of the events, the two about the room
itself are carried (`PRESENCE_UPDATED`, `TOURNAMENT_CANCELLED`). A broadcast may be lost:
it cannot be enqueued, or its job id, made of event and millisecond, is taken; an eject has
no id and is awaited. `members` and `cancelled` stand for the tournament's rows, changed by
`Join`, `Leave` and `Cancel`, and `requests` for what the last two do after they commit.
The variable `history` remembers what excuses a property: `raced`, users of whom two
presence updates overlapped; `lost`, events whose last broadcast was lost. So does
`slipped`, the sockets let in on an access check that had become stale.

### RoundEvents

Every action of `RoundLifecycle` is taken together with what its handler does about
events: a transaction puts the payloads it returns in `result[w]`, and the step that goes
on after the commit emits them (`Emits`). So it is with a cancellation: TOURNAMENT_CANCELLED
is emitted by a later step than its commit, or lost. `announced` is what a client that has
heard everything knows, by one operator for each emit method of the events service; each
takes the event at its word. An event of a round that is not the one shown starts the view of
its own round (`InRound`). ROUND_PROGRESS_UPDATED carries `phase: SUBMISSION`, so it shows a round in its
submissions; `handleSubmissionSaved` emits it two awaits after the submission without looking
at the round again, so it may show this of a round that is being voted on or completed.

Two variables remember what the properties are about. `behind` is TRUE from an event that a
fault lost, or a counter that came late, until the next event. `furthest` is the furthest
point of the tournament that was ever shown. `createdAt` is the order of the participants by
`created_at`, which decides ties on the leaderboard: it is the time a transaction started, so
a participant may be placed before one whose row was there earlier, but never before the
owner.

The reply to the query that counts the submissions is taken to arrive before the next commit
on the round, as `RepliesInOrder` has it of commits: `EventsCountSubmissions` is one step.

### RoundQueries

`GET :id/full` reads the tournament, then its participants, then its current round, with
any commit in between. `answer` is what has been read; `ReadTournament`, `ReadParticipants`
and `ReadCurrentRound` take their turns as `ReadOrder` says, among all the steps of
`RoundLifecycle`. One query runs at a time, which is no loss: queries change nothing. The
phase and the deadlines of the round come from the same row as its number, and the title
and durations do not change; they are left out.

### Auth

A request is a record with a program counter again; a step is one query or Redis command.
A token is its user and the second it was signed in (`iat`): two tokens signed for one user
in one second are the same string, for the payload holds nothing else. `stored` is the
refresh token under each key with the end of its TTL. The key should be that of a user on a
browser, but what reaches it as the fingerprint is an object, so that its text is the same
for every client (`RefreshTokenKey`), and a user has one session. `holding` is what a client
was answered; `RequestLost` is a request, or its answer, that is lost. `taken`, `early` and
`overtaken` in a request, and `history`, remember what excuses a property.

## 5. Properties and runs

| Run | Instance | Checks | Distinct states |
|---|---|---|---|
| `round_safety` | the owner and 2 users who may join at any time, 1 round, 2 handlers, LIKE, one lost reply | `TypeOK`, `BallotsAreLegal`, `ScoreLedger`, `ClosedIsFrozen`, `NoBallotMissing` | 3,498,092 |
| `round_sequence` | 2 users, one of them joining at any time, 2 rounds, 2 prompts | `RoundSequence`, `NoOrphanRound`, `SequentialSpec` | 1,534,166 |
| `round_faults` | 2 users, one joins and may leave, 1 round, LIKE and DISLIKE, 2 faults of any kind, replies out of order, early timers, and a client reading the full state | `VotingCursor`, `BallotsAreLegal`, `ScoreLedger`, `WinnerOnTop`, `ClosedIsFrozen`, `StandingsPrecedeRound`, `CompletedIsFinal` | 3,907,966 |
| `round_recovery` | 2 participants of whom one may leave, 1 round, one crash or failed request, fairness | `SubmissionPhaseEnds`, `VotingStepEnds`, `TournamentFinishes` | 68,520 |
| `round_events` | 2 users, one joins at any time, 2 rounds, one fault of any kind | `EventsTypeOK`, `ViewCatchesUp`, `FinalTalliesStand`, `StandingsAddUp`, `WinnerHadLed`, `NeverBackwards` | 4,349,112 |
| `participation` | 2 tournaments, 3 users of whom two share a lock key, 2 requests | `TypeOK`, `OneActiveTournament`, `OneOpenOwnedTournament`, `DeadlockNeedsCollision`, `DraftDetailsShowOwner`, `MembershipSpec`; no deadlock | 723,970 |
| `realtime` | 2 users, 2 sockets, 2 handlers, one waiting job | `TypeOK`, `PresenceExact`, `PresenceShown`, `RoomIsForParticipants`, `CancelHeard` | 6.87 million |
| `auth` | 2 clients, emails, usernames and requests, 2 seconds | `TypeOK`, `AccountsAreUnique`, `TakenIsTold`, `LogoutSticks`, `AnsweredTokenIsLive` | 6,842,744 |

What they say:

* `BallotsAreLegal`, `NoBallotMissing`, `ClosedIsFrozen`: whatever the order of votes,
  the last voters' handlers and the timer, no vote lands on a submission once it is
  finalized, or on one not revealed yet, and a finalized one has the vote of everyone but its
  author who took part before it was revealed: in the draft from the beginning, having
  submitted, or with a vote on an earlier one. A participant who joins while the voters have
  been read and the finalization is not committed is without a vote, which the property allows
  and the run contains. (It says nothing of those who may leave.)
* `VotingCursor`: the columns of a round agree with one another and with the reveal order.
* `ScoreLedger`, `WinnerOnTop`: no vote changes after its round was counted, and a round counts
  once; the standings are the sums; the winner leads. (A participant who leaves loses the
  row and the score, so the sum is stated for those who do not, and a winner who leaves
  late is no longer among the standings.)
* `RoundSequence`, `SequentialSpec`: the rounds and reveals of a tournament come in the
  promised order, none skipped or repeated. The mapping reads the abstract stage from the
  last round's row.
* `NoOrphanRound`: while nothing fails and continuations run in commit order, in every
  state of an ACTIVE tournament there is a timer or a handler that will take it further.
* `SubmissionPhaseEnds`, `VotingStepEnds`: an open phase or step ends even with a crash
  or a failed request. `TournamentFinishes` says this of a whole tournament, without
  faults only: see the last finding.
* `ViewCatchesUp`, `NeverBackwards`: whatever a fault loses, a client that hears the next
  event knows where the tournament is, and is never taken back by a transaction repeated.
  The counter of submissions is the exception: one that comes after ROUND_PHASE_CHANGED or a
  reveal shows the clients SUBMISSION again. `NeverBackwards` says that no other event takes
  them behind the furthest point shown, nor leaves them there, and `ViewCatchesUp` that the
  next event sets them right.
* `FinalTalliesStand`, `StandingsAddUp`, `WinnerHadLed`: what was announced stays true: the
  votes of a submission, the round results that add up to the standings, the winner who led
  when the last round was scored, whoever joins before the end.
* `StandingsPrecedeRound`, `CompletedIsFinal`: the answer of the full state query may mix
  moments, but never shows the points of a round beside that round as still in play, nor a
  finished tournament without its final standings: it reads the standings before the round,
  and the status before both. (Again but for the scores of those who leave.)
* `OneActiveTournament`, `OneOpenOwnedTournament`, `MembershipSpec`: what the locks are there
  for, and that the stored state only ever changes as if each request took effect at once.
  (A leave may take effect in a tournament that is no longer a draft: `late_leave`.)
* `DeadlockNeedsCollision`: requests wait for each other in a circle only if two users they
  lock share a key. TLC's own deadlock check, on in this run, adds little to it, as a request
  may always fail (PostgreSQL ends a deadlock so). `DraftDetailsShowOwner`: the two queries of
  the details may see different moments, but not a draft without its owner, unless cancelled.
* `PresenceExact`: a user is online in Redis exactly while a socket of theirs is in the
  tournament and open, with several sockets, ejections and disconnects, as long as two
  updates of one user do not overlap: if they do, a user may be offline with an open socket,
  or online without one, for good. `PresenceShown`: once all is quiet every client shows the
  count of Redis. `RoomIsForParticipants`, `CancelHeard`: nobody else follows a tournament,
  and who is put out has been told why, but for the excuses above.
* `AccountsAreUnique`, `TakenIsTold`: two checks before an insert are not atomic, the unique
  indexes are; and they are the answer only to those overtaken. `LogoutSticks`: only a
  refresh verified before the logout survives it. `AnsweredTokenIsLive`: a refresh token
  that is answered works, unless another request of the user overtook the answer.

### Bounds

In the runs of `RoundLifecycle`, `RoundEvents` and `RoundQueries`: two handler slots: each
of the races above is between two handlers, with time passing and timers firing besides.
(The theorems of section 6 hold for any number of handlers; two is a bound of the check for
liveness and for the properties of `RoundEvents`.) Three users is the least with which a submission has two voters
other than its author; two rounds the least with a next round and a last one; two faults
the least for a failure followed by a crash during the repair.
`MinimumParticipantsToStart` is 4 in the code and lowered to the size of each instance; it
is a constant in the proofs. `VoteValues` is only LIKE where the number of states matters:
a DISLIKE counts as AUTO does. `MayLeave` bounds who ever asks to leave. Deadlock is not
checked: a tournament that has ended or was cancelled stops, and users need not act.
Symmetry (users but the owner, handlers, prompts) is used in the runs without liveness,
whose properties treat these alike.

`RoundEvents` assumes that nobody leaves (`NobodyLeaves`): a participant who does takes
their score with them, and `late_leave` shows what it does to a tournament that has begun.

`participation`: a circle of waiting needs two requests, and so do the races on a
tournament, on a user's participations and on the check of an owner; a user in two
tournaments needs two of these. Users 1 and 3 share a key, so that the run has the deadlock
that a collision allows, and 2 has one of their own. `Creators` bounds who asks to create.

`realtime`: two sockets may be two tabs of one user or those of two users. `MaxHandlers`
2 is enough for one update to overtake another, and after it the user concerned asks for
nothing more (`MayAsk`), for the properties excuse them from then on. With `MaxQueue` 1 a
broadcast may wait behind an ejection or be lost. `MaxJoined` 2 has a socket that was ejected
and joined again. A socket does not ask for the room it is in.

`auth`: two clients and two requests make every race between two sign-ins, refreshes,
registrations and logouts; the clock passes the life of an access token (1) and of the
refresh token of the first second (2).

These four runs have no fairness: they check safety only. In `round_events`, `realtime` and
`auth` deadlock is not checked, as users need not act, and all sockets, users or seconds may
be used up. Symmetry: workers everywhere, sockets, tournaments, clients, emails and usernames.

### Fairness

`FairSpec` adds: every handler goes on (WF: an awaited promise settles), time passes (WF on
each deadline), and a timer that is due gets its turn (SF: it needs a free slot, which in
the code is always there and in the model only from time to time). Nothing is assumed of
users, and no fault has to happen.

### Where the code does not keep what the repository says

Four runs find a violation; each has its entry in `PROJECT.json`.

* `stale_finalize` (`AllActiveEligibleVotersVoted`): two handlers that both counted the
  last vote on a submission finalize it and then the next one, a moment after its reveal.
* `stale_count` (`AllActiveParticipantsSubmitted`): the early close compares how many are
  online with how many submitted, not which.
* `late_leave` (`NobodyLeavesAfterStart`): a leave that read DRAFT deletes after the start.
* `lost_completion` (`FinalizationIsFollowedUp`, under fairness): a crash between the last
  finalization and `completeRound` leaves the round finished for ever, for boot only looks
  for rounds in SUBMISSION and steps that are OPEN.

## 6. Proofs

`RoundLifecycleProofs` proves, for every value of the constants that satisfies the three
assumptions of `RoundLifecycle` (any finite set of users, any number of rounds, handlers
and faults, replies in any order, early timers):

| Theorem | States |
|---|---|
| `TypeCorrect` | `Spec => []TypeOK` |
| `CursorCorrect` | `Spec => []VotingCursor` |
| `BallotsCorrect` | `Spec => []BallotsAreLegal` |
| `FrozenCorrect` | `Spec => ClosedIsFrozen` |
| `SequenceCorrect` | `Spec => []RoundSequence` |
| `NothingIsOrphaned` | `RepliesInOrder /\ ~TimersMayFireEarly => (Spec => [](faults = 0 => NoOrphanRound))` |

The inductive invariant is

    Inv == /\ TypeOK /\ VotingCursor /\ OneSubmissionEach /\ NothingBeforeStart
           /\ FillersAgree /\ BallotsAreLegal

`TypeOK` is not inductive alone: `Finalize` looks up the position of the current submission,
and only `VotingCursor` says that there is one. The ballots need `OneSubmissionEach`:
`Finalize` moves the cursor to the position after that of the current author, and only where
nobody is in the order twice is this the step after the open one. `NothingBeforeStart` is
there because `Start` overwrites the row of round 1. `FillersAgree` is what the lock of the
round is for: while a finalization is between its read and its commit it is the only one of
its round, the step it checked is still open, and its voters do not include the author.

The argument has two layers. First, `TypeStep` and `CursorStep` go through the actions; each
changes one round's row by a transaction that leaves its columns in agreement. Then `RoundStep` says once what any step
can do to any round: nothing, create it, take a submission, close, open, take a vote, reveal
the next, finalize the last, or complete it. `BallotsStep`, `FrozenStep` and
`SequenceStep` are case analyses on that list. `SequenceCorrect` adds `SequenceInv` on top of
`Inv`. The reveal order's own lemmas (removing and appending an author keeps it a sequence
without repetition) come first.

`NothingIsOrphaned` has the hypotheses of the property. A round is no longer driven after a
fault (`lost_completion`), when a timer fires early and finds the deadline not yet passed,
or when a continuation arms or cancels a timer after the next commit. `DriveInv` says,
while nothing has failed, what drives every round from where it is: its timer, or a handler
that is about to arm it or has already taken over. `HandlersAgree` says that the handler of
a commit finds the row as the commit left it, which is what `RepliesInOrder` is for. The
lemmas go through the handlers by phase (`SubmissionTasksDrive`, `VotingTasksDrive`,
`CompletionTasksDrive`), then the timers, then all who do not touch the round.

`RoundRefinementProofs` proves, from the same assumptions,

| Theorem | States |
|---|---|
| `RefinesSequential` | `Spec => SequentialSpec` |

`CurrentExists` turns the CHOOSE of the mapping into a number: the rounds that exist are
1 to `CurrentRound`, because `SequenceInv` leaves no gap. `RefinementStep` then maps the
moves of `RoundStep` one by one: those of another round than the current one change nothing
abstract, and one of the current round is the action of its name. The proof showed that two
cases of the mapping overlapped (a completed round is also one whose voting is FINISHED), so
that it depended on the order in which TLC tries them; they now exclude one another.

`RoundScoreProofs` proves, from the same assumptions (and none of its own about leaving),

| Theorem | States |
|---|---|
| `BallotsComplete` | `Spec => []NoBallotMissing` |
| `LedgerCorrect` | `Spec => []ScoreLedger` |
| `WinnerCorrect` | `Spec => []WinnerOnTop` |
| `AnswerConsistent` | `QueriesSpec => []StandingsPrecedeRound` |
| `AnswerFinal` | `QueriesSpec => []CompletedIsFinal` |

`BallotsComplete` needs `VotersKept`: whoever took part is a participant still, unless they
asked to leave (`Here`), and is among the voters that a finalization under way has read.
`FillStep` then is the commit.

A standing is a sum over a set of rounds, which the library folds in an order that CHOOSE
picks. `SumTheorems` shows, of a set for which it would fail and none smaller does
(`SmallestSubset`), that the fold exists and does not depend on that order; so a round that
is completed adds its points once. `Leavers` has to come along: a participant who is missing
from the standings when a round is counted is one who asked to leave. `AnswerInv` says of an
answer between its reads that its standings are those after some round n, that rounds up to
n stay completed, and so that the round read later is a later one.

`ParticipationProofs` proves, for any number of users, tournaments and requests in flight,
any minimum and any keys, with the only assumption of `Participation` (users are finitely
many, and sort as integers do):

| Theorem | States |
|---|---|
| `TypeCorrect` | `Spec => []TypeOK` |
| `OneActive` | `Spec => []OneActiveTournament` |
| `OneOpenOwned` | `Spec => []OneOpenOwnedTournament` |
| `DetailsCorrect` | `Spec => []DraftDetailsShowOwner` |
| `Atomic` | `Spec => MembershipSpec`, the refinement |
| `NoDeadlock` | `Spec => []DeadlockNeedsCollision` |

Its inductive invariant says, of every request, which locks it holds where it is (`Shape`),
that no two hold the same (`Apart`), and what still holds of what it has read (`Grounds`);
and, of the tables, the rules themselves. `Grounds` is the heart: a request that has checked
a user relies on that user not playing elsewhere, and this stays true because whoever puts
the user into an ACTIVE tournament has to hold the same lock; a request that holds a row
relies on the tournament's status, which only the holder of the row changes. `GoesOn` and
`Writes` say once what has to be shown of a step that changes no table and of one that does;
there is a lemma per step. `EveryStep` shows at the same time that each step is one of
`Membership` or changes none of its variables, so that `Atomic` and the invariants come from
one case analysis. `NoCircle` follows from `Shape` without induction: of the users that are
waited for in a circle one sorts last (`SomeUserIsLast`), and the request that holds this
one waits for one that sorts after.

`RealtimeProofs` proves, from the one assumption of `Realtime` (users and sockets are
finitely many, the bounds natural numbers),

| Theorem | States |
|---|---|
| `RealtimeTypes` | `Spec => []TypeOK` |
| `PresenceIsExact` | `Spec => []PresenceExact` |
| `PresenceIsShown` | `Spec => []PresenceShown` |
| `RoomForParticipants` | `Spec => []RoomIsForParticipants` |
| `CancelIsHeard` | `Spec => []CancelHeard` |

Its invariant has a part for each promise. `Presence(u)`, of a user with no two updates
overlapping, ties both Redis sets to the sockets that joined, with what the one handler under
way still has to do. `Shows` says that somebody will still broadcast the count, or the last
one was lost, or the last count in the queue (what the room shows, if there is none) is that
of Redis. `Tells` says that after a cancel the announcement is ahead of every ejection that
the cancel queued, unless nobody is left to be told.

`AuthProofs` proves, from the assumptions of `Auth` (one of them, that no token is `None`, was
added for it),

| Theorem | States |
|---|---|
| `AuthTypes` | `Spec => []TypeOK` |
| `AccountsUnique` | `Spec => []AccountsAreUnique` |
| `TakenTold` | `Spec => []TakenIsTold` |
| `LogoutHolds` | `Spec => []LogoutSticks` |
| `AnswerLives` | `Spec => []AnsweredTokenIsLive` |

As in `ParticipationProofs`, `Grounds(r)` is what still holds of what a request has read or
is about to answer: a name that was in use when its registration began is still in use, and
found so by the check that has been made; a refresh that was not verified before the last
logout is about to store a token only for a user who has signed in again; the token it
answers is the stored one, unless it expired or was overtaken. `GoesOn` says once what is to be shown of a step that
changes no table, `OthersKeepGrounds` of one that does; there is a lemma per step.

`RoundEventsProofs` proves, from the assumptions of `RoundLifecycle` and `NobodyLeaves`, for
any number of faults, and the first four for replies in any order (nobody leaves, so
`WinnerLed` speaks of those who join: a leader who left late would not be the winner),

| Theorem | States |
|---|---|
| `EventsTypes` | `EventsSpec => []EventsTypeOK` |
| `TalliesStand` | `EventsSpec => []FinalTalliesStand` |
| `WinnerLed` | `EventsSpec => WinnerHadLed` |
| `StandingsCorrect` | `EventsSpec => []StandingsAddUp` |
| `ViewCorrect` | `RepliesInOrder => (EventsSpec => []ViewCatchesUp)` |
| `EventsGoOn` | `RepliesInOrder => (EventsSpec => NeverBackwards)` |

A payload is heard some time after the commit that built it, and by then other handlers may
have moved the round on. So the invariant says of every payload that is still to be emitted
what of it can no longer change (`Fits`): a tally is that of a finalized submission
(`Settled`), whose votes are fixed; the standings of the last round have the leader they will
keep (`FinalLead`), for a participant who joins has no points and joins after the owner. It
says the same of the view (`Agrees`), and `HearAgrees` that hearing the one keeps the other.
`EventMoves` lists what a step may do to those who listen. `Alone` is what both the tallies
and the sums need of the handlers: that a round has one opener, one that finishes its
voting, and that one handler in all waits for the end of a round. The sums also need to
know which events a handler holds where it is (`Shape`): while a completion is not yet
announced, its points are in the standings and not in what clients have added up
(`StandingsAgree`). The leaderboard is stated by rank instead of by a sort, so that who is on
top of it follows from the order being total (`RankingIsOrder`).

The last two are about when a payload is heard, and so about order: with two replies held
up on their connections, the handler that opened the voting may tell so after the one that
finalized the first submission. With the continuation of a commit run before the next commit
on the round (`RepliesInOrder`; timers may fire early), one handler at a time has something
to tell (`OneAtATime`), and the round is where that handler left it (`Prompt`,
`PendingRow`), so what it tells is where the tournament is (`NewsIsTrue`: `Truth`).
`ViewTells` is the invariant of the view, `CounterTells` that of the counter of
submissions, which is right or about to be corrected by a handler that will count
(`CountingGoesOn`). A counter in time is true (`CountsInTime`); one that comes late is not,
and sets `behind`. `CountersKnow` says that its round exists all the same, and `LeadShown`,
for `WinnerLed`, that it leaves the standings alone. For `NeverBackwards` the invariant is that
no more was told of a round than has happened in it (`Reached`, of `furthest` and of the
view), and a row never goes back (`PlacesGrow`); so whatever is true of the tournament is past
the furthest point shown (`TruthIsOnward`).

Only model-checked is what is out of the prover's reach: liveness under fairness
(`SubmissionPhaseEnds`, `VotingStepEnds`, `TournamentFinishes`), ENABLED, and induction over
data. The modules declare no RECURSIVE operator.

## 7. Not modelled

* Bootstrap and configuration: wiring. Migrations are taken as given; the unique indexes of
  rounds, submissions and votes hold in `RoundLifecycle` by the shape of its functions, as
  every writer runs under the lock of the row it would conflict on, and those of users are in
  `Auth`.
* Controllers, filters, interceptors, validation pipes, translation and the shapes of answers:
  they decide nothing that the modules do not have as a guard or as an answer's status.
* Of the queries, the list of drafts and the live tournament: reads only. The details of a
  draft are in `Participation`, the full state of a tournament in `RoundQueries`.
* Of the events, `VOTE_PROGRESS_UPDATED` (a counter, like `ROUND_PROGRESS_UPDATED`), the
  content of `PARTICIPANT_JOINED` and `PARTICIPANT_LEFT`, and prompts and deadlines in
  payloads. The order of equal rankings of a round is that of random ids.
* Sockets of a process that dies stay in Redis, and so their users online: `RoundLifecycle`
  takes any set as online, so its properties hold all the same; `Realtime` has no crash,
  after which `PresenceExact` would simply not hold. An eject that cannot be enqueued (the
  request then fails after its commit), a job delivered again after it stalled, and two
  joins of one socket at the same time are left out as well.
* The pool of connections: a submission looks its participant up on a second connection while
  its transaction holds the first, so that as many of them as the pool is large wait for one
  another.
