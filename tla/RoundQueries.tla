---------------------------- MODULE RoundQueries ----------------------------
(***************************************************************************)
(* The full state of a tournament, beside the handlers of RoundLifecycle   *)
(* that change it.  get-full-tournament-query puts an answer together from *)
(* three queries of no common transaction: any commit may fall between     *)
(* two of them, so the answer may mix moments.                             *)
(***************************************************************************)
EXTENDS RoundLifecycle

(* The answer to one GET :id/full at a time, as far as it was read: of     *)
(* FullTournamentRTO the status, the cumulative score of each participant  *)
(* and the number of the current round (0 for null), and how many of the   *)
(* queries are done.                                                       *)
VARIABLE answer

queryVars == <<vars, answer>>

RoundBeforeParticipants == <<"tournament", "round", "participants">> \* variant: swapped

TournamentLast == <<"participants", "round", "tournament">> \* variant: the status is read last

ReadOrder == <<"tournament", "participants", "round">>

NoAnswer == [reads |-> 0, status |-> "DRAFT", standings |-> <<>>, currentRound |-> 0]

Answered == answer.reads = Len(ReadOrder)

(* Once an answer is complete the client may ask again.                    *)
SoFar == IF Answered THEN NoAnswer ELSE answer

NextRead(read) == ReadOrder[SoFar.reads + 1] = read

QueriesInit == Init /\ answer = NoAnswer

-----------------------------------------------------------------------------
ReadTournament ==
    /\ NextRead("tournament")
    /\ answer' = [SoFar EXCEPT !.reads = @ + 1, !.status = status]
    /\ UNCHANGED vars

(* Whoever asks, the answer is theirs only if they are a participant; else *)
(* it is ONLY_PARTICIPANTS_CAN_VIEW_FULL_STATE and no more is read.  The   *)
(* user matters to nothing else, so that they are chosen here.             *)
ReadParticipants(user) ==
    /\ NextRead("participants")
    /\ answer' = IF user \in participants
                   THEN [SoFar EXCEPT !.reads = @ + 1,
                                      !.standings = [u \in participants |-> score[u]]]
                   ELSE NoAnswer
    /\ UNCHANGED vars

(* The last round without completed_at.                                    *)
Uncompleted == {r \in Rounds : Exists(r) /\ ~rounds[r].completed}

LastOf(numbers) == IF numbers = {} THEN 0 ELSE CHOOSE r \in numbers : \A q \in numbers : q <= r

ReadCurrentRound ==
    /\ NextRead("round")
    /\ answer' = [SoFar EXCEPT !.reads = @ + 1, !.currentRound = LastOf(Uncompleted)]
    /\ UNCHANGED vars

Query ==
    \/ ReadTournament
    \/ \E user \in Users : ReadParticipants(user)
    \/ ReadCurrentRound

(* A restart ends the request, and so do neither deadlines nor handlers.   *)
Changes ==
    \/ Cancel
    \/ \E u \in Users : Join(u)
    \/ \E w \in Workers : Request(w) \/ TaskStep(w) \/ RequestFails(w) \/ ReplyLost(w)
    \/ \E r \in Rounds : SubmissionDeadlinePasses(r) \/ VotingDeadlinePasses(r)
    \/ \E r \in Rounds : SubmissionTimerFires(r) \/ VotingTimerFires(r)

QueriesNext ==
    \/ Query
    \/ Changes /\ UNCHANGED answer
    \/ CrashRestart /\ answer' = NoAnswer

QueriesSpec == QueriesInit /\ [][QueriesNext]_queryVars

-----------------------------------------------------------------------------
(* Invariants.                                                             *)

PointsAfter(n, u) == SumFunctionOnSet([r \in Rounds |-> roundScore[r][u]], 1..n)

(* The participants an answer shows, but for those who left: who comes     *)
(* back starts from nothing.                                               *)
Shown == DOMAIN answer.standings \ MayLeave

(* The standings an answer shows are those after one round for all of the  *)
(* participants, and after a round before the one it shows as current: no  *)
(* client sees the points of a round that, to it, is still to be decided.  *)
StandingsPrecedeRound ==
    Answered =>
        \E n \in 0..RoundsCount :
            /\ \A u \in Shown : answer.standings[u] = PointsAfter(n, u)
            /\ answer.currentRound # 0 => n < answer.currentRound

(* An answer that says the tournament is COMPLETED has the final standings *)
(* and no current round, though it read these after the status.            *)
CompletedIsFinal ==
    Answered /\ answer.status = "COMPLETED" =>
        /\ answer.currentRound = 0
        /\ \A u \in Shown : answer.standings[u] = PointsAfter(RoundsCount, u)

=============================================================================
