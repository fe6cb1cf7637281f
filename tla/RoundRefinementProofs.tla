------------------------ MODULE RoundRefinementProofs -----------------------
(***************************************************************************)
(* RoundLifecycle implements SequentialTournament, for every value of its  *)
(* constants: every step does nothing to the round that was created last,  *)
(* or what one action of SequentialTournament does.                        *)
(***************************************************************************)
EXTENDS RoundRefinement, RoundLifecycleProofs, SumTheorems

-----------------------------------------------------------------------------
(* The current round.                                                      *)

(* Where the rounds up to n exist, the last one that does is n.            *)
LEMMA CurrentIs ==
    ASSUME NEW rows, NEW n \in 0..RoundsCount,
           \A r \in Rounds : rows[r].phase # "NONE" <=> r <= n
    PROVE  (IF \E r \in Rounds : rows[r].phase # "NONE"
              THEN CHOOSE r \in Rounds :
                       /\ rows[r].phase # "NONE"
                       /\ \A q \in Rounds : rows[q].phase # "NONE" => q <= r
              ELSE 0) = n
<1>1. CASE n = 0
    BY <1>1 DEF Rounds
<1>2. CASE n # 0
    <2>1. n \in Rounds /\ rows[n].phase # "NONE"
        BY <1>2, SizesAssumption DEF Rounds
    <2>2. \A r \in Rounds :
              rows[r].phase # "NONE" /\ (\A q \in Rounds : rows[q].phase # "NONE" => q <= r)
                  => r = n
        BY <2>1, SizesAssumption DEF Rounds
    <2>3. \A q \in Rounds : rows[q].phase # "NONE" => q <= n
        OBVIOUS
    <2>. QED
        BY <2>1, <2>2, <2>3
<1>. QED
    BY <1>1, <1>2

(* The rounds that exist are those up to the current one.                  *)
LEMMA CurrentExists ==
    ASSUME Inv, SequenceInv
    PROVE  /\ CurrentRound \in 0..RoundsCount
           /\ \A r \in Rounds : Exists(r) <=> r <= CurrentRound
<1>. DEFINE C == {r \in Rounds : Exists(r)}
<1>1. \A j, k \in Rounds : k \in C /\ j < k => j \in C
    BY CompletedExists DEF SequenceInv
<1>2. RoundsCount \in Nat /\ C \in SUBSET (1..RoundsCount)
    BY SizesAssumption DEF Rounds
<1>. HIDE DEF C
<1>3. PICK n \in 0..RoundsCount : C = 1..n
    BY <1>1, <1>2, NoGaps DEF Rounds
<1>4. \A r \in Rounds : Exists(r) <=> r <= n
    BY <1>2, <1>3 DEF C, Rounds
<1>5. CurrentRound = n
    BY <1>4, CurrentIs DEF CurrentRound, Exists
<1>. QED
    BY <1>4, <1>5

(* The current round stays while none is created, and is then the new one. *)
LEMMA CurrentStep ==
    ASSUME Inv, SequenceInv, [Next]_vars
    PROVE  /\ (\A q \in Rounds : ~Created(q)) => CurrentRound' = CurrentRound
           /\ \A q \in Rounds : Created(q) => q = CurrentRound + 1 /\ CurrentRound' = q
<1>1. CurrentRound \in 0..RoundsCount /\ \A r \in Rounds : Exists(r) <=> r <= CurrentRound
    BY CurrentExists
<1>2. ASSUME \A q \in Rounds : ~Created(q) PROVE CurrentRound' = CurrentRound
    <2>1. \A r \in Rounds : rounds'[r].phase # "NONE" <=> r <= CurrentRound
        BY <1>1, <1>2, RowHistory DEF Exists
    <2>. DEFINE n == CurrentRound
    <2>. HIDE DEF n
    <2>2. n \in 0..RoundsCount /\ \A r \in Rounds : rounds'[r].phase # "NONE" <=> r <= n
        BY <1>1, <2>1 DEF n
    <2>3. CurrentRound' = n
        BY <2>2, CurrentIs DEF CurrentRound, Exists
    <2>. QED
        BY <2>3 DEF n
<1>3. ASSUME NEW q \in Rounds, Created(q) PROVE q = CurrentRound + 1 /\ CurrentRound' = q
    <2>1. q = CurrentRound + 1
        <3>1. ~Exists(q) /\ q \in Int
            BY <1>3 DEF Created, Exists, Rounds
        <3>2. CASE q = 1
            BY <1>1, <3>1, <3>2
        <3>3. CASE q - 1 \in Rounds /\ FollowsUp(q - 1)
            <4>1. Exists(q - 1)
                BY <3>3, CompletedExists DEF FollowsUp
            <4>. QED
                BY <1>1, <3>1, <3>3, <4>1
        <3>. QED
            BY <1>3, <3>2, <3>3 DEF Created
    <2>2. PICK prompt \in UnusedPrompts : rounds' = [rounds EXCEPT ![q] = NewRound(prompt)]
        BY <1>3 DEF Created
    <2>3. \A r \in Rounds : rounds'[r].phase # "NONE" <=> r <= q
        <3>1. rounds'[q].phase = "SUBMISSION"
            BY <2>2 DEF NewRound, NoRound, Inv, TypeOK
        <3>2. \A r \in Rounds \ {q} : rounds'[r] = rounds[r]
            BY <2>2 DEF Inv, TypeOK
        <3>. QED
            BY <1>1, <2>1, <3>1, <3>2, SizesAssumption DEF Exists, Rounds
    <2>4. q \in 0..RoundsCount
        BY SizesAssumption DEF Rounds
    <2>5. CurrentRound' = q
        BY <2>3, <2>4, CurrentIs DEF CurrentRound, Exists
    <2>. QED
        BY <2>1, <2>5
<1>. QED
    BY <1>2, <1>3

-----------------------------------------------------------------------------
(* The steps.                                                              *)

(* A submission that is sent for the first time is one more, one that is   *)
(* sent again is none.                                                     *)
LEMMA OrderGrows ==
    ASSUME Inv, [Next]_vars, NEW q \in Rounds
    PROVE  Len(submissions'[q]) \in {Len(submissions[q]), Len(submissions[q]) + 1}
<1>1. submissions \in [Rounds -> Seq(Users)]
    BY DEF Inv, TypeOK
<1>2. CASE \E w \in Workers, r \in Rounds, u \in Users : Submit(w, r, u)
    <2>1. PICK w \in Workers, r \in Rounds, u \in Users : Submit(w, r, u)
        BY <1>2
    <2>2. \/ submissions'[q] = submissions[q]
          \/ u \in SubmittedIn(q) /\ submissions'[q] = Resubmitted(u, submissions[q])
          \/ submissions'[q] = Append(submissions[q], u)
        BY <1>1, <2>1 DEF Submit
    <2>. QED
        BY <1>1, <2>2, ResubmittedIsOrder, AppendProperties DEF SubmittedIn
<1>3. CASE ~\E w \in Workers, r \in Rounds, u \in Users : Submit(w, r, u)
    BY <1>3, RowWriters DEF Start, CloseSubmissions, OpenVoting, Finalize, CompleteRound,
                            CreateNextRound, CastVote, contentVars
<1>. QED
    BY <1>2, <1>3

(* The stage of a round, by its columns.                                   *)
LEMMA Stages ==
    ASSUME NEW row \in RoundRow, NEW order, RowAgrees(row, order), row.phase # "NONE"
    PROVE  /\ row.phase = "SUBMISSION" => RoundStage(row) = "SUBMITTING" /\ row.step = 0
           /\ row.phase = "VOTING" /\ row.stepStatus = "IDLE" =>
                RoundStage(row) = "CLOSED" /\ row.step = 0
           /\ row.phase = "VOTING" /\ row.stepStatus = "OPEN" =>
                RoundStage(row) = "REVEALING" /\ row.step \in 1..Len(order)
           /\ row.stepStatus = "FINISHED" =>
                /\ row.phase = "VOTING" /\ row.step = 0
                /\ RoundStage(row) = IF row.completed THEN "SCORED" ELSE "VOTED"
<1>1. /\ row.phase \in {"SUBMISSION", "VOTING"} /\ row.stepStatus \in {"IDLE", "OPEN", "FINISHED"}
      /\ row.completed \in BOOLEAN
    BY DEF RoundRow, Phases, StepStatuses
<1>2. /\ row.phase = "SUBMISSION" => row.stepStatus = "IDLE"
      /\ row.stepStatus = "OPEN" => row.step \in 1..Len(order)
      /\ row.stepStatus # "OPEN" => row.step = 0
      /\ row.completed => row.stepStatus = "FINISHED"
    BY DEF RowAgrees
<1>3. CASE row.phase = "SUBMISSION"
    BY <1>2, <1>3 DEF RoundStage
<1>4. CASE row.phase = "VOTING" /\ row.stepStatus = "IDLE"
    BY <1>2, <1>4 DEF RoundStage
<1>5. CASE row.phase = "VOTING" /\ row.stepStatus = "OPEN"
    BY <1>2, <1>5 DEF RoundStage
<1>6. CASE row.phase = "VOTING" /\ row.stepStatus = "FINISHED"
    <2>1. CASE row.completed = TRUE
        <3>1. /\ row.phase # "SUBMISSION" /\ row.stepStatus # "OPEN" /\ row.step = 0
              /\ ~(row.phase = "VOTING" /\ row.stepStatus = "IDLE")
            BY <1>2, <1>6
        <3>2. row.completed
            BY <2>1
        <3>3. RoundStage(row) = "SCORED"
            BY <1>6, <3>1, <3>2 DEF RoundStage
        <3>. QED
            BY <1>6, <3>1, <3>2, <3>3
    <2>2. CASE row.completed = FALSE
        BY <1>2, <1>6, <2>2 DEF RoundStage
    <2>. QED
        BY <1>1, <2>1, <2>2
<1>. QED
    BY <1>1, <1>3, <1>4, <1>5, <1>6

(* What a step does to the current round of an active tournament is what   *)
(* one action of SequentialTournament does, or nothing that it shows.      *)
LEMMA ActiveStep ==
    ASSUME Inv, SequenceInv, [Next]_vars, CurrentRound \in Rounds, CurrentRound' = CurrentRound,
           ~Created(CurrentRound), status = "ACTIVE", status' = "ACTIVE"
    PROVE  [Sequential!Next]_(Sequential!vars)
<1>. DEFINE r == CurrentRound
            row == rounds[r]
            new == rounds'[r]
            order == submissions[r]
<1>1. /\ Stage = RoundStage(row) /\ Total = Len(order) /\ Step = row.step
      /\ Stage' = RoundStage(new) /\ Total' = Len(submissions'[r]) /\ Step' = new.step
    <2>1. r # 0
        BY DEF Rounds
    <2>. QED
        BY <2>1 DEF Stage, Total, Step
<1>2. /\ row \in RoundRow /\ new \in RoundRow /\ order \in Seq(Users)
      /\ RowAgrees(row, order) /\ RowAgrees(new, submissions'[r]) /\ Len(order) \in Nat
    <2>1. Inv'
        BY InvStep
    <2>. QED
        BY <2>1, LenProperties DEF Inv, TypeOK, VotingCursor
<1>3. row.phase # "NONE" /\ RoundMoves(r)
    BY CurrentExists, RoundStep DEF Inv, Exists, Rounds
<1>. HIDE DEF r
<1>4. Len(submissions'[r]) \in {Len(order), Len(order) + 1}
    BY OrderGrows DEF r
<1>. USE DEF Sequential!vars
<1>5. CASE SameRow(r) /\ SameOrder(r)
    BY <1>1, <1>5 DEF SameRow, SameOrder, r
<1>6. CASE Submitted(r)
    <2>1. /\ row.phase = "SUBMISSION" /\ new = row
          /\ Stage = "SUBMITTING" /\ Stage' = "SUBMITTING" /\ Step' = Step
        BY <1>1, <1>2, <1>3, <1>6, Stages DEF Submitted, SameRow
    <2>2. Total' \in {Total, Total + 1}
        BY <1>1, <1>4
    <2>. QED
        BY <2>1, <2>2 DEF Sequential!Next, Sequential!Submit, r
<1>7. CASE Closed(r)
    <2>1. /\ row.phase = "SUBMISSION" /\ row.stepStatus = "IDLE" /\ Total' = Total
          /\ new.phase = "VOTING" /\ new.stepStatus = "IDLE"
        BY <1>1, <1>2, <1>3, <1>7 DEF Closed, SameOrder, RowAgrees, RoundRow
    <2>2. Stage = "SUBMITTING" /\ Stage' = "CLOSED" /\ Step = 0 /\ Step' = 0
        BY <1>1, <1>2, <1>3, <2>1, Stages
    <2>. QED
        BY <2>1, <2>2 DEF Sequential!Next, Sequential!Close, r
<1>8. CASE Opened(r)
    <2>1. /\ row.phase = "VOTING" /\ row.stepStatus = "IDLE" /\ Total' = Total
          /\ new.phase = "VOTING"
          /\ \/ order # << >> /\ new.stepStatus = "OPEN" /\ new.step = 1
             \/ order = << >> /\ new.stepStatus = "FINISHED" /\ ~new.completed
        BY <1>1, <1>2, <1>3, <1>8 DEF Opened, SameOrder, RowAgrees, RoundRow
    <2>2. Stage = "CLOSED" /\ Step = 0
        BY <1>1, <1>2, <1>3, <2>1, Stages
    <2>3. CASE order # << >> /\ new.stepStatus = "OPEN" /\ new.step = 1
        <3>1. Total > 0 /\ Stage' = "REVEALING" /\ Step' = 1
            BY <1>1, <1>2, <2>1, <2>3, Stages, EmptySeq
        <3>. QED
            BY <2>1, <2>2, <3>1 DEF Sequential!Next, Sequential!RevealFirst, r
    <2>4. CASE order = << >> /\ new.stepStatus = "FINISHED" /\ ~new.completed
        <3>1. Total = 0 /\ Stage' = "VOTED" /\ Step' = 0
            BY <1>1, <1>2, <2>1, <2>4, Stages, EmptySeq
        <3>. QED
            BY <2>1, <2>2, <3>1 DEF Sequential!Next, Sequential!NothingToReveal, r
    <2>. QED
        BY <2>1, <2>3, <2>4
<1>9. CASE RevealedNext(r)
    <2>1. /\ row.phase = "VOTING" /\ row.stepStatus = "OPEN" /\ Total' = Total
          /\ new.phase = "VOTING" /\ new.stepStatus = "OPEN" /\ new.step = row.step + 1
          /\ row.step + 1 <= Len(order)
        BY <1>1, <1>2, <1>9 DEF RevealedNext, SameOrder, VotingOpen, RoundRow
    <2>2. Stage = "REVEALING" /\ Stage' = "REVEALING" /\ Step' = Step + 1 /\ Step < Total
        BY <1>1, <1>2, <1>3, <2>1, Stages
    <2>. QED
        BY <2>1, <2>2 DEF Sequential!Next, Sequential!RevealNext, r
<1>10. CASE FinalizedLast(r)
    <2>1. /\ row.phase = "VOTING" /\ row.stepStatus = "OPEN" /\ Total' = Total
          /\ new.phase = "VOTING" /\ new.stepStatus = "FINISHED" /\ ~new.completed
          /\ ~(row.step + 1 <= Len(order))
        BY <1>1, <1>2, <1>10 DEF FinalizedLast, SameOrder, VotingOpen, RoundRow, RowAgrees
    <2>2. Stage = "REVEALING" /\ Stage' = "VOTED" /\ Step' = 0 /\ Step = Total
        BY <1>1, <1>2, <1>3, <2>1, Stages
    <2>. QED
        BY <2>1, <2>2 DEF Sequential!Next, Sequential!FinalizeLast, r
<1>11. CASE Completed(r)
    <2>1. /\ row.phase = "VOTING" /\ row.stepStatus = "FINISHED" /\ ~row.completed
          /\ new.phase = "VOTING" /\ new.stepStatus = "FINISHED" /\ new.completed
          /\ Total' = Total
        BY <1>1, <1>2, <1>11 DEF Completed, SameOrder, VotingFinished, RoundRow
    <2>2. Stage = "VOTED" /\ Stage' = "SCORED" /\ Step = 0 /\ Step' = 0
        BY <1>1, <1>2, <1>3, <2>1, Stages
    <2>. QED
        BY <2>1, <2>2 DEF Sequential!Next, Sequential!Complete, r
<1>. QED
    BY <1>3, <1>5, <1>6, <1>7, <1>8, <1>9, <1>10, <1>11 DEF RoundMoves, Cast, r

(* A completed round has the stage SCORED, and nothing changes in it.      *)
LEMMA CompletedRow ==
    ASSUME Inv, [Next]_vars, NEW q \in Rounds, rounds[q].completed
    PROVE  /\ RoundStage(rounds[q]) = "SCORED" /\ rounds[q].step = 0
           /\ SameRow(q) /\ SameOrder(q)
<1>1. /\ rounds[q] \in RoundRow /\ RowAgrees(rounds[q], submissions[q])
      /\ rounds[q].phase # "NONE" /\ rounds[q].stepStatus = "FINISHED"
    BY CompletedExists DEF Inv, TypeOK, VotingCursor, RowAgrees, Exists
<1>2. rounds[q].phase = "VOTING" /\ RoundStage(rounds[q]) = "SCORED" /\ rounds[q].step = 0
    BY <1>1, Stages
<1>. QED
    BY <1>1, <1>2, RoundStep DEF Inv, RoundMoves, Created, Submitted, Closed, Opened, Cast,
                                 RevealedNext, FinalizedLast, Completed, VotingOpen,
                                 VotingFinished

(* The start creates the first round; a later one follows the completed    *)
(* round before it.                                                        *)
LEMMA CreationStep ==
    ASSUME Inv, SequenceInv, [Next]_vars, NEW q \in Rounds, Created(q)
    PROVE  Sequential!Start \/ Sequential!NextRound
<1>1. q = CurrentRound + 1 /\ CurrentRound' = q /\ q # 0 /\ CurrentRound \in 0..RoundsCount
    BY CurrentStep, CurrentExists DEF Rounds
<1>2. PICK prompt \in UnusedPrompts : rounds' = [rounds EXCEPT ![q] = NewRound(prompt)]
    BY DEF Created
<1>3. status' = "ACTIVE" /\ rounds'[q] = NewRound(prompt)
    BY <1>2 DEF Created, Inv, TypeOK
<1>4. Stage' = "SUBMITTING" /\ Step' = 0
    BY <1>1, <1>3 DEF Stage, Step, RoundStage, NewRound, NoRound
<1>5. Total' = 0
    <2>1. submissions'[q] = << >>
        BY DEF Created, SameOrder, Inv, VotingCursor, RowAgrees
    <2>. QED
        BY <1>1, <2>1 DEF Total
<1>6. CASE q = 1 /\ status = "DRAFT"
    <2>1. CurrentRound = 0
        BY <1>1, <1>6
    <2>2. Stage = "DRAFT" /\ Total = 0 /\ Step = 0
        BY <1>6, <2>1 DEF Stage, Total, Step
    <2>. QED
        BY <1>1, <1>4, <1>5, <1>6, <2>2 DEF Sequential!Start
<1>7. CASE q - 1 \in Rounds /\ FollowsUp(q - 1)
    <2>1. q - 1 = CurrentRound /\ CurrentRound # 0 /\ CurrentRound < RoundsCount
        BY <1>1, <1>7, SizesAssumption DEF Rounds
    <2>2. status = "ACTIVE" /\ rounds[CurrentRound].completed /\ CurrentRound \in Rounds
        BY <1>7, <2>1 DEF FollowsUp
    <2>3. Stage = "SCORED" /\ Step = 0
        BY <2>1, <2>2, CompletedRow DEF Stage, Step
    <2>. QED
        BY <1>1, <1>4, <1>5, <2>1, <2>3 DEF Sequential!NextRound
<1>. QED
    BY <1>6, <1>7 DEF Created

(* Before the start there is only the cancellation.                        *)
LEMMA DraftRefines ==
    ASSUME Inv, SequenceInv, [Next]_vars, \A q \in Rounds : ~Created(q), CurrentRound = 0
    PROVE  [Sequential!Next]_(Sequential!vars)
<1>1. /\ CurrentRound' = 0 /\ ~Exists(1) /\ 1 \in Rounds
    BY CurrentStep, CurrentExists, SizesAssumption DEF Rounds
<1>2. Total = 0 /\ Total' = 0 /\ Step = 0 /\ Step' = 0
    BY <1>1 DEF Total, Step
<1>3. ~Exists(1)' /\ Inv' /\ SequenceInv'
    BY <1>1, RowHistory, InvStep, SequenceStep
<1>4. status \in {"DRAFT", "CANCELLED"} /\ status' \in {"DRAFT", "CANCELLED"}
    BY <1>1, <1>3 DEF Inv, TypeOK, Statuses, SequenceInv
<1>5. Stage = status /\ Stage' = status'
    BY <1>4 DEF Stage
<1>6. status' = status \/ (status = "DRAFT" /\ status' = "CANCELLED")
    BY <1>4, StatusMoves
<1>. QED
    BY <1>1, <1>2, <1>5, <1>6 DEF Sequential!Next, Sequential!Cancel, Sequential!vars

(* A tournament ends after its last round, and then stays as it is.        *)
LEMMA EndRefines ==
    ASSUME Inv, SequenceInv, [Next]_vars, CurrentRound \in Rounds, CurrentRound' = CurrentRound,
           status' = "COMPLETED"
    PROVE  [Sequential!Next]_(Sequential!vars)
<1>1. status = "COMPLETED" \/ status = "ACTIVE"
    BY StatusMoves
<1>. DEFINE r == CurrentRound
<1>2. r \in Rounds /\ r # 0 /\ Total = Len(submissions[r]) /\ Step = rounds[r].step
      /\ Total' = Len(submissions'[r]) /\ Step' = rounds'[r].step /\ Stage' = "COMPLETED"
      /\ Stage = IF status = "ACTIVE" THEN RoundStage(rounds[r]) ELSE status
    BY DEF Rounds, Total, Step, Stage
<1>3. rounds[r].completed /\ (status = "ACTIVE" => r = RoundsCount)
    <2>1. CASE status = "COMPLETED"
        BY <1>2, <2>1 DEF SequenceInv
    <2>2. CASE status = "ACTIVE"
        <3>1. PICK w \in Workers : IsLastRound(tasks[w].round) /\ FollowsUp(tasks[w].round)
            BY <2>2, StatusMoves
        <3>2. tasks[w].round \in Rounds /\ rounds[tasks[w].round].completed
            BY <3>1 DEF Inv, TypeOK, Task, FollowsUp
        <3>3. tasks[w].round = RoundsCount
            BY <3>1, <3>2, SizesAssumption DEF IsLastRound, Rounds
        <3>4. RoundsCount <= CurrentRound
            BY <3>2, <3>3, CompletedExists, CurrentExists
        <3>5. CurrentRound = RoundsCount
            BY <3>4, SizesAssumption DEF Rounds
        <3>. QED
            BY <3>2, <3>3, <3>5
    <2>. QED
        BY <1>1, <2>1, <2>2
<1>4. RoundStage(rounds[r]) = "SCORED" /\ Total' = Total /\ Step' = Step
    BY <1>2, <1>3, CompletedRow DEF SameRow, SameOrder
<1>5. CASE status = "COMPLETED"
    <2>1. Stage = "COMPLETED"
        BY <1>2, <1>5
    <2>. QED
        BY <1>2, <1>4, <2>1 DEF Sequential!vars
<1>6. CASE status = "ACTIVE"
    <2>1. Stage = "SCORED"
        BY <1>2, <1>4, <1>6
    <2>. QED
        BY <1>2, <1>3, <1>4, <1>6, <2>1 DEF Sequential!Next, Sequential!End
<1>. QED
    BY <1>1, <1>5, <1>6

(* Every step is one of SequentialTournament's, or shows nothing.          *)
LEMMA RefinementStep ==
    ASSUME Inv, SequenceInv, [Next]_vars
    PROVE  [Sequential!Next]_(Sequential!vars)
<1>1. CASE \E q \in Rounds : Created(q)
    BY <1>1, CreationStep DEF Sequential!Next
<1>2. CASE \A q \in Rounds : ~Created(q)
    <2>1. CurrentRound' = CurrentRound
        BY <1>2, CurrentStep
    <2>2. CASE CurrentRound = 0
        BY <1>2, <2>2, DraftRefines
    <2>3. CASE CurrentRound # 0
        <3>1. CurrentRound \in Rounds /\ Exists(CurrentRound)
            <4>1. CurrentRound \in 0..RoundsCount
                BY CurrentExists
            <4>2. CurrentRound \in Rounds
                BY <2>3, <4>1, SizesAssumption DEF Rounds
            <4>. QED
                BY <4>1, <4>2, CurrentExists DEF Rounds
        <3>2. status \in {"ACTIVE", "COMPLETED"}
            BY <3>1 DEF SequenceInv, Inv, TypeOK, Statuses
        <3>3. status' \in {"ACTIVE", "COMPLETED"} /\ (status = "COMPLETED" => status' = "COMPLETED")
            BY <3>2, StatusMoves
        <3>4. CASE status' = "COMPLETED"
            BY <2>1, <3>1, <3>4, EndRefines
        <3>5. CASE status' = "ACTIVE" /\ status = "ACTIVE"
            BY <1>2, <2>1, <3>1, <3>5, ActiveStep
        <3>. QED
            BY <3>2, <3>3, <3>4, <3>5
    <2>. QED
        BY <2>2, <2>3
<1>. QED
    BY <1>1, <1>2

-----------------------------------------------------------------------------
(* Results.                                                                *)

(* Whatever the users, the timers and the faults do, the rounds of a       *)
(* tournament come one after the other, and in each of them every          *)
(* submission is revealed once, in order: RoundLifecycle implements        *)
(* SequentialTournament.                                                   *)
THEOREM RefinesSequential == Spec => SequentialSpec
<1>1. Init => Sequential!Init
    BY DEF Init, Sequential!Init, Stage, Total, Step, CurrentRound, Exists, NoRound
<1>2. Inv /\ SequenceInv /\ [Next]_vars => [Sequential!Next]_(Sequential!vars)
    BY RefinementStep
<1>. QED
    BY <1>1, <1>2, SequenceInvariance, PTL DEF Spec, SequentialSpec, Sequential!Spec

=============================================================================
