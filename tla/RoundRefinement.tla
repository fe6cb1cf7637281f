--------------------------- MODULE RoundRefinement --------------------------
(* RoundLifecycle implements SequentialTournament.                         *)
EXTENDS RoundLifecycle

(* The round that was created last, 0 before the start.                    *)
CurrentRound ==
    IF \E r \in Rounds : Exists(r)
      THEN CHOOSE r \in Rounds : Exists(r) /\ \A q \in Rounds : Exists(q) => q <= r
      ELSE 0

RoundStage(row) ==
    CASE row.phase = "SUBMISSION" -> "SUBMITTING"
      [] row.stepStatus = "OPEN" -> "REVEALING"
      [] row.completed -> "SCORED"
      [] row.stepStatus = "FINISHED" /\ ~row.completed -> "VOTED"
      [] OTHER -> "CLOSED"

Stage == IF status = "ACTIVE" THEN RoundStage(rounds[CurrentRound]) ELSE status

Total == IF CurrentRound = 0 THEN 0 ELSE Len(submissions[CurrentRound])

Step == IF CurrentRound = 0 THEN 0 ELSE rounds[CurrentRound].step

Sequential == INSTANCE SequentialTournament
    WITH stage <- Stage, round <- CurrentRound, total <- Total, step <- Step

(* Whatever the users, the timers and the faults do, the rounds and the    *)
(* reveals of a tournament come in the promised order, none skipped and    *)
(* none repeated.                                                          *)
SequentialSpec == Sequential!Spec

=============================================================================
