------------------------ MODULE SequentialTournament ------------------------
(***************************************************************************)
(* What a tournament promises those who follow it over the socket: its     *)
(* rounds come one at a time; in each of them the submission phase is      *)
(* closed once, then every submission is revealed exactly once, in order,  *)
(* then the round is completed; the last completed round ends it.          *)
(***************************************************************************)
EXTENDS Naturals

CONSTANT RoundsCount

VARIABLES stage, round, total, step

vars == <<stage, round, total, step>>

(* total is how many submissions the current round has, step the number of *)
(* the one that is revealed (0 when none is).                              *)
Init == stage = "DRAFT" /\ round = 0 /\ total = 0 /\ step = 0

Cancel ==
    /\ stage = "DRAFT"
    /\ stage' = "CANCELLED"
    /\ UNCHANGED <<round, total, step>>

Start ==
    /\ stage = "DRAFT"
    /\ stage' = "SUBMITTING" /\ round' = 1
    /\ UNCHANGED <<total, step>>

Submit ==
    /\ stage = "SUBMITTING"
    /\ total' = total + 1
    /\ UNCHANGED <<stage, round, step>>

Close ==
    /\ stage = "SUBMITTING"
    /\ stage' = "CLOSED"
    /\ UNCHANGED <<round, total, step>>

RevealFirst ==
    /\ stage = "CLOSED" /\ total > 0
    /\ stage' = "REVEALING" /\ step' = 1
    /\ UNCHANGED <<round, total>>

NothingToReveal ==
    /\ stage = "CLOSED" /\ total = 0
    /\ stage' = "VOTED"
    /\ UNCHANGED <<round, total, step>>

RevealNext ==
    /\ stage = "REVEALING" /\ step < total
    /\ step' = step + 1
    /\ UNCHANGED <<stage, round, total>>

FinalizeLast ==
    /\ stage = "REVEALING" /\ step = total
    /\ stage' = "VOTED" /\ step' = 0
    /\ UNCHANGED <<round, total>>

Complete ==
    /\ stage = "VOTED"
    /\ stage' = "SCORED"
    /\ UNCHANGED <<round, total, step>>

NextRound ==
    /\ stage = "SCORED" /\ round < RoundsCount
    /\ stage' = "SUBMITTING" /\ round' = round + 1 /\ total' = 0
    /\ UNCHANGED step

End ==
    /\ stage = "SCORED" /\ round = RoundsCount
    /\ stage' = "COMPLETED"
    /\ UNCHANGED <<round, total, step>>

Next ==
    \/ Cancel \/ Start \/ Submit \/ Close \/ RevealFirst \/ NothingToReveal
    \/ RevealNext \/ FinalizeLast \/ Complete \/ NextRound \/ End

Spec == Init /\ [][Next]_vars

=============================================================================
