---------------------------- MODULE MCRoundEvents ----------------------------
(* A small instance of RoundEvents for TLC.                                *)
EXTENDS RoundEvents, TLC

CONSTANTS owner, u1, u2, w1, w2, p1, p2

Symmetry == Permutations(Workers) \cup Permutations(Prompts)

=============================================================================
