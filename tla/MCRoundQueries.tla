--------------------------- MODULE MCRoundQueries ---------------------------
(* A small instance of RoundQueries for TLC.                               *)
EXTENDS RoundQueries, TLC

CONSTANTS owner, u1, w1, w2, p1

Symmetry == Permutations(Workers) \cup Permutations(Prompts)

=============================================================================
