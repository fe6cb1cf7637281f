-------------------------- MODULE MCRoundLifecycle --------------------------
(* Small instances of RoundLifecycle for TLC.                              *)
EXTENDS RoundRefinement, TLC

CONSTANTS owner, u1, u2, w1, w2

(* The users other than the owner are interchangeable, and so are the      *)
(* handler slots and the prompts.  Only runs without liveness use this.    *)
Symmetry == Permutations(Users \ {owner}) \cup Permutations(Workers) \cup Permutations(Prompts)

=============================================================================
