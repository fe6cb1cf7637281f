----------------------------- MODULE MCRealtime -----------------------------
(* A small instance of Realtime for TLC.                                   *)
EXTENDS Realtime, TLC

CONSTANTS owner, u1, s1, s2

Symmetry == Permutations(Sockets)

=============================================================================
