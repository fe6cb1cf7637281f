------------------------------- MODULE MCAuth -------------------------------
(* A small instance of Auth for TLC.                                       *)
EXTENDS Auth, TLC

CONSTANTS c1, c2, e1, e2, n1, n2, w1, w2

Symmetry == Permutations(Clients) \cup Permutations(Workers)
                \cup Permutations(Emails) \cup Permutations(Usernames)

=============================================================================
