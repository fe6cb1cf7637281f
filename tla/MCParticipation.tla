-------------------------- MODULE MCParticipation --------------------------
(* A small instance of Participation for TLC.                              *)
EXTENDS Participation, TLC

CONSTANTS t1, t2

(* Users 1 and 3 collide.                                                  *)
MCKeyOf == <<1, 2, 1>>

(* Tournaments are interchangeable, and so are workers; users are ordered. *)
Symmetry == Permutations(Tournaments) \cup Permutations(Workers)

=============================================================================
