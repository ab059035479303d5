-------------------------- MODULE MCContestScoring --------------------------
(* ContestScoring for TLC: two problems, one worth so little that a wrong  *)
(* attempt brings its final score to zero.  Users and requests are alike.  *)
EXTENDS ContestScoring, TLC

CONSTANTS p1, p2

MCBasePoints == [p \in Problems |-> IF p = p1 THEN 1 ELSE 10]

Symmetry == Permutations(Users) \cup Permutations(Requests)
=============================================================================
