--------------------------- MODULE MCProblemIndex ---------------------------
(* Instances of ProblemIndex for TLC; transactions and titles are alike.   *)
EXTENDS ProblemIndex, TLC
Symmetry ==
    Permutations(Workers) \cup Permutations(Titles) \cup Permutations(Contents)
=============================================================================
