----------------------------- MODULE MCSessions -----------------------------
(* Instances of Sessions for TLC; requests and browsers are alike.         *)
EXTENDS Sessions, TLC

Symmetry == Permutations(Handlers) \cup Permutations(Browsers)
=============================================================================
