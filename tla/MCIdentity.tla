----------------------------- MODULE MCIdentity ------------------------------
(* The parts never meet, so that they may share the values that are alike. *)
EXTENDS Identity, TLC
Sym == Permutations(Tab) \union Permutations(Attempt)
=============================================================================
