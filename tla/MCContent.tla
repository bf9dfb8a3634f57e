------------------------------ MODULE MCContent -------------------------------
(* The parts never meet, so that they may share the values that are alike. *)
EXTENDS Content, TLC
MCWeight == [alcohol |-> 30, trail |-> 35, scheme |-> 100]
MCTexts == {{}, {"alcohol"}, {"alcohol", "trail"}, {"scheme"}}
Sym == Permutations(Guests) \union Permutations(Devices) \union Permutations(Tiers)
=============================================================================
