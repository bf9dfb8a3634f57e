------------------------------ MODULE MCMedia ------------------------------
(* Small instances of Media for TLC. *)
EXTENDS Media, TLC

Alike == Permutations(Asset) \union Permutations(Worker) \union Permutations(Group) \union Permutations(User)
=============================================================================
