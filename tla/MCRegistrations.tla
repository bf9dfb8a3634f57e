-------------------------- MODULE MCRegistrations --------------------------
(* Small instances of Registrations for TLC. *)
EXTENDS Registrations, TLC

CONSTANTS r1, r2, r3, u1, u2, u3, t1

\* Every registration is another user's.
DistinctUserOf == (r1 :> u1) @@ (r2 :> u2) @@ (r3 :> u3)
DistinctSymmetry == Permutations({r1, r2, r3})

\* Two registrations of two users.
PairUserOf == (r1 :> u1) @@ (r2 :> u2)
=============================================================================
