------------------------------ MODULE MCCommerce ------------------------------
(* Small instances of Commerce for TLC. *)
EXTENDS Commerce, TLC

CONSTANTS k1, o1, j1, f1, f2, f3, ann, ben, kim, t1, t2

\* A reward of two points, an order of two with a bonus of one, an adjustment
\* that takes a free point, one fee of each kind.
SmallRewards == k1 :> 2
SmallPoints == o1 :> 2
SmallBonus == o1 :> 1
SmallAdjustment == j1 :> <<"free", -1>>
OneOfEachFee == (f1 :> "registration") @@ (f2 :> "publication") @@ (f3 :> "promotion")
SmallPrices == (f1 :> 2) @@ (f2 :> 1) @@ (f3 :> 2)
=============================================================================
