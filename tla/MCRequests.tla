----------------------------- MODULE MCRequests ------------------------------
EXTENDS Requests, TLC
Sym == Permutations(Operators)
MCAmounts == {-2, 1}
MCOps == {[id |-> "put", kind |-> "put", base |-> 0], [id |-> "delete", kind |-> "delete", base |-> 0],
          [id |-> "patch", kind |-> "patch", base |-> 1], [id |-> "late", kind |-> "patch", base |-> 1]}
=============================================================================
