------------------------------ MODULE MCBulkBatch -----------------------------
(* Two rows, two batches, two connections.                                   *)
EXTENDS BulkBatch, TLC

CONSTANTS k1, k2, x, y, c1, c2, b1, b2

(* Clear one row, write both, write one and clear the other.                 *)
TwoRowPlans == {(k1 :> None), (k1 :> x @@ k2 :> y), (k1 :> y @@ k2 :> None)}
OneRowPlans == {(k1 :> y), (k1 :> None)}
ConnSymmetry == Permutations(Conns)
==============================================================================
