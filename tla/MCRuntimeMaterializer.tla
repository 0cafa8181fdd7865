----------------------- MODULE MCRuntimeMaterializer -----------------------
(* Small volumes for TLC: two trees, the first of them exported twice.     *)
EXTENDS RuntimeMaterializer, TLC

CONSTANTS w1, w2, a1, a2, b1, da, db, e1, e2

TwoExports == a1 :> da @@ a2 :> da @@ b1 :> db
OnePerTree == a1 :> da @@ b1 :> db

Symmetry == Permutations(Entries) \cup Permutations(Writers)
=============================================================================
