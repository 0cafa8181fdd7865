--------------------------- MODULE MCModelHydrator ---------------------------
(* Two versions of the same size and a shorter one at one path.            *)
EXTENDS ModelHydrator, TLC
CONSTANTS v1, v2, v3
Sizes == v1 :> 2 @@ v2 :> 2 @@ v3 :> 1
=============================================================================
