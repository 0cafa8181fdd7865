-------------------------- MODULE MCRuntimePublisher --------------------------
(* Two publishers; two of the items share an archive, as a new launcher of *)
(* an unchanged runtime does.                                              *)
EXTENDS RuntimePublisher, TLC

CONSTANTS p1, p2, i1, i2, a1, c1

OneArchive == i1 :> a1 @@ i2 :> a1

Symmetry == Permutations(Publishers) \cup Permutations(Items)
=============================================================================
