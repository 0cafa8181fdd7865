---------------------------- MODULE MCRuntimeExport ----------------------------
(* A file, a link and a file; the second edit makes a file one block shorter. *)
EXTENDS RuntimeExport
MCFiles  == {1, 3}
MCLinks  == {2}
MCSizeOf == [e \in 0 .. 2 |-> IF e = 2 THEN 1 ELSE 2]
=============================================================================
