-------------------------- MODULE MCRuntimeDownload --------------------------
(* Two overlapping calls for one runtime.                                  *)
EXTENDS RuntimeDownload
CONSTANTS c1, c2, r1
=============================================================================
