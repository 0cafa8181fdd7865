------------------------- MODULE MCServerlessHandler -------------------------
(* A temp and an output file of one name, a second temp file that does not *)
(* fit inline beside the first, and an entry of each other kind; a job of  *)
(* every outcome of the checks, each combination of what decides where a   *)
(* file goes.                                                              *)
EXTENDS ServerlessHandler, TLC

CONSTANTS o1, t1, t2, void, text, gif, n1, n2

Entered == o1 :> "file" @@ t1 :> "file" @@ t2 :> "file" @@
           void :> "void" @@ text :> "text" @@ gif :> "unhandled"
Types == [f \in {o1, t1, t2, void, text, gif} |-> IF f \in {t1, t2} THEN "temp" ELSE "output"]
Names == [f \in {o1, t1, t2, void, text, gif} |-> IF f \in {o1, t1} THEN n1 ELSE n2]
Sizes == [f \in {o1, t1, t2, void, text, gif} |-> IF f = o1 THEN 4 ELSE 2]

SomeJobs == {j \in Job : /\ j.store = "invalid" => j.input = "good"
                         /\ j.input # "good" => j.ids = "plain" /\ j.bucket /\ j.pid
                         /\ j.pictures = (j.pid \/ j.input = "texts")
                         /\ j.store = "configured" \/ j.ids = "plain"
                         /\ j.bucket => j.pid}
=============================================================================
