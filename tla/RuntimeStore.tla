---------------------------- MODULE RuntimeStore ----------------------------
(***************************************************************************)
(* What the runtime materializer promises to the Pods that mount a volume: *)
(* a pointer that only ever names a runtime which is complete and already  *)
(* durable, however the process that moves it dies.  A host crash may take *)
(* the pointer back to the last place a barrier recorded, never elsewhere. *)
(***************************************************************************)
CONSTANTS Digests, None

VARIABLES complete,  \* runtimes a Pod could run from
          safe,      \* those a crash cannot take away
          exposed,   \* the runtime current names, or None
          recorded   \* the runtime current names on durable storage

store == <<complete, safe, exposed, recorded>>

StoreInit == /\ complete = {} /\ safe = {}
             /\ exposed = None /\ recorded = None

(* A verified runtime becomes reachable under its own name.                *)
Install(d) == /\ complete' = complete \cup {d}
              /\ UNCHANGED <<safe, exposed, recorded>>

(* current is moved, to nothing that a crash could tear.                   *)
Expose(d) == /\ d \in safe
             /\ exposed' = d
             /\ UNCHANGED <<complete, safe, recorded>>

(* A barrier.                                                              *)
Persist == /\ safe' = complete
           /\ recorded' = exposed
           /\ UNCHANGED <<complete, exposed>>

(* A crash: at least what was durable is left, and all that is left is.    *)
Crash == /\ complete' \in SUBSET complete
         /\ safe \subseteq complete'
         /\ safe' = complete'
         /\ exposed' \in {exposed, recorded}
         /\ recorded' = exposed'

(* The medium loses a runtime.                                             *)
Rot(d) == /\ complete' = complete \ {d}
          /\ safe' = safe \ {d}
          /\ UNCHANGED <<exposed, recorded>>

StoreNext == \/ \E d \in Digests : Install(d) \/ Expose(d) \/ Rot(d)
             \/ Persist \/ Crash

StoreSpec == StoreInit /\ [][StoreNext]_store
=============================================================================
