---------------------------- MODULE RuntimeDownload ----------------------------
(***************************************************************************)
(* scripts/download_materialize_runtime.py: the entry point of the CPU     *)
(* image.  It verifies its inputs, calls the materializer and posts one    *)
(* result.  The materializer is the store it promises to be (RuntimeStore),*)
(* taken step by step under its lock: a call may end between any two.      *)
(*                                                                         *)
(*   staged[d]  the archive under .runtime-incoming/archives/ for runtime  *)
(*              d: the declared bytes, others that hold the same tree (a   *)
(*              second export of it), torn ones                            *)
(*   got[c]     what the URL branch has downloaded: the index of each      *)
(*              range, or 0 for other bytes behind the right headers       *)
(*   told[c]    what the control plane has received at RUNTIME_RESULT_URL  *)
(***************************************************************************)
EXTENDS Naturals, Sequences

CONSTANTS Calls,     \* invocations of the entry point that may overlap
          Runtimes,  \* runtime digests
          Ranges,    \* Range requests an archive takes
          MaxFaults, \* failed requests, bad inputs, kills and crashes
          MaxEdits,  \* staged archives written anew
          None

ASSUME DownloadAssumption ==
    /\ None \notin Calls \cup Runtimes
    /\ Ranges \in Nat \ {0}
    /\ {MaxFaults, MaxEdits} \subseteq Nat

VARIABLES pc, want, source, callback, got, told, exit,  \* the calls
          lock, staged,                                 \* the volume
          complete, safe, exposed, recorded,            \* RuntimeStore
          faults, edits

config  == <<want, source, callback>>
outcome == <<told, exit>>
store   == <<complete, safe, exposed, recorded>>
env     == <<faults, edits>>
vars    == <<pc, config, got, outcome, lock, staged, store, env>>

Store == INSTANCE RuntimeStore WITH Digests <- Runtimes

Contents == {"declared", "other", "torn"}
Locked == {"extract", "install", "persist", "expose", "confirm"}
PC == {"idle", "prepare", "range", "digest", "hash", "lock", "post", "postError"}
        \cup Locked

Init == /\ pc = [c \in Calls |-> "idle"]
        /\ want \in [Calls -> Runtimes]
        /\ source = [c \in Calls |-> "staged"]
        /\ callback = [c \in Calls |-> FALSE]
        /\ got = [c \in Calls |-> <<>>]
        /\ told = [c \in Calls |-> "nothing"]
        /\ exit = [c \in Calls |-> "none"]
        /\ lock = None
        /\ staged = [d \in Runtimes |-> "declared"]
        /\ Store!StoreInit
        /\ faults = 0 /\ edits = 0
-----------------------------------------------------------------------------
Fault == faults < MaxFaults /\ faults' = faults + 1 /\ UNCHANGED edits

Goto(c, next) == pc' = [pc EXCEPT ![c] = next] /\ UNCHANGED <<got, outcome>>

(* run() is left: its temporary directory goes.                            *)
Discard(c) == got' = [got EXCEPT ![c] = <<>>]

(* main() with a RuntimeDownloadError: the report comes before the exit.   *)
Fail(c) ==
    /\ Discard(c)
    /\ IF callback[c]
       THEN pc' = [pc EXCEPT ![c] = "postError"] /\ UNCHANGED outcome
       ELSE /\ pc' = [pc EXCEPT ![c] = "idle"]
            /\ exit' = [exit EXCEPT ![c] = "error"]
            /\ UNCHANGED told

(* from_environment of a Pod the control plane has started.                *)
Start(c, d, src, cb) ==
    /\ pc[c] = "idle"
    /\ want' = [want EXCEPT ![c] = d]
    /\ source' = [source EXCEPT ![c] = src]
    /\ callback' = [callback EXCEPT ![c] = cb]
    /\ told' = [told EXCEPT ![c] = "nothing"]
    /\ \/ /\ pc' = [pc EXCEPT ![c] = "prepare"]
          /\ exit' = [exit EXCEPT ![c] = "none"]
          /\ UNCHANGED env
       \/ Fault /\ exit' = [exit EXCEPT ![c] = "error"] /\ UNCHANGED pc
    /\ UNCHANGED <<got, lock, staged, store>>

(* run() up to the archive: the volume, the manifest, which is downloaded  *)
(* in the URL branch, the mode probe.                                      *)
Prepare(c) ==
    /\ pc[c] = "prepare"
    /\ \/ Goto(c, IF source[c] = "url" THEN "range" ELSE "hash") /\ UNCHANGED env
       \/ Fault /\ Fail(c)
    /\ UNCHANGED <<config, lock, staged, store>>

(* _download_range_chunks: the next interval.  A response that is not 206, *)
(* that names another interval or that has another length fails the call.  *)
(* (Mutant: one request after the last.)                                   *)
FetchWhile(c, more) ==
    /\ pc[c] = "range" /\ more
    /\ \/ /\ got' = [got EXCEPT ![c] = Append(@, Len(@) + 1)]
          /\ UNCHANGED <<pc, outcome, env>>
       \/ Fault /\ got' = [got EXCEPT ![c] = Append(@, 0)] /\ UNCHANGED <<pc, outcome>>
       \/ Fault /\ Fail(c)
    /\ UNCHANGED <<config, lock, staged, store>>
RangePastEnd(c) == FetchWhile(c, Len(got[c]) <= Ranges)
NextRange(c) == FetchWhile(c, Len(got[c]) < Ranges)

Downloaded(c) == IF got[c] = [i \in 1 .. Ranges |-> i] THEN "declared" ELSE "torn"

DownloadEnds(c) ==
    /\ pc[c] = "range" /\ Len(got[c]) = Ranges
    /\ IF Downloaded(c) = "declared" THEN Goto(c, "hash") ELSE Fail(c)
    /\ UNCHANGED <<config, lock, staged, store, env>>

(* The archive a call has been given: on the volume, or in its own /tmp.   *)
Archive(c) == IF source[c] = "staged" THEN staged[want[c]] ELSE Downloaded(c)

(* _validate_archive_input: before the lock.                               *)
HashArchive(c) ==
    /\ pc[c] = "hash"
    /\ \/ (IF Archive(c) = "declared" THEN Goto(c, "lock") ELSE Fail(c)) /\ UNCHANGED env
       \/ Fault /\ Fail(c)
    /\ UNCHANGED <<config, lock, staged, store>>

WinLock(c) ==
    /\ pc[c] = "lock" /\ lock = None
    /\ lock' = c
    /\ Goto(c, "extract")
    /\ UNCHANGED <<config, staged, store, env>>

(* A generation that is there is used; otherwise the archive is opened     *)
(* again, and the tree that comes out of it is verified.  (Mutant: what    *)
(* another call has installed is an error.)                                *)
Unpack(c) ==
    \/ /\ Archive(c) # "torn"
       /\ Goto(c, "install") /\ UNCHANGED lock
    \/ /\ Archive(c) = "torn"
       /\ Fail(c) /\ lock' = None

RefuseExisting(c) ==
    /\ pc[c] = "extract"
    /\ \/ want[c] \in complete /\ Fail(c) /\ lock' = None
       \/ want[c] \notin complete /\ Unpack(c)
    /\ UNCHANGED <<config, staged, store, env>>
Extract(c) ==
    /\ pc[c] = "extract"
    /\ \/ want[c] \in complete /\ Goto(c, "install") /\ UNCHANGED lock
       \/ want[c] \notin complete /\ Unpack(c)
    /\ UNCHANGED <<config, staged, store, env>>

(* The materializer's publication.  (Mutant: the last barrier is skipped.) *)
Install(c) ==
    /\ pc[c] = "install"
    /\ Store!Install(want[c])
    /\ Goto(c, "persist")
    /\ UNCHANGED <<config, lock, staged, env>>

Persist(c) ==
    /\ pc[c] = "persist"
    /\ Store!Persist
    /\ Goto(c, "expose")
    /\ UNCHANGED <<config, lock, staged, env>>

Expose(c) ==
    /\ pc[c] = "expose"
    /\ Store!Expose(want[c])
    /\ Goto(c, "confirm")
    /\ UNCHANGED <<config, lock, staged, env>>

ConfirmInMemory(c) ==
    /\ pc[c] = "confirm"
    /\ pc' = [pc EXCEPT ![c] = "post"] /\ UNCHANGED outcome
    /\ lock' = None /\ Discard(c)
    /\ UNCHANGED <<config, staged, store, env>>
Confirm(c) ==
    /\ pc[c] = "confirm"
    /\ Store!Persist
    /\ pc' = [pc EXCEPT ![c] = "post"] /\ UNCHANGED outcome
    /\ lock' = None /\ Discard(c)
    /\ UNCHANGED <<config, staged, env>>

(* A RuntimeMaterializerError.                                             *)
Raise(c) ==
    /\ pc[c] \in Locked
    /\ Fault /\ Fail(c) /\ lock' = None
    /\ UNCHANGED <<config, staged, store>>
-----------------------------------------------------------------------------
Exit(c, code) == /\ pc' = [pc EXCEPT ![c] = "idle"]
                 /\ exit' = [exit EXCEPT ![c] = code]

(* _post_result of a success.  A post that fails may have been received,   *)
(* and fails the call; no second report follows.                           *)
PostResult(c) ==
    /\ pc[c] = "post"
    /\ \/ ~callback[c] /\ Exit(c, "ok") /\ UNCHANGED <<told, env>>
       \/ /\ callback[c] /\ Exit(c, "ok")
          /\ told' = [told EXCEPT ![c] = "ok"] /\ UNCHANGED env
       \/ /\ callback[c] /\ Fault /\ Exit(c, "error")
          /\ told' \in {told, [told EXCEPT ![c] = "ok"]}
    /\ UNCHANGED <<config, got, lock, staged, store>>

(* Of a failure: whether it is delivered changes nothing.                  *)
PostError(c) ==
    /\ pc[c] = "postError"
    /\ Exit(c, "error")
    /\ \/ told' = [told EXCEPT ![c] = "error"] /\ UNCHANGED env
       \/ Fault /\ told' \in {told, [told EXCEPT ![c] = "error"]}
    /\ UNCHANGED <<config, got, lock, staged, store>>
-----------------------------------------------------------------------------
(* What a call that is cut off while it posts may have delivered.          *)
Delivered(c) == CASE pc[c] = "post" /\ callback[c] -> {told[c], "ok"}
                  [] pc[c] = "postError" -> {told[c], "error"}
                  [] OTHER -> {told[c]}

(* The Pod is terminated.                                                  *)
Kill(c) ==
    /\ pc[c] # "idle"
    /\ Fault /\ Exit(c, "killed") /\ Discard(c)
    /\ \E v \in Delivered(c) : told' = [told EXCEPT ![c] = v]
    /\ lock' = IF lock = c THEN None ELSE lock
    /\ UNCHANGED <<config, staged, store>>

(* The host of the volume crashes, and the Pods with it.                   *)
HostCrash ==
    /\ Fault /\ Store!Crash
    /\ pc' = [c \in Calls |-> "idle"]
    /\ got' = [c \in Calls |-> <<>>]
    /\ exit' = [c \in Calls |-> IF pc[c] = "idle" THEN exit[c] ELSE "killed"]
    /\ lock' = None
    /\ UNCHANGED <<config, told, staged>>

(* The control plane stages an archive again under its name.               *)
Restage(d, content) ==
    /\ edits < MaxEdits /\ edits' = edits + 1
    /\ staged' = [staged EXCEPT ![d] = content]
    /\ UNCHANGED <<pc, config, got, outcome, lock, store, faults>>

Step(c) == \/ Prepare(c) \/ NextRange(c) \/ DownloadEnds(c) \/ HashArchive(c)
           \/ Extract(c) \/ Install(c) \/ Persist(c) \/ Expose(c) \/ Confirm(c)
           \/ PostResult(c) \/ PostError(c)

Next == \/ \E c \in Calls :
              \/ \E d \in Runtimes, src \in {"staged", "url"}, cb \in BOOLEAN :
                    Start(c, d, src, cb)
              \/ Step(c) \/ WinLock(c) \/ Raise(c) \/ Kill(c)
        \/ HostCrash
        \/ \E d \in Runtimes, content \in Contents : Restage(d, content)

Spec == Init /\ [][Next]_vars
(* Requests have timeouts, and flock serves its waiters.                   *)
FairSpec == Spec /\ \A c \in Calls : WF_vars(Step(c)) /\ SF_vars(WinLock(c))
-----------------------------------------------------------------------------
TypeOK ==
    /\ pc \in [Calls -> PC] /\ want \in [Calls -> Runtimes]
    /\ source \in [Calls -> {"staged", "url"}] /\ callback \in [Calls -> BOOLEAN]
    /\ got \in [Calls -> Seq(0 .. Ranges)] /\ \A c \in Calls : Len(got[c]) <= Ranges
    /\ told \in [Calls -> {"nothing", "ok", "error"}]
    /\ exit \in [Calls -> {"none", "ok", "error", "killed"}]
    /\ lock \in Calls \cup {None}
    /\ staged \in [Runtimes -> Contents]
    /\ complete \subseteq Runtimes /\ safe \subseteq Runtimes
    /\ exposed \in Runtimes \cup {None} /\ recorded \in Runtimes \cup {None}
    /\ faults \in Nat /\ edits \in Nat

(* The control plane that has received a success may boot Pods from that   *)
(* runtime for ever: no crash takes it away or leaves the volume without a *)
(* current one, and neither does a call that posted it and then exited     *)
(* with an error, or was killed meanwhile.                                 *)
OkMeansDurable ==
    \A c \in Calls : told[c] = "ok" \/ exit[c] = "ok" =>
                     want[c] \in safe /\ recorded # None

(* A call that starts when faults and edits are over, with the archive it  *)
(* was promised, exits successfully, also when it must wait for others.    *)
RetrySucceeds ==
    \A c \in Calls :
        (/\ pc[c] = "prepare" /\ faults = MaxFaults /\ edits = MaxEdits
         /\ source[c] = "url" \/ staged[want[c]] = "declared")
        ~> exit[c] = "ok"
=============================================================================
