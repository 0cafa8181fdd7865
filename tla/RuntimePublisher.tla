--------------------------- MODULE RuntimePublisher ---------------------------
(***************************************************************************)
(* scripts/publish_runtime.py: publishers, of one release or of several,   *)
(* upload archives and manifests under content-addressed keys and move the *)
(* small channel pointers, all in one object store.                        *)
(*                                                                         *)
(*   archive[a]   runtimes/archives/sha256-<a>.tar.zst: its bytes          *)
(*   manifest     the keys of runtimes/manifests/ that exist               *)
(*   channel[c]   runtimes/channels/<c>.json: the item it names            *)
(*   open         publishers with a multipart upload in progress           *)
(*   late         channel writes whose sender has given up on them and     *)
(*                which may still be applied                               *)
(*                                                                         *)
(* HEAD shows an object's size and the digest its writer claimed, never    *)
(* its bytes: an archive whose file changed under the upload looks whole.  *)
(***************************************************************************)
EXTENDS Naturals

CONSTANTS Publishers, Items, Channels,
          Archives,   \* archive digests
          ArchiveOf,  \* the archive an item's manifest declares
          Parts,      \* parts of an archive's multipart upload
          MaxCalls,   \* publications that are ever started
          MaxFaults,  \* failed requests and killed publishers
          MaxEdits,   \* local archives rewritten during an upload
          None

ASSUME PublisherAssumption ==
    /\ ArchiveOf \in [Items -> Archives]
    /\ None \notin Items
    /\ Parts \in Nat \ {0}
    /\ {MaxCalls, MaxFaults, MaxEdits} \subseteq Nat

VARIABLES pc, item, chan, result, parts, torn,       \* the publishers
          edited, calls,
          archive, manifest, channel, open, late,    \* the object store
          abandoned,                                 \* uploads nobody will end
          seen,                                      \* items readers were sent to
          faults, edits

own   == <<item, chan, calls>>
file  == <<parts, torn, edited>>
store == <<archive, manifest, channel, open, late, abandoned>>
env   == <<seen, faults, edits>>
vars  == <<pc, own, result, file, store, env>>

PC == {"idle", "headArchive", "create", "parts", "complete", "abort",
       "verifyArchive", "headManifest", "putManifest", "verifyManifest",
       "headChannel", "putChannel", "verifyChannel"}

Archive(p) == ArchiveOf[item[p]]

Init == /\ pc = [p \in Publishers |-> "idle"]
        /\ item \in [Publishers -> Items] /\ chan \in [Publishers -> Channels]
        /\ result = [p \in Publishers |-> "none"]
        /\ parts = [p \in Publishers |-> 0]
        /\ torn = [p \in Publishers |-> FALSE]
        /\ edited = {} /\ calls = 0
        /\ archive = [a \in Archives |-> "absent"] /\ manifest = {}
        /\ channel = [c \in Channels |-> None]
        /\ open = {} /\ late = {} /\ abandoned = 0
        /\ seen = {} /\ faults = 0 /\ edits = 0
-----------------------------------------------------------------------------
Fault == faults < MaxFaults /\ faults' = faults + 1 /\ UNCHANGED <<seen, edits>>

Goto(p, step) == pc' = [pc EXCEPT ![p] = step] /\ UNCHANGED result

End(p, outcome) == /\ pc' = [pc EXCEPT ![p] = "idle"]
                   /\ result' = [result EXCEPT ![p] = outcome]

(* prepare_publish: the local archive has the manifest's size and digest.  *)
Publish(p, i, c) ==
    /\ pc[p] = "idle" /\ calls < MaxCalls
    /\ calls' = calls + 1
    /\ item' = [item EXCEPT ![p] = i] /\ chan' = [chan EXCEPT ![p] = c]
    /\ edited' = edited \ {p}
    /\ pc' = [pc EXCEPT ![p] = "headArchive"]
    /\ result' = [result EXCEPT ![p] = "none"]
    /\ UNCHANGED <<parts, torn, store, env>>

(* A HEAD that fails for another reason than a missing key.                *)
HeadFails(p) ==
    /\ pc[p] \in {"headArchive", "verifyArchive", "headManifest",
                  "verifyManifest", "headChannel", "verifyChannel"}
    /\ Fault /\ End(p, "error")
    /\ UNCHANGED <<own, file, store>>

(* _immutable_exists of the archive.  (Mutant: an object that is there is  *)
(* taken for a conflict.)                                                  *)
RefuseExisting(p) ==
    /\ pc[p] = "headArchive"
    /\ IF archive[Archive(p)] = "absent" THEN Goto(p, "create") ELSE End(p, "error")
    /\ UNCHANGED <<own, file, store, env>>

HeadArchive(p) ==
    /\ pc[p] = "headArchive"
    /\ Goto(p, IF archive[Archive(p)] = "absent" THEN "create" ELSE "headManifest")
    /\ UNCHANGED <<own, file, store, env>>

(* _multipart_upload; a failed request may have been served all the same.  *)
CreateUpload(p) ==
    /\ pc[p] = "create"
    /\ parts' = [parts EXCEPT ![p] = 0] /\ torn' = [torn EXCEPT ![p] = FALSE]
    /\ \/ Goto(p, "parts") /\ open' = open \cup {p} /\ UNCHANGED <<abandoned, env>>
       \/ Fault /\ End(p, "error") /\ abandoned' \in {abandoned, abandoned + 1}
            /\ UNCHANGED open
    /\ UNCHANGED <<own, edited, archive, manifest, channel, late>>

(* (Mutant: the end of the file is not seen.)                              *)
UploadPastEnd(p) ==
    /\ pc[p] = "parts"
    /\ parts' = [parts EXCEPT ![p] = @ + 1]
    /\ UNCHANGED <<pc, own, result, torn, edited, store, env>>
UploadPart(p) ==
    /\ pc[p] = "parts" /\ parts[p] < Parts
    /\ \/ /\ parts' = [parts EXCEPT ![p] = @ + 1]
          /\ torn' = [torn EXCEPT ![p] = @ \/ p \in edited]
          /\ UNCHANGED <<pc, result, env>>
       \/ Fault /\ Goto(p, "abort") /\ UNCHANGED <<parts, torn>>
    /\ UNCHANGED <<own, edited, store>>

(* The bytes that were sent are hashed on the way.  (Mutant: the digest    *)
(* prepare_publish took is trusted.)                                       *)
TrustFirstHash(p) == TRUE
SentAsHashed(p) == ~torn[p]

EndOfArchive(p) ==
    /\ pc[p] = "parts" /\ parts[p] = Parts
    /\ Goto(p, IF SentAsHashed(p) THEN "complete" ELSE "abort")
    /\ UNCHANGED <<own, file, store, env>>

Stored(p) == [archive EXCEPT ![Archive(p)] = IF torn[p] THEN "torn" ELSE "whole"]

CompleteUpload(p) ==
    /\ pc[p] = "complete"
    /\ \/ /\ archive' = Stored(p) /\ open' = open \ {p}
          /\ Goto(p, "verifyArchive") /\ UNCHANGED env
       \/ /\ Fault /\ Goto(p, "abort")
          /\ \/ archive' = Stored(p) /\ open' = open \ {p}
             \/ UNCHANGED <<archive, open>>
    /\ UNCHANGED <<own, file, manifest, channel, late, abandoned>>

Abandon(p) == /\ abandoned' = IF p \in open THEN abandoned + 1 ELSE abandoned
              /\ open' = open \ {p}

(* _abort: its own failure is only logged.  (Mutant: it is not called.)    *)
SkipAbort(p) ==
    /\ pc[p] = "abort"
    /\ End(p, "error")
    /\ UNCHANGED <<own, file, store, env>>

AbortUpload(p) ==
    /\ pc[p] = "abort"
    /\ End(p, "error")
    /\ \/ open' = open \ {p} /\ UNCHANGED <<abandoned, env>>
       \/ Fault /\ Abandon(p)
    /\ UNCHANGED <<own, file, archive, manifest, channel, late>>

VerifyArchive(p) ==
    /\ pc[p] = "verifyArchive"
    /\ IF archive[Archive(p)] # "absent" THEN Goto(p, "headManifest") ELSE End(p, "error")
    /\ UNCHANGED <<own, file, store, env>>
-----------------------------------------------------------------------------
(* _put_small of the manifest, unless its key exists.  (Mutant: the        *)
(* pointer is looked at first.)                                            *)
ChannelFirst(p) ==
    /\ pc[p] = "headManifest"
    /\ Goto(p, "headChannel")
    /\ UNCHANGED <<own, file, store, env>>

HeadManifest(p) ==
    /\ pc[p] = "headManifest"
    /\ Goto(p, IF item[p] \in manifest THEN "headChannel" ELSE "putManifest")
    /\ UNCHANGED <<own, file, store, env>>

PutManifest(p) ==
    /\ pc[p] = "putManifest"
    /\ \/ manifest' = manifest \cup {item[p]} /\ Goto(p, "verifyManifest") /\ UNCHANGED env
       \/ Fault /\ End(p, "error") /\ manifest' \in {manifest, manifest \cup {item[p]}}
    /\ UNCHANGED <<own, file, archive, channel, open, late, abandoned>>

VerifyManifest(p) ==
    /\ pc[p] = "verifyManifest"
    /\ IF item[p] \in manifest THEN Goto(p, "headChannel") ELSE End(p, "error")
    /\ UNCHANGED <<own, file, store, env>>

(* publish(): the pointer is left alone when it is what it should be.      *)
HeadChannel(p) ==
    /\ pc[p] = "headChannel"
    /\ IF channel[chan[p]] = item[p] THEN End(p, "published") ELSE Goto(p, "putChannel")
    /\ UNCHANGED <<own, file, store, env>>

PutChannel(p) ==
    /\ pc[p] = "putChannel"
    /\ \/ /\ channel' = [channel EXCEPT ![chan[p]] = item[p]]
          /\ Goto(p, "verifyChannel") /\ UNCHANGED <<late, env>>
       \/ /\ Fault /\ End(p, "error") /\ UNCHANGED channel
          /\ late' \in {late, late \cup {<<chan[p], item[p]>>}}
    /\ UNCHANGED <<own, file, archive, manifest, open, abandoned>>

(* The pointer of another publisher is taken for a failed upload.          *)
VerifyChannel(p) ==
    /\ pc[p] = "verifyChannel"
    /\ End(p, IF channel[chan[p]] = item[p] THEN "published" ELSE "error")
    /\ UNCHANGED <<own, file, store, env>>
-----------------------------------------------------------------------------
Kill(p) ==
    /\ pc[p] # "idle"
    /\ Fault /\ End(p, "error") /\ Abandon(p)
    /\ late' \in {late} \cup (IF pc[p] = "putChannel"
                              THEN {late \cup {<<chan[p], item[p]>>}} ELSE {})
    /\ UNCHANGED <<own, file, archive, manifest, channel>>

(* The local file is written to while it is published.                     *)
EditArchive(p) ==
    /\ pc[p] # "idle" /\ edits < MaxEdits
    /\ edits' = edits + 1
    /\ edited' = edited \cup {p}
    /\ UNCHANGED <<pc, own, result, parts, torn, store, seen, faults>>

(* A write its sender no longer waits for is applied.                      *)
LateWrite(c, i) ==
    /\ <<c, i>> \in late
    /\ late' = late \ {<<c, i>>}
    /\ channel' = [channel EXCEPT ![c] = i]
    /\ UNCHANGED <<pc, own, result, file, archive, manifest, open, abandoned, env>>

(* A control plane reads a pointer and will fetch what it names, some time.*)
ReadChannel(c) ==
    /\ channel[c] # None
    /\ seen' = seen \cup {channel[c]}
    /\ UNCHANGED <<pc, own, result, file, store, faults, edits>>

Step(p) == \/ HeadArchive(p) \/ CreateUpload(p) \/ UploadPart(p)
           \/ EndOfArchive(p) \/ CompleteUpload(p) \/ AbortUpload(p)
           \/ VerifyArchive(p) \/ HeadManifest(p) \/ PutManifest(p)
           \/ VerifyManifest(p) \/ HeadChannel(p) \/ PutChannel(p)
           \/ VerifyChannel(p)

Next == \/ \E p \in Publishers :
              \/ \E i \in Items, c \in Channels : Publish(p, i, c)
              \/ Step(p) \/ HeadFails(p) \/ Kill(p) \/ EditArchive(p)
        \/ \E c \in Channels, i \in Items : LateWrite(c, i)
        \/ \E c \in Channels : ReadChannel(c)

Spec == Init /\ [][Next]_vars
(* Requests end: the client has connect and read timeouts.                 *)
FairSpec == Spec /\ \A p \in Publishers : WF_vars(Step(p))
-----------------------------------------------------------------------------
TypeOK ==
    /\ pc \in [Publishers -> PC]
    /\ item \in [Publishers -> Items] /\ chan \in [Publishers -> Channels]
    /\ result \in [Publishers -> {"none", "published", "error"}]
    /\ parts \in [Publishers -> 0 .. Parts]
    /\ torn \in [Publishers -> BOOLEAN]
    /\ edited \subseteq Publishers /\ calls \in Nat
    /\ archive \in [Archives -> {"absent", "whole", "torn"}]
    /\ manifest \subseteq Items
    /\ channel \in [Channels -> Items \cup {None}]
    /\ open \subseteq Publishers /\ late \subseteq Channels \X Items
    /\ abandoned \in Nat /\ seen \subseteq Items
    /\ faults \in Nat /\ edits \in Nat

(* What a reader was sent to, however long ago and whoever has moved the   *)
(* pointer since, can be fetched: the archive with the bytes it is named   *)
(* for, and the manifest.  Also for a pointer written by a publisher that  *)
(* died or reported an error.                                              *)
Deliverable(i) == archive[ArchiveOf[i]] = "whole" /\ i \in manifest
SeenIsDeliverable == \A i \in seen : Deliverable(i)

(* A content-addressed object never changes: of two publishers that both   *)
(* found no archive, the second to complete stores the same bytes.         *)
ArchivesImmutable ==
    [][\A a \in Archives : archive[a] # "absent" => archive'[a] = archive[a]]_vars

(* Every multipart upload is completed or aborted, on every way out of     *)
(* _multipart_upload, after whatever failed: one that is open belongs to a *)
(* publisher that will still end it.  Only a creation or an abort whose own*)
(* request fails, or a kill, leaves one behind.                            *)
AbandonedOnlyByFaults ==
    /\ \A p \in open : pc[p] \in {"parts", "complete", "abort"}
    /\ abandoned <= faults

(* Whatever failed calls have left in the store, the next call that meets  *)
(* no fault, no edit and no other publisher ends with the pointer moved.   *)
RetrySucceeds ==
    \A p \in Publishers :
        (/\ pc[p] = "headArchive" /\ p \notin edited
         /\ faults = MaxFaults /\ edits = MaxEdits /\ calls = MaxCalls
         /\ late = {} /\ \A q \in Publishers \ {p} : pc[q] = "idle")
        ~> result[p] = "published" /\ channel[chan[p]] = item[p]
=============================================================================
