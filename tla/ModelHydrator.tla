---------------------------- MODULE ModelHydrator ----------------------------
(***************************************************************************)
(* docker/hydrator/model_hydrator.py: one-shot Pods hydrate the model file *)
(* at one path of a shared volume.  The control plane's writer lease means *)
(* that a Pod starts only when the one before it has gone.                 *)
(*                                                                         *)
(*   partial   <artifact>.partial, resumed with an HTTP Range request      *)
(*   artifact  the model itself                                            *)
(*   marker    <artifact>.manifest.json, the version it vouches for        *)
(*   markerTmp <artifact>.manifest.json.tmp, Mixed while it is written     *)
(*                                                                         *)
(* A file is its size, in chunks, and the version its bytes are a prefix   *)
(* of; Mixed when they are a prefix of none.                               *)
(***************************************************************************)
EXTENDS Naturals

CONSTANTS Versions,  \* model versions the catalogue has offered for this path
          SizeOf,    \* the size of each version in chunks
          Headroom,  \* reserve and overhead the capacity check asks for
          Capacity,  \* chunks the volume has room for
          MaxFaults, \* kills, I/O errors and misbehaving sources
          Mixed, None

ASSUME HydratorAssumption ==
    /\ SizeOf \in [Versions -> Nat \ {0}]
    /\ {Headroom, Capacity, MaxFaults} \subseteq Nat
    /\ {Mixed, None} \cap Versions = {} /\ Mixed # None
    /\ None \notin [size : Nat, of : Versions \cup {Mixed}]

VARIABLES pc, want, honours, result, exit,       \* the Pod
          partial, artifact, marker, markerTmp,  \* the volume
          faults

pod   == <<want, honours, result, exit>>
files == <<partial, artifact, marker, markerTmp>>
vars  == <<pc, pod, files, faults>>

File == [size : Nat, of : Versions \cup {Mixed}]
Running == {"manifest", "check", "request", "body", "size", "hash", "replace",
            "mark", "write", "publish", "report"}

Size(f) == IF f = None THEN 0 ELSE f.size

Init == /\ pc = "idle" /\ want \in Versions /\ honours \in BOOLEAN
        /\ result = "none" /\ exit = "none"
        /\ partial = None /\ artifact = None /\ marker = None /\ markerTmp = None
        /\ faults = 0
-----------------------------------------------------------------------------
(* main(): a Pod is started for version v, and a source that honours Range *)
(* requests or does not.                                                   *)
Start(v, ranges) ==
    /\ pc = "idle"
    /\ pc' = "manifest" /\ want' = v /\ honours' = ranges
    /\ result' = "none" /\ exit' = "none"
    /\ UNCHANGED <<files, faults>>

Fault == faults < MaxFaults /\ faults' = faults + 1

(* hydrate() is over: a result, or a HydrationError that main() turns into *)
(* one, is to be reported.                                                 *)
Finish(code) == pc' = "report" /\ result' = code /\ UNCHANGED <<want, honours, exit>>

(* load_manifest and validate_manifest.                                    *)
LoadManifest ==
    /\ pc = "manifest"
    /\ \/ pc' = "check" /\ UNCHANGED <<pod, faults>>
       \/ Fault /\ Finish("manifest_rejected")
    /\ UNCHANGED files

(* existing_artifact_ready: both files, the size, the marker's content;    *)
(* the bytes are not hashed again.                                         *)
ExistingArtifactReady ==
    artifact # None /\ marker = want /\ artifact.size = SizeOf[want]

(* capacity(): what is left once both files are counted.                   *)
Enough == Size(partial) + Size(artifact) + SizeOf[want] + Headroom <= Capacity

(* (Mutant: the old marker stays until the new one replaces it.)           *)
KeepMarker == marker' = marker /\ markerTmp' = None
ClearMarker == marker' = None /\ markerTmp' = None

(* hydrate() up to the download.                                           *)
CheckExisting ==
    /\ pc = "check"
    /\ IF ExistingArtifactReady
       THEN Finish("already_ready") /\ UNCHANGED <<marker, markerTmp>>
       ELSE IF ~Enough
       THEN Finish("insufficient_volume_capacity") /\ UNCHANGED <<marker, markerTmp>>
       ELSE pc' = "request" /\ ClearMarker /\ UNCHANGED pod
    /\ UNCHANGED <<partial, artifact, faults>>

EmptyFile == [size |-> 0, of |-> want]

(* The bytes a request asks the source to skip: a longer partial has been  *)
(* unlinked first.  (Mutant: it is resumed whatever its length.)           *)
ResumeAnyOffset == Size(partial)
Offset == IF Size(partial) > SizeOf[want] THEN 0 ELSE Size(partial)

(* download() up to the response: a Range that starts at the end of the    *)
(* file is unsatisfiable (416), one the source ignores starts again.       *)
Request ==
    /\ pc = "request"
    /\ LET status == IF Offset = 0 \/ ~honours THEN 200
                     ELSE IF Offset < SizeOf[want] THEN 206 ELSE 416
       IN  \/ status = 200 /\ pc' = "body" /\ partial' = EmptyFile
               /\ UNCHANGED <<pod, faults>>
           \/ status = 206 /\ pc' = "body" /\ UNCHANGED <<partial, pod, faults>>
           \/ status = 416 /\ Finish("source_rejected") /\ UNCHANGED <<partial, faults>>
           \/ Fault /\ Finish("source_rejected")
               /\ partial' = IF Size(partial) > SizeOf[want] THEN None ELSE partial
    /\ UNCHANGED <<artifact, marker, markerTmp>>

(* The bytes of version v appended to a file that holds a prefix of v are  *)
(* a longer prefix of v.                                                   *)
Append(f, v) == [size |-> f.size + 1,
                 of |-> IF f.of = v THEN v ELSE Mixed]

(* download(): chunks until the source ends; it may end early, or carry    *)
(* other bytes than the catalogue's.                                       *)
Body ==
    /\ pc = "body"
    /\ \/ /\ partial.size < SizeOf[want]
          /\ \/ partial' = Append(partial, want) /\ UNCHANGED faults
             \/ partial' = Append(partial, Mixed) /\ Fault
          /\ UNCHANGED <<pc, pod>>
       \/ /\ partial.size >= SizeOf[want] /\ UNCHANGED faults
          /\ pc' = "size" /\ UNCHANGED <<partial, pod>>
       \/ Fault /\ pc' = "size" /\ UNCHANGED <<partial, pod>>
    /\ UNCHANGED <<artifact, marker, markerTmp>>

CheckSize ==
    /\ pc = "size"
    /\ IF partial.size = SizeOf[want]
       THEN pc' = "hash" /\ UNCHANGED pod
       ELSE Finish("source_size_mismatch")
    /\ UNCHANGED <<files, faults>>

(* A whole version has its digest, nothing else does.                      *)
DigestIs(f, v) == f.of = v /\ f.size = SizeOf[v]

(* file_sha256 against the manifest.                                       *)
Verified(f, v) == DigestIs(f, v)

(* (Mutant: what the bad download was to replace is dropped with it.)      *)
DropBoth ==
    /\ pc = "hash"
    /\ IF Verified(partial, want)
       THEN pc' = "replace" /\ UNCHANGED <<partial, artifact, pod>>
       ELSE partial' = None /\ artifact' = None /\ Finish("source_sha256_mismatch")
    /\ UNCHANGED <<marker, markerTmp, faults>>

CheckDigest ==
    /\ pc = "hash"
    /\ IF Verified(partial, want)
       THEN pc' = "replace" /\ UNCHANGED <<partial, pod>>
       ELSE partial' = None /\ Finish("source_sha256_mismatch")
    /\ UNCHANGED <<artifact, marker, markerTmp, faults>>

ReplaceArtifact ==
    /\ pc = "replace"
    /\ artifact' = partial /\ partial' = None
    /\ pc' = "mark"
    /\ UNCHANGED <<pod, marker, markerTmp, faults>>

(* marker_temporary.write_text: truncated, then written.  (Mutant: the     *)
(* marker is written in its final place.)                                  *)
WriteInPlace ==
    /\ \/ pc = "mark" /\ pc' = "write" /\ marker' = Mixed
       \/ pc = "write" /\ pc' = "publish" /\ marker' = want
    /\ UNCHANGED <<pod, partial, artifact, markerTmp, faults>>

WriteMarker ==
    /\ \/ pc = "mark" /\ pc' = "write" /\ markerTmp' = Mixed
       \/ pc = "write" /\ pc' = "publish" /\ markerTmp' = want
    /\ UNCHANGED <<pod, partial, artifact, marker, faults>>

PublishMarker ==
    /\ pc = "publish"
    /\ marker' = markerTmp /\ markerTmp' = None
    /\ Finish("ready")
    /\ UNCHANGED <<partial, artifact, faults>>

(* report() and the end of the process.                                    *)
Report ==
    /\ pc = "report"
    /\ \/ exit' = "reported" /\ UNCHANGED faults
       \/ exit' = "report_failed" /\ Fault
    /\ pc' = "idle"
    /\ UNCHANGED <<want, honours, result, files>>
-----------------------------------------------------------------------------
(* An OSError (a connection reset, a full volume) is no HydrationError: it *)
(* leaves main() without a report.                                         *)
Escape ==
    /\ pc \in Running \ {"report"}
    /\ Fault
    /\ pc' = "idle" /\ exit' = "escaped"
    /\ UNCHANGED <<want, honours, result, files>>

(* The control plane terminates the Pod, at its deadline or by mistake.    *)
Terminate ==
    /\ pc \in Running
    /\ Fault
    /\ pc' = "idle" /\ exit' = "terminated"
    /\ UNCHANGED <<want, honours, result, files>>

Step == \/ LoadManifest \/ CheckExisting \/ Request \/ Body \/ CheckSize
        \/ CheckDigest \/ ReplaceArtifact \/ WriteMarker \/ PublishMarker
        \/ Report

Next == \/ \E v \in Versions, ranges \in BOOLEAN : Start(v, ranges)
        \/ Step \/ Escape \/ Terminate

Spec == Init /\ [][Next]_vars
(* A Pod that runs makes progress until its faults; the downloads' timeout *)
(* turns a silent source into an OSError.                                  *)
FairSpec == Spec /\ WF_vars(Step)
-----------------------------------------------------------------------------
TypeOK ==
    /\ pc \in Running \cup {"idle"} /\ want \in Versions /\ honours \in BOOLEAN
    /\ result \in {"none", "already_ready", "ready", "manifest_rejected",
                   "insufficient_volume_capacity", "source_rejected",
                   "source_size_mismatch", "source_sha256_mismatch"}
    /\ exit \in {"none", "reported", "report_failed", "escaped", "terminated"}
    /\ partial \in File \cup {None} /\ artifact \in File \cup {None}
    /\ marker \in Versions \cup {None}
    /\ markerTmp \in Versions \cup {Mixed, None}
    /\ faults \in Nat

(* Between any two steps and after any termination, what carries the       *)
(* model's name is a verified version; the marker never vouches for a file *)
(* that came before or after its own (existing_artifact_ready looks at     *)
(* sizes only); and "ready" is the answer to a download of this very run   *)
(* that is still there.                                                    *)
ArtifactIsVerified == artifact # None => \E v \in Versions : DigestIs(artifact, v)
MarkerVouches      == marker # None /\ artifact # None => DigestIs(artifact, marker)
ReadyIsVerified    == result = "ready" /\ pc = "report" => DigestIs(artifact, want)
OnlyVerifiedBytes  == ArtifactIsVerified /\ MarkerVouches /\ ReadyIsVerified

(* A published model is replaced by a verified one or stays: no failed run *)
(* leaves the path without a file.                                         *)
ArtifactNeverRemoved == [][artifact # None => artifact' # None]_artifact

(* A run that starts when the faults are over, on a volume with room, ends *)
(* ready: it resumes a shorter partial of its version and discards a       *)
(* longer one.  (A partial of another version costs the run that finds     *)
(* it.)  A complete partial is neither verified nor discarded: where       *)
(* Ranges are honoured the run asks for the bytes behind its end, is       *)
(* refused (416), and leaves the file to the next one.                     *)
Resumable == \/ partial = None
             \/ partial.size > SizeOf[want]
             \/ partial.of = want /\ partial.size < SizeOf[want]
CompletePartial == partial # None /\ partial.size = SizeOf[want]
LastRun == pc = "manifest" /\ faults = MaxFaults
RetrySucceeds ==
    /\ LastRun /\ Resumable ~> pc = "report" /\ result \in {"ready", "already_ready"}
    /\ LastRun /\ honours /\ CompletePartial /\ ~ExistingArtifactReady /\ Enough
          ~> pc = "report" /\ result = "source_rejected" /\ CompletePartial
=============================================================================
