------------------------- MODULE ModelHydratorProofs -------------------------
(***************************************************************************)
(* Theorems about ModelHydrator for any versions and sizes, any capacity   *)
(* and any number of faults.                                               *)
(***************************************************************************)
EXTENDS ModelHydrator, TLAPS

Downloading == {"body", "size", "hash", "replace"}
Marking     == {"mark", "write", "publish"}

(* What a Pod has established on its way: while it downloads there is a    *)
(* partial file, which is verified before it takes the artifact's place;   *)
(* from the download on there is no marker, and the one that is published  *)
(* names the version of the artifact.                                      *)
PartialInv ==
    /\ pc \in Downloading => partial \in File
    /\ pc = "replace" => DigestIs(partial, want)
MarkingInv ==
    /\ pc \in {"request"} \cup Downloading \cup Marking => marker = None
    /\ pc \in Marking => artifact # None /\ DigestIs(artifact, want)
    /\ pc = "publish" => markerTmp = want
    /\ pc = "report" /\ result = "ready" => artifact # None

IInv == TypeOK /\ OnlyVerifiedBytes /\ PartialInv /\ MarkingInv
-----------------------------------------------------------------------------
LEMMA NoneIsNoFile == None \notin File
  BY HydratorAssumption DEF File

LEMMA EmptyFileIsFile == ASSUME want \in Versions PROVE EmptyFile \in File
  BY DEF EmptyFile, File

LEMMA AppendIsFile ==
    ASSUME NEW f \in File, NEW v \in Versions \cup {Mixed}
    PROVE  Append(f, v) \in File
  BY DEF Append, File

USE DEF pod, files, OnlyVerifiedBytes, Downloading, Marking, Running, Finish

LEMMA InitInv == Init => IInv
  BY HydratorAssumption
  DEF Init, IInv, TypeOK, ArtifactIsVerified, MarkerVouches, ReadyIsVerified,
      PartialInv, MarkingInv

(* A step that leaves the artifact and the marker alone and comes to a     *)
(* position that promises nothing about them.                              *)
LEMMA Harmless ==
    ASSUME IInv, TypeOK', PartialInv',
           UNCHANGED <<artifact, marker>>,
           pc' = "report" => result' # "ready",
           pc' \notin Marking,
           pc' \in {"request"} \cup Downloading => marker = None
    PROVE  IInv'
<1>1. ArtifactIsVerified' /\ MarkerVouches'
  BY DEF IInv, ArtifactIsVerified, MarkerVouches, DigestIs
<1>2. ReadyIsVerified' /\ MarkingInv'
  BY DEF ReadyIsVerified, MarkingInv
<1>3. QED
  BY <1>1, <1>2 DEF IInv

LEMMA StartInv ==
    ASSUME IInv, NEW v \in Versions, NEW ranges \in BOOLEAN, Start(v, ranges)
    PROVE  IInv'
<1>1. TypeOK' /\ PartialInv'
  BY DEF IInv, Start, TypeOK, PartialInv
<1>2. QED
  BY <1>1, Harmless DEF Start

LEMMA LoadManifestInv == ASSUME IInv, LoadManifest PROVE IInv'
<1>1. TypeOK' /\ PartialInv'
  BY DEF IInv, LoadManifest, Fault, TypeOK, PartialInv
<1>2. QED
  BY <1>1, Harmless DEF LoadManifest

LEMMA CheckExistingInv == ASSUME IInv, CheckExisting PROVE IInv'
<1>1. TypeOK' /\ PartialInv'
  BY DEF IInv, CheckExisting, ClearMarker, TypeOK, PartialInv
<1>2. CASE UNCHANGED marker
  BY <1>1, <1>2, Harmless DEF CheckExisting, ClearMarker
<1>3. CASE pc' = "request" /\ marker' = None
  <2>1. ArtifactIsVerified' /\ MarkerVouches'
    BY <1>3 DEF IInv, CheckExisting, ArtifactIsVerified, MarkerVouches, DigestIs
  <2>2. ReadyIsVerified' /\ MarkingInv'
    BY <1>3 DEF ReadyIsVerified, MarkingInv
  <2>3. QED
    BY <1>1, <2>1, <2>2 DEF IInv
<1>4. QED
  BY <1>2, <1>3 DEF CheckExisting, ClearMarker

LEMMA RequestInv == ASSUME IInv, Request PROVE IInv'
<1>1. marker = None
  BY DEF IInv, MarkingInv, Request
<1>2. CASE pc' = "body" /\ partial' = EmptyFile /\ UNCHANGED <<pod, faults>>
  <2>1. TypeOK' /\ PartialInv'
    BY <1>2, EmptyFileIsFile DEF IInv, Request, TypeOK, PartialInv
  <2>2. QED
    BY <1>1, <1>2, <2>1, Harmless DEF Request
<1>3. CASE pc' = "body" /\ Offset # 0 /\ UNCHANGED <<partial, pod, faults>>
  <2>1. partial \in File
    BY <1>3 DEF IInv, TypeOK, Offset, Size
  <2>2. TypeOK' /\ PartialInv'
    BY <1>3, <2>1 DEF IInv, Request, TypeOK, PartialInv
  <2>3. QED
    BY <1>1, <1>3, <2>2, Harmless DEF Request
<1>4. CASE Finish("source_rejected") /\ (UNCHANGED faults \/ Fault)
           /\ partial' \in {partial, None}
  <2>1. TypeOK' /\ PartialInv'
    BY <1>4 DEF IInv, Request, Fault, TypeOK, PartialInv
  <2>2. QED
    BY <1>1, <1>4, <2>1, Harmless DEF Request
<1>5. QED
  BY <1>2, <1>3, <1>4 DEF Request

LEMMA BodyInv == ASSUME IInv, Body PROVE IInv'
<1>1. marker = None /\ partial \in File
  BY DEF IInv, MarkingInv, PartialInv, Body
<1>2. partial' \in File
  BY <1>1, AppendIsFile DEF IInv, TypeOK, Body
<1>3. TypeOK' /\ PartialInv'
  BY <1>2 DEF IInv, Body, Fault, TypeOK, PartialInv
<1>4. QED
  BY <1>1, <1>3, Harmless DEF Body

LEMMA CheckSizeInv == ASSUME IInv, CheckSize PROVE IInv'
<1>1. marker = None
  BY DEF IInv, MarkingInv, CheckSize
<1>2. TypeOK' /\ PartialInv'
  BY DEF IInv, CheckSize, TypeOK, PartialInv
<1>3. QED
  BY <1>1, <1>2, Harmless DEF CheckSize

LEMMA CheckDigestInv == ASSUME IInv, CheckDigest PROVE IInv'
<1>1. marker = None
  BY DEF IInv, MarkingInv, CheckDigest
<1>2. TypeOK' /\ PartialInv'
  BY DEF IInv, CheckDigest, Verified, DigestIs, TypeOK, PartialInv
<1>3. QED
  BY <1>1, <1>2, Harmless DEF CheckDigest

(* The one step that changes the artifact: what takes its place has been   *)
(* verified, and there is no marker that could vouch for it.               *)
LEMMA ReplaceArtifactInv == ASSUME IInv, ReplaceArtifact PROVE IInv'
<1>1. /\ partial \in File /\ DigestIs(partial, want) /\ marker = None
      /\ want \in Versions
  BY DEF IInv, TypeOK, PartialInv, MarkingInv, ReplaceArtifact
<1>2. TypeOK' /\ PartialInv'
  BY <1>1 DEF IInv, ReplaceArtifact, TypeOK, PartialInv
<1>3. artifact' # None /\ DigestIs(artifact', want) /\ marker' = None
  BY <1>1, NoneIsNoFile DEF ReplaceArtifact
<1>4. ArtifactIsVerified' /\ MarkerVouches'
  BY <1>1, <1>3 DEF ArtifactIsVerified, MarkerVouches
<1>5. ReadyIsVerified' /\ MarkingInv'
  BY <1>3 DEF ReplaceArtifact, ReadyIsVerified, MarkingInv, DigestIs
<1>6. QED
  BY <1>2, <1>4, <1>5 DEF IInv

LEMMA WriteMarkerInv == ASSUME IInv, WriteMarker PROVE IInv'
<1>1. TypeOK' /\ PartialInv'
  BY DEF IInv, WriteMarker, TypeOK, PartialInv
<1>2. ArtifactIsVerified' /\ MarkerVouches'
  BY DEF IInv, WriteMarker, ArtifactIsVerified, MarkerVouches, DigestIs
<1>3. ReadyIsVerified' /\ MarkingInv'
  BY DEF IInv, WriteMarker, ReadyIsVerified, MarkingInv, DigestIs
<1>4. QED
  BY <1>1, <1>2, <1>3 DEF IInv

LEMMA PublishMarkerInv == ASSUME IInv, PublishMarker PROVE IInv'
<1>1. markerTmp = want /\ artifact # None /\ DigestIs(artifact, want)
  BY DEF IInv, MarkingInv, PublishMarker
<1>2. TypeOK' /\ PartialInv'
  BY <1>1 DEF IInv, PublishMarker, TypeOK, PartialInv
<1>3. ArtifactIsVerified' /\ MarkerVouches'
  BY <1>1 DEF IInv, TypeOK, PublishMarker, ArtifactIsVerified, MarkerVouches, DigestIs
<1>4. ReadyIsVerified' /\ MarkingInv'
  BY <1>1 DEF PublishMarker, ReadyIsVerified, MarkingInv, DigestIs
<1>5. QED
  BY <1>2, <1>3, <1>4 DEF IInv

(* The ways a run can end, wherever it has come to.                        *)
LEMMA EndInv == ASSUME IInv, Report \/ Escape \/ Terminate PROVE IInv'
<1>1. TypeOK' /\ PartialInv'
  BY DEF IInv, Report, Escape, Terminate, Fault, TypeOK, PartialInv
<1>2. QED
  BY <1>1, Harmless DEF Report, Escape, Terminate

LEMMA NextInv == ASSUME IInv, [Next]_vars PROVE IInv'
<1>1. CASE UNCHANGED vars
  BY <1>1 DEF vars, IInv, TypeOK, ArtifactIsVerified, MarkerVouches,
     ReadyIsVerified, PartialInv, MarkingInv, DigestIs
<1>2. CASE \E v \in Versions, ranges \in BOOLEAN : Start(v, ranges)
  BY <1>2, StartInv
<1>3. CASE Step
  BY <1>3, LoadManifestInv, CheckExistingInv, RequestInv, BodyInv, CheckSizeInv,
     CheckDigestInv, ReplaceArtifactInv, WriteMarkerInv, PublishMarkerInv, EndInv
  DEF Step
<1>4. CASE Escape \/ Terminate
  BY <1>4, EndInv
<1>5. QED
  BY <1>1, <1>2, <1>3, <1>4 DEF Next

LEMMA Inductive == Spec => []IInv
  BY InitInv, NextInv, PTL DEF Spec
-----------------------------------------------------------------------------
(* The state of a Pod and of the four files keeps its type.                *)
THEOREM TypeCorrect == Spec => []TypeOK
<1>1. IInv => TypeOK
  BY DEF IInv
<1>2. QED
  BY <1>1, Inductive, PTL

(* Whatever a source sends and wherever Pods are terminated, the model's   *)
(* name only ever carries a verified version, and the marker its own.      *)
THEOREM BytesVerified == Spec => []OnlyVerifiedBytes
<1>1. IInv => OnlyVerifiedBytes
  BY DEF IInv
<1>2. QED
  BY <1>1, Inductive, PTL

(* No step of a run, failed or not, leaves the path without the model that *)
(* was there.                                                              *)
THEOREM ArtifactStays == Spec => ArtifactNeverRemoved
<1>1. ASSUME IInv, [Next]_vars
      PROVE  [artifact # None => artifact' # None]_artifact
  <2>1. CASE ReplaceArtifact
    BY <1>1, <2>1, NoneIsNoFile DEF IInv, PartialInv, ReplaceArtifact
  <2>2. CASE UNCHANGED artifact
    BY <2>2
  <2>3. QED
    BY <1>1, <2>1, <2>2
    DEF Next, vars, Step, Start, LoadManifest, CheckExisting, Request, Body,
        CheckSize, CheckDigest, WriteMarker, PublishMarker, Report, Escape, Terminate
<1>2. QED
  BY <1>1, Inductive, PTL DEF Spec, ArtifactNeverRemoved
=============================================================================
