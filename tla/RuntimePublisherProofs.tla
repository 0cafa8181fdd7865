------------------------ MODULE RuntimePublisherProofs ------------------------
(***************************************************************************)
(* Theorems about RuntimePublisher for any number of publishers, items,    *)
(* channels, parts, calls, faults and edits.                               *)
(***************************************************************************)
EXTENDS RuntimePublisher, TLAPS

PastArchive  == {"headManifest", "putManifest", "verifyManifest", "headChannel",
                 "putChannel", "verifyChannel"}
PastManifest == {"headChannel", "putChannel", "verifyChannel"}

(* What the order of a publication establishes: an archive in the store is *)
(* whole, since only hashed bytes are completed; a manifest has its        *)
(* archive; and whatever names an item - a pointer, a write of one that    *)
(* may still come, a reader - has its manifest.                            *)
ArchiveInv ==
    /\ \A a \in Archives : archive[a] # "torn"
    /\ \A p \in Publishers :
          /\ pc[p] = "complete" => ~torn[p]
          /\ pc[p] \in PastArchive => archive[ArchiveOf[item[p]]] = "whole"
ManifestInv ==
    /\ \A i \in manifest : archive[ArchiveOf[i]] = "whole"
    /\ \A p \in Publishers : pc[p] \in PastManifest => item[p] \in manifest
PointerInv ==
    /\ \A c \in Channels : channel[c] # None => channel[c] \in manifest
    /\ \A c \in Channels, i \in Items : <<c, i>> \in late => i \in manifest
    /\ seen \subseteq manifest

IInv == TypeOK /\ ArchiveInv /\ ManifestInv /\ PointerInv /\ AbandonedOnlyByFaults
-----------------------------------------------------------------------------
USE DEF own, file, store, env, PC, PastArchive, PastManifest, Fault, Goto, End,
        Archive, AbandonedOnlyByFaults

LEMMA InitInv == Init => IInv
  BY PublisherAssumption DEF Init, IInv, TypeOK, ArchiveInv, ManifestInv, PointerInv

(* A step of p that writes nothing and comes to a position it has earned.  *)
LEMMA WritesNothing ==
    ASSUME IInv, NEW p \in Publishers, NEW step \in PC,
           NEW outcome \in {"none", "published", "error"},
           pc' = [pc EXCEPT ![p] = step], result' = [result EXCEPT ![p] = outcome],
           step = "complete" => ~torn[p],
           step \in PastArchive => archive[Archive(p)] = "whole",
           step \in PastManifest => item[p] \in manifest,
           p \in open => step \in {"parts", "complete", "abort"},
           faults' \in {faults, faults + 1},
           UNCHANGED <<own, file, store, seen, edits>>
    PROVE  IInv'
<1>1. TypeOK'
  BY DEF IInv, TypeOK
<1>2. ArchiveInv' /\ ManifestInv' /\ PointerInv'
  BY DEF IInv, TypeOK, ArchiveInv, ManifestInv, PointerInv
<1>3. AbandonedOnlyByFaults'
  BY DEF IInv, TypeOK
<1>4. QED
  BY <1>1, <1>2, <1>3 DEF IInv

LEMMA ItemArchive ==
    ASSUME IInv, NEW p \in Publishers
    PROVE  item[p] \in Items /\ Archive(p) \in Archives /\ chan[p] \in Channels
  BY PublisherAssumption DEF IInv, TypeOK

LEMMA PublishInv ==
    ASSUME IInv, NEW p \in Publishers, NEW i \in Items, NEW c \in Channels, Publish(p, i, c)
    PROVE  IInv'
<1>1. TypeOK'
  BY DEF Publish, IInv, TypeOK
<1>2. ArchiveInv' /\ ManifestInv'
  BY DEF Publish, IInv, TypeOK, ArchiveInv, ManifestInv
<1>3. PointerInv' /\ AbandonedOnlyByFaults'
  BY DEF Publish, IInv, PointerInv
<1>4. QED
  BY <1>1, <1>2, <1>3 DEF IInv

(* The requests that only look.                                            *)
LEMMA HeadInv ==
    ASSUME IInv, NEW p \in Publishers,
           \/ HeadFails(p) \/ HeadArchive(p) \/ EndOfArchive(p) \/ VerifyArchive(p)
           \/ HeadManifest(p) \/ VerifyManifest(p) \/ HeadChannel(p) \/ VerifyChannel(p)
    PROVE  IInv'
<1>1. archive[Archive(p)] \in {"absent", "whole"}
  BY ItemArchive DEF IInv, TypeOK, ArchiveInv
<1>2. result[p] \in {"none", "published", "error"} /\ result = [result EXCEPT ![p] = result[p]]
  BY DEF IInv, TypeOK
<1>0. p \in open => pc[p] \in {"parts", "complete", "abort"}
  BY DEF IInv
<1>3. CASE HeadFails(p)
  BY <1>0, <1>3, WritesNothing DEF HeadFails
<1>4. CASE HeadArchive(p)
  BY <1>0, <1>1, <1>2, <1>4, WritesNothing DEF HeadArchive
<1>5. CASE EndOfArchive(p)
  BY <1>0, <1>2, <1>5, WritesNothing DEF EndOfArchive, SentAsHashed
<1>6. CASE VerifyArchive(p)
  BY <1>0, <1>1, <1>2, <1>6, WritesNothing DEF VerifyArchive
<1>7. archive[Archive(p)] = "whole" \/ pc[p] \notin PastArchive
  BY DEF IInv, ArchiveInv
<1>8. CASE HeadManifest(p)
  BY <1>0, <1>2, <1>7, <1>8, WritesNothing DEF HeadManifest
<1>9. CASE VerifyManifest(p)
  BY <1>0, <1>2, <1>7, <1>9, WritesNothing DEF VerifyManifest
<1>10. CASE HeadChannel(p)
  BY <1>0, <1>2, <1>7, <1>10, WritesNothing DEF HeadChannel, IInv, ManifestInv
<1>11. CASE VerifyChannel(p)
  BY <1>0, <1>2, <1>7, <1>11, WritesNothing DEF VerifyChannel
<1>12. QED
  BY <1>3, <1>4, <1>5, <1>6, <1>8, <1>9, <1>10, <1>11

LEMMA CreateUploadInv ==
    ASSUME IInv, NEW p \in Publishers, CreateUpload(p) PROVE IInv'
<1>1. TypeOK'
  BY PublisherAssumption DEF CreateUpload, IInv, TypeOK
<1>2. ArchiveInv' /\ ManifestInv' /\ PointerInv'
  BY DEF CreateUpload, IInv, TypeOK, ArchiveInv, ManifestInv, PointerInv
<1>3. AbandonedOnlyByFaults'
  BY DEF CreateUpload, IInv, TypeOK
<1>4. QED
  BY <1>1, <1>2, <1>3 DEF IInv

LEMMA UploadPartInv ==
    ASSUME IInv, NEW p \in Publishers, UploadPart(p) PROVE IInv'
<1>1. parts[p] < Parts => parts[p] + 1 \in 0 .. Parts
  BY PublisherAssumption DEF IInv, TypeOK
<1>2. TypeOK'
  <2>1. (torn[p] \/ p \in edited) \in BOOLEAN
    OBVIOUS
  <2>2. torn' \in [Publishers -> BOOLEAN]
    <3>1. CASE torn' = [torn EXCEPT ![p] = torn[p] \/ p \in edited]
      BY <2>1, <3>1, Zenon DEF IInv, TypeOK
    <3>2. CASE UNCHANGED torn
      BY <3>2 DEF IInv, TypeOK
    <3>3. QED
      BY <3>1, <3>2, Zenon DEF UploadPart
  <2>3. parts' \in [Publishers -> 0 .. Parts]
    BY <1>1 DEF UploadPart, IInv, TypeOK
  <2>4. QED
    BY <2>2, <2>3 DEF UploadPart, IInv, TypeOK
<1>3. ArchiveInv' /\ ManifestInv' /\ PointerInv'
  BY DEF UploadPart, IInv, TypeOK, ArchiveInv, ManifestInv, PointerInv
<1>4. AbandonedOnlyByFaults'
  BY DEF UploadPart, IInv, TypeOK
<1>5. QED
  BY <1>2, <1>3, <1>4 DEF IInv

(* The one step that writes an archive: what was sent is what was hashed.  *)
LEMMA StoresWhole ==
    ASSUME IInv, NEW p \in Publishers, CompleteUpload(p)
    PROVE  archive' \in {archive, [archive EXCEPT ![Archive(p)] = "whole"]}
  BY DEF IInv, ArchiveInv, CompleteUpload, Stored

LEMMA CompleteUploadInv ==
    ASSUME IInv, NEW p \in Publishers, CompleteUpload(p) PROVE IInv'
<1>1. TypeOK'
  BY StoresWhole, ItemArchive DEF CompleteUpload, IInv, TypeOK
<1>2. ASSUME NEW a \in Archives
      PROVE  archive'[a] = archive[a] \/ (archive'[a] = "whole" /\ a = Archive(p))
  BY StoresWhole DEF IInv, TypeOK
<1>3. Archive(p) \in Archives /\ archive'[Archive(p)] \in {archive[Archive(p)], "whole"}
  BY <1>2, ItemArchive
<1>4. pc[p] = "complete" /\ pc' \in {[pc EXCEPT ![p] = "verifyArchive"], [pc EXCEPT ![p] = "abort"]}
  BY DEF CompleteUpload
<1>5. ArchiveInv'
  BY <1>2, <1>4, PublisherAssumption DEF CompleteUpload, IInv, TypeOK, ArchiveInv
<1>6. ManifestInv'
  BY <1>2, <1>4, PublisherAssumption DEF CompleteUpload, IInv, TypeOK, ManifestInv
<1>7. PointerInv' /\ AbandonedOnlyByFaults'
  BY DEF CompleteUpload, IInv, TypeOK, PointerInv
<1>8. QED
  BY <1>1, <1>5, <1>6, <1>7 DEF IInv

LEMMA AbortUploadInv ==
    ASSUME IInv, NEW p \in Publishers, AbortUpload(p) PROVE IInv'
<1>1. TypeOK'
  BY DEF AbortUpload, Abandon, IInv, TypeOK
<1>2. ArchiveInv' /\ ManifestInv' /\ PointerInv'
  BY DEF AbortUpload, Abandon, IInv, TypeOK, ArchiveInv, ManifestInv, PointerInv
<1>3. AbandonedOnlyByFaults'
  BY DEF AbortUpload, Abandon, IInv, TypeOK
<1>4. QED
  BY <1>1, <1>2, <1>3 DEF IInv

LEMMA PutManifestInv ==
    ASSUME IInv, NEW p \in Publishers, PutManifest(p) PROVE IInv'
<1>1. archive[ArchiveOf[item[p]]] = "whole" /\ item[p] \in Items
  BY ItemArchive DEF PutManifest, IInv, ArchiveInv
<1>2. TypeOK'
  BY <1>1 DEF PutManifest, IInv, TypeOK
<1>3. ArchiveInv' /\ ManifestInv'
  BY <1>1 DEF PutManifest, IInv, TypeOK, ArchiveInv, ManifestInv
<1>4. PointerInv' /\ AbandonedOnlyByFaults'
  BY DEF PutManifest, IInv, TypeOK, PointerInv
<1>5. QED
  BY <1>2, <1>3, <1>4 DEF IInv

LEMMA PutChannelInv ==
    ASSUME IInv, NEW p \in Publishers, PutChannel(p) PROVE IInv'
<1>1. item[p] \in manifest /\ item[p] \in Items /\ chan[p] \in Channels
  BY ItemArchive DEF PutChannel, IInv, ManifestInv
<1>2. TypeOK'
  BY <1>1 DEF PutChannel, IInv, TypeOK
<1>3. ArchiveInv' /\ ManifestInv'
  BY <1>1 DEF PutChannel, IInv, TypeOK, ArchiveInv, ManifestInv
<1>4. PointerInv' /\ AbandonedOnlyByFaults'
  BY <1>1 DEF PutChannel, IInv, TypeOK, PointerInv
<1>5. QED
  BY <1>2, <1>3, <1>4 DEF IInv

(* A killed publisher may leave a pointer write on its way.                *)
LEMMA KillInv ==
    ASSUME IInv, NEW p \in Publishers, Kill(p) PROVE IInv'
<1>1. pc[p] = "putChannel" => item[p] \in manifest /\ item[p] \in Items /\ chan[p] \in Channels
  BY ItemArchive DEF IInv, ManifestInv
<1>2. TypeOK'
  BY <1>1 DEF Kill, Abandon, IInv, TypeOK
<1>3. ArchiveInv' /\ ManifestInv'
  BY DEF Kill, Abandon, IInv, TypeOK, ArchiveInv, ManifestInv
<1>4. PointerInv' /\ AbandonedOnlyByFaults'
  BY <1>1 DEF Kill, Abandon, IInv, TypeOK, PointerInv
<1>5. QED
  BY <1>2, <1>3, <1>4 DEF IInv

LEMMA OthersInv ==
    ASSUME IInv,
           \/ \E p \in Publishers : EditArchive(p)
           \/ \E c \in Channels, i \in Items : LateWrite(c, i)
           \/ \E c \in Channels : ReadChannel(c)
    PROVE  IInv'
<1>1. TypeOK'
  <2>1. ASSUME NEW p \in Publishers, EditArchive(p) PROVE TypeOK'
    BY <2>1 DEF EditArchive, IInv, TypeOK
  <2>2. ASSUME NEW c \in Channels, NEW i \in Items, LateWrite(c, i) PROVE TypeOK'
    BY <2>2 DEF LateWrite, IInv, TypeOK
  <2>3. ASSUME NEW c \in Channels, ReadChannel(c) PROVE TypeOK'
    <3>1. channel[c] \in Items
      BY <2>3 DEF ReadChannel, IInv, TypeOK
    <3>2. seen' \subseteq Items
      BY <2>3, <3>1 DEF ReadChannel, IInv, TypeOK
    <3>3. QED
      BY <2>3, <3>2 DEF ReadChannel, IInv, TypeOK
  <2>4. QED
    BY <2>1, <2>2, <2>3
<1>2. ArchiveInv' /\ ManifestInv'
  BY DEF EditArchive, LateWrite, ReadChannel, IInv, TypeOK, ArchiveInv, ManifestInv
<1>3. PointerInv' /\ AbandonedOnlyByFaults'
  BY DEF EditArchive, LateWrite, ReadChannel, IInv, TypeOK, PointerInv
<1>4. QED
  BY <1>1, <1>2, <1>3 DEF IInv

LEMMA NextInv == ASSUME IInv, [Next]_vars PROVE IInv'
<1>1. CASE UNCHANGED vars
  BY <1>1 DEF vars, IInv, TypeOK, ArchiveInv, ManifestInv, PointerInv
<1>2. ASSUME NEW p \in Publishers,
             \/ \E i \in Items, c \in Channels : Publish(p, i, c)
             \/ Step(p) \/ HeadFails(p) \/ Kill(p)
      PROVE  IInv'
  BY <1>2, PublishInv, HeadInv, CreateUploadInv, UploadPartInv, CompleteUploadInv,
     AbortUploadInv, PutManifestInv, PutChannelInv, KillInv DEF Step
<1>3. QED
  BY <1>1, <1>2, OthersInv DEF Next

LEMMA Inductive == Spec => []IInv
  BY InitInv, NextInv, PTL DEF Spec
-----------------------------------------------------------------------------
(* The publishers' and the store's variables keep their types.             *)
THEOREM TypeCorrect == Spec => []TypeOK
<1>1. IInv => TypeOK
  BY DEF IInv
<1>2. QED
  BY <1>1, Inductive, PTL

(* Whatever publishers, faults and late requests do, what a reader was     *)
(* ever sent to has its archive, whole, and its manifest.                  *)
THEOREM SeenDeliverable == Spec => []SeenIsDeliverable
<1>1. IInv => SeenIsDeliverable
  BY DEF IInv, PointerInv, ManifestInv, SeenIsDeliverable, Deliverable
<1>2. QED
  BY <1>1, Inductive, PTL

(* Whatever fails, an open upload has a publisher that will end it, and    *)
(* there are no more uploads that were given up than there were faults.    *)
THEOREM UploadsEnded == Spec => []AbandonedOnlyByFaults
<1>1. IInv => AbandonedOnlyByFaults
  BY DEF IInv
<1>2. QED
  BY <1>1, Inductive, PTL

(* An archive that is in the store is never changed by any publisher.      *)
THEOREM ArchivesStay == Spec => ArchivesImmutable
<1>1. ASSUME IInv, [Next]_vars
      PROVE  [\A a \in Archives : archive[a] # "absent" => archive'[a] = archive[a]]_vars
  <2>1. ASSUME NEW p \in Publishers, CompleteUpload(p), NEW a \in Archives, archive[a] # "absent"
        PROVE  archive'[a] = archive[a]
    <3>1. archive[a] = "whole"
      BY <1>1, <2>1 DEF IInv, ArchiveInv, TypeOK
    <3>2. QED
      BY <1>1, <2>1, <3>1, StoresWhole DEF IInv, TypeOK
  <2>2. CASE UNCHANGED archive
    BY <2>2
  <2>3. CASE UNCHANGED vars
    BY <2>3 DEF vars
  <2>4. CASE \E p \in Publishers : CompleteUpload(p)
    BY <2>1, <2>4
  <2>5. QED
    BY <1>1, <2>2, <2>3, <2>4
    DEF Next, Step, Publish, HeadFails, HeadArchive, CreateUpload, UploadPart,
        EndOfArchive, AbortUpload, VerifyArchive, HeadManifest, PutManifest,
        VerifyManifest, HeadChannel, PutChannel, VerifyChannel, Kill, EditArchive,
        LateWrite, ReadChannel
<1>2. QED
  BY <1>1, Inductive, PTL DEF Spec, ArchivesImmutable
=============================================================================
