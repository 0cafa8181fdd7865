---------------------- MODULE RuntimeMaterializerProofs ----------------------
(***************************************************************************)
(* Theorems about RuntimeMaterializer for any number of writers, releases, *)
(* trees, entries and faults.                                              *)
(***************************************************************************)
EXTENDS RuntimeMaterializer, FiniteSetTheorems, TLAPS

(* The lock excludes: exactly the process inside holds it.                 *)
LockInv == \A w \in Writers : pc[w] \in Locked <=> lock = w

(* A staging tree belongs to a process on the staging path, whose digest   *)
(* has no generation yet.                                                  *)
Staging == {"extract", "verify", "manifest", "ready", "recheck", "flush",
            "publish"}
StagingInv == \A w \in Writers :
    pc[w] \in Staging => staging[w] \in Tree /\ gen[Digest(w)] = None

(* What the second verification established holds until the rename.        *)
VerifiedInv == \A w \in Writers :
    pc[w] \in {"flush", "publish"} =>
        /\ Intact(staging[w], Digest(w))
        /\ pc[w] = "publish" => staging[w].flushed

(* A generation was complete and flushed before it got its name.           *)
GenInv == \A d \in Digests :
    /\ gen[d] # None =>
          gen[d].flushed /\ (d \notin damaged => Intact(gen[d], d))
    /\ d \in pods => gen[d] # None

(* Where a process is on its way from the generation to the result.        *)
PublishingInv == \A w \in Writers :
    /\ pc[w] = "reverify" => gen[Digest(w)] # None
    /\ pc[w] \in {"seal", "flushSeal", "switch", "flushCurrent"}
          => Intact(gen[Digest(w)], Digest(w))
    /\ pc[w] \in {"flushSeal", "switch", "flushCurrent"}
          => gen[Digest(w)].sealed
    /\ pc[w] \in {"switch", "flushCurrent"}
          => Servable(disk.gen[Digest(w)], Digest(w))
    /\ pc[w] = "flushCurrent" => cur = Digest(w)

(* What is durable is part of what is there.                               *)
DiskInv == \A d \in Digests :
    disk.gen[d] # None =>
        /\ gen[d] # None
        /\ gen[d].entries = disk.gen[d].entries
        /\ gen[d].manifest = disk.gen[d].manifest
        /\ gen[d].ready = disk.gen[d].ready
        /\ disk.gen[d].flushed
        /\ disk.gen[d].sealed => gen[d].sealed

(* current was moved, and recorded, only after its target was durable.     *)
CurrentInv == \A c \in {cur, disk.cur} :
    c \in damaged \cup {None} \/ Servable(disk.gen[c], c)

IInv == /\ TypeOK /\ LockInv /\ StagingInv /\ VerifiedInv
        /\ GenInv /\ PublishingInv /\ DiskInv /\ CurrentInv
-----------------------------------------------------------------------------
LEMMA EmptyTreeIsTree == EmptyTree \in Tree
  BY DEF EmptyTree, Tree

LEMMA DigestType ==
    ASSUME TypeOK, NEW w \in Writers PROVE Digest(w) \in Digests
  BY ConstantsAssumption DEF TypeOK, Digest

LEMMA InitInv == Init => IInv
<1> SUFFICES ASSUME Init PROVE IInv
  OBVIOUS
<1>1. TypeOK
  BY ConstantsAssumption DEF Init, TypeOK, PC
<1>2. LockInv /\ StagingInv /\ VerifiedInv /\ PublishingInv
  BY ConstantsAssumption
  DEF Init, LockInv, StagingInv, VerifiedInv, PublishingInv, Locked, Staging
<1>3. GenInv /\ DiskInv /\ CurrentInv
  BY DEF Init, GenInv, DiskInv, CurrentInv
<1>4. QED
  BY <1>1, <1>2, <1>3 DEF IInv

LEMMA MaterializeInv ==
    ASSUME IInv, NEW w \in Writers, NEW r \in Releases, Materialize(w, r)
    PROVE  IInv'
<1> USE DEF Materialize, volVars, envVars, Digest
<1>1. TypeOK'
  BY DEF IInv, TypeOK, PC
<1>2. LockInv'
  BY DEF IInv, TypeOK, LockInv, Locked
<1>3. StagingInv' /\ VerifiedInv' /\ PublishingInv'
  BY DEF IInv, TypeOK, StagingInv, VerifiedInv, PublishingInv, Staging, Intact, Servable
<1>4. GenInv' /\ DiskInv' /\ CurrentInv'
  BY DEF IInv, GenInv, DiskInv, CurrentInv, Intact, Servable
<1>5. QED
  BY <1>1, <1>2, <1>3, <1>4 DEF IInv

(* A write to one's own staging tree disturbs only what is not verified yet. *)
LEMMA StagingWriteInv ==
    ASSUME IInv, NEW w \in Writers, NEW t \in Tree,
           NEW p \in {"extract", "ready", "recheck"},
           pc[w] \in {"extract", "manifest", "ready"},
           staging' = [staging EXCEPT ![w] = t],
           pc' = [pc EXCEPT ![w] = p],
           UNCHANGED <<rel, outcome, lock, before, volVars, envVars>>
    PROVE  IInv'
<1> USE DEF volVars, envVars, Digest
<1>1. TypeOK'
  BY DEF IInv, TypeOK, PC, Locked
<1>2. LockInv'
  BY DEF IInv, TypeOK, LockInv, Locked
<1>3. StagingInv'
  BY DEF IInv, TypeOK, StagingInv, Staging
<1>4. VerifiedInv'
  BY DEF IInv, TypeOK, VerifiedInv, Intact
<1>5. PublishingInv'
  BY DEF IInv, TypeOK, PublishingInv, Intact, Servable
<1>6. GenInv' /\ DiskInv' /\ CurrentInv'
  BY DEF IInv, GenInv, DiskInv, CurrentInv, Intact, Servable
<1>7. QED
  BY <1>1, <1>2, <1>3, <1>4, <1>5, <1>6 DEF IInv

LEMMA ExtractMemberInv ==
    ASSUME IInv, NEW w \in Writers, NEW e \in Entries, ExtractMember(w, e)
    PROVE  IInv'
<1> DEFINE t == [staging[w] EXCEPT !.entries = @ \cup {e}, !.flushed = FALSE]
<1>1. staging[w] \in Tree
  BY DEF IInv, StagingInv, Staging, ExtractMember
<1>2. t \in Tree
  BY <1>1 DEF Tree
<1>3. staging' = [staging EXCEPT ![w] = t] /\ pc[w] = "extract"
  BY DEF ExtractMember
<1>4. pc' = [pc EXCEPT ![w] = "extract"]
  BY <1>3 DEF ExtractMember, IInv, TypeOK
<1>5. UNCHANGED <<rel, outcome, lock, before, volVars, envVars>>
  BY DEF ExtractMember
<1> HIDE DEF t
<1>6. QED
  BY <1>2, <1>3, <1>4, <1>5, StagingWriteInv

LEMMA SyncInv ==
    ASSUME TypeOK, StagingInv, SyncVolume
    PROVE  /\ staging' \in [Writers -> Tree \cup {None}]
           /\ gen' \in [Digests -> Tree \cup {None}]
           /\ disk' \in [gen : [Digests -> Tree \cup {None}], cur : Digests \cup {None}]
           /\ disk'.gen = gen'
           /\ disk'.cur = cur
           /\ \A d \in Digests : gen[d] = None <=> gen'[d] = None
           /\ \A w \in Writers : staging[w] = None <=> staging'[w] = None
           /\ \A d \in Digests : gen[d] # None =>
                  /\ gen'[d].entries = gen[d].entries
                  /\ gen'[d].manifest = gen[d].manifest
                  /\ gen'[d].ready = gen[d].ready
                  /\ gen'[d].sealed = gen[d].sealed
                  /\ gen'[d].flushed
           /\ \A w \in Writers : staging[w] # None =>
                  /\ staging'[w].entries = staging[w].entries
                  /\ staging'[w].manifest = staging[w].manifest
                  /\ staging'[w].ready = staging[w].ready
                  /\ staging'[w].sealed = staging[w].sealed
                  /\ staging'[w].flushed
<1>1. ASSUME NEW t \in Tree
      PROVE  /\ Flushed(t) \in Tree
             /\ Flushed(t) # None
             /\ Flushed(t).entries = t.entries
             /\ Flushed(t).manifest = t.manifest
             /\ Flushed(t).ready = t.ready
             /\ Flushed(t).sealed = t.sealed
             /\ Flushed(t).flushed
  BY ConstantsAssumption DEF Flushed, Tree
<1>2. Flushed(None) = None
  BY DEF Flushed
<1>3. QED
  BY <1>1, <1>2 DEF SyncVolume, TypeOK

LEMMA RefuseInv ==
    ASSUME IInv, NEW w \in Writers, Refuse(w)
    PROVE  IInv'
<1> USE DEF Refuse, volVars, envVars, Digest
<1>1. TypeOK'
  BY EmptyTreeIsTree DEF IInv, TypeOK, PC, Locked
<1>2. LockInv'
  BY ConstantsAssumption DEF IInv, TypeOK, LockInv, Locked
<1>3. StagingInv'
  BY EmptyTreeIsTree DEF IInv, TypeOK, StagingInv, Staging
<1>4. VerifiedInv'
  BY DEF IInv, TypeOK, VerifiedInv, Intact
<1>5. PublishingInv'
  BY DEF IInv, TypeOK, PublishingInv, Intact, Servable
<1>6. GenInv' /\ DiskInv' /\ CurrentInv'
  BY DEF IInv, GenInv, DiskInv, CurrentInv, Intact, Servable
<1>7. QED
  BY <1>1, <1>2, <1>3, <1>4, <1>5, <1>6 DEF IInv

LEMMA WriterLockInv ==
    ASSUME IInv, NEW w \in Writers, WriterLock(w)
    PROVE  IInv'
<1> USE DEF WriterLock, LockFree, volVars, envVars, Digest
<1>1. TypeOK'
  BY EmptyTreeIsTree DEF IInv, TypeOK, PC, Locked
<1>2. LockInv'
  BY ConstantsAssumption DEF IInv, TypeOK, LockInv, Locked
<1>3. StagingInv'
  BY EmptyTreeIsTree DEF IInv, TypeOK, StagingInv, Staging
<1>4. VerifiedInv'
  BY DEF IInv, TypeOK, VerifiedInv, Intact
<1>5. PublishingInv'
  BY DEF IInv, TypeOK, PublishingInv, Intact, Servable
<1>6. GenInv' /\ DiskInv' /\ CurrentInv'
  BY DEF IInv, GenInv, DiskInv, CurrentInv, Intact, Servable
<1>7. QED
  BY <1>1, <1>2, <1>3, <1>4, <1>5, <1>6 DEF IInv

LEMMA SelectGenerationInv ==
    ASSUME IInv, NEW w \in Writers, SelectGeneration(w)
    PROVE  IInv'
<1> USE DEF SelectGeneration, volVars, envVars, Digest
<1>1. TypeOK'
  BY EmptyTreeIsTree DEF IInv, TypeOK, PC, Locked
<1>2. LockInv'
  BY ConstantsAssumption DEF IInv, TypeOK, LockInv, Locked
<1>3. StagingInv'
  BY EmptyTreeIsTree DEF IInv, TypeOK, StagingInv, Staging
<1>4. VerifiedInv'
  BY DEF IInv, TypeOK, VerifiedInv, Intact
<1>5. PublishingInv'
  BY DEF IInv, TypeOK, PublishingInv, Intact, Servable
<1>6. GenInv' /\ DiskInv' /\ CurrentInv'
  BY DEF IInv, GenInv, DiskInv, CurrentInv, Intact, Servable
<1>7. QED
  BY <1>1, <1>2, <1>3, <1>4, <1>5, <1>6 DEF IInv

LEMMA ExtractionEndsInv ==
    ASSUME IInv, NEW w \in Writers, ExtractionEnds(w)
    PROVE  IInv'
<1> USE DEF ExtractionEnds, volVars, envVars, Digest
<1>1. TypeOK'
  BY EmptyTreeIsTree DEF IInv, TypeOK, PC, Locked
<1>2. LockInv'
  BY ConstantsAssumption DEF IInv, TypeOK, LockInv, Locked
<1>3. StagingInv'
  BY EmptyTreeIsTree DEF IInv, TypeOK, StagingInv, Staging
<1>4. VerifiedInv'
  BY DEF IInv, TypeOK, VerifiedInv, Intact
<1>5. PublishingInv'
  BY DEF IInv, TypeOK, PublishingInv, Intact, Servable
<1>6. GenInv' /\ DiskInv' /\ CurrentInv'
  BY DEF IInv, GenInv, DiskInv, CurrentInv, Intact, Servable
<1>7. QED
  BY <1>1, <1>2, <1>3, <1>4, <1>5, <1>6 DEF IInv

LEMMA VolumeFullInv ==
    ASSUME IInv, NEW w \in Writers, VolumeFull(w)
    PROVE  IInv'
<1> USE DEF VolumeFull, volVars, envVars, Digest
<1>1. TypeOK'
  BY EmptyTreeIsTree DEF IInv, TypeOK, PC, Locked
<1>2. LockInv'
  BY ConstantsAssumption DEF IInv, TypeOK, LockInv, Locked
<1>3. StagingInv'
  BY EmptyTreeIsTree DEF IInv, TypeOK, StagingInv, Staging
<1>4. VerifiedInv'
  BY DEF IInv, TypeOK, VerifiedInv, Intact
<1>5. PublishingInv'
  BY DEF IInv, TypeOK, PublishingInv, Intact, Servable
<1>6. GenInv' /\ DiskInv' /\ CurrentInv'
  BY DEF IInv, GenInv, DiskInv, CurrentInv, Intact, Servable
<1>7. QED
  BY <1>1, <1>2, <1>3, <1>4, <1>5, <1>6 DEF IInv

LEMMA VerifyStagedInv ==
    ASSUME IInv, NEW w \in Writers, VerifyStaged(w)
    PROVE  IInv'
<1> USE DEF VerifyStaged, volVars, envVars, Digest
<1>1. TypeOK'
  BY EmptyTreeIsTree DEF IInv, TypeOK, PC, Locked
<1>2. LockInv'
  BY ConstantsAssumption DEF IInv, TypeOK, LockInv, Locked
<1>3. StagingInv'
  BY EmptyTreeIsTree DEF IInv, TypeOK, StagingInv, Staging
<1>4. VerifiedInv'
  BY DEF IInv, TypeOK, VerifiedInv, Intact
<1>5. PublishingInv'
  BY DEF IInv, TypeOK, PublishingInv, Intact, Servable
<1>6. GenInv' /\ DiskInv' /\ CurrentInv'
  BY DEF IInv, GenInv, DiskInv, CurrentInv, Intact, Servable
<1>7. QED
  BY <1>1, <1>2, <1>3, <1>4, <1>5, <1>6 DEF IInv

LEMMA WriteManifestInv ==
    ASSUME IInv, NEW w \in Writers, WriteManifest(w)
    PROVE  IInv'
<1> DEFINE t == [staging[w] EXCEPT !.manifest = rel[w]]
<1>1. staging[w] \in Tree
  BY DEF IInv, StagingInv, Staging, WriteManifest
<1>2. t \in Tree
  BY <1>1 DEF Tree, IInv, TypeOK
<1>3. /\ staging' = [staging EXCEPT ![w] = t]
      /\ pc[w] = "manifest" /\ pc' = [pc EXCEPT ![w] = "ready"]
      /\ UNCHANGED <<rel, outcome, lock, before, volVars, envVars>>
  BY DEF WriteManifest
<1> HIDE DEF t
<1>4. QED
  BY <1>2, <1>3, StagingWriteInv

LEMMA WriteReadyInv ==
    ASSUME IInv, NEW w \in Writers, WriteReady(w)
    PROVE  IInv'
<1> DEFINE t == [staging[w] EXCEPT !.ready = TRUE]
<1>1. staging[w] \in Tree
  BY DEF IInv, StagingInv, Staging, WriteReady
<1>2. t \in Tree
  BY <1>1 DEF Tree, IInv, TypeOK
<1>3. /\ staging' = [staging EXCEPT ![w] = t]
      /\ pc[w] = "ready" /\ pc' = [pc EXCEPT ![w] = "recheck"]
      /\ UNCHANGED <<rel, outcome, lock, before, volVars, envVars>>
  BY DEF WriteReady
<1> HIDE DEF t
<1>4. QED
  BY <1>2, <1>3, StagingWriteInv

LEMMA VerifyStagedGenerationInv ==
    ASSUME IInv, NEW w \in Writers, VerifyStagedGeneration(w)
    PROVE  IInv'
<1> USE DEF VerifyStagedGeneration, volVars, envVars, Digest
<1>1. TypeOK'
  BY EmptyTreeIsTree DEF IInv, TypeOK, PC, Locked
<1>2. LockInv'
  BY ConstantsAssumption DEF IInv, TypeOK, LockInv, Locked
<1>3. StagingInv'
  BY EmptyTreeIsTree DEF IInv, TypeOK, StagingInv, Staging
<1>4. VerifiedInv'
  BY ConstantsAssumption
  DEF IInv, TypeOK, VerifiedInv, StagingInv, Staging, Intact,
      MetadataVerified, TreeVerified
<1>5. PublishingInv'
  BY DEF IInv, TypeOK, PublishingInv, Intact, Servable
<1>6. GenInv' /\ DiskInv' /\ CurrentInv'
  BY DEF IInv, GenInv, DiskInv, CurrentInv, Intact, Servable
<1>7. QED
  BY <1>1, <1>2, <1>3, <1>4, <1>5, <1>6 DEF IInv

LEMMA VerifyReusedInv ==
    ASSUME IInv, NEW w \in Writers, VerifyReused(w)
    PROVE  IInv'
<1> USE DEF VerifyReused, volVars, envVars, Digest
<1>1. TypeOK'
  BY EmptyTreeIsTree DEF IInv, TypeOK, PC, Locked
<1>2. LockInv'
  BY ConstantsAssumption DEF IInv, TypeOK, LockInv, Locked
<1>3. StagingInv'
  BY EmptyTreeIsTree DEF IInv, TypeOK, StagingInv, Staging
<1>4. VerifiedInv'
  BY DEF IInv, TypeOK, VerifiedInv, Intact
<1>5. PublishingInv'
  BY DEF IInv, TypeOK, PublishingInv, Intact, Servable, MetadataVerified,
         TreeVerified
<1>6. GenInv' /\ DiskInv' /\ CurrentInv'
  BY DEF IInv, GenInv, DiskInv, CurrentInv, Intact, Servable
<1>7. QED
  BY <1>1, <1>2, <1>3, <1>4, <1>5, <1>6 DEF IInv

LEMMA RaiseInv ==
    ASSUME IInv, NEW w \in Writers, Raise(w)
    PROVE  IInv'
<1> USE DEF Raise, volVars, envVars, Digest
<1>1. TypeOK'
  BY EmptyTreeIsTree DEF IInv, TypeOK, PC, Locked
<1>2. LockInv'
  BY ConstantsAssumption DEF IInv, TypeOK, LockInv, Locked
<1>3. StagingInv'
  BY EmptyTreeIsTree DEF IInv, TypeOK, StagingInv, Staging
<1>4. VerifiedInv'
  BY DEF IInv, TypeOK, VerifiedInv, Intact
<1>5. PublishingInv'
  BY DEF IInv, TypeOK, PublishingInv, Intact, Servable
<1>6. GenInv' /\ DiskInv' /\ CurrentInv'
  BY DEF IInv, GenInv, DiskInv, CurrentInv, Intact, Servable
<1>7. QED
  BY <1>1, <1>2, <1>3, <1>4, <1>5, <1>6 DEF IInv

LEMMA CleanupInv ==
    ASSUME IInv, NEW w \in Writers, Cleanup(w)
    PROVE  IInv'
<1> USE DEF Cleanup, volVars, envVars, Digest
<1>1. TypeOK'
  BY EmptyTreeIsTree DEF IInv, TypeOK, PC, Locked
<1>2. LockInv'
  BY ConstantsAssumption DEF IInv, TypeOK, LockInv, Locked
<1>3. StagingInv'
  BY EmptyTreeIsTree DEF IInv, TypeOK, StagingInv, Staging
<1>4. VerifiedInv'
  BY DEF IInv, TypeOK, VerifiedInv, Intact
<1>5. PublishingInv'
  BY DEF IInv, TypeOK, PublishingInv, Intact, Servable
<1>6. GenInv' /\ DiskInv' /\ CurrentInv'
  BY DEF IInv, GenInv, DiskInv, CurrentInv, Intact, Servable
<1>7. QED
  BY <1>1, <1>2, <1>3, <1>4, <1>5, <1>6 DEF IInv

LEMMA KillInv ==
    ASSUME IInv, NEW w \in Writers, Kill(w)
    PROVE  IInv'
<1> USE DEF Kill, volVars, envVars, Digest
<1>1. TypeOK'
  BY EmptyTreeIsTree DEF IInv, TypeOK, PC, Locked
<1>2. LockInv'
  BY ConstantsAssumption DEF IInv, TypeOK, LockInv, Locked
<1>3. StagingInv'
  BY EmptyTreeIsTree DEF IInv, TypeOK, StagingInv, Staging
<1>4. VerifiedInv'
  BY DEF IInv, TypeOK, VerifiedInv, Intact
<1>5. PublishingInv'
  BY DEF IInv, TypeOK, PublishingInv, Intact, Servable
<1>6. GenInv' /\ DiskInv' /\ CurrentInv'
  BY DEF IInv, GenInv, DiskInv, CurrentInv, Intact, Servable
<1>7. QED
  BY <1>1, <1>2, <1>3, <1>4, <1>5, <1>6 DEF IInv

LEMMA FlushStagedInv ==
    ASSUME IInv, NEW w \in Writers, FlushStaged(w)
    PROVE  IInv'
<1> USE DEF FlushStaged, envVars
<1>1. TypeOK /\ StagingInv /\ SyncVolume
  BY DEF IInv
<1>2. \A v \in Writers : Digest(v) \in Digests /\ Digest(v)' = Digest(v)
  BY <1>1, DigestType DEF Digest
<1> HIDE DEF SyncVolume
<1>3. \A d \in Digests : Intact(gen[d], d) => Intact(gen'[d], d)
  BY <1>1, SyncInv DEF Intact
<1>4. TypeOK'
  BY <1>1, SyncInv DEF TypeOK, PC, Locked
<1>5. LockInv'
  BY ConstantsAssumption DEF IInv, TypeOK, LockInv, Locked
<1>6. StagingInv'
  BY <1>1, <1>2, SyncInv, ConstantsAssumption DEF TypeOK, StagingInv, Staging
<1>7. VerifiedInv'
  BY <1>1, <1>2, SyncInv DEF IInv, TypeOK, VerifiedInv, Intact
<1>8. GenInv'
  BY <1>1, <1>3, SyncInv DEF IInv, TypeOK, GenInv
<1>9. PublishingInv'
  <2> SUFFICES ASSUME NEW v \in Writers
               PROVE  PublishingInv!(v)'
    BY DEF PublishingInv
  <2>1. /\ pc'[v] \in {"seal", "flushSeal", "switch", "flushCurrent"} =>
              pc[v] \in {"seal", "flushSeal", "switch", "flushCurrent"}
        /\ pc'[v] \in {"switch", "flushCurrent"} =>
              pc[v] \in {"flushSeal", "switch", "flushCurrent"}
        /\ pc'[v] \in {"flushSeal", "reverify", "flushCurrent"} => pc'[v] = pc[v]
    BY DEF IInv, TypeOK
  <2>2. /\ gen[Digest(v)] # None => gen'[Digest(v)] # None
        /\ Intact(gen[Digest(v)], Digest(v)) =>
              /\ Intact(gen'[Digest(v)], Digest(v))
              /\ gen'[Digest(v)].sealed = gen[Digest(v)].sealed
        /\ disk'.gen = gen' /\ cur' = cur
    BY <1>1, <1>2, <1>3, SyncInv DEF Intact
  <2>3. QED
    BY <1>2, <2>1, <2>2 DEF IInv, PublishingInv, Servable
<1>10. DiskInv'
  BY <1>1, SyncInv DEF IInv, TypeOK, DiskInv
<1>11. CurrentInv'
  <2>1. cur \notin damaged \cup {None} =>
          Servable(gen[cur], cur) /\ cur \in Digests
    BY DEF IInv, TypeOK, CurrentInv, DiskInv, Servable, Intact
  <2>2. cur \notin damaged \cup {None} => Servable(disk'.gen[cur], cur)
    BY <1>1, <1>3, <2>1, SyncInv DEF Servable, Intact
  <2>3. QED
    BY <1>1, <2>2, SyncInv DEF CurrentInv
<1>12. QED
  BY <1>4, <1>5, <1>6, <1>7, <1>8, <1>9, <1>10, <1>11 DEF IInv

LEMMA FlushSealInv ==
    ASSUME IInv, NEW w \in Writers, FlushSeal(w)
    PROVE  IInv'
<1> USE DEF FlushSeal, envVars
<1>1. TypeOK /\ StagingInv /\ SyncVolume
  BY DEF IInv
<1>2. \A v \in Writers : Digest(v) \in Digests /\ Digest(v)' = Digest(v)
  BY <1>1, DigestType DEF Digest
<1> HIDE DEF SyncVolume
<1>3. \A d \in Digests : Intact(gen[d], d) => Intact(gen'[d], d)
  BY <1>1, SyncInv DEF Intact
<1>4. TypeOK'
  BY <1>1, SyncInv DEF TypeOK, PC, Locked
<1>5. LockInv'
  BY ConstantsAssumption DEF IInv, TypeOK, LockInv, Locked
<1>6. StagingInv'
  BY <1>1, <1>2, SyncInv, ConstantsAssumption DEF TypeOK, StagingInv, Staging
<1>7. VerifiedInv'
  BY <1>1, <1>2, SyncInv DEF IInv, TypeOK, VerifiedInv, Intact
<1>8. GenInv'
  BY <1>1, <1>3, SyncInv DEF IInv, TypeOK, GenInv
<1>9. PublishingInv'
  <2> SUFFICES ASSUME NEW v \in Writers
               PROVE  PublishingInv!(v)'
    BY DEF PublishingInv
  <2>1. /\ pc'[v] \in {"seal", "flushSeal", "switch", "flushCurrent"} =>
              pc[v] \in {"seal", "flushSeal", "switch", "flushCurrent"}
        /\ pc'[v] \in {"switch", "flushCurrent"} =>
              pc[v] \in {"flushSeal", "switch", "flushCurrent"}
        /\ pc'[v] \in {"flushSeal", "reverify", "flushCurrent"} => pc'[v] = pc[v]
    BY DEF IInv, TypeOK
  <2>2. /\ gen[Digest(v)] # None => gen'[Digest(v)] # None
        /\ Intact(gen[Digest(v)], Digest(v)) =>
              /\ Intact(gen'[Digest(v)], Digest(v))
              /\ gen'[Digest(v)].sealed = gen[Digest(v)].sealed
        /\ disk'.gen = gen' /\ cur' = cur
    BY <1>1, <1>2, <1>3, SyncInv DEF Intact
  <2>3. QED
    BY <1>2, <2>1, <2>2 DEF IInv, PublishingInv, Servable
<1>10. DiskInv'
  BY <1>1, SyncInv DEF IInv, TypeOK, DiskInv
<1>11. CurrentInv'
  <2>1. cur \notin damaged \cup {None} =>
          Servable(gen[cur], cur) /\ cur \in Digests
    BY DEF IInv, TypeOK, CurrentInv, DiskInv, Servable, Intact
  <2>2. cur \notin damaged \cup {None} => Servable(disk'.gen[cur], cur)
    BY <1>1, <1>3, <2>1, SyncInv DEF Servable, Intact
  <2>3. QED
    BY <1>1, <2>2, SyncInv DEF CurrentInv
<1>12. QED
  BY <1>4, <1>5, <1>6, <1>7, <1>8, <1>9, <1>10, <1>11 DEF IInv

LEMMA FlushCurrentInv ==
    ASSUME IInv, NEW w \in Writers, FlushCurrent(w)
    PROVE  IInv'
<1> USE DEF FlushCurrent, envVars
<1>1. TypeOK /\ StagingInv /\ SyncVolume
  BY DEF IInv
<1>2. \A v \in Writers : Digest(v) \in Digests /\ Digest(v)' = Digest(v)
  BY <1>1, DigestType DEF Digest
<1> HIDE DEF SyncVolume
<1>3. \A d \in Digests : Intact(gen[d], d) => Intact(gen'[d], d)
  BY <1>1, SyncInv DEF Intact
<1>4. TypeOK'
  BY <1>1, SyncInv DEF TypeOK, PC, Locked
<1>5. LockInv'
  BY ConstantsAssumption DEF IInv, TypeOK, LockInv, Locked
<1>6. StagingInv'
  BY <1>1, <1>2, SyncInv, ConstantsAssumption DEF TypeOK, StagingInv, Staging
<1>7. VerifiedInv'
  BY <1>1, <1>2, SyncInv DEF IInv, TypeOK, VerifiedInv, Intact
<1>8. GenInv'
  BY <1>1, <1>3, SyncInv DEF IInv, TypeOK, GenInv
<1>9. PublishingInv'
  <2> SUFFICES ASSUME NEW v \in Writers
               PROVE  PublishingInv!(v)'
    BY DEF PublishingInv
  <2>1. /\ pc'[v] \in {"seal", "flushSeal", "switch", "flushCurrent"} =>
              pc[v] \in {"seal", "flushSeal", "switch", "flushCurrent"}
        /\ pc'[v] \in {"switch", "flushCurrent"} =>
              pc[v] \in {"flushSeal", "switch", "flushCurrent"}
        /\ pc'[v] \in {"flushSeal", "reverify", "flushCurrent"} => pc'[v] = pc[v]
    BY DEF IInv, TypeOK
  <2>2. /\ gen[Digest(v)] # None => gen'[Digest(v)] # None
        /\ Intact(gen[Digest(v)], Digest(v)) =>
              /\ Intact(gen'[Digest(v)], Digest(v))
              /\ gen'[Digest(v)].sealed = gen[Digest(v)].sealed
        /\ disk'.gen = gen' /\ cur' = cur
    BY <1>1, <1>2, <1>3, SyncInv DEF Intact
  <2>3. QED
    BY <1>2, <2>1, <2>2 DEF IInv, PublishingInv, Servable
<1>10. DiskInv'
  BY <1>1, SyncInv DEF IInv, TypeOK, DiskInv
<1>11. CurrentInv'
  <2>1. cur \notin damaged \cup {None} =>
          Servable(gen[cur], cur) /\ cur \in Digests
    BY DEF IInv, TypeOK, CurrentInv, DiskInv, Servable, Intact
  <2>2. cur \notin damaged \cup {None} => Servable(disk'.gen[cur], cur)
    BY <1>1, <1>3, <2>1, SyncInv DEF Servable, Intact
  <2>3. QED
    BY <1>1, <2>2, SyncInv DEF CurrentInv
<1>12. QED
  BY <1>4, <1>5, <1>6, <1>7, <1>8, <1>9, <1>10, <1>11 DEF IInv

LEMMA PublishGenerationInv ==
    ASSUME IInv, NEW w \in Writers, PublishGeneration(w)
    PROVE  IInv'
<1>1. pc[w] = "publish" /\ staging[w] \in Tree /\ staging[w] # None
      /\ gen[Digest(w)] = None /\ Digest(w) \in Digests
  BY ConstantsAssumption, DigestType
  DEF PublishGeneration, IInv, StagingInv, Staging
<1>2. /\ gen' = [gen EXCEPT ![Digest(w)] = staging[w]]
      /\ staging' = [staging EXCEPT ![w] = None]
      /\ pc' = [pc EXCEPT ![w] = "seal"]
      /\ UNCHANGED <<rel, outcome, lock, before, cur, disk, orphans, pods,
                     damaged, faults>>
  BY <1>1 DEF PublishGeneration, envVars
<1>3. \A v \in Writers \ {w} : pc[v] \notin Locked
  BY <1>1 DEF IInv, LockInv, Locked
<1>4. \A v \in Writers : Digest(v)' = Digest(v)
  BY <1>2 DEF Digest
<1>5. Intact(staging[w], Digest(w)) /\ staging[w].flushed
  BY <1>1 DEF IInv, VerifiedInv
<1>6. TypeOK'
  BY <1>1, <1>2 DEF IInv, TypeOK, PC, Locked
<1>7. LockInv'
  BY <1>1, <1>2 DEF IInv, TypeOK, LockInv, Locked
<1>8. StagingInv' /\ VerifiedInv'
  BY <1>2, <1>3 DEF IInv, TypeOK, StagingInv, VerifiedInv, Staging, Locked
<1>9. GenInv'
  BY <1>1, <1>2, <1>5 DEF IInv, TypeOK, GenInv, Intact
<1>10. PublishingInv'
  <2>1. pc'[w] = "seal" /\ gen'[Digest(w)] = staging[w]
    BY <1>1, <1>2 DEF IInv, TypeOK
  <2>2. \A v \in Writers \ {w} : pc'[v] \notin Locked
    BY <1>2, <1>3 DEF IInv, TypeOK
  <2>3. QED
    BY <1>4, <1>5, <2>1, <2>2 DEF PublishingInv, Locked
<1>11. DiskInv' /\ CurrentInv'
  BY <1>1, <1>2 DEF IInv, TypeOK, DiskInv, CurrentInv, Servable, Intact
<1>12. QED
  BY <1>6, <1>7, <1>8, <1>9, <1>10, <1>11 DEF IInv

(* Rewriting a generation without touching what its manifest owns.         *)
LEMMA TouchGeneration ==
    ASSUME IInv, NEW d \in Digests, gen[d] # None, NEW t \in Tree,
           t.entries = gen[d].entries, t.manifest = gen[d].manifest,
           t.ready = gen[d].ready, t.flushed = gen[d].flushed,
           gen[d].sealed => t.sealed,
           gen' = [gen EXCEPT ![d] = t],
           UNCHANGED <<rel, outcome, staging, lock, before, cur, disk,
                       orphans, envVars>>
    PROVE  /\ pc' \in [Writers -> PC] => TypeOK'
           /\ \A x \in Digests : /\ gen'[x] = None <=> gen[x] = None
                                 /\ Intact(gen[x], x) => Intact(gen'[x], x)
                                 /\ gen[x].sealed => gen'[x].sealed
           /\ GenInv' /\ DiskInv' /\ CurrentInv'
<1> USE DEF envVars
<1>1. gen' \in [Digests -> Tree \cup {None}] /\ t # None
  BY ConstantsAssumption DEF IInv, TypeOK
<1>2. \A x \in Digests : gen'[x] = IF x = d THEN t ELSE gen[x]
  BY DEF IInv, TypeOK
<1>3. pc' \in [Writers -> PC] => TypeOK'
  BY <1>1 DEF IInv, TypeOK
<1>4. \A x \in Digests : /\ gen'[x] = None <=> gen[x] = None
                         /\ Intact(gen[x], x) => Intact(gen'[x], x)
                         /\ gen[x].sealed => gen'[x].sealed
  BY <1>1, <1>2 DEF Intact
<1>5. GenInv'
  BY <1>2, <1>4 DEF IInv, GenInv
<1>6. DiskInv'
  BY <1>1, <1>2 DEF IInv, DiskInv
<1>7. CurrentInv'
  BY DEF IInv, CurrentInv, Servable, Intact
<1>8. QED
  BY <1>3, <1>4, <1>5, <1>6, <1>7

LEMMA SealGenerationInv ==
    ASSUME IInv, NEW w \in Writers, SealGeneration(w)
    PROVE  IInv'
<1> DEFINE d == Digest(w)
           t == [gen[d] EXCEPT !.sealed = TRUE]
<1>1. d \in Digests /\ pc[w] = "seal" /\ Intact(gen[d], d)
  BY DigestType DEF IInv, PublishingInv, SealGeneration
<1>2. gen[d] \in Tree
  BY <1>1 DEF IInv, TypeOK, Intact
<1>3. /\ t \in Tree /\ t.entries = gen[d].entries /\ t.ready = gen[d].ready
      /\ t.manifest = gen[d].manifest /\ t.flushed = gen[d].flushed /\ t.sealed
  BY <1>2 DEF Tree
<1>4. /\ gen' = [gen EXCEPT ![d] = t] /\ pc' = [pc EXCEPT ![w] = "flushSeal"]
      /\ UNCHANGED <<rel, outcome, staging, lock, before, cur, disk, orphans,
                     envVars>>
  BY DEF SealGeneration
<1>5. \A v \in Writers : Digest(v) \in Digests /\ Digest(v)' = Digest(v)
  BY <1>4, DigestType DEF IInv, Digest
<1>6. gen'[d].sealed
  BY <1>1, <1>3, <1>4 DEF IInv, TypeOK
<1> HIDE DEF t
<1>7. /\ pc' \in [Writers -> PC] => TypeOK'
      /\ \A x \in Digests : /\ gen'[x] = None <=> gen[x] = None
                            /\ Intact(gen[x], x) => Intact(gen'[x], x)
                            /\ gen[x].sealed => gen'[x].sealed
      /\ GenInv' /\ DiskInv' /\ CurrentInv'
  BY <1>1, <1>3, <1>4, TouchGeneration DEF Intact
<1>8. TypeOK' /\ LockInv'
  BY <1>1, <1>4, <1>7 DEF IInv, TypeOK, PC, LockInv, Locked
<1>9. StagingInv' /\ VerifiedInv'
  BY <1>4, <1>5, <1>7 DEF IInv, TypeOK, StagingInv, Staging, VerifiedInv
<1>10. PublishingInv'
  BY <1>1, <1>4, <1>5, <1>6, <1>7 DEF IInv, TypeOK, PublishingInv
<1>11. QED
  BY <1>7, <1>8, <1>9, <1>10 DEF IInv

LEMMA PodCachesInv ==
    ASSUME IInv, NEW d \in Digests, PodCaches(d)
    PROVE  IInv'
<1> DEFINE t == [gen[d] EXCEPT !.extras = TRUE]
<1>1. gen[d] # None /\ gen[d] \in Tree
  BY DEF IInv, GenInv, TypeOK, PodCaches
<1>2. /\ t \in Tree /\ t.entries = gen[d].entries /\ t.ready = gen[d].ready
      /\ t.manifest = gen[d].manifest /\ t.flushed = gen[d].flushed
      /\ t.sealed = gen[d].sealed
  BY <1>1 DEF Tree
<1>3. /\ gen' = [gen EXCEPT ![d] = t] /\ pc' = pc
      /\ UNCHANGED <<rel, outcome, staging, lock, before, cur, disk, orphans,
                     envVars>>
  BY DEF PodCaches, procVars
<1>4. \A v \in Writers : Digest(v) \in Digests /\ Digest(v)' = Digest(v)
  BY <1>3, DigestType DEF IInv, Digest
<1> HIDE DEF t
<1>5. /\ pc' \in [Writers -> PC] => TypeOK'
      /\ \A x \in Digests : /\ gen'[x] = None <=> gen[x] = None
                            /\ Intact(gen[x], x) => Intact(gen'[x], x)
                            /\ gen[x].sealed => gen'[x].sealed
      /\ GenInv' /\ DiskInv' /\ CurrentInv'
  BY <1>1, <1>2, <1>3, TouchGeneration
<1>6. TypeOK' /\ LockInv'
  BY <1>3, <1>5 DEF IInv, TypeOK, LockInv
<1>7. StagingInv' /\ VerifiedInv' /\ PublishingInv'
  BY <1>3, <1>4, <1>5 DEF IInv, StagingInv, VerifiedInv, PublishingInv
<1>8. QED
  BY <1>5, <1>6, <1>7 DEF IInv

LEMMA AtomicUpdateCurrentInv ==
    ASSUME IInv, NEW w \in Writers, AtomicUpdateCurrent(w)
    PROVE  IInv'
<1> USE DEF AtomicUpdateCurrent, envVars
<1>1. \A v \in Writers : Digest(v) \in Digests /\ Digest(v)' = Digest(v)
  BY DigestType DEF IInv, Digest
<1>2. TypeOK'
  BY <1>1 DEF IInv, TypeOK, PC, Locked
<1>3. LockInv'
  BY DEF IInv, TypeOK, LockInv, Locked
<1>4. StagingInv' /\ VerifiedInv' /\ GenInv' /\ DiskInv'
  BY <1>1 DEF IInv, TypeOK, StagingInv, Staging, VerifiedInv, GenInv, DiskInv, Intact
<1>5. PublishingInv'
  <2>1. \A v \in Writers \ {w} : pc[v] \notin Locked
    BY DEF IInv, LockInv, Locked
  <2>2. QED
    BY <1>1, <2>1 DEF IInv, TypeOK, PublishingInv, Locked
<1>6. CurrentInv'
  BY <1>1 DEF IInv, PublishingInv, CurrentInv, Servable, Intact
<1>7. QED
  BY <1>2, <1>3, <1>4, <1>5, <1>6 DEF IInv

LEMMA HostCrashInv ==
    ASSUME IInv, HostCrash
    PROVE  IInv'
<1>1. \A d \in Digests : gen'[d] \in {gen[d], disk.gen[d]}
  BY DEF HostCrash, Survivors, IInv, GenInv
<1>2. /\ gen' \in [Digests -> Tree \cup {None}]
      /\ disk' = [gen |-> gen', cur |-> cur'] /\ cur' \in {cur, disk.cur}
      /\ pc' = [w \in Writers |-> "idle"] /\ lock' = None /\ pods' = {}
      /\ staging' = [w \in Writers |-> None] /\ before' = None
      /\ UNCHANGED <<rel, outcome, damaged>>
  <2>1. gen' \in [Digests -> UNION {Survivors(gen[d], disk.gen[d]) : d \in Digests}]
    BY DEF HostCrash
  <2>2. gen' \in [Digests -> Tree \cup {None}]
    BY <1>1, <2>1 DEF IInv, TypeOK
  <2>3. QED
    BY <2>2 DEF HostCrash
<1>3. orphans' \in Nat
  <2>1. IsFiniteSet({w \in Writers : staging[w] # None})
    BY ConstantsAssumption, FS_Subset
  <2>2. Cardinality({w \in Writers : staging[w] # None}) \in Nat
    BY <2>1, FS_CardinalityType
  <2>3. QED
    BY <2>2 DEF HostCrash, IInv, TypeOK
<1>4. TypeOK'
  BY <1>2, <1>3, ConstantsAssumption DEF IInv, TypeOK, PC, HostCrash
<1>5. LockInv' /\ StagingInv' /\ VerifiedInv' /\ PublishingInv'
  BY <1>2, ConstantsAssumption
  DEF LockInv, StagingInv, VerifiedInv, PublishingInv, Locked, Staging
<1>6. GenInv'
  BY <1>1, <1>2 DEF IInv, GenInv, DiskInv, Intact
<1>7. DiskInv'
  BY <1>2, <1>6 DEF DiskInv, GenInv
<1>8. CurrentInv'
  <2>1. cur' = None \/ cur' \in Digests
    BY <1>4 DEF TypeOK
  <2>2. cur' \notin damaged \cup {None} =>
          Servable(disk.gen[cur'], cur') /\ Servable(gen[cur'], cur')
    BY <1>2, <2>1 DEF IInv, CurrentInv, DiskInv, Servable, Intact
  <2>3. cur' \notin damaged \cup {None} => Servable(gen'[cur'], cur')
    BY <1>1, <2>1, <2>2
  <2>4. QED
    BY <1>2, <2>3 DEF CurrentInv
<1>9. QED
  BY <1>4, <1>5, <1>6, <1>7, <1>8 DEF IInv

LEMMA PodStartsInv ==
    ASSUME IInv, PodStarts
    PROVE  IInv'
<1> USE DEF PodStarts, procVars, volVars, Digest
<1>1. TypeOK' /\ LockInv' /\ StagingInv' /\ VerifiedInv'
  BY DEF IInv, TypeOK, LockInv, StagingInv, VerifiedInv, Intact
<1>2. GenInv'
  BY DEF IInv, GenInv, Intact
<1>3. PublishingInv'
  BY DEF IInv, PublishingInv, Intact, Servable
<1>4. DiskInv' /\ CurrentInv'
  BY DEF IInv, DiskInv, CurrentInv, Intact, Servable
<1>5. QED
  BY <1>1, <1>2, <1>3, <1>4 DEF IInv

LEMMA DamageInv ==
    ASSUME IInv, NEW d \in Digests, NEW e \in Entries, Damage(d, e)
    PROVE  IInv'
<1> DEFINE lose(u) == [u EXCEPT !.entries = @ \ {e}]
           g == lose(gen[d])
           h == [disk.gen EXCEPT ![d] = lose(disk.gen[d])]
<1>1. gen[d] # None /\ gen[d] \in Tree
  BY DEF IInv, TypeOK, Damage
<1>2. ASSUME NEW u \in Tree
      PROVE  /\ lose(u) \in Tree /\ lose(u) # None
             /\ lose(u).entries = u.entries \ {e}
             /\ lose(u).manifest = u.manifest /\ lose(u).ready = u.ready
             /\ lose(u).sealed = u.sealed /\ lose(u).flushed = u.flushed
  BY ConstantsAssumption DEF Tree
<1>3. /\ gen' = [gen EXCEPT ![d] = g] /\ pc' = pc
      /\ damaged' = damaged \cup {d} /\ lock = None
      /\ UNCHANGED <<rel, outcome, staging, lock, before, cur, orphans, pods,
                     faults>>
  BY DEF Damage, procVars
<1>4. /\ disk'.cur = disk.cur
      /\ disk' \in [gen : [Digests -> Tree \cup {None}], cur : Digests \cup {None}]
      /\ \A x \in Digests \ {d} : disk'.gen[x] = disk.gen[x]
      /\ disk.gen[d] = None => disk'.gen[d] = None
      /\ disk.gen[d] # None => disk'.gen[d] = lose(disk.gen[d])
  <2>1. CASE disk.gen[d] = None
    BY <2>1 DEF Damage, IInv, TypeOK
  <2>2. CASE disk.gen[d] # None
    <3>1. disk.gen[d] \in Tree
      BY <2>2 DEF IInv, TypeOK
    <3>2. h \in [Digests -> Tree \cup {None}]
      BY <1>2, <3>1 DEF IInv, TypeOK
    <3>3. disk' = [disk EXCEPT !.gen = h]
      BY <2>2 DEF Damage
    <3> HIDE DEF h
    <3>4. disk'.gen = h /\ disk'.cur = disk.cur
          /\ disk' \in [gen : [Digests -> Tree \cup {None}], cur : Digests \cup {None}]
      BY <3>2, <3>3 DEF IInv, TypeOK
    <3>5. QED
      BY <2>2, <3>4 DEF h, IInv, TypeOK
  <2>3. QED
    BY <2>1, <2>2
<1> HIDE DEF lose, g, h
<1>5. g \in Tree /\ g # None
  BY <1>1, <1>2 DEF g
<1>6. TypeOK'
  BY <1>3, <1>4, <1>5 DEF IInv, TypeOK
<1>7. \A w \in Writers : pc'[w] \notin Locked
  BY <1>3, ConstantsAssumption DEF IInv, LockInv
<1>8. LockInv' /\ StagingInv' /\ VerifiedInv' /\ PublishingInv'
  BY <1>3, <1>7, ConstantsAssumption
  DEF LockInv, StagingInv, VerifiedInv, PublishingInv, Locked, Staging
<1>9. GenInv'
  BY <1>1, <1>2, <1>3, <1>5 DEF IInv, TypeOK, GenInv, g
<1>10. DiskInv'
  <2>1. ASSUME NEW x \in Digests \ {d} PROVE DiskInv!(x)'
    BY <1>3, <1>4 DEF IInv, TypeOK, DiskInv
  <2>2. disk.gen[d] # None => disk.gen[d] \in Tree
    BY DEF IInv, TypeOK
  <2>3. DiskInv!(d)'
    <3>1. CASE disk.gen[d] = None
      BY <1>4, <3>1
    <3>2. CASE disk.gen[d] # None
      <4>1. disk'.gen[d] = lose(disk.gen[d]) /\ gen'[d] = lose(gen[d])
        BY <1>3, <1>4, <3>2 DEF g, IInv, TypeOK
      <4>2. DiskInv!(d)
        BY DEF IInv, DiskInv
      <4>3. /\ disk'.gen[d].entries = disk.gen[d].entries \ {e}
            /\ disk'.gen[d].manifest = disk.gen[d].manifest
            /\ disk'.gen[d].ready = disk.gen[d].ready
            /\ disk'.gen[d].sealed = disk.gen[d].sealed
            /\ disk'.gen[d].flushed = disk.gen[d].flushed
        BY <1>2, <2>2, <3>2, <4>1
      <4>4. /\ gen'[d] # None
            /\ gen'[d].entries = gen[d].entries \ {e}
            /\ gen'[d].manifest = gen[d].manifest
            /\ gen'[d].ready = gen[d].ready
            /\ gen'[d].sealed = gen[d].sealed
        BY <1>1, <1>2, <4>1
      <4>5. QED
        BY <3>2, <4>2, <4>3, <4>4
    <3>3. QED
      BY <3>1, <3>2
  <2>4. QED
    BY <2>1, <2>3 DEF DiskInv
<1>11. CurrentInv'
  BY <1>3, <1>4 DEF IInv, TypeOK, CurrentInv, Servable, Intact
<1>12. QED
  BY <1>6, <1>8, <1>9, <1>10, <1>11 DEF IInv
-----------------------------------------------------------------------------
LEMMA StutterInv == ASSUME IInv, UNCHANGED vars PROVE IInv'
<1> USE DEF vars, Digest
<1>1. TypeOK' /\ LockInv' /\ StagingInv' /\ VerifiedInv'
  BY DEF IInv, TypeOK, LockInv, StagingInv, VerifiedInv, Intact
<1>2. GenInv' /\ PublishingInv'
  BY DEF IInv, GenInv, PublishingInv, Intact, Servable
<1>3. DiskInv' /\ CurrentInv'
  BY DEF IInv, DiskInv, CurrentInv, Intact, Servable
<1>4. QED
  BY <1>1, <1>2, <1>3 DEF IInv

LEMMA NextInv == IInv /\ [Next]_vars => IInv'
<1> SUFFICES ASSUME IInv, [Next]_vars PROVE IInv'
  OBVIOUS
<1>1. ASSUME NEW w \in Writers, Step(w) PROVE IInv'
  <2>1. CASE SelectGeneration(w)        BY <2>1, SelectGenerationInv
  <2>2. CASE \E e \in Entries : ExtractMember(w, e)
    BY <2>2, ExtractMemberInv
  <2>3. CASE ExtractionEnds(w)          BY <2>3, ExtractionEndsInv
  <2>4. CASE VolumeFull(w)              BY <2>4, VolumeFullInv
  <2>5. CASE VerifyStaged(w)            BY <2>5, VerifyStagedInv
  <2>6. CASE WriteManifest(w)           BY <2>6, WriteManifestInv
  <2>7. CASE WriteReady(w)              BY <2>7, WriteReadyInv
  <2>8. CASE VerifyStagedGeneration(w)  BY <2>8, VerifyStagedGenerationInv
  <2>9. CASE VerifyReused(w)            BY <2>9, VerifyReusedInv
  <2>10. CASE FlushStaged(w)            BY <2>10, FlushStagedInv
  <2>11. CASE PublishGeneration(w)      BY <2>11, PublishGenerationInv
  <2>12. CASE SealGeneration(w)         BY <2>12, SealGenerationInv
  <2>13. CASE FlushSeal(w)              BY <2>13, FlushSealInv
  <2>14. CASE AtomicUpdateCurrent(w)    BY <2>14, AtomicUpdateCurrentInv
  <2>15. CASE FlushCurrent(w)           BY <2>15, FlushCurrentInv
  <2>16. CASE Cleanup(w)                BY <2>16, CleanupInv
  <2>17. QED
    BY <1>1, <2>1, <2>2, <2>3, <2>4, <2>5, <2>6, <2>7, <2>8, <2>9, <2>10,
       <2>11, <2>12, <2>13, <2>14, <2>15, <2>16 DEF Step
<1>2. ASSUME NEW w \in Writers,
             \/ \E r \in Releases : Materialize(w, r)
             \/ WriterLock(w) \/ Step(w)
             \/ Refuse(w) \/ Raise(w) \/ Kill(w)
      PROVE  IInv'
  BY <1>1, <1>2, MaterializeInv, WriterLockInv, RefuseInv, RaiseInv, KillInv
<1>3. CASE HostCrash
  BY <1>3, HostCrashInv
<1>4. CASE PodStarts
  BY <1>4, PodStartsInv
<1>5. CASE \E d \in Digests : PodCaches(d)
  BY <1>5, PodCachesInv
<1>6. CASE \E d \in Digests, e \in Entries : Damage(d, e)
  BY <1>6, DamageInv
<1>7. CASE UNCHANGED vars
  BY <1>7, StutterInv
<1>8. QED
  BY <1>2, <1>3, <1>4, <1>5, <1>6, <1>7 DEF Next

(* The inductive invariant holds in every reachable state.                 *)
THEOREM Invariance == Spec => []IInv
  BY InitInv, NextInv, PTL DEF Spec

(* Every variable keeps its type, crashes and damage included.             *)
THEOREM TypeCorrect == Spec => []TypeOK
<1>1. IInv => TypeOK
  BY DEF IInv
<1>2. QED
  BY <1>1, Invariance, PTL

(* The existence check of _materialize_locked is still valid at the rename:*)
(* no staged tree is ever lost to a generation_conflict.                   *)
THEOREM SelectionHolds == Spec => []SelectionStillValid
<1>1. IInv => SelectionStillValid
  BY DEF IInv, StagingInv, SelectionStillValid, Staging
<1>2. QED
  BY <1>1, Invariance, PTL

(* current names a verified, sealed and durable generation in every state, *)
(* and so does what a host crash would leave of it.                        *)
THEOREM CurrentIsServable == Spec => []CurrentServable
<1>1. IInv => CurrentServable
  BY DEF IInv, TypeOK, CurrentInv, DiskInv, CurrentServable, Servable, Intact
<1>2. QED
  BY <1>1, Invariance, PTL
-----------------------------------------------------------------------------
(* Steps that leave what is on the volume alone.                           *)
Quiet == UNCHANGED <<gen, cur, disk, damaged>>

LEMMA NextCases ==
    ASSUME [Next]_vars
    PROVE  \/ Quiet
           \/ \E w \in Writers :
                 FlushStaged(w) \/ FlushSeal(w) \/ FlushCurrent(w)
                 \/ PublishGeneration(w) \/ SealGeneration(w)
                 \/ AtomicUpdateCurrent(w)
           \/ HostCrash
           \/ \E d \in Digests : PodCaches(d)
           \/ \E d \in Digests, e \in Entries : Damage(d, e)
<1> USE DEF Quiet, volVars, envVars
<1>1. ASSUME NEW w \in Writers,
             \/ \E r \in Releases : Materialize(w, r)
             \/ WriterLock(w) \/ Refuse(w) \/ Raise(w) \/ Kill(w)
      PROVE  Quiet
  BY <1>1 DEF Materialize, WriterLock, Refuse, Raise, Kill
<1>2. ASSUME NEW w \in Writers,
             \/ SelectGeneration(w)
             \/ \E e \in Entries : ExtractMember(w, e)
             \/ ExtractionEnds(w) \/ VolumeFull(w)
             \/ VerifyStaged(w) \/ WriteManifest(w) \/ WriteReady(w)
             \/ VerifyStagedGeneration(w) \/ VerifyReused(w) \/ Cleanup(w)
      PROVE  Quiet
  BY <1>2 DEF SelectGeneration, ExtractMember, ExtractionEnds, VolumeFull,
     VerifyStaged, WriteManifest, WriteReady, VerifyStagedGeneration,
     VerifyReused, Cleanup
<1>3. UNCHANGED vars \/ PodStarts => Quiet
  BY DEF vars, PodStarts
<1> HIDE DEF Quiet
<1>4. QED
  BY <1>1, <1>2, <1>3 DEF Next, Step

(* A rename only ever gives a name to a tree no generation has.            *)
LEMMA PublishFacts ==
    ASSUME IInv, NEW w \in Writers, PublishGeneration(w)
    PROVE  /\ Digest(w) \in Digests /\ gen[Digest(w)] = None
           /\ \A d \in Digests \ {Digest(w)} : gen'[d] = gen[d]
           /\ UNCHANGED <<cur, disk, damaged>>
<1>1. pc[w] = "publish" /\ gen[Digest(w)] = None /\ Digest(w) \in Digests
  BY DigestType DEF PublishGeneration, IInv, StagingInv, Staging
<1>2. QED
  BY <1>1 DEF PublishGeneration, IInv, TypeOK, envVars

LEMMA SealFacts ==
    ASSUME IInv, NEW w \in Writers, SealGeneration(w)
    PROVE  /\ Digest(w) \in Digests /\ Servable(gen'[Digest(w)], Digest(w))
           /\ gen'[Digest(w)].entries = gen[Digest(w)].entries
           /\ gen'[Digest(w)].manifest = gen[Digest(w)].manifest
           /\ \A d \in Digests \ {Digest(w)} : gen'[d] = gen[d]
           /\ UNCHANGED <<cur, disk, damaged>>
<1> DEFINE d == Digest(w)
           t == [gen[d] EXCEPT !.sealed = TRUE]
<1>1. d \in Digests /\ Intact(gen[d], d)
  BY DigestType DEF IInv, PublishingInv, SealGeneration
<1>2. gen[d] \in Tree
  BY <1>1 DEF IInv, TypeOK, Intact
<1>3. /\ t.entries = gen[d].entries /\ t.ready = gen[d].ready /\ t # None
      /\ t.manifest = gen[d].manifest /\ t.sealed
  BY <1>2, ConstantsAssumption DEF Tree
<1>4. /\ gen' = [gen EXCEPT ![d] = t] /\ UNCHANGED <<cur, disk, damaged>>
  BY DEF SealGeneration, envVars
<1> HIDE DEF t
<1>5. gen'[d] = t /\ \A x \in Digests \ {d} : gen'[x] = gen[x]
  BY <1>1, <1>4 DEF IInv, TypeOK
<1>6. QED
  BY <1>1, <1>3, <1>4, <1>5 DEF Servable, Intact

LEMMA CacheFacts ==
    ASSUME IInv, NEW d \in Digests, PodCaches(d)
    PROVE  /\ \A x \in Digests : /\ Servable(gen'[x], x) <=> Servable(gen[x], x)
                                 /\ gen[x] # None => gen'[x] # None
                                 /\ gen'[x].entries = gen[x].entries
                                 /\ gen'[x].manifest = gen[x].manifest
           /\ UNCHANGED <<cur, disk, damaged>>
<1> DEFINE t == [gen[d] EXCEPT !.extras = TRUE]
<1>1. gen[d] # None /\ gen[d] \in Tree
  BY DEF IInv, GenInv, TypeOK, PodCaches
<1>2. /\ t.entries = gen[d].entries /\ t.ready = gen[d].ready /\ t # None
      /\ t.manifest = gen[d].manifest /\ t.sealed = gen[d].sealed
  BY <1>1, ConstantsAssumption DEF Tree
<1>3. gen' = [gen EXCEPT ![d] = t] /\ UNCHANGED <<cur, disk, damaged>>
  BY DEF PodCaches, envVars
<1> HIDE DEF t
<1>4. gen'[d] = t /\ \A x \in Digests \ {d} : gen'[x] = gen[x]
  BY <1>3 DEF IInv, TypeOK
<1>5. QED
  BY <1>1, <1>2, <1>3, <1>4 DEF Servable, Intact

LEMMA CrashFacts ==
    ASSUME IInv, HostCrash
    PROVE  /\ \A d \in Digests : gen'[d] \in {gen[d], disk.gen[d]}
           /\ disk' = [gen |-> gen', cur |-> cur'] /\ cur' \in {cur, disk.cur}
           /\ damaged' = damaged
  BY DEF HostCrash, Survivors, IInv, GenInv

LEMMA FlushFacts ==
    ASSUME IInv, NEW w \in Writers,
           FlushStaged(w) \/ FlushSeal(w) \/ FlushCurrent(w)
    PROVE  /\ cur' = cur /\ damaged' = damaged
           /\ disk'.gen = gen' /\ disk'.cur = cur
           /\ \A d \in Digests :
                 /\ gen[d] # None => /\ gen'[d] # None
                                     /\ gen'[d].entries = gen[d].entries
                                     /\ gen'[d].manifest = gen[d].manifest
                 /\ Servable(gen'[d], d) <=> Servable(gen[d], d)
<1>1. TypeOK /\ StagingInv /\ SyncVolume /\ UNCHANGED <<cur, damaged>>
  BY DEF IInv, FlushStaged, FlushSeal, FlushCurrent, envVars
<1>2. QED
  BY <1>1, SyncInv DEF Servable, Intact

LEMMA DamageFacts ==
    ASSUME IInv, NEW d \in Digests, NEW e \in Entries, Damage(d, e)
    PROVE  /\ cur' = cur /\ disk'.cur = disk.cur /\ damaged' = damaged \cup {d}
           /\ \A x \in Digests \ {d} :
                 gen'[x] = gen[x] /\ disk'.gen[x] = disk.gen[x]
           /\ gen'[d] # None /\ gen'[d].manifest = gen[d].manifest
           /\ ~ Servable(gen'[d], d) /\ ~ Servable(disk'.gen[d], d)
<1> DEFINE g == [gen[d] EXCEPT !.entries = @ \ {e}]
           h == [disk.gen[d] EXCEPT !.entries = @ \ {e}]
<1>1. gen[d] # None /\ gen[d] \in Tree
  BY DEF IInv, TypeOK, Damage
<1>2. g # None /\ g.manifest = gen[d].manifest /\ e \notin g.entries
  BY <1>1, ConstantsAssumption DEF Tree
<1>3. /\ gen' = [gen EXCEPT ![d] = g]
      /\ cur' = cur /\ damaged' = damaged \cup {d}
      /\ disk' = IF disk.gen[d] = None THEN disk
                 ELSE [disk EXCEPT !.gen = [@ EXCEPT ![d] = h]]
  BY DEF Damage, procVars
<1>4. disk.gen[d] # None => e \notin h.entries
  BY DEF IInv, TypeOK, Tree
<1> HIDE DEF g, h
<1>5. gen'[d] = g /\ \A x \in Digests \ {d} : gen'[x] = gen[x]
  BY <1>3 DEF IInv, TypeOK
<1>6. CASE disk.gen[d] = None
  BY <1>2, <1>3, <1>5, <1>6 DEF Servable, Intact
<1>7. CASE disk.gen[d] # None
  <2>1. disk'.cur = disk.cur /\ disk'.gen = [disk.gen EXCEPT ![d] = h]
    BY <1>3, <1>7 DEF IInv, TypeOK
  <2>2. disk'.gen[d] = h /\ \A x \in Digests \ {d} : disk'.gen[x] = disk.gen[x]
    BY <2>1 DEF IInv, TypeOK
  <2>3. QED
    BY <1>2, <1>3, <1>4, <1>5, <1>7, <2>1, <2>2 DEF Servable, Intact
<1>8. QED
  BY <1>6, <1>7

(* Older generations are never deleted or overwritten: what is durable     *)
(* keeps its manifest and its files through every step and every crash.    *)
THEOREM GenerationsSurvive == Spec => PublishedGenerationsSurvive
<1>1. IInv /\ [Next]_vars => [KeepsGenerations]_vars
  <2> SUFFICES ASSUME IInv, [Next]_vars, NEW d \in Digests, disk.gen[d] # None
               PROVE  /\ gen'[d] # None
                      /\ gen'[d].manifest = disk.gen[d].manifest
                      /\ d \notin damaged' =>
                            disk.gen[d].entries \subseteq gen'[d].entries
    BY DEF KeepsGenerations
  <2>1. /\ gen[d] # None
        /\ gen[d].entries = disk.gen[d].entries
        /\ gen[d].manifest = disk.gen[d].manifest
    BY DEF IInv, DiskInv
  <2>2. CASE Quiet
    BY <2>1, <2>2 DEF Quiet
  <2>3. ASSUME NEW w \in Writers,
               FlushStaged(w) \/ FlushSeal(w) \/ FlushCurrent(w)
        PROVE  /\ gen'[d] # None /\ gen'[d].entries = gen[d].entries
               /\ gen'[d].manifest = gen[d].manifest
    BY <2>1, <2>3, FlushFacts
  <2>4. ASSUME NEW w \in Writers, PublishGeneration(w)
        PROVE  gen'[d] = gen[d]
    BY <2>1, <2>4, PublishFacts
  <2>5. ASSUME NEW w \in Writers, SealGeneration(w)
        PROVE  /\ gen'[d] # None /\ gen'[d].entries = gen[d].entries
               /\ gen'[d].manifest = gen[d].manifest
    BY <2>1, <2>5, SealFacts DEF Servable, Intact
  <2>6. ASSUME NEW w \in Writers, AtomicUpdateCurrent(w)
        PROVE  gen'[d] = gen[d]
    BY <2>6 DEF AtomicUpdateCurrent
  <2>7. CASE HostCrash
    BY <2>1, <2>7, CrashFacts
  <2>8. ASSUME NEW x \in Digests, PodCaches(x)
        PROVE  /\ gen'[d] # None /\ gen'[d].entries = gen[d].entries
               /\ gen'[d].manifest = gen[d].manifest
    BY <2>1, <2>8, CacheFacts
  <2>9. ASSUME NEW x \in Digests, NEW e \in Entries, Damage(x, e)
        PROVE  /\ gen'[d] # None /\ gen'[d].manifest = gen[d].manifest
               /\ d \notin damaged' => gen[d].entries \subseteq gen'[d].entries
    BY <2>1, <2>9, DamageFacts
  <2>10. QED
    BY <2>1, <2>2, <2>3, <2>4, <2>5, <2>6, <2>7, <2>8, <2>9, NextCases
<1>2. QED
  BY <1>1, Invariance, PTL DEF Spec, PublishedGenerationsSurvive

(* "ok" is only ever returned for a runtime current names, both durable.   *)
THEOREM AcknowledgedDurable == Spec => AcknowledgedIsDurable
<1>1. ASSUME IInv, [Next]_vars, NEW w \in Writers, Acknowledges(w)
      PROVE  /\ disk'.cur = Digest(w)
             /\ Servable(disk'.gen[Digest(w)], Digest(w))
  <2>1. FlushCurrent(w)
    BY <1>1 DEF IInv, TypeOK, Acknowledges, Next, Step, vars, procVars, Materialize,
       Refuse, WriterLock, SelectGeneration, ExtractMember, ExtractionEnds,
       VolumeFull, VerifyStaged, WriteManifest, WriteReady,
       VerifyStagedGeneration, VerifyReused, FlushStaged, PublishGeneration,
       SealGeneration, FlushSeal, AtomicUpdateCurrent, FlushCurrent, Raise,
       Cleanup, Kill, HostCrash, PodStarts, PodCaches, Damage
  <2>2. pc[w] = "flushCurrent" /\ Digest(w) \in Digests
    BY <1>1, <2>1, DigestType DEF FlushCurrent, IInv
  <2>3. cur = Digest(w) /\ Servable(gen[Digest(w)], Digest(w))
    BY <1>1, <2>2 DEF IInv, PublishingInv, Servable
  <2>4. QED
    BY <1>1, <2>1, <2>2, <2>3, FlushFacts
<1>2. IInv /\ [Next]_vars =>
        [\A w \in Writers : Acknowledges(w) =>
             /\ disk'.cur = Digest(w)
             /\ Servable(disk'.gen[Digest(w)], Digest(w))]_vars
  BY <1>1
<1>3. QED
  BY <1>2, Invariance, PTL DEF Spec, AcknowledgedIsDurable
-----------------------------------------------------------------------------
Complete == {d \in Digests : Servable(gen[d], d)}
Safe     == {d \in Digests : Servable(disk.gen[d], d)}

LEMMA StoreStep == IInv /\ [Next]_vars => [Store!StoreNext]_(Store!store)
<1> SUFFICES ASSUME IInv, [Next]_vars
             PROVE  \/ \E d \in Digests :
                          Store!Install(d) \/ Store!Expose(d) \/ Store!Rot(d)
                    \/ Store!Persist \/ Store!Crash
                    \/ UNCHANGED <<Complete, Safe, cur, disk.cur>>
  BY DEF Store!StoreNext, Store!store, Complete, Safe
<1>1. CASE Quiet
  BY <1>1 DEF Quiet, Complete, Safe
<1>2. ASSUME NEW w \in Writers,
             FlushStaged(w) \/ FlushSeal(w) \/ FlushCurrent(w)
      PROVE  Store!Persist
  BY <1>2, FlushFacts DEF Store!Persist
<1>3. ASSUME NEW w \in Writers, PublishGeneration(w)
      PROVE  Store!Install(Digest(w)) \/ UNCHANGED <<Complete, Safe, cur, disk.cur>>
  <2>1. Digest(w) \in Digests /\ Digest(w) \notin Complete
    BY <1>3, PublishFacts DEF Complete, Servable, Intact
  <2>2. CASE Servable(gen'[Digest(w)], Digest(w))
    BY <1>3, <2>1, <2>2, PublishFacts DEF Store!Install
  <2>3. CASE ~ Servable(gen'[Digest(w)], Digest(w))
    BY <1>3, <2>1, <2>3, PublishFacts DEF Complete, Safe
  <2>4. QED
    BY <2>2, <2>3
<1>4. ASSUME NEW w \in Writers, SealGeneration(w)
      PROVE  Store!Install(Digest(w))
  BY <1>4, SealFacts DEF Store!Install
<1>5. ASSUME NEW w \in Writers, AtomicUpdateCurrent(w)
      PROVE  Digest(w) \in Digests /\ Store!Expose(Digest(w))
  <2>1. Digest(w) \in Digests /\ Servable(disk.gen[Digest(w)], Digest(w))
    BY <1>5, DigestType DEF AtomicUpdateCurrent, IInv, PublishingInv
  <2>2. QED
    BY <1>5, <2>1 DEF AtomicUpdateCurrent, Store!Expose
<1>6. CASE HostCrash
  <2>1. \A d \in Digests : Servable(disk.gen[d], d) => Servable(gen[d], d)
    BY DEF IInv, DiskInv, Servable, Intact
  <2>2. QED
    BY <1>6, <2>1, CrashFacts DEF Store!Crash
<1>7. ASSUME NEW d \in Digests, PodCaches(d)
      PROVE  UNCHANGED <<Complete, Safe, cur, disk.cur>>
  BY <1>7, CacheFacts DEF Complete, Safe
<1>8. ASSUME NEW d \in Digests, NEW e \in Entries, Damage(d, e)
      PROVE  Store!Rot(d)
  BY <1>8, DamageFacts DEF Store!Rot
<1>9. QED
  <2>1. ASSUME NEW w \in Writers, PublishGeneration(w) \/ SealGeneration(w)
        PROVE  Digest(w) \in Digests
    BY DigestType DEF IInv
  <2>2. QED
    BY <1>1, <1>2, <1>3, <1>4, <1>5, <1>6, <1>7, <1>8, <2>1, NextCases

(* The materializer implements the runtime store: whatever dies and when,  *)
(* a Pod sees current move between complete, durable runtimes only.        *)
THEOREM Refinement == Spec => ImplementsStore
<1>1. Init => Store!StoreInit
  BY DEF Init, Store!StoreInit, Servable, Intact
<1>2. QED
  BY <1>1, StoreStep, Invariance, PTL DEF Spec, ImplementsStore, Store!StoreSpec
=============================================================================
