------------------------- MODULE RuntimeMaterializer -------------------------
(***************************************************************************)
(* scripts/materialize_runtime.py: several materializer processes publish  *)
(* runtime bundles on one Network Volume.                                  *)
(*                                                                         *)
(*   runtimes/.materialize.lock    lock: the holder of the blocking flock  *)
(*   runtimes/.staging/<hex>.<id>  staging[w], and orphans once its writer *)
(*                                 is gone without removing it             *)
(*   runtimes/<hex>/               gen[d]: one generation per tree digest  *)
(*   runtimes/current              cur: the digest the symlink names       *)
(*                                                                         *)
(* gen and cur are what processes see; disk is the part of it a barrier    *)
(* (syncfs) has made durable, the rest may or may not survive a crash of   *)
(* the host.  Product Pods follow current and add interpreter caches to    *)
(* the generation they run from.                                           *)
(***************************************************************************)
EXTENDS Naturals, FiniteSets

CONSTANTS Writers,    \* invocations of the materializer that may overlap
          Releases,   \* (archive, manifest) pairs, distinct manifest bytes
          Digests,    \* runtime digests: the digests of the file trees
          DigestOf,   \* the runtime_digest each release's manifest declares
          Entries,    \* the manifest entries of a tree
          None,       \* no generation, no symlink, nobody
          Capacity,   \* trees the volume has room for
          MaxFaults,  \* kills, host crashes and raised I/O errors
          MaxDamage   \* generations damaged at rest

(* A directory tree: manifest entries that are present with the right     *)
(* bytes, whether manifest.json and READY.json are written, whether other  *)
(* users may traverse its directories (0755 against 0700), whether it      *)
(* holds unmanifested caches, and whether its file data has been flushed.  *)
Tree == [entries : SUBSET Entries, manifest : Releases \cup {None},
         ready : BOOLEAN, sealed : BOOLEAN, extras : BOOLEAN,
         flushed : BOOLEAN]

ASSUME ConstantsAssumption ==
    /\ DigestOf \in [Releases -> Digests]
    /\ None \notin Writers \cup Releases \cup Digests
    /\ None \notin Tree
    /\ IsFiniteSet(Writers)
    /\ {Capacity, MaxFaults, MaxDamage} \subseteq Nat

VARIABLES pc, rel, outcome, staging, lock,      \* the processes
          gen, cur, disk, orphans,              \* the volume
          pods,                                 \* generations Pods run from
          damaged, faults,                      \* the environment's record
          before                                \* current when the lock was won, or None

procVars == <<pc, rel, outcome, staging, lock, before>>
volVars  == <<gen, cur, disk, orphans>>
envVars  == <<pods, damaged, faults>>
vars == <<pc, rel, outcome, staging, lock, gen, cur, disk, orphans,
          pods, damaged, faults, before>>

Locked == {"select", "reverify", "extract", "verify", "manifest", "ready",
           "recheck", "flush", "publish", "seal", "flushSeal", "switch",
           "flushCurrent", "cleanup"}
PC == {"idle", "lock"} \cup Locked

Digest(w) == DigestOf[rel[w]]

EmptyTree == [entries |-> {}, manifest |-> None, ready |-> FALSE,
              sealed |-> FALSE, extras |-> FALSE, flushed |-> FALSE]

Init == /\ pc = [w \in Writers |-> "idle"]
        /\ rel \in [Writers -> Releases]
        /\ outcome = [w \in Writers |-> "none"]
        /\ staging = [w \in Writers |-> None]
        /\ lock = None
        /\ gen = [d \in Digests |-> None]
        /\ cur = None
        /\ disk = [gen |-> [d \in Digests |-> None], cur |-> None]
        /\ orphans = 0
        /\ pods = {}
        /\ damaged = {}
        /\ faults = 0
        /\ before = None
-----------------------------------------------------------------------------
(* materialize(), before the lock: archive digest, mode probe and policy,  *)
(* the runtimes/ directory.  Nothing published is touched.                 *)
Materialize(w, r) ==
    /\ pc[w] = "idle"
    /\ pc' = [pc EXCEPT ![w] = "lock"]
    /\ rel' = [rel EXCEPT ![w] = r]
    /\ outcome' = [outcome EXCEPT ![w] = "none"]
    /\ UNCHANGED <<staging, lock, before, volVars, envVars>>

(* An input the checks before the lock refuse, or a lock file that cannot  *)
(* be opened: the call raises without having taken the lock.               *)
Refuse(w) ==
    /\ pc[w] = "lock"
    /\ faults < MaxFaults
    /\ faults' = faults + 1
    /\ pc' = [pc EXCEPT ![w] = "idle"]
    /\ outcome' = [outcome EXCEPT ![w] = "error"]
    /\ UNCHANGED <<rel, staging, lock, before, volVars, pods, damaged>>

(* _writer_lock: flock(LOCK_EX) waits without a timeout.  (Mutant: LOCK_SH.)*)
SharedLockFree == TRUE
LockFree == lock = None

WriterLock(w) ==
    /\ pc[w] = "lock"
    /\ LockFree
    /\ lock' = w
    /\ before' = cur
    /\ pc' = [pc EXCEPT ![w] = "select"]
    /\ UNCHANGED <<rel, outcome, staging, volVars, envVars>>

(* _materialize_locked: an existing generation is reverified, a missing    *)
(* one is staged in a private directory of its own.                        *)
SelectGeneration(w) ==
    /\ pc[w] = "select"
    /\ IF gen[Digest(w)] # None
       THEN /\ pc' = [pc EXCEPT ![w] = "reverify"]
            /\ UNCHANGED staging
       ELSE /\ pc' = [pc EXCEPT ![w] = "extract"]
            /\ staging' = [staging EXCEPT ![w] = EmptyTree]
    /\ UNCHANGED <<rel, outcome, lock, before, volVars, envVars>>

(* Trees on the volume, complete or not: each needs room of its own.       *)
Used == Cardinality({d \in Digests : gen[d] # None})
          + Cardinality({w \in Writers : staging[w] # None}) + orphans

(* _extract_member: the next manifest entry is written or linked.          *)
ExtractMember(w, e) ==
    /\ pc[w] = "extract"
    /\ Used <= Capacity
    /\ e \notin staging[w].entries
    /\ staging' = [staging EXCEPT ![w].entries = @ \cup {e},
                                  ![w].flushed = FALSE]
    /\ UNCHANGED <<pc, rel, outcome, lock, before, volVars, envVars>>

(* _stream_extract's end: every manifest entry has been seen.              *)
ExtractionEnds(w) ==
    /\ pc[w] = "extract"
    /\ staging[w].entries = Entries
    /\ pc' = [pc EXCEPT ![w] = "verify"]
    /\ UNCHANGED <<rel, outcome, staging, lock, before, volVars, envVars>>

(* volume_capacity_exhausted while a member is written.                    *)
VolumeFull(w) ==
    /\ pc[w] = "extract"
    /\ Used > Capacity
    /\ staging[w].entries # Entries
    /\ pc' = [pc EXCEPT ![w] = "cleanup"]
    /\ UNCHANGED <<rel, outcome, staging, lock, before, volVars, envVars>>

(* _verify_tree: initial verification tolerates no unmanifested entry.     *)
(* (Mutants: caches refused everywhere; no look at the entries.)           *)
TreeVerifiedStrictly(t, strict) == t.entries = Entries /\ ~t.extras
TreeTrusted(t, strict) == strict => ~t.extras
TreeVerified(t, strict) == t.entries = Entries /\ (strict => ~t.extras)

(* _verify_metadata: exact manifest bytes and the READY marker they imply. *)
MetadataVerified(t, r) == t.manifest = r /\ t.ready

VerifyStaged(w) ==
    /\ pc[w] = "verify"
    /\ pc' = [pc EXCEPT ![w] = IF TreeVerified(staging[w], TRUE)
                               THEN "manifest" ELSE "cleanup"]
    /\ UNCHANGED <<rel, outcome, staging, lock, before, volVars, envVars>>

(* _atomic_write of manifest.json, then of READY.json.                     *)
WriteManifest(w) ==
    /\ pc[w] = "manifest"
    /\ staging' = [staging EXCEPT ![w].manifest = rel[w]]
    /\ pc' = [pc EXCEPT ![w] = "ready"]
    /\ UNCHANGED <<rel, outcome, lock, before, volVars, envVars>>

WriteReady(w) ==
    /\ pc[w] = "ready"
    /\ staging' = [staging EXCEPT ![w].ready = TRUE]
    /\ pc' = [pc EXCEPT ![w] = "recheck"]
    /\ UNCHANGED <<rel, outcome, lock, before, volVars, envVars>>

VerifyStagedGeneration(w) ==
    /\ pc[w] = "recheck"
    /\ pc' = [pc EXCEPT ![w] = IF /\ MetadataVerified(staging[w], rel[w])
                                  /\ TreeVerified(staging[w], TRUE)
                               THEN "flush" ELSE "cleanup"]
    /\ UNCHANGED <<rel, outcome, staging, lock, before, volVars, envVars>>

(* _verify_generation(allow_unmanifested=True) of a generation found there *)
VerifyReused(w) ==
    /\ pc[w] = "reverify"
    /\ pc' = [pc EXCEPT ![w] = IF /\ MetadataVerified(gen[Digest(w)], rel[w])
                                  /\ TreeVerified(gen[Digest(w)], FALSE)
                               THEN "seal" ELSE "cleanup"]
    /\ UNCHANGED <<rel, outcome, staging, lock, before, volVars, envVars>>
-----------------------------------------------------------------------------
Flushed(t) == IF t = None THEN None ELSE [t EXCEPT !.flushed = TRUE]

(* _sync_volume_filesystem: a barrier for everything on the volume.        *)
(* (Mutant: directory entries reach the disk, file data does not.)         *)
SyncDirectoriesOnly ==
    /\ UNCHANGED <<gen, staging>>
    /\ disk' = [gen |-> gen, cur |-> cur]

SyncVolume ==
    /\ gen' = [d \in Digests |-> Flushed(gen[d])]
    /\ staging' = [w \in Writers |-> Flushed(staging[w])]
    /\ disk' = [gen |-> [d \in Digests |-> Flushed(gen[d])], cur |-> cur]

FlushStaged(w) ==
    /\ pc[w] = "flush"
    /\ SyncVolume
    /\ pc' = [pc EXCEPT ![w] = "publish"]
    /\ UNCHANGED <<rel, outcome, lock, before, cur, orphans, envVars>>

(* _publish_generation: rename, unless a generation has appeared.          *)
PublishGeneration(w) ==
    /\ pc[w] = "publish"
    /\ IF gen[Digest(w)] # None
       THEN /\ pc' = [pc EXCEPT ![w] = "cleanup"]
            /\ UNCHANGED <<gen, staging>>
       ELSE /\ gen' = [gen EXCEPT ![Digest(w)] = staging[w]]
            /\ staging' = [staging EXCEPT ![w] = None]
            /\ pc' = [pc EXCEPT ![w] = "seal"]
    /\ UNCHANGED <<rel, outcome, lock, before, cur, disk, orphans, envVars>>

(* _seal_published_generation: the generation root and the directories the *)
(* materializer made become traversable by every user.  (Mutant: current   *)
(* is switched first.)                                                     *)
SwitchBeforeSeal(w) ==
    /\ pc[w] = "seal"
    /\ cur' = Digest(w)
    /\ pc' = [pc EXCEPT ![w] = "flushSeal"]
    /\ UNCHANGED <<rel, outcome, staging, lock, before, gen, disk, orphans,
                   envVars>>

SealGeneration(w) ==
    /\ pc[w] = "seal"
    /\ gen' = [gen EXCEPT ![Digest(w)].sealed = TRUE]
    /\ pc' = [pc EXCEPT ![w] = "flushSeal"]
    /\ UNCHANGED <<rel, outcome, staging, lock, before, cur, disk, orphans,
                   envVars>>

FlushSeal(w) ==
    /\ pc[w] = "flushSeal"
    /\ SyncVolume
    /\ pc' = [pc EXCEPT ![w] = "switch"]
    /\ UNCHANGED <<rel, outcome, lock, before, cur, orphans, envVars>>

(* _atomic_update_current: nothing to do when current already names the    *)
(* generation, otherwise a temporary symlink replaces it.  (Mutant: it is  *)
(* named for the bundle, not for the tree.)                                *)
SwitchToRelease(w) ==
    /\ pc[w] = "switch"
    /\ cur' = rel[w]
    /\ pc' = [pc EXCEPT ![w] = "flushCurrent"]
    /\ UNCHANGED <<rel, outcome, staging, lock, before, gen, disk, orphans,
                   envVars>>

AtomicUpdateCurrent(w) ==
    /\ pc[w] = "switch"
    /\ cur' = Digest(w)
    /\ pc' = [pc EXCEPT ![w] = "flushCurrent"]
    /\ UNCHANGED <<rel, outcome, staging, lock, before, gen, disk, orphans,
                   envVars>>

(* The final barrier, the result, and the release of the lock.             *)
(* (Mutant: the result is returned without the barrier.)                   *)
ReturnWithoutBarrier(w) ==
    /\ pc[w] = "flushCurrent"
    /\ lock' = None
    /\ before' = None
    /\ outcome' = [outcome EXCEPT ![w] = "ok"]
    /\ pc' = [pc EXCEPT ![w] = "idle"]
    /\ UNCHANGED <<rel, staging, volVars, envVars>>

FlushCurrent(w) ==
    /\ pc[w] = "flushCurrent"
    /\ SyncVolume
    /\ lock' = None
    /\ before' = None
    /\ outcome' = [outcome EXCEPT ![w] = "ok"]
    /\ pc' = [pc EXCEPT ![w] = "idle"]
    /\ UNCHANGED <<rel, cur, orphans, envVars>>
-----------------------------------------------------------------------------
(* Any call made under the lock may raise: an I/O error, a bad archive, a  *)
(* directory fsync that fails after the rename or the replace it follows.  *)
Raise(w) ==
    /\ pc[w] \in Locked \ {"cleanup"}
    /\ faults < MaxFaults
    /\ faults' = faults + 1
    /\ pc' = [pc EXCEPT ![w] = "cleanup"]
    /\ UNCHANGED <<rel, outcome, staging, lock, before, volVars, pods, damaged>>

(* The finally blocks: _remove_tree(staging) unless it has been renamed,   *)
(* then the lock is released and the error propagates.  (Mutants: the      *)
(* renamed tree is removed too; an error leaves without releasing.)        *)
CleanupGeneration(w) ==
    /\ pc[w] = "cleanup"
    /\ staging' = [staging EXCEPT ![w] = None]
    /\ gen' = [gen EXCEPT ![Digest(w)] = None]
    /\ lock' = None
    /\ before' = None
    /\ outcome' = [outcome EXCEPT ![w] = "error"]
    /\ pc' = [pc EXCEPT ![w] = "idle"]
    /\ UNCHANGED <<rel, cur, disk, orphans, envVars>>
CleanupKeepsLock(w) ==
    /\ pc[w] = "cleanup"
    /\ staging' = [staging EXCEPT ![w] = None]
    /\ outcome' = [outcome EXCEPT ![w] = "error"]
    /\ pc' = [pc EXCEPT ![w] = "idle"]
    /\ UNCHANGED <<rel, lock, before, volVars, envVars>>

Cleanup(w) ==
    /\ pc[w] = "cleanup"
    /\ staging' = [staging EXCEPT ![w] = None]
    /\ lock' = None
    /\ before' = None
    /\ outcome' = [outcome EXCEPT ![w] = "error"]
    /\ pc' = [pc EXCEPT ![w] = "idle"]
    /\ UNCHANGED <<rel, volVars, envVars>>

(* The process dies: the kernel drops its lock, nobody removes its staging.*)
Kill(w) ==
    /\ pc[w] # "idle"
    /\ faults < MaxFaults
    /\ faults' = faults + 1
    /\ lock' = IF lock = w THEN None ELSE lock
    /\ before' = IF lock = w THEN None ELSE before
    /\ orphans' = IF staging[w] = None THEN orphans ELSE orphans + 1
    /\ staging' = [staging EXCEPT ![w] = None]
    /\ pc' = [pc EXCEPT ![w] = "idle"]
    /\ UNCHANGED <<rel, outcome, gen, cur, disk, pods, damaged>>

(* What may be left of a tree that looked like t, and like u on disk: data *)
(* that was never flushed may be missing.                                  *)
Survivors(t, u) ==
    {u} \cup (IF t = None \/ t.flushed THEN {t}
              ELSE {[t EXCEPT !.entries = es] : es \in SUBSET t.entries})

(* The host crashes: every process is gone, unflushed changes may be lost. *)
HostCrash ==
    /\ faults < MaxFaults
    /\ faults' = faults + 1
    /\ pc' = [w \in Writers |-> "idle"]
    /\ lock' = None
    /\ before' = None
    /\ orphans' \in orphans .. orphans + Cardinality({w \in Writers : staging[w] # None})
    /\ staging' = [w \in Writers |-> None]
    /\ gen' \in {g \in [Digests -> UNION {Survivors(gen[d], disk.gen[d]) : d \in Digests}] :
                   \A d \in Digests : g[d] \in Survivors(gen[d], disk.gen[d])}
    /\ cur' \in {cur, disk.cur}
    /\ disk' = [gen |-> gen', cur |-> cur']
    /\ pods' = {}
    /\ UNCHANGED <<rel, outcome, damaged>>
-----------------------------------------------------------------------------
(* A Product Pod boots: it needs a generation any user can traverse.       *)
PodStarts ==
    /\ cur # None
    /\ gen[cur] # None
    /\ gen[cur].sealed
    /\ pods' = pods \cup {cur}
    /\ UNCHANGED <<procVars, volVars, damaged, faults>>

(* A Pod's interpreter writes __pycache__ next to the manifest's files.    *)
PodCaches(d) ==
    /\ d \in pods
    /\ gen' = [gen EXCEPT ![d].extras = TRUE]
    /\ UNCHANGED <<procVars, cur, disk, orphans, envVars>>

(* A file of a published generation is lost or altered while nobody        *)
(* materializes: the reason a generation is verified again before reuse.   *)
Damage(d, e) ==
    /\ lock = None
    /\ gen[d] # None
    /\ Cardinality(damaged) < MaxDamage
    /\ damaged' = damaged \cup {d}
    /\ gen' = [gen EXCEPT ![d].entries = @ \ {e}]
    /\ disk' = IF disk.gen[d] = None THEN disk
               ELSE [disk EXCEPT !.gen[d].entries = @ \ {e}]
    /\ UNCHANGED <<procVars, cur, orphans, pods, faults>>
-----------------------------------------------------------------------------
Step(w) ==
    \/ SelectGeneration(w)
    \/ \E e \in Entries : ExtractMember(w, e)
    \/ ExtractionEnds(w) \/ VolumeFull(w)
    \/ VerifyStaged(w) \/ WriteManifest(w) \/ WriteReady(w)
    \/ VerifyStagedGeneration(w) \/ VerifyReused(w)
    \/ FlushStaged(w) \/ PublishGeneration(w)
    \/ SealGeneration(w) \/ FlushSeal(w)
    \/ AtomicUpdateCurrent(w) \/ FlushCurrent(w)
    \/ Cleanup(w)

Next ==
    \/ \E w \in Writers :
          \/ \E r \in Releases : Materialize(w, r)
          \/ WriterLock(w) \/ Step(w)
          \/ Refuse(w) \/ Raise(w) \/ Kill(w)
    \/ HostCrash
    \/ PodStarts
    \/ \E d \in Digests : PodCaches(d)
    \/ \E d \in Digests, e \in Entries : Damage(d, e)

Spec == Init /\ [][Next]_vars

(* A process that runs goes on running, and flock hands a free lock to a   *)
(* waiter again and again; nothing makes a caller start an invocation.     *)
Fairness == \A w \in Writers : WF_vars(Step(w)) /\ SF_vars(WriterLock(w))
FairSpec == Spec /\ Fairness
-----------------------------------------------------------------------------
TypeOK ==
    /\ pc \in [Writers -> PC]
    /\ rel \in [Writers -> Releases]
    /\ outcome \in [Writers -> {"none", "ok", "error"}]
    /\ staging \in [Writers -> Tree \cup {None}]
    /\ lock \in Writers \cup {None}
    /\ gen \in [Digests -> Tree \cup {None}]
    /\ cur \in Digests \cup {None}
    /\ disk \in [gen : [Digests -> Tree \cup {None}], cur : Digests \cup {None}]
    /\ orphans \in Nat
    /\ pods \subseteq Digests
    /\ damaged \subseteq Digests
    /\ faults \in Nat
    /\ before \in Digests \cup {None}

(* A tree a Pod of any UID can run digest d from.                          *)
Intact(t, d) == /\ t # None
                /\ t.entries = Entries
                /\ t.manifest \in Releases
                /\ DigestOf[t.manifest] = d
                /\ t.ready
Servable(t, d) == Intact(t, d) /\ t.sealed

(* What current names can be served from, now and in what a host crash     *)
(* would leave: the generation is verified, sealed and durable before the  *)
(* symlink is replaced.  Only damage at rest takes that away.              *)
CurrentServable ==
    /\ cur \in damaged \cup {None} \/ Servable(gen[cur], cur)
    /\ disk.cur \in damaged \cup {None}
         \/ Servable(disk.gen[disk.cur], disk.cur)

(* Between "no such generation" and the rename nobody else publishes it:   *)
(* the decision of _materialize_locked is still valid when it is used, so  *)
(* a complete staging tree is never refused as generation_conflict.        *)
SelectionStillValid ==
    \A w \in Writers :
        pc[w] \in {"extract", "verify", "manifest", "ready", "recheck",
                   "flush", "publish"}
          => gen[Digest(w)] = None

(* Generations are never deleted or overwritten: one a barrier has made    *)
(* durable keeps its manifest and its files through every later step of    *)
(* every process, failure or crash; damage is the medium's, not a step of  *)
(* the materializer.                                                       *)
KeepsGenerations ==
    \A d \in Digests :
        disk.gen[d] # None =>
            /\ gen'[d] # None
            /\ gen'[d].manifest = disk.gen[d].manifest
            /\ d \notin damaged' => disk.gen[d].entries \subseteq gen'[d].entries
PublishedGenerationsSurvive == [][KeepsGenerations]_vars

(* A caller is told "ok" only when current names its runtime and both are  *)
(* durable, even for a generation that was found damaged earlier.          *)
Acknowledges(w) == outcome[w] # "ok" /\ outcome'[w] = "ok"
AcknowledgedIsDurable ==
    [][\A w \in Writers : Acknowledges(w) =>
           /\ disk'.cur = Digest(w)
           /\ Servable(disk'.gen[Digest(w)], Digest(w))]_vars

(* A call that is on its way to raise has left current as it found it.     *)
FailedCallKeepsCurrent ==
    \A w \in Writers : pc[w] = "cleanup" => cur = before

(* Nobody waits for ever: the lock is released by every way out.           *)
InvocationEnds ==
    \A w \in Writers : pc[w] # "idle" ~> pc[w] = "idle"

(* Once faults have stopped, an invocation succeeds whatever the earlier   *)
(* ones left behind and whatever caches Pods have added: a half published  *)
(* generation is repaired, not refused.                                    *)
RetrySucceeds ==
    \A w \in Writers :
        pc[w] = "lock" /\ faults = MaxFaults ~> outcome[w] = "ok"

(* The promise of RuntimeStore, with a generation complete once servable.  *)
Store == INSTANCE RuntimeStore
    WITH complete <- {d \in Digests : Servable(gen[d], d)},
         safe     <- {d \in Digests : Servable(disk.gen[d], d)},
         exposed  <- cur,
         recorded <- disk.cur
ImplementsStore == Store!StoreSpec
=============================================================================
