# comfy-complete: specifications and proofs

TLA+ models of the parts of this repository that release a runtime, move large
files and report results under failure, the TLC configurations that check them
on small instances, and TLAPS proofs about the parts that the others rely on.
`PROJECT.json` lists the runs, the source lines of every definition, the
hazards, the findings and the theorems.

    tlc -workers 2 -config RuntimeMaterializer.cfg MCRuntimeMaterializer
    tlapm RuntimeMaterializerProofs.tla      (and the other ...Proofs modules)

## 1. The system

The repository builds a ComfyUI runtime once, audits it, exports it as one
archive with a manifest, publishes both in an object store, materializes them on
Network Volumes that GPU Pods mount, hydrates model files on the same volumes,
and runs jobs of a serverless worker.

    build -> sanitize_elf_search_paths -> runtime_critical_probe -> portability audit
                                                                      | gate
             export_runtime -> publish_runtime -> object store  <-----+
                                                       |
              control plane reads a channel pointer, starts a CPU Pod
                                                       v
    download_materialize_runtime -> materialize_runtime -> <volume>/runtimes/current
              control plane starts a CPU Pod per model                       |
    model_hydrator -> <volume>/models/...                                    v
                                     Pods boot from current; runpod/handler.py runs jobs

| component | state it keeps | operations | what is hard | what makes it correct |
|---|---|---|---|---|
| `scripts/materialize_runtime.py` | lock file, staging trees, generations, `current` symlink | lock, reuse or stage, probe modes, extract, verify, write metadata, flush, rename, seal, switch, clean up | several processes on one volume, kills, host crashes, file systems without directory fsync or with modes of their own, full volumes | `current` names a complete, durable, reachable runtime at every instant; a materialized tree is the image's |
| `scripts/export_runtime.py` | archive and manifest in an output directory | select, collect, check links and entrypoint, pack, place, verify | files that change while they are read; links over links | the archive is a snapshot, the manifest describes it, and it can be unpacked |
| `scripts/runtime_manifest.py`, `runtime_ready.py` | none: a contract that exporter and materializer share | validate a manifest, its entrypoint and the modes of a volume | it answers the exporter's questions with other algorithms | what one side accepts the other can use |
| `scripts/download_materialize_runtime.py` | nothing of its own; a temporary archive or a pre-staged one | read the environment, download (whole or in ranges), call the materializer, post the result | archive replaced between check and use, retry, result callback lost | what it reports is what happened |
| `docker/hydrator/model_hydrator.py` | `.partial`, artifact, marker, marker `.tmp` | reuse, download with resume, verify, replace, mark, report | a Pod terminated between any two steps, sources that ignore ranges or send other bytes | the marker vouches only for verified bytes |
| `scripts/publish_runtime.py` | archive, manifest and channel objects, multipart uploads | HEAD, upload, verify, put, move the pointer | concurrent publishers, requests that fail after being served or are applied late | a pointer that was ever readable can be fetched |
| `docker/runpod/handler.py` | one job: websocket, errors, outputs; object store | validate, wait for the server, upload, queue, listen, reconnect, history, collect, persist, yield | ComfyUI dies, events lost with a connection, requests fail, last chunk lost | one last chunk, nothing silently dropped, job ends |
| `scripts/sanitize_elf_search_paths.py` | the ELF files of the image, one backup | scan, back up, patch, read back, verify, unlink or restore | a tool that fails after it has written; hard links | a file is original, clean, or still has its original |
| `scripts/runtime_portability_audit.py`, `review_runtime_portability_allowances.py`, `runtime_critical_probe.py` | report, policy and probe files | scan, cut, compare with a policy; derive a policy; import and report | programs run apart; truncated reports; files they cannot read | a passing gate has seen, and had reviewed, what it passes |
| `docker/module-bootstrap.py`, `docker/runpod/start.sh` | module directories and links, PID file | unpack module archives, link, start | partial unpacking | a directory with a final name is complete |
| `scripts/install_custom_nodes.py`, `.github/scripts/docker-pull-with-retry.sh` | clones, retry budgets | clone, install, retry | partial failure | retries end, failures are not lost |
| CI helpers, Dockerfiles, container wrappers | none | | | |

## 2. Modules

| module | models | kind |
|---|---|---|
| `RuntimeStore` | the promise of the materializer to Pods: a pointer that only names safe, complete runtimes | abstract specification |
| `RuntimeMaterializer` | `scripts/materialize_runtime.py`: concurrency, crashes, durability | detailed specification, refines `RuntimeStore` |
| `RuntimeTree` | paths, links, selection: the resolution algorithms of exporter, audit, manifest contract and materializer, and of the file system | operators |
| `RuntimeRelease` | one release from the audit over the export to the verified tree on a volume | specification, composed of four programs |
| `RuntimeExport` | `scripts/export_runtime.py` and somebody who edits its source tree | specification |
| `RuntimeDownload` | `scripts/download_materialize_runtime.py` over `RuntimeStore` | specification, composed with the abstract one |
| `RuntimePublisher` | `scripts/publish_runtime.py` | specification |
| `ModelHydrator` | `docker/hydrator/model_hydrator.py` | specification |
| `ServerlessHandler` | `docker/runpod/handler.py` with ComfyUI, the websocket and the object store | specification |
| `ElfSanitizer` | `scripts/sanitize_elf_search_paths.py` | component of the next |
| `PortabilityGate` | audit, gate, review and import probe of an image the sanitizer has been through, or not | specification |
| `...Proofs` of `RuntimeMaterializer`, `RuntimePublisher`, `ModelHydrator`, `ServerlessHandler`, `RuntimeExport`, `RuntimeDownload`, `PortabilityGate` (with `ElfSanitizer`), `RuntimeRelease` (with `RuntimeTree`) | theorems | TLAPS |
| `MC...` | constants for TLC | model checking |

A definition whose comment mentions a mutant stands next to a plausible bug of
the code around it. The bug is used in no specification; PROJECT.json pairs it
with the property that notices it.

### RuntimeMaterializer

`pc[w]` is the position of invocation `w` in `materialize()` and
`_materialize_locked()`; `rel[w]` its archive and manifest; `staging[w]` its
private directory (`None` once renamed or removed); `lock` the `flock`. `gen[d]`
is `runtimes/<hex>` and `cur` the `current` symlink as processes see them,
`disk` what a barrier (`syncfs`) has made durable. A tree is the set of manifest
entries that are there with the right bytes, its `manifest.json` and
`READY.json`, whether it is `sealed` (0755 directories), whether Pods have added
caches (`extras`) and whether its data was flushed.

Each action is one call that other processes or a crash can come between:
`SelectGeneration` is the existence test and `staging.mkdir`, `ExtractMember`
one member of the tar stream, `WriteManifest` and `WriteReady` the atomic
writes, `SyncVolume` the barrier, `PublishGeneration` the rename, and so on to
`FlushCurrent`, which is the final barrier, the result and the release of the
lock. `Raise` is an error in any of them, `Cleanup` the `finally` blocks. A
directory fsync that fails after the rename is `Raise` in the state after it.
Kills drop the lock and orphan the staging tree. `HostCrash` keeps of every
unflushed change either state, and of unflushed file data any part. The lock
file's creation and the archive's digest come before the lock and touch nothing
published: they are `Materialize`, and `Refuse` when they fail. What the trees
look like inside is left to `RuntimeRelease`.

### RuntimeTree and RuntimeRelease

A path is a sequence of names, a tree a function from paths to nodes (`file`,
`dir`, `link`, `special`, with a mode and contents or a target). Four programs
ask where a link leads, each with an algorithm of its own, and the kernel has a
fifth: `ResolveSymlinkChain` is the exporter's (by name, with linked ancestors),
`ResolveSelected` the audit's (by name, entries only), `ResolveEntrypoint` the
manifest contract's, `VerifySymlinkInside` the materializer's (which asks the
file system), `Walked` the file system's. Only `Walked` is a reference of ours;
the others are translated from the code.

`RuntimeRelease` takes a tree, a choice of `--target` and one of `--include-app`
through `Audit`, `Collect` (targets and excludes that exist, selection, special
files, links, entrypoint), `PlaceArchive`, `ValidateManifest`, `Probe` (the mode
capability probe, which tries every mode on the volume and gives the
`ModePolicy`, after the limits on entries and modes, `WithinLimits`),
`ExtractMember` in the sorted order of the archive (PAX sizes, parents,
collisions, hard links of equal files), and `Verify`. A refusal ends the release
and `outcome` says where. A volume is a function from modes to modes. The audit
stops nothing; it is there to be compared. Calls that fail, processes that die
and edits of the tree are not in this module.

### RuntimeExport

`source` is the tree, `at` the path a pass has come to, `buf` the blocks read of
it so far. `Collect`, `ReadBlock` and `HashEnds` are the first pass (`lstat`,
read, compare the size), `CheckPath`, `ReadBlock`, `RehashEnds` and `AddFile`
the second (mode or link target, digest, and the copy from a file opened once
more); `Change` edits the tree between any two of them. An edit is a number, and
a block read has the number of the moment, so a digest is a sequence of numbers
and torn reads are visible. An edit never brings an old state back: a file
changed to and fro between the two passes is the one case in which a successful
export need not be a snapshot. Archives and manifests are content-addressed and
thus sets; `partials` are temporary manifests. The selection rules and the
checks on links are those of `RuntimeRelease`; here the selection is the set of
paths, and a check that fails is an error (`Raise`).

A failed verification leaves archive and manifest in the output directory. The
exit code is what tells such a pair from a good one (`SuccessIsSnapshot` speaks
of successful runs only).

### RuntimeDownload

`pc[c]` is the position of one Pod's call in `main()`. The materializer inside
it is the abstract store it refines, whose steps are taken one at a time under
the lock, so that other calls, kills and crashes come between them; a raised
error, wherever it comes from, is `Raise`. `Prepare` is everything before the
archive, `NextRange` one range request, `HashArchive` the digest before the
lock, `Unpack` the second opening after it. `told[c]` is what the control plane
has received, which a failed or interrupted POST leaves open. The temporary
directory of the URL branch goes when `run()` is left (`Discard`). Rejected
URLs, paths and modes are a `Prepare` that fails. The single-request download
of the manifest is part of `Prepare`.

### ModelHydrator

One Pod at a time, which is the control plane's promise (its writer lease is not
in this repository). A file is a size and the version its bytes are a prefix
of; resuming a partial of another version makes it `Mixed`. `Request` is
`download()` up to the response, with the outcomes 200, 206 and 416 that a
source which honours ranges, or does not, gives for the offset; `Body` one
chunk. The marker's temporary file is written in two steps, so that it can be
torn. `Escape` is an exception that is no `HydrationError`.

### RuntimePublisher

Each action is one request to the object store. A request that fails may have
been served (`CreateUpload`, `CompleteUpload`, `PutManifest`), and a channel PUT
whose sender has given up may be applied later (`late`, `LateWrite`). HEAD shows
the size and the digest metadata of an object: an archive with torn bytes looks
whole, which is why the upload hashes what it sends (`SentAsHashed`).

### ServerlessHandler

`stage` is the position in `handler()`. Every `yield error_chunk(...); return`
is `EndWithError`, which also stands for the `finally` block that closes the
websocket. ComfyUI is external: it boots or dies, runs the prompt, sends
`progress`, then `execution_success` or `execution_error`, records the history
and sends `executing` with no node. Events go to the connection that is open
when they are sent. Files have a type, a name and an inline size; the result
lists each with the way it is returned (`r2_key`, `base64`, `s3_url`). `job` is
what the input and the environment say: object store, ids, S3 bucket, images,
PID file. An input is refused by `validate_input`, or breaks it: one that is no
object (or absent), and pictures without members raise outside the `try`, and so
does the error handling of a picture that is a text (`Raise`, after which the
generator has ended without a last chunk). The third place that raises is the
encoding of the stored copy, for an error text UTF-8 does not encode. An entry
of the history is a file, one without a name or bytes, a text where a description
is expected, or one of a category the handler only prints (`SkipOutput`).
Messages, MIME types and previews are left out.

### ElfSanitizer and PortabilityGate

A path has a node, a node holds a file: hard links share one. A file has a kind,
a mode, an interpreter, needed libraries and search path entries, each a
sequence of components, of which `Blank` is the empty one. `Scan` to `Succeed`
are the steps of `sanitize_tree` and `sanitize_file`; `Patch` may leave the file
in any of the ways a `patchelf` that lies can (`PatchResults`), whatever its
exit code: changed where the program looks (needed libraries, search path, mode)
or where it does not (the interpreter, which stands for the rest of the file).
`Restore` may fail. Both properties of the sanitizer therefore speak of what it
compares (`Agree`).

`PortabilityGate` runs four programs on one image after another: `BuildImage`
(with the sanitizer's layer, or a foreign image without it), `Review` (an audit
without allowances and `build_policy`), `AllowTwice` (an edit of the policy that
its schema admits), `RunProbe` and `Audit`. `FileFindings` are the findings about
one file, `Reports` the sorting and the cut at `--max-findings`, `StaticGate` and
`StaticStatus` the gate with and without a policy, `CriticalPasses` the critical
imports with the entrypoints, the closure of libraries and the probe's report.
A digest of a finding is the finding. An audit may be unable to open one file
(`unread`, of which it says nothing) or to have `readelf` tell of one
(`untold`).

Audit and sanitizer read an entry without a value, which `readelf` prints as
`[]`, in two ways: for the audit it is no search path (`Components`), for the
sanitizer an empty component that it removes. An object that an import mapped
from outside the archive is accepted by its path or by its name alone
(`OfLauncher`), as `_critical_report` does.

## 3. Runs

| run | configuration | bounds | shows |
|---|---|---|---|
| `materializer` | `RuntimeMaterializer.cfg` | 2 writers, 3 releases of 2 trees, 2 entries, 2 faults, 1 damaged tree, room for 3 trees | safety under every interleaving, kills and crashes; refinement of `RuntimeStore` |
| `materializer_retry` | `RuntimeMaterializerRetry.cfg` | 2 writers, 2 trees of 1 entry, 2 faults | calls end; a call after the last fault succeeds |
| `materializer_failed_call` | `RuntimeMaterializerFailedCall.cfg` | the same, safety only | finding 1 below |
| `release` | `RuntimeRelease.cfg` | 6,734 trees with 2 sets of targets and 3 of included files, 4 volumes, 8 links per resolution, paths of 6 names, 6 modes, 10 entries | exporter, audit, contract, materializer and file system agree; what is unpacked is the image |
| `release_entrypoint` | `RuntimeReleaseEntrypoint.cfg` | the same | finding 3 |
| `export` | `RuntimeExport.cfg` | 2 files and a link, 2 edits, 1 fault, files of 1 and 2 blocks | success is a snapshot; manifests have their archives |
| `publisher` | `RuntimePublisher.cfg` | 2 publishers, 2 items sharing an archive, 1 channel, 2 parts, 3 calls, 2 faults, 1 edit | readers are served; retries succeed |
| `download` | `RuntimeDownload.cfg` | 2 calls for one runtime, 2 ranges, 2 faults, 1 archive staged anew | what has been told is true and stays true |
| `hydrator` | `ModelHydrator.cfg` | 3 versions (two of one size), 3 faults, 7 chunks of room | only verified bytes; a run after the last fault succeeds, or why it cannot |
| `handler` | `ServerlessHandler.cfg` | 3 files (one name shared, two temp files that do not both fit), an entry of each other kind, inputs of four shapes, 2 faults, 2 reconnects | outcome, completeness, recovery |
| `handler_ends` | `ServerlessHandlerEnds.cfg` | the same | finding 2 |
| `gate` | `PortabilityGate.cfg` | 2 images of several trees, 1 probe report, 1 unreadable file per audit, limits of 2 and 20 findings | what a passing gate has established; the sanitizer's promise |

Why these bounds are enough to be interesting. Two writers are what it takes for
one to lose the lock to the other or to find its half-published generation; two
trees let `current` move; two releases of one tree meet the manifest comparison;
two entries make a torn tree different from an empty one; two faults let the
repair of a fault fail as well. Capacity 3 makes the volume full exactly when an
orphan is left. The trees of `release` combine ten targets of the entrypoint's
link with a directory that is there, missing or a link, one that is a link's
destination, an excluded name that is a directory or a link, and a file that is
plain, executable, setuid, special or a link: chains of three links, cycles,
linked ancestors, `..` after a link, climbing over the root, equal files with
different modes; 8 links are more than any of their chains has, and 6 names as
many as the longest target has. Beside these there is a second target that is there
with or without its exclude, missing, or a link, with a file that is read-only,
setuid or huge; its exclude is outside the targets when it is not selected. Six
modes and ten entries are limits that the larger of the trees pass. The volumes
keep modes, normalize them, make everything executable, or drop the setuid bit.
Two edits and two blocks give an exporter a file it has half read, and a file
that has grown or shrunk. A publisher needs a second one for the race on the
archive and a third call for a retry after both have failed. Two calls of the
entry point wait for one another; with two faults a report can be lost and the
host crash after it. Two hydrator versions of one size are what size checks
confuse, a third shorter one makes partials too long. Three files are the least
for a shared name and an inline limit; three more entries are of the kinds that
are no file the handler returns. Two images let policy and probe be of the
earlier one when the later is audited; a limit of two findings cuts a report in
the middle of its blockers.

Bounds in the guards: `MaxFaults` (kills, crashes, raised errors, failed
requests), `Ranges` (requests of one archive), `MaxDamage`, `MaxCalls`,
`MaxEdits`, `MaxPolls`, `MaxAttempts`, `MaxBuilds`; and `MaxHops` in the
resolution of links. A walk of the file system follows as many links as the
exporter hops (the kernel has such a bound, 40), and takes a step for each name
of its path and of the targets it comes upon, of which each has at most
`MaxNames`.

Fairness. `RuntimeMaterializer`: a running process takes its next step (weak),
and a waiting one obtains a lock that is released again and again (strong: the
kernel queues flock waiters). `ModelHydrator`: the running Pod takes its next
step; sockets have a 120 s timeout. `RuntimeDownload`: the same as the
materializer. `RuntimeExport`: a run goes on. `RuntimePublisher`: requests end,
since the client has connect and read timeouts. `ServerlessHandler`: the
handler's requests have timeouts, and a ComfyUI that runs executes its prompt.
`RuntimeRelease` and `PortabilityGate` state safety only. Nothing makes a caller
start an invocation, and no fault is ever fair.

CHECK_DEADLOCK is FALSE where the system stops: a tree with nothing to export, a
job that has ended, publishers whose calls are used up, a release that is
verified or refused, an image that has its verdict.

### Findings

1. A failing materializer call may have switched `current`: errors after
   `os.replace` are reported as a failed update, which the documentation
   describes as one that keeps the previous runtime.
2. A handler whose websocket was down while the run ended reconnects and waits
   for ever.
3. The exporter resolves `..` in a link's target by name, the file system by
   place. An entrypoint that is a link over another link and `..` is checked as
   one file and runs as another; every check on the way accepts the release.

### Limits of the code that no property states

The models have this behaviour, and no property forbids it, since nothing in
the code could keep one true.

* Staging trees of killed materializers stay; later calls meet a full volume.
* A hydrator that ends with an `OSError` leaves without a report. A complete
  partial left by a terminated Pod makes later runs ask for the bytes after its
  end; where the source honours ranges each is refused (416). `RetrySucceeds`
  of `ModelHydrator` names that case.
* The archive digest a successful materialization reports is that of a first
  pass before the lock; what is extracted is opened again later, and only the
  tree is verified.
* The exporter places the archive before the manifest contract sees the
  selection: a release refused there leaves an archive behind. So end excludes
  outside the targets (`--target /opt/conda` alone, with the default excludes
  below `/app/comfyui`), and names below an excluded one. Modes with special
  bits, files of 8 GiB (whose PAX size the materializer refuses) and more
  entries or modes than the materializer takes are exported and can never be
  materialized. `Ordinary` names each of these cases.
* A serverless job whose input has an unexpected shape, or whose error text
  cannot be encoded, ends without a last chunk (`MayRaise`). Outputs of a
  category the handler does not know are only printed. The later of two files of
  one name and type overwrites the earlier (`Shadowed`). An `execution_error`
  lost with a connection leaves a clean result (`dropped`).
* The pointer of a channel may go back to an older runtime, by a late write or
  by a racing publisher; it is deliverable all the same. A second export of a
  tree that is on a volume is refused there, by design.
* The audit passes over files it cannot open. A probe report names its
  configuration and profile and not the image it was run in. With a
  configuration of critical imports and no policy, the raw static status counts
  for nothing. The gate never lets `elf_analysis_incomplete` be allowed, but a
  policy written by hand may allow `finding_limit_exceeded`.
* A hard link of a file whose patch was undone keeps the bad patch. The
  sanitizer compares the dynamic section, the mode and the owner: a patch that
  changes the interpreter passes, and the backup is gone.
* Of an image the sanitizer has not been through, the gate passes an entry with
  an empty value, which the sanitizer would have removed.

## 4. Proofs

All theorems hold for every value of the constants that satisfies the module's
named assumption (`ConstantsAssumption`, `PublisherAssumption`,
`HydratorAssumption`, `HandlerAssumption`, `ExportAssumption` with
`NoneAssumption`, `DownloadAssumption`, `GateAssumption`,
`SanitizerAssumption`, `ProbeAssumption`, `TreeAssumption`,
`ReleaseAssumption`, `OutcomeAssumption`): functions are functions, the model
values `None` and `Refused` are apart, bounds are natural numbers, a search path
has at least one component (`"".split(":")` is `[""]`), what has something below
it in the file system of an image is a directory, paths have a strict order in
which a directory comes before what is in it (that of their strings), and a review
group selects only the two finding codes that the predicates in
`scripts/review_runtime_portability_allowances.py` select. No proof uses the
bounds of a run. None of the safety properties is inductive; each module has an
inductive invariant (`IInv`; `SanitizerInv` and `ReleaseInv` with `StagedInv` and
`UnpackInv` in the last two), one lemma per action (or per few harmless ones) for
`IInv /\ [Next]_vars => IInv'`, and the theorems follow from `[]IInv`. The
invariants have been checked by TLC on the instances of the runs as well.

`RuntimeMaterializerProofs`:

* `TypeCorrect`: `Spec => []TypeOK`;
* `SelectionHolds`, `CurrentIsServable`: the two safety invariants of the run;
* `GenerationsSurvive`, `AcknowledgedDurable`: the action properties;
* `Refinement`: `Spec => Store!StoreSpec`, the abstract specification.

`CurrentServable` says nothing of a generation that is about to become current.
`IInv` adds what each position of the lock holder has established so far (its
staging tree is complete from `verify` on, has its metadata from `recheck` on
and is flushed from `publish` on; its generation is intact from `seal` on,
sealed after, and durable from `switch` on), that only the lock holder is past
the lock, and that every undamaged generation is intact with its data flushed,
in memory and on disk. The refinement takes `IInv` as a fact about every state
and maps each action to a step of the store or to a stutter.

`ModelHydratorProofs`: `TypeCorrect`; `BytesVerified`, whatever Pods are
terminated and whatever sources send, the artifact's name, the marker and a
`ready` report only ever go with verified bytes; `ArtifactStays`, a published
artifact is only ever replaced. `IInv` adds that a file about to be renamed has
been hashed (`PartialInv`), that there is no marker from the request to the
publication of the next one, and that the one being written names the version of
the artifact (`MarkingInv`).

`RuntimePublisherProofs`: `TypeCorrect`; `SeenDeliverable`, what a reader was
ever sent to has its archive, whole, and its manifest; `ArchivesStay`, no step
changes an archive that is in the store; `UploadsEnded`, an upload that is open
has a publisher that will end it, whatever fails, and no more are given up than
there were faults. `IInv` adds that an archive in the store is never
torn, that a manifest in the store has its archive (from the position where a
publisher has verified it), and that everything a pointer names, or a late write
may yet make it name, is deliverable.

`ServerlessHandlerProofs`: `TypeCorrect`; `LastChunk`, a job ends with one last
chunk or was raised by one of the three causes; `CleanIsSuccess`;
`NoFileDropped`, of the categories the handler knows; `ResultIsRecovered`.
`IInv` says of each stage what it has
found out so far. Without a dropped connection a ComfyUI that is up has the
handler's (`LinkInv`), so that the error of a failed run is recorded or still on
the wire, ahead of the event that ends the run (`ErrorInv`); a result rests on a
history whose run was successful, unless there are errors or a connection was
dropped (`HistoryInv`); a file that was handled is in the result, or an error
says that it is not (`OutputInv`); a file that is listed by its key is in the
store (`ObjectInv`), and a stored copy is the result (`CopyInv`).

`RuntimeExportProofs`: `TypeCorrect`; `Snapshot`, a successful export is the tree
as it was when its collection ended; `ManifestsHaveArchives`. Edits are numbered
and no number comes back, so every block and mode an entry records is at most as
new as the path is now (`EntryInv`, `HashInv`), and an entry that begins with
the path's data of today is all of today's data, since the first pass compares
the sizes. The snapshot at the end of the collection lies between entries and
tree (`SnapInv`). The second pass then reads what is not older than the snapshot
and finds it equal to an entry that is not newer: the entry is the snapshot
(`PassInv`). The third reading, of `AddFile`, may still be torn, and it is the
verification that compares its members.

`RuntimeDownloadProofs`: `TypeCorrect`; `SuccessIsDurable`, for any number of
calls and of runtimes. `IInv` adds what the store has promised at each step of
the publication (`StageInv`: complete, then safe, then current and recorded) and
that a volume whose durable pointer names a runtime has one in memory
(`StoreInv`). The proof does not need the lock: the store's steps never take
anything back, in whatever order calls take them.

`PortabilityGateProofs`: `GateIsSound`; `ImportsAreProven`, for every image,
inventory, policy, configuration and probe (with the audit's reading of empty
search paths and the acceptance of libraries by name); `TypeCorrect`. A cut report has a
blocker that no reviewed policy allows (`PolicyInv`), and so has an incomplete
analysis, so what passes was seen whole; a report that does not block says what
its probe did (`ProbeInv`); an image with a verdict is not touched any more
(`VerdictInv`). `Sanitized` and `OriginalIsKept` are about the sanitizer, for
any image and any hard links in it. `ProgressInv` says of each position of
`sanitize_file` how the files compare with the image as it was built: what is
handled is `Right` - as built if it was clean, in agreement with what it should
be if not - under all its names, and is never patched again; what is not
handled is as built, or `Right` because it was handled under another name; what
is being patched may be anything, but then the backup has it as built. A file
that is `Right` is not dirty (`RightIsClean`), also when its interpreter is
another one. That a file
that is handled is not `Dirty` any more (so that a hard link of it is passed
over) is a fact about `Keep`, the filter of a sequence: what it keeps is a
sequence of members of the set, and keeping twice is keeping once.

`RuntimeReleaseProofs`: `TypeCorrect`; `AuditedExported`, no tree with a clean
audit is refused by the exporter for its links, special files or missing files,
unless a link climbs over the root or an exclude does not exist; `ExportedResolves`, a tree with plain links
is exported if and only if its links and its entrypoint resolve in the file
system of the volume (and nothing else is wrong with it); `Materialized`, what is
verified on a volume is the selection, programs are programs, and links lead
where they led in the image; `Unpacked`, what the exporter lets through can be
unpacked, but for the cases that `Ordinary` leaves out, one by one (excludes
outside the targets, limits, huge files, special bits, included links, names
below an excluded one, entrypoints over two links). `ReleaseInv` says that each
stage hands on what the earlier ones found: entries are the selection and were
accepted, the policy is that of a volume fit for them, `ok` means that the tree
was verified. `StagedInv` adds that the staged tree is a tree: whatever has
something below it is a directory. (A file that is included through a link
outside the targets becomes a file below real directories; that is why "links
lead where they led" is stated without such files, `InPlace`.)

The core of `ExportedResolves` and `Materialized` is that a walk of the file system *stands for*
a path of the exporter (`Stands`): where the walk has come to, less the `Up`s it
has ahead, followed by the names it has ahead, is the path `ExportHop` works on.
`WalkUp` and `WalkDown` leave that path alone, `WalkLink` is one hop
(`HopOverLink`), so a walk that ends, ends where the exporter does
(`WalkedResolves`). That needs what `posixpath.normpath` makes of a path
followed by a plain target (`NormalPlain`): the path without as many names as
the target has `Up`s, and the rest of the target. `AuditedExported` compares the
hops of audit and exporter instead: on entries they are the same.

The other direction, `ResolvesWalked`, is that the walk does not fail or run out
of steps where the exporter finds an entry. It does not fail since the path it
stands for is one the exporter goes on from: it is an entry, or a link is above
it, so what the walk comes to next is above that entry or that link, or is the
link (`NextThere`), and when it is a link the exporter has a hop left, so that
the walk may follow it. It does not run out of steps since after `j` links the
steps it took and the names it has ahead are at most `Room(j)`, one `MaxNames`
more with each link. Both directions need that no file is included through a link
(`InPlace`): with a link `d` to a directory `e` of which the file `e/x` is
excluded, and `d/x` included, the exporter has an entry `d/x` that a link may
name, and the volume could have no `e/x`. The materializer refuses such an
archive, since `d` is a link and not a directory.

For `Unpacked`, what has an archive must neither be refused by the contract nor
by the materializer. `UnpackInv` says what there is on the volume after `at` members:
copies of the entries with lower numbers, and directories above them, nothing
else. That takes one step to the next only if `at` is the number of one entry,
that entry is not there yet, and nothing above it is a link or a file. So
`Numbers` shows that members are numbered in the order of their paths, without
gaps that matter: two entries have two numbers, all are below the count, and what
is above an entry has a lower one. A hard link to the first file with the same
contents and mode is as good as a copy (`StoredIsCopy`). At the end
`ResolvesWalked` says that `_verify_symlink_inside` finds an entry for each link,
and `ContractAlike` that the contract's resolution of the entrypoint is the
exporter's. The property names what an exported release may still be refused for
(`Ordinary`), among it a target below an excluded name.

Recursive functions and induction. The recursions are functions over `0 .. n`.
That such a function has the value of its definition is a theorem of the library
that takes an operator as a parameter, so the proofs construct the function as a
set of pairs from well-foundedness instead (`NatSet`, the induction principle
for a *set* of numbers, needs no operator parameter), for the steps and the
two filters the models use, and prove their equations by the same principle.

Model-checked only: the liveness properties, since fairness and `ENABLED` are
outside the prover's reach. Every safety property of a run is a theorem.

## 5. Not modelled

Listed with reasons in PROJECT.json. In short: CI helpers and builds have no
state; start-up scripts run once; the custom node installer and the image pull
are sequential loops with a retry counter (and delays), whose effects a failed
build drops with its layer; the module bootstrap is one process in a container of
its own, which unpacks a pinned archive below a name that ends at random and
executes it: nothing is shared with another process or found by a later run.

Of the modelled programs, the models leave out the schemas of configuration and
manifest fields, URL and argument validation, links above a target and names
with unusual characters, progress and messages; of the audit, its entry limit,
absolute `DT_NEEDED` names and the launcher contract report, which no verdict
uses; of the sanitizer, an `lstat` that fails after the patch. Host crashes of
the hydrator are a hazard without a property, for the reason noted there, and
its Pods are modelled one at a time, as their lease promises.

## 6. Plan

Done: the materializer, the entry point, the exporter, the publisher, the
hydrator, the handler, the sanitizer, the gate and the release across its
programs, each with its proofs.

What is left, in this order:

1. A second runtime in `RuntimeDownload` for the liveness property (the safety
   invariant is proved for any number of them).
2. Pure algorithms that are still inside other actions: range chunking, the
   schema of the reviewed allowances.
3. Retry loops: custom node installation, image pulls.
