----------------------------- MODULE RuntimeExport -----------------------------
(***************************************************************************)
(* scripts/export_runtime.py: it hashes the selected tree, packs it in a   *)
(* second pass, puts the archive and then the manifest in the output       *)
(* directory and verifies them.  The tree is not frozen meanwhile.         *)
(*                                                                         *)
(* A path is a file or a symbolic link; source[p] has its mode and the     *)
(* edit that gave it its data.  A file is read block by block, and every   *)
(* block has the data of the moment: reading a file that is rewritten in   *)
(* place returns a sequence of several edits, whose digest is that         *)
(* sequence.  An archive is what its members hold.                         *)
(***************************************************************************)
EXTENDS Naturals, Sequences, FiniteSets

CONSTANTS Files, Links,  \* paths, numbered in the order they are visited
          SizeOf,        \* blocks a file has after an edit
          MaxEdits, MaxFaults,
          None

Paths == Files \cup Links
Edits == 0 .. MaxEdits
Last  == Cardinality(Paths)

ASSUME ExportAssumption ==
    /\ {MaxEdits, MaxFaults} \subseteq Nat
    /\ Last \in Nat /\ Paths = 1 .. Last /\ Files \cap Links = {}
    /\ SizeOf \in [Edits -> Nat \ {0}]

VARIABLES source,             \* the tree under --source-root
          pc, at, seen, buf,  \* the run: path, its lstat, what was read of it
          listed, entries,    \* the collected tree
          members,            \* the tar of the scratch directory
          archives, manifests, partials,  \* the output directory
          outcome, snapshot,  \* of the last run: exit code; the tree at the end
          edits, faults       \* of its collection (a history variable)

run    == <<at, seen, buf, listed, entries, members>>
output == <<archives, manifests, partials>>
env    == <<edits, faults>>
vars   == <<source, pc, run, output, outcome, snapshot, env>>

Nothing == [p \in Paths |-> None]
Node    == [mode : Edits, data : Edits]
Data    == Seq(Edits)
Entry   == [mode : Edits, data : Data]
Entries == [Paths -> Entry \cup {None}]
Members == [Paths -> Data \cup {None}]
PC == {"idle", "collect", "hash", "check", "rehash", "add", "compress", "place",
       "manifest", "replace", "verify"}

ASSUME NoneAssumption == None \notin Node \cup Entry

Init == /\ source \in [Paths -> {[mode |-> 0, data |-> 0], None}]
        /\ pc = "idle" /\ at = 1 /\ seen = None /\ buf = <<>>
        /\ listed = {} /\ entries = Nothing /\ members = Nothing
        /\ archives = {} /\ manifests = {} /\ partials = {}
        /\ outcome = "none" /\ snapshot = Nothing
        /\ edits = 0 /\ faults = 0
-----------------------------------------------------------------------------
(* main() with an error.                                                   *)
Fail == pc' = "idle" /\ outcome' = "error" /\ UNCHANGED <<run, snapshot>>

Goto(next) == pc' = next /\ UNCHANGED outcome

(* The selected roots are listed; a run forgets what the last one had.     *)
Begin ==
    /\ pc = "idle" /\ \E p \in Paths : source[p] # None
    /\ pc' = "collect" /\ outcome' = "none"
    /\ at' = 1 /\ seen' = None /\ buf' = <<>>
    /\ listed' = {p \in Paths : source[p] # None}
    /\ entries' = Nothing /\ members' = Nothing /\ snapshot' = Nothing
    /\ UNCHANGED <<source, output, env>>

(* The passes end when there is no listed path left.  The collected tree   *)
(* is validated and the second pass begins; after that, zstd.  (Mutant:    *)
(* one path too many.)                                                     *)
Visiting(pass) == pc = pass /\ at <= Last /\ at \in listed

Skip(last) ==
    /\ pc \in {"collect", "check"} /\ at <= last /\ at \notin listed
    /\ at' = at + 1
    /\ UNCHANGED <<source, pc, seen, buf, listed, entries, members, output,
                   outcome, snapshot, env>>
SkipPast == Skip(Last + 1)
SkipPath == Skip(Last)

CollectionEnds ==
    /\ pc = "collect" /\ at > Last
    /\ Goto("check") /\ at' = 1
    /\ snapshot' = source
    /\ UNCHANGED <<source, seen, buf, listed, entries, members, output, env>>

TarEnds ==
    /\ pc = "check" /\ at > Last
    /\ Goto("compress")
    /\ UNCHANGED <<source, run, output, snapshot, env>>

Collected(p, mode, data) ==
    /\ entries' = [entries EXCEPT ![p] = [mode |-> mode, data |-> data]]
    /\ at' = at + 1 /\ seen' = None /\ buf' = <<>>
    /\ Goto("collect")
    /\ UNCHANGED <<listed, members, snapshot>>

(* _collect_one: lstat, and the target of a link.                          *)
Collect ==
    /\ Visiting("collect")
    /\ CASE source[at] = None -> Fail
         [] source[at] # None /\ at \in Links ->
              Collected(at, source[at].mode, <<source[at].data>>)
         [] OTHER -> /\ seen' = [mode |-> source[at].mode,
                                 size |-> SizeOf[source[at].data]]
                     /\ Goto("hash")
                     /\ UNCHANGED <<at, buf, listed, entries, members, snapshot>>
    /\ UNCHANGED <<source, output, env>>
-----------------------------------------------------------------------------
(* A reader that has a file open which is removed or replaced reads on:    *)
(* that is as if it had read the rest before.                              *)
AtEnd(p) == source[p] # None /\ Len(buf) >= SizeOf[source[p].data]

(* _read_file_digest: a block of either pass.                              *)
ReadBlock ==
    /\ pc \in {"hash", "rehash"} /\ ~AtEnd(at)
    /\ IF source[at] = None THEN Fail
       ELSE /\ buf' = Append(buf, source[at].data)
            /\ UNCHANGED <<pc, at, seen, listed, entries, members, outcome, snapshot>>
    /\ UNCHANGED <<source, output, env>>

(* "file changed while hashing".                                           *)
HashEnds ==
    /\ pc = "hash" /\ AtEnd(at)
    /\ IF Len(buf) = seen.size THEN Collected(at, seen.mode, buf) ELSE Fail
    /\ UNCHANGED <<source, output, env>>

Packed(p, data) ==
    /\ members' = [members EXCEPT ![p] = data]
    /\ at' = at + 1 /\ buf' = <<>>
    /\ Goto("check")
    /\ UNCHANGED <<seen, listed, entries, snapshot>>

(* _write_deterministic_tar: the permissions of the path, and the target   *)
(* of a link.  (Mutant: the permissions are those of the first pass.)      *)
Check(modeKept) ==
    /\ Visiting("check")
    /\ CASE source[at] = None -> Fail
         [] source[at] # None /\ ~modeKept -> Fail
         [] source[at] # None /\ modeKept /\ at \in Links ->
              IF <<source[at].data>> = entries[at].data
              THEN Packed(at, entries[at].data) ELSE Fail
         [] OTHER -> Goto("rehash") /\ UNCHANGED <<run, snapshot>>
    /\ UNCHANGED <<source, output, env>>
TrustMode == Check(TRUE)
CheckPath == Check(source[at] # None => source[at].mode = entries[at].mode)

RehashEnds ==
    /\ pc = "rehash" /\ AtEnd(at)
    /\ IF buf = entries[at].data
       THEN Goto("add") /\ buf' = <<>>
            /\ UNCHANGED <<at, seen, listed, entries, members, snapshot>>
       ELSE Fail
    /\ UNCHANGED <<source, output, env>>

(* archive.addfile copies the declared number of blocks of the file, which *)
(* it has opened once more.                                                *)
AddFile ==
    /\ pc = "add"
    /\ CASE Len(buf) = Len(entries[at].data) -> Packed(at, buf)
         [] Len(buf) < Len(entries[at].data) /\ (source[at] = None \/ AtEnd(at)) -> Fail
         [] OTHER -> /\ buf' = Append(buf, source[at].data)
                     /\ UNCHANGED <<pc, at, seen, listed, entries, members, outcome,
                                    snapshot>>
    /\ UNCHANGED <<source, output, env>>
-----------------------------------------------------------------------------
Compress ==
    /\ pc = "compress"
    /\ Goto("place")
    /\ UNCHANGED <<source, run, output, snapshot, env>>

(* Under the name of its digest, from the scratch directory.               *)
PlaceArchive ==
    /\ pc = "place"
    /\ archives' = archives \cup {members}
    /\ Goto("manifest")
    /\ UNCHANGED <<source, run, manifests, partials, snapshot, env>>

Manifest == [entries |-> entries, archive |-> members]

(* _write_manifest: a file with a fixed name next to the manifest, which a *)
(* killed run leaves there.  (Mutant: it must not exist.)                  *)
CreatePartial ==
    /\ pc = "manifest"
    /\ IF Manifest \in partials THEN Fail /\ UNCHANGED partials
       ELSE /\ partials' = partials \cup {Manifest}
            /\ Goto("replace") /\ UNCHANGED <<run, snapshot>>
    /\ UNCHANGED <<source, archives, manifests, env>>
WriteManifest ==
    /\ pc = "manifest"
    /\ partials' = partials \cup {Manifest}
    /\ Goto("replace")
    /\ UNCHANGED <<source, run, archives, manifests, snapshot, env>>

ReplaceManifest ==
    /\ pc = "replace"
    /\ manifests' = manifests \cup {Manifest}
    /\ partials' = partials \ {Manifest}
    /\ Goto("verify")
    /\ UNCHANGED <<source, run, archives, snapshot, env>>

Describes(m) == \A p \in Paths : IF m.entries[p] = None THEN m.archive[p] = None
                                 ELSE m.archive[p] = m.entries[p].data

(* verify_export: digest, size and every member.  (Mutant: what does not   *)
(* verify is removed, the archive alone.)                                  *)
RemoveArchive ==
    /\ pc = "verify"
    /\ pc' = "idle"
    /\ IF Describes(Manifest) THEN outcome' = "ok" /\ UNCHANGED archives
       ELSE outcome' = "error" /\ archives' = archives \ {members}
    /\ UNCHANGED <<source, run, manifests, partials, snapshot, env>>
VerifyExport ==
    /\ pc = "verify"
    /\ pc' = "idle"
    /\ outcome' = IF Describes(Manifest) THEN "ok" ELSE "error"
    /\ UNCHANGED <<source, run, output, snapshot, env>>
-----------------------------------------------------------------------------
Fault == faults < MaxFaults /\ faults' = faults + 1 /\ UNCHANGED edits

(* Any call fails: a manifest's temporary file is unlinked on the way out. *)
Raise ==
    /\ pc # "idle" /\ Fault
    /\ Fail
    /\ partials' = IF pc = "replace" THEN partials \ {Manifest} ELSE partials
    /\ UNCHANGED <<source, archives, manifests>>

Kill ==
    /\ pc # "idle" /\ Fault
    /\ pc' = "idle" /\ outcome' = "killed"
    /\ UNCHANGED <<source, run, output, snapshot>>

(* Somebody works in the tree.  No file is changed back to what it was.    *)
Change(p) ==
    /\ edits < MaxEdits /\ edits' = edits + 1 /\ UNCHANGED faults
    /\ \/ /\ source[p] # None
          /\ source' \in {[source EXCEPT ![p].data = edits + 1],
                          [source EXCEPT ![p].mode = edits + 1],
                          [source EXCEPT ![p] = None]}
       \/ /\ source[p] = None
          /\ source' = [source EXCEPT ![p] = [mode |-> edits + 1, data |-> edits + 1]]
    /\ UNCHANGED <<pc, run, output, outcome, snapshot>>

Step == \/ SkipPath \/ Collect \/ ReadBlock \/ HashEnds \/ CollectionEnds
        \/ CheckPath \/ RehashEnds \/ AddFile \/ TarEnds
        \/ Compress \/ PlaceArchive \/ WriteManifest \/ ReplaceManifest \/ VerifyExport

Next == \/ Begin \/ Step \/ Raise \/ Kill
        \/ \E p \in Paths : Change(p)

Spec == Init /\ [][Next]_vars
(* A run goes on; nobody has to start one.                                 *)
FairSpec == Spec /\ WF_vars(Step)
-----------------------------------------------------------------------------
TypeOK ==
    /\ source \in [Paths -> Node \cup {None}] /\ snapshot \in [Paths -> Node \cup {None}]
    /\ pc \in PC /\ at \in 1 .. Last + 1
    /\ seen \in [mode : Edits, size : Nat] \cup {None}
    /\ buf \in Data /\ listed \subseteq Paths
    /\ entries \in Entries /\ members \in Members
    /\ \A a \in archives : a \in Members
    /\ \A m \in manifests \cup partials : m.entries \in Entries /\ m.archive \in Members
    /\ outcome \in {"none", "ok", "error", "killed"}
    /\ edits \in Edits /\ faults \in 0 .. MaxFaults

(* The data a file with one edit reads as, from beginning to end.          *)
Whole(p, e) == IF p \in Links THEN <<e>> ELSE [i \in 1 .. SizeOf[e] |-> e]

(* A successful export is a snapshot: manifest and archive have every      *)
(* listed path as it was at one instant, the end of the collection,        *)
(* although files were read one after the other, in blocks, three times,   *)
(* while the tree was edited.                                              *)
SuccessIsSnapshot ==
    outcome = "ok" =>
        \A p \in listed :
            /\ snapshot[p] # None
            /\ entries[p] = [mode |-> snapshot[p].mode, data |-> Whole(p, snapshot[p].data)]
            /\ members[p] = entries[p].data

(* A manifest is never there without the archive it names, whoever died    *)
(* and whatever failed.                                                    *)
ManifestHasArchive == \A m \in manifests : m.archive \in archives

(* A run over a tree that nobody edits any more succeeds, whatever earlier *)
(* runs left in the output directory.                                      *)
RetrySucceeds ==
    (/\ pc = "collect" /\ at = 1 /\ faults = MaxFaults /\ edits = MaxEdits
     /\ \A p \in listed : source[p] # None)
    ~> outcome = "ok"
=============================================================================
