---------------------------- MODULE RuntimeRelease ----------------------------
(***************************************************************************)
(* One release: a tree of a built image is audited, exported, and unpacked *)
(* on a volume.  What the programs agree on is a tree (RuntimeTree) and a  *)
(* manifest; what they disagree on shows here.  Failures of calls, killed  *)
(* processes and edits of the tree are in RuntimeExport and                *)
(* RuntimeMaterializer, which have no links and no permissions.            *)
(*                                                                         *)
(* A volume is what lstat says of a file or directory that was given a     *)
(* mode.                                                                   *)
(***************************************************************************)
EXTENDS RuntimeTree

CONSTANTS Trees, TargetSets, IncludeApp, \* trees; --target, --include-app
          Entrypoint,
          Volumes,                \* [{"dir", "file", "link"} -> [Modes -> Modes]]
          Modes, Executable, Special,
          DirModes, FileModes,    \* of the materializer's own paths
          LinkMode, DirNormal, FileNormal, ExecNormal, \* of a normalizing volume
          PrivateMode,
          Huge,                   \* contents of 8 GiB and more
          MaxVariants, MaxEntries, \* what the materializer takes
          Names, Rank,            \* of paths: their order as strings
          None

(* What is in the file system of an image: what has something below it is  *)
(* a directory, and a target is absolute by its first name.                *)
IsPath(p) == p \in Seq(Names) /\ p # <<>> /\ Len(p) <= MaxNames
IsTarget(t) == /\ t \in Seq(Names \cup {Up, Slash}) /\ t # <<>> /\ Len(t) <= MaxNames
               /\ \A i \in 2 .. Len(t) : t[i] # Slash
IsTree(tree) ==
    /\ IsFiniteSet(DOMAIN tree)
    /\ \A p \in DOMAIN tree :
          /\ IsPath(p) /\ DOMAIN tree[p] = {"kind", "mode", "data"} /\ tree[p].mode \in Modes
          /\ tree[p].kind = "link" => IsTarget(tree[p].data)
          /\ \A q \in Above(p) : q \in DOMAIN tree /\ tree[q].kind = "dir"

ASSUME ReleaseAssumption ==
    /\ {LinkMode, DirNormal, FileNormal, ExecNormal, PrivateMode} \subseteq Modes
    /\ Executable \cup Special \cup DirModes \cup FileModes \subseteq Modes
    /\ PrivateMode \in DirModes /\ ExecNormal \in Executable /\ FileNormal \notin Executable
    /\ Up \notin Names /\ Slash \notin Names
    /\ None # {}
    /\ Refused \notin Seq(Names \cup {Up, Slash})
    /\ Refused \notin [at : Seq(Names), rest : Seq(Names \cup {Up, Slash}), links : Nat]
    /\ \A tree \in Trees : IsTree(tree)
    /\ \A files \in IncludeApp : IsFiniteSet(files) /\ \A f \in files : IsPath(f)
    /\ IsPath(Entrypoint) /\ \A targets \in TargetSets : \A t \in targets : IsPath(t)
    /\ MaxVariants \in Nat /\ MaxEntries \in Nat
    /\ LET paths == UNION ({DOMAIN tree : tree \in Trees} \cup IncludeApp)
       IN  \A p \in paths, q \in paths :
               /\ Rank[p] \in Nat /\ (Rank[p] = Rank[q] => p = q)
               /\ IsStrictPrefix(p, q) => Rank[p] < Rank[q]

VARIABLES source,             \* the tree
          targets, included,  \* --target, --include-app
          pc, outcome,        \* the next stage; ok, or what refused the release
          audit,              \* of the audit: the paths it reports
          entries,            \* of the manifest
          archives,           \* placed in the output directory
          volume, policy,     \* of the materializer
          staged, at          \* the unpacked tree, members that are in it

materializer == <<volume, policy, staged, at>>
vars == <<source, targets, included, pc, outcome, audit, entries, archives, materializer>>

PC == {"audit", "collect", "archive", "manifest", "probe", "extract", "verify", "done"}
Stages == PC \ {"done"}
Empty  == [p \in {} |-> None]

ASSUME OutcomeAssumption == None \notin Stages \cup {"ok"}

Init == /\ source \in Trees /\ targets \in TargetSets /\ included \in IncludeApp
        /\ pc = "audit" /\ outcome = None /\ audit = None
        /\ entries = Empty /\ archives = {}
        /\ volume = None /\ policy = None /\ staged = Empty /\ at = 0

(* (Mutant: an error is passed over.)                                      *)
Swallow == pc' = "done" /\ UNCHANGED outcome
Refuse == pc' = "done" /\ outcome' = pc
Goto(next) == pc' = next /\ UNCHANGED outcome
-----------------------------------------------------------------------------
(* What the programs look for in the image.                                *)
RealDirectory(t) == t \in DOMAIN source /\ source[t].kind = "dir"
Present(f) == Walked(source, Front(f)) # Refused
              /\ Append(Walked(source, Front(f)), Last(f)) \in DOMAIN source
IsFile(f)  == /\ Present(f)
              /\ source[Append(Walked(source, Front(f)), Last(f))].kind # "dir"

(* An exclude is inside a target.                                          *)
ExcludesInside == \A x \in Excludes : \E t \in targets : IsPrefix(t, x)

(* symlink_stats, special files, what is missing and what is no directory. *)
(* There is no report for a selection _policy refuses.  Nothing waits for  *)
(* the verdict.                                                            *)
Audit ==
    /\ pc = "audit"
    /\ LET records == Entries(source, targets, {f \in included : IsFile(f)})
       IN  audit' = IF ~ExcludesInside THEN None
                    ELSE {p \in DOMAIN records :
                             \/ records[p].kind = "special"
                             \/ records[p].kind = "link" /\ ResolveSelected(records, p) = Refused}
                         \cup {f \in included : ~IsFile(f)} \cup {t \in targets : ~RealDirectory(t)}
    /\ Goto("collect")
    /\ UNCHANGED <<source, targets, included, entries, archives, materializer>>

(* collect_entries and the entrypoint of export_runtime.  (Mutant: a link  *)
(* has to stay below the root, wherever it leads.)                         *)
LinksBelow(tree) ==
    \A p \in DOMAIN tree : tree[p].kind = "link" => LinkResolvedPath(p, tree[p].data) # Refused
LinksClosed(tree) ==
    \A p \in DOMAIN tree : tree[p].kind = "link" =>
        /\ LinkResolvedPath(p, tree[p].data) # Refused
        /\ ResolveSymlinkChain(tree, p) # Refused

IsProgram(tree, p) == p # Refused /\ tree[p].kind = "file" /\ tree[p].mode \in Executable

Collect ==
    /\ pc = "collect"
    /\ LET tree == Entries(source, targets, included)
       IN  IF /\ \A t \in targets : RealDirectory(t)
              /\ \A f \in included : IsFile(f)
              /\ \A x \in Excludes : Present(x)
              /\ \A p \in DOMAIN tree : tree[p].kind # "special"
              /\ LinksClosed(tree)
              /\ Entrypoint \in DOMAIN tree
              /\ IsProgram(tree, ResolveSymlinkChain(tree, Entrypoint))
           THEN entries' = tree /\ Goto("archive")
           ELSE Refuse /\ UNCHANGED entries
    /\ UNCHANGED <<source, targets, included, audit, archives, materializer>>

(* The archive is put in the output directory before anything looks at the *)
(* manifest it goes with.                                                  *)
PlaceArchive ==
    /\ pc = "archive"
    /\ archives' = archives \cup {entries}
    /\ Goto("manifest")
    /\ UNCHANGED <<source, targets, included, audit, entries, materializer>>

(* validate_manifest: excludes inside a target, nothing below an excluded  *)
(* name, and an entrypoint that can be found by entries.                   *)
ManifestAccepts ==
    /\ ExcludesInside
    /\ \A p \in DOMAIN entries :
           /\ ~Excluded(p)
           /\ \A q \in Above(p) : Last(q) \notin ExcludedNames
           /\ entries[p].kind = "dir" => Last(p) \notin ExcludedNames
    /\ IsProgram(entries, ResolveEntrypoint(entries, Entrypoint))

ValidateManifest ==
    /\ pc = "manifest"
    /\ IF ManifestAccepts THEN Goto("probe") ELSE Refuse
    /\ UNCHANGED <<source, targets, included, audit, entries, archives, materializer>>
-----------------------------------------------------------------------------
(* volume_mode_matches.  (Mutant: special bits may be lost.)               *)
LenientModeMatches(kind, expected, actual) ==
    \/ actual = expected
    \/ kind = "dir" /\ actual = DirNormal
    \/ kind = "file" /\ actual = IF expected \in Executable THEN ExecNormal ELSE FileNormal
VolumeModeMatches(kind, expected, actual) ==
    /\ expected \notin Special /\ actual \notin Special
    /\ IF kind = "link" THEN expected = LinkMode /\ actual = LinkMode
       ELSE \/ actual = expected
            \/ kind = "dir" /\ actual = DirNormal
            \/ /\ kind = "file"
               /\ actual = IF expected \in Executable THEN ExecNormal ELSE FileNormal

(* probe_volume_mode_capability: every mode of the manifest, and the       *)
(* materializer's own, is tried on the volume before anything is unpacked. *)
(* validate_manifest of the policy: links have one mode.                   *)
Variants == [kind : {"dir"}, mode : DirModes] \cup [kind : {"file"}, mode : FileModes]
            \cup {[kind |-> "link", mode |-> LinkMode]}
            \cup {[kind |-> entries[p].kind, mode |-> entries[p].mode] : p \in DOMAIN entries}

(* _parse_manifest_bytes and _mode_probe_variants count first.             *)
WithinLimits ==
    /\ Cardinality(DOMAIN entries) <= MaxEntries
    /\ Cardinality({x \in Variants : x.kind # "link"}) <= MaxVariants

(* VolumeModePolicy: what the volume made of each mode; the staged tree is *)
(* compared with it.                                                       *)
ModePolicy(v) == [x \in Variants |-> v[x.kind][x.mode]]

Probe(v) ==
    /\ pc = "probe"
    /\ volume' = v
    /\ IF WithinLimits /\ \A x \in Variants : VolumeModeMatches(x.kind, x.mode, v[x.kind][x.mode])
       THEN policy' = ModePolicy(v) /\ Goto("extract")
       ELSE Refuse /\ UNCHANGED policy
    /\ UNCHANGED <<source, targets, included, audit, entries, archives, staged, at>>

(* The archive's members: sorted by path, so that directories come before  *)
(* what is in them.                                                        *)
Before(p, q) == Rank[p] < Rank[q]
Members == Cardinality(DOMAIN entries)
IsMember(n, p) == Cardinality({q \in DOMAIN entries : Before(q, p)}) = n

(* _dedupe_targets: the first file with the same contents and mode; the    *)
(* others become hard links to it.  (Mutant: whatever its mode.)           *)
SameContents(p, q) == entries[p].kind = "file" /\ entries[q].kind = "file"
                      /\ entries[p].data = entries[q].data
SameFile(p, q)     == entries[p].kind = "file" /\ entries[p] = entries[q]
DedupeTarget(p) ==
    LET same == {q \in DOMAIN entries : SameFile(p, q)}
    IN  CHOOSE q \in same : \A r \in same \ {q} : Before(q, r)

(* _ensure_parents.                                                        *)
ParentsFit(tree, p) ==
    \A q \in Above(p) : IF q \in DOMAIN tree THEN tree[q].kind = "dir"
                        ELSE q \in DOMAIN entries => entries[q].kind = "dir"
WithParents(tree, p) ==
    [q \in DOMAIN tree \cup Above(p) |->
        IF q \in DOMAIN tree THEN tree[q]
        ELSE [kind |-> "dir", mode |-> volume["dir"][PrivateMode], data |-> None]]

(* _extract_member.                                                        *)
Stored(tree, p) ==
    LET entry == entries[p]
        first == DedupeTarget(p)
    IN  IF entry.kind = "file" /\ first # p /\ first \in DOMAIN tree THEN tree[first]
        ELSE [entry EXCEPT !.mode = volume[entry.kind][entry.mode]]

(* _check_tar_metadata: the size of a huge file is in a PAX header, which  *)
(* the exporter writes and the materializer refuses.                       *)
HasPaxSize(p) == entries[p].kind = "file" /\ entries[p].data \in Huge

Collides(p) == /\ p \in DOMAIN staged
               /\ ~(entries[p].kind = "dir" /\ staged[p].kind = "dir")

ExtractMember ==
    /\ pc = "extract" /\ at < Members
    /\ \E p \in DOMAIN entries :
           LET tree == WithParents(staged, p)
           IN  /\ IsMember(at, p)
               /\ IF /\ ~HasPaxSize(p) /\ ParentsFit(staged, p) /\ ~Collides(p)
                     /\ entries[p].kind = "link" => LinkResolvedPath(p, entries[p].data) # Refused
                  THEN /\ staged' = [q \in {p} \cup DOMAIN tree |->
                                        IF q = p THEN Stored(tree, p) ELSE tree[q]]
                       /\ at' = at + 1 /\ UNCHANGED <<pc, outcome>>
                  ELSE Refuse /\ UNCHANGED <<staged, at>>
    /\ UNCHANGED <<source, targets, included, audit, entries, archives, volume, policy>>

ExtractionEnds ==
    /\ pc = "extract" /\ at = Members
    /\ Goto("verify")
    /\ UNCHANGED <<source, targets, included, audit, entries, archives, materializer>>

(* _verify_symlink_inside: what the link leads to in the file system has   *)
(* an entry.  (Mutant: the target is looked up by its name.)               *)
LinkNamesEntry(p) == LinkResolvedPath(p, staged[p].data) \in DOMAIN entries
VerifySymlinkInside(p) == Walked(staged, p) \in DOMAIN entries

(* _verify_tree: no path too many or too few, and all as the policy has it.*)
TreeVerified ==
    /\ DOMAIN staged = DOMAIN entries \cup UNION {Above(p) : p \in DOMAIN entries}
    /\ \A p \in DOMAIN entries :
           /\ staged[p].kind = entries[p].kind /\ staged[p].data = entries[p].data
           /\ staged[p].mode = policy[[kind |-> entries[p].kind, mode |-> entries[p].mode]]
           /\ staged[p].kind = "link" => VerifySymlinkInside(p)
    /\ \A p \in DOMAIN staged \ DOMAIN entries : staged[p].kind = "dir"

Verify ==
    /\ pc = "verify"
    /\ pc' = "done" /\ outcome' = IF TreeVerified THEN "ok" ELSE "verify"
    /\ UNCHANGED <<source, targets, included, audit, entries, archives, materializer>>

Next == \/ Audit \/ Collect \/ PlaceArchive \/ ValidateManifest
        \/ \E v \in Volumes : Probe(v)
        \/ ExtractMember \/ ExtractionEnds \/ Verify

Spec == Init /\ [][Next]_vars
-----------------------------------------------------------------------------
TypeOK ==
    /\ targets \in TargetSets /\ included \in IncludeApp /\ pc \in PC /\ outcome \in Stages \cup {"ok", None}
    /\ (pc = "done") = (outcome # None)
    /\ audit # None => audit \subseteq DOMAIN source \cup included \cup targets
    /\ \A p \in DOMAIN entries : entries[p].mode \in Modes
    /\ archives \subseteq {entries}
    /\ volume \in Volumes \cup {None}
    /\ DOMAIN entries \subseteq DOMAIN source \cup included
    /\ at \in 0 .. Cardinality(DOMAIN entries)

(* What the file system of the volume has when the selection is all there  *)
(* is, and where a link of the selection leads there.                      *)
Selection == Entries(source, targets, included)
LinksOf(tree) == {p \in DOMAIN tree : tree[p].kind = "link"}
OnVolume(tree) ==
    [q \in DOMAIN tree \cup UNION {Above(p) : p \in DOMAIN tree} |->
        IF q \in DOMAIN tree THEN tree[q]
        ELSE [kind |-> "dir", mode |-> PrivateMode, data |-> None]]
Leads(tree, p) == LET end == Walked(OnVolume(tree), p)
                  IN  IF end \in DOMAIN tree THEN end ELSE Refused

(* As ln -s is used: Up only leads out of the directory a link is in.      *)
Plain(target)    == \A i \in 1 .. Len(target) : target[i] = Up =>
                        \A j \in 1 .. i : target[j] = Up
PlainLinks(tree) == \A p \in LinksOf(tree) : Plain(tree[p].data)
InPlace(f)       == IsFile(f) /\ Walked(source, Front(f)) = Front(f)

(* The exporter resolves links by their names, without the file system.    *)
(* It is right: in a tree with plain links that is exported, each link     *)
(* leads to an entry of the selection, through whatever other links, and   *)
(* the entrypoint to a program; and a tree where they do is not refused.   *)
(* Not so when a file is included through a link whose target is not       *)
(* exported: the exporter has an entry below the link, which the volume    *)
(* does not have.                                                          *)
Collectable(tree) == /\ \A t \in targets : RealDirectory(t)
                     /\ \A x \in Excludes : Present(x)
                     /\ \A p \in DOMAIN tree : tree[p].kind # "special"
                     /\ PlainLinks(tree)
Resolves(tree) ==
    /\ \A p \in LinksOf(tree) : Head(tree[p].data) # Slash /\ Leads(tree, p) # Refused
    /\ Entrypoint \in DOMAIN tree /\ IsProgram(tree, Leads(tree, Entrypoint))
ExportsWhatResolves ==
    (\A f \in included : InPlace(f)) =>
        /\ pc = "archive" /\ PlainLinks(entries) => Resolves(Selection)
        /\ outcome = "collect" => ~Collectable(Selection) \/ ~Resolves(Selection)

(* The audit has another algorithm for the same question, and no tree it   *)
(* finds nothing in is refused by the exporter for its links - unless one  *)
(* climbs over the root, which the audit does not notice, as little as an  *)
(* exclude that does not exist.                                            *)
StaysBelow(tree, p) == LinkResolvedPath(p, tree[p].data) # Refused
AuditedIsExported ==
    audit = {} /\ outcome = "collect" =>
        LET tree == Selection
        IN  \/ \E p \in LinksOf(tree) : ~StaysBelow(tree, p)
            \/ \E x \in Excludes : ~Present(x)
            \/ Entrypoint \notin DOMAIN tree
            \/ ~IsProgram(tree, ResolveSymlinkChain(tree, Entrypoint))

(* What is materialized is the selection, on any volume: nothing is lost   *)
(* or added, and programs are programs; every link leads where it led in   *)
(* the image, but for files that are included through links, which become  *)
(* directories; with plain links, the entrypoint leads to a program.       *)
MaterializedIsImage ==
    outcome = "ok" =>
        LET tree == Selection
        IN  /\ {p \in DOMAIN staged : staged[p].kind # "dir"} =
                   {p \in DOMAIN tree : tree[p].kind # "dir"}
            /\ \A p \in DOMAIN tree :
                   /\ staged[p].kind = tree[p].kind /\ staged[p].data = tree[p].data
                   /\ (staged[p].mode \in Special) = (tree[p].mode \in Special)
                   /\ staged[p].kind = "file" =>
                          (staged[p].mode \in Executable) = (tree[p].mode \in Executable)
            /\ (\A f \in included : InPlace(f)) =>
                   \A p \in LinksOf(tree) : Walked(staged, p) = Walked(source, p)
            /\ PlainLinks(tree) => IsProgram(staged, Walked(staged, Entrypoint))

(* A release that is exported can be unpacked: what the materializer would *)
(* refuse is refused before there is an archive.  Not so when a file is    *)
(* included through a link, when a file or a target is below an excluded   *)
(* name, when an exclude is outside the targets, when there are special    *)
(* bits, too many modes or entries or a huge file, or when the entrypoint  *)
(* is a link through another one; and a volume may not be fit for use.     *)
Ordinary(tree) ==
    /\ ExcludesInside /\ WithinLimits /\ \A p \in DOMAIN tree : ~HasPaxSize(p)
    /\ PlainLinks(tree)
    /\ \A f \in included : InPlace(f)
    /\ \A p \in targets \cup included : \A q \in Above(p) : Last(q) \notin ExcludedNames
    /\ \A p \in DOMAIN tree : tree[p].mode \notin Special
    /\ ResolveEntrypoint(tree, Entrypoint) # Refused
Fit(v) == \A x \in Variants : VolumeModeMatches(x.kind, x.mode, v[x.kind][x.mode])
ExportedCanBeUnpacked ==
    pc = "done" /\ archives # {} /\ Ordinary(entries) =>
        outcome = "ok" \/ (outcome = "probe" /\ ~Fit(volume))

(* What the manifest contract says, "entrypoint must resolve to an         *)
(* executable file", of the runtime that is verified on the volume.        *)
EntrypointRuns == outcome = "ok" => IsProgram(staged, Walked(staged, Entrypoint))
=============================================================================
