----------------------------- MODULE ElfSanitizer -----------------------------
(***************************************************************************)
(* scripts/sanitize_elf_search_paths.py, the last step of the base image:  *)
(* the empty components of every DT_RPATH and DT_RUNPATH are removed, file *)
(* by file - back up, patch, read back, verify - and a patch that does not *)
(* verify is undone.  Any error ends the program, and the image's layer.   *)
(*                                                                         *)
(* Files may be hard links of each other: a path has a node, a node holds  *)
(* a file.  patchelf writes into the node; a restored path gets a new one. *)
(***************************************************************************)
EXTENDS Naturals, Sequences, FiniteSets, SequencesExt

CONSTANTS Trees,     \* [node : path -> node, file : node -> file], as built
          Order,     \* the paths, in the order of sorted()
          Blank,     \* an empty component of a search path
          Fresh,     \* the node of a restored file
          Other,     \* what an entry nobody asked to change is changed to
          None

VARIABLES node,      \* path -> node
          file,      \* node -> file
          built,     \* path -> file before the sanitizer (history)
          sanitizer, \* where sanitize_tree is
          todo,      \* the ELF files not handled yet
          backup     \* the backup file next to the one being patched
sanitizerVars == <<node, file, built, sanitizer, todo, backup>>

Paths   == ToSet(Order)
Holds(at, p) == file[at[p]]
Tree    == [p \in DOMAIN node |-> Holds(node, p)]
Current == Head(todo)

(* What is in an image.  "".split(":") is [""]: a search path has at least *)
(* one component; and what is no ELF file has no search path.              *)
IsSequence(s)   == s \in Seq(ToSet(s))
IsEntry(entry)  == /\ entry = [tag |-> entry.tag, value |-> entry.value]
                   /\ IsSequence(entry.value) /\ entry.value # <<>>
IsContents(f) ==
    /\ f = [kind |-> f.kind, mode |-> f.mode, interpreter |-> f.interpreter,
            needed |-> f.needed, search |-> f.search]
    /\ IsSequence(f.search) /\ \A i \in DOMAIN f.search : IsEntry(f.search[i])
    /\ f.kind # "elf" => f.search = <<>>

ASSUME SanitizerAssumption ==
    /\ IsSequence(Order)
    /\ \A tree \in Trees :
          /\ DOMAIN tree.node \subseteq Paths /\ Fresh \notin DOMAIN tree.file
          /\ \A p \in DOMAIN tree.node :
                /\ tree.node[p] \in DOMAIN tree.file
                /\ IsContents(tree.file[tree.node[p]])
                /\ [path |-> p, file |-> tree.file[tree.node[p]]] # None
-----------------------------------------------------------------------------
IsDirty(entry) == Blank \in ToSet(entry.value)
Dirty(f)       == \E i \in DOMAIN f.search : IsDirty(f.search[i])

(* The members of s that are in S, in their order: SelectSeq, as a function *)
(* that can be reasoned about.                                             *)
Keep(s, S) ==
    LET kept[n \in 0 .. Len(s)] ==
            IF n = 0 THEN <<>>
            ELSE IF s[n] \in S THEN Append(kept[n - 1], s[n]) ELSE kept[n - 1]
    IN  kept[Len(s)]

(* remove_empty_components of the one entry; --remove-rpath if none stays. *)
CleanEntry(entry) == [entry EXCEPT !.value = Keep(@, ToSet(@) \ {Blank})]
Cleaned(f) ==
    LET all == [i \in DOMAIN f.search |-> CleanEntry(f.search[i])]
    IN  [f EXCEPT !.search = Keep(all, {entry \in ToSet(all) : entry.value # <<>>})]

(* What patchelf may leave behind, whatever it exits with: the file as it  *)
(* was, as it should be, or with something else changed - in its dynamic   *)
(* section, its mode, or outside of both (the interpreter).                *)
PatchResults(f) ==
    {f, Cleaned(f), [Cleaned(f) EXCEPT !.needed = {Other}], [Cleaned(f) EXCEPT !.mode = Other],
     [Cleaned(f) EXCEPT !.search = <<>>], [Cleaned(f) EXCEPT !.interpreter = Other]}

(* _verify_patch, and the look at the mode after it.  (Mutant: only the    *)
(* search paths are looked at.)                                            *)
VerifySearchPaths(before, after) == after.search = Cleaned(before).search
VerifyPatch(before, after) ==
    /\ after.needed = before.needed
    /\ ~Dirty(after)
    /\ after.search = Cleaned(before).search
    /\ after.mode = before.mode
-----------------------------------------------------------------------------
(* The image is built; the layer of the sanitizer comes next, or not.      *)
Build(tree, next) ==
    /\ node' = tree.node
    /\ file' = tree.file
    /\ built' = [p \in DOMAIN tree.node |-> tree.file[tree.node[p]]]
    /\ sanitizer' = next /\ todo' = <<>> /\ backup' = None

(* iter_elf_files: the list is complete before the first file is touched.  *)
Scan ==
    /\ sanitizer = "scan"
    /\ todo' = Keep(Order, {p \in DOMAIN node : Tree[p].kind = "elf"})
    /\ sanitizer' = "inspect"
    /\ UNCHANGED <<node, file, built, backup>>

(* A tool is missing, times out, fails or prints what cannot be parsed, or *)
(* a file cannot be read or copied.                                        *)
Fail ==
    /\ sanitizer \in {"scan", "inspect"}
    /\ sanitizer' = "failed"
    /\ UNCHANGED <<node, file, built, todo, backup>>

Skip ==
    /\ sanitizer = "inspect" /\ todo # <<>> /\ ~Dirty(Tree[Current])
    /\ todo' = Tail(todo)
    /\ UNCHANGED <<node, file, built, sanitizer, backup>>

(* More than one entry, and one of them dirty.                             *)
RefuseSeveral ==
    /\ sanitizer = "inspect" /\ todo # <<>> /\ Dirty(Tree[Current])
    /\ Len(Tree[Current].search) # 1
    /\ sanitizer' = "failed"
    /\ UNCHANGED <<node, file, built, todo, backup>>

BackUp ==
    /\ sanitizer = "inspect" /\ todo # <<>> /\ Dirty(Tree[Current])
    /\ Len(Tree[Current].search) = 1
    /\ backup' = [path |-> Current, file |-> Tree[Current]]
    /\ sanitizer' = "patch"
    /\ UNCHANGED <<node, file, built, todo>>

Patch ==
    /\ sanitizer = "patch"
    /\ \E result \in PatchResults(backup.file) : file' = [file EXCEPT ![node[Current]] = result]
    /\ sanitizer' \in {"verify", "restore"}
    /\ UNCHANGED <<node, built, todo, backup>>

(* The file is read again; readelf may fail now.                           *)
Verify ==
    /\ sanitizer = "verify"
    /\ \/ VerifyPatch(backup.file, Tree[Current]) /\ sanitizer' = "unlink"
       \/ sanitizer' = "restore"
    /\ UNCHANGED <<node, file, built, todo, backup>>

(* The patch stands; the backup goes.  (Mutant: it stays.)                 *)
UnlinkNothing ==
    /\ sanitizer = "unlink"
    /\ sanitizer' = "inspect" /\ todo' = Tail(todo)
    /\ UNCHANGED <<node, file, built, backup>>
Unlink ==
    /\ sanitizer = "unlink"
    /\ \/ sanitizer' = "inspect" /\ backup' = None /\ todo' = Tail(todo)
       \/ sanitizer' = "failed" /\ UNCHANGED <<todo, backup>>
    /\ UNCHANGED <<node, file, built>>

(* os.replace of the backup, which may fail.  (Mutant: the backup is       *)
(* removed on the error path too.)                                         *)
RestoreNothing ==
    /\ sanitizer = "restore"
    /\ sanitizer' = "failed" /\ backup' = None
    /\ UNCHANGED <<node, file, built, todo>>
Restore ==
    /\ sanitizer = "restore"
    /\ sanitizer' = "failed"
    /\ \/ /\ node' = [node EXCEPT ![Current] = Fresh]
          /\ file' = [n \in {Fresh} \cup DOMAIN file |-> IF n = Fresh THEN backup.file ELSE file[n]]
          /\ backup' = None
       \/ UNCHANGED <<node, file, backup>>
    /\ UNCHANGED <<built, todo>>

Succeed ==
    /\ sanitizer = "inspect" /\ todo = <<>>
    /\ sanitizer' = "clean"
    /\ UNCHANGED <<node, file, built, todo, backup>>

Sanitize == \/ Scan \/ Fail \/ Skip \/ RefuseSeveral \/ BackUp \/ Patch
            \/ Verify \/ Unlink \/ Restore \/ Succeed
-----------------------------------------------------------------------------
(* What the program compares of a file: its dynamic section and its mode.  *)
Agree(f, g) == f.needed = g.needed /\ f.search = g.search /\ f.mode = g.mode

(* "The script is fail-closed and re-reads every modified dynamic section  *)
(* before this image layer succeeds": when it succeeds, every file without *)
(* an empty component is the one that was built, and every other one agrees*)
(* with what it should be - whatever patchelf did.  Nobody looks at the    *)
(* rest of a patched file: its interpreter may be another one.             *)
SanitizedIsClean ==
    sanitizer = "clean" => \A p \in DOMAIN node :
        IF Dirty(built[p]) THEN Agree(Tree[p], Cleaned(built[p])) ELSE Tree[p] = built[p]

(* Wherever the program fails or is killed, a file that is neither as it   *)
(* was built nor, in what is compared, sanitized still exists as it was: in*)
(* the backup, or under the name it was restored to (a hard link of it     *)
(* keeps the bad patch).                                                   *)
OriginalNeverLost ==
    \A p \in DOMAIN node :
        \/ Tree[p] = built[p]
        \/ Agree(Tree[p], Cleaned(built[p]))
        \/ (backup # None /\ backup.file = built[p])
        \/ \E q \in DOMAIN node : node[q] = Fresh /\ Tree[q] = built[p]
=============================================================================
