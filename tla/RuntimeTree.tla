------------------------------ MODULE RuntimeTree ------------------------------
(***************************************************************************)
(* What the programs that handle a runtime tree make of its paths and its  *)
(* links: the exporter, the portability audit, the manifest contract, the  *)
(* materializer - and the file system, which none of them is.              *)
(*                                                                         *)
(* A path is the sequence of its names below the bundle root.  A tree maps *)
(* paths to nodes; data is what a file holds and where a link points, a    *)
(* sequence of names that may begin with Slash and may have Up in it.      *)
(***************************************************************************)
EXTENDS Naturals, Sequences, FiniteSets, SequencesExt

CONSTANTS Up, Slash,      \* ".." and the "/" of an absolute target
          Refused,        \* what a resolution that fails returns
          Excludes,       \* paths that are not
          ExcludedNames,  \* names of directories that are not, at any depth
          MaxHops,        \* links after which a resolution has a cycle
          MaxNames        \* of a path, and of the target of a link

ASSUME TreeAssumption == MaxHops \in Nat /\ MaxNames \in Nat

Suffix(p, n) == SubSeq(p, n + 1, Len(p))
Above(p)     == {SubSeq(p, 1, n) : n \in 1 .. Len(p) - 1}
IsLink(tree, p) == p \in DOMAIN tree /\ tree[p].kind = "link"

(* posixpath.normpath, of a relative path and of an absolute one, at whose *)
(* root Up leads nowhere.                                                  *)
Joined(done, name, absolute) ==
    CASE name # Up -> Append(done, name)
      [] name = Up /\ done # <<>> /\ Last(done) # Up -> Front(done)
      [] OTHER -> IF absolute THEN done ELSE Append(done, Up)
NormalFrom(path, absolute) ==
    LET done[n \in 0 .. Len(path)] ==
            IF n = 0 THEN <<>> ELSE Joined(done[n - 1], path[n], absolute)
    IN  done[Len(path)]
Normal(path)         == NormalFrom(path, FALSE)
NormalAbsolute(path) == NormalFrom(path, TRUE)

Resolution(Hop(_), p, steps) ==
    LET at[n \in 0 .. steps] == IF n = 0 THEN p ELSE Hop(at[n - 1])
    IN  at[steps]
-----------------------------------------------------------------------------
(* _link_resolved_path, and _safe_link_target of the materializer: the     *)
(* target without a look at the tree.                                      *)
LinkResolvedPath(p, target) ==
    LET path == Normal(Front(p) \o target)
    IN  IF Head(target) = Slash \/ path = <<>> \/ Head(path) = Up THEN Refused ELSE path

(* _resolve_symlink_chain: an entry that is no link is the end of it.  For *)
(* a path without an entry, the first name that is a link is replaced.     *)
(* (Mutant: it is not.)                                                    *)
ExportHopEntries(entries, p) ==
    CASE p = Refused -> Refused
      [] p # Refused /\ IsLink(entries, p) -> LinkResolvedPath(p, entries[p].data)
      [] OTHER -> IF p \in DOMAIN entries THEN p ELSE Refused
ExportHop(entries, p) ==
    LET linked == IF p = Refused THEN {} ELSE {q \in Above(p) : IsLink(entries, q)}
        q == CHOOSE q \in linked : \A r \in linked : Len(q) <= Len(r)
        prefix == LinkResolvedPath(q, entries[q].data)
    IN  CASE p = Refused -> Refused
          [] p # Refused /\ p \in DOMAIN entries ->
               IF IsLink(entries, p) THEN LinkResolvedPath(p, entries[p].data) ELSE p
          [] OTHER -> IF linked = {} \/ prefix = Refused THEN Refused
                      ELSE prefix \o Suffix(p, Len(q))

ResolveSymlinkChain(entries, p) ==
    LET end == Resolution(LAMBDA q : ExportHop(entries, q), p, MaxHops)
    IN  IF end \notin DOMAIN entries \/ IsLink(entries, end) THEN Refused ELSE end

(* _resolve_selected of the audit: it has absolute paths, which do not     *)
(* leave the root, and entries only.  (Mutant: a cycle is not noticed.)    *)
AuditHop(records, p) ==
    IF ~IsLink(records, p) THEN p
    ELSE IF Head(records[p].data) = Slash THEN Refused
         ELSE NormalAbsolute(Front(p) \o records[p].data)
ResolveSelectedCycles(records, p) ==
    LET end == Resolution(LAMBDA q : AuditHop(records, q), p, MaxHops)
    IN  IF end \notin DOMAIN records THEN Refused ELSE end
ResolveSelected(records, p) ==
    LET end == Resolution(LAMBDA q : AuditHop(records, q), p, MaxHops)
    IN  IF end \notin DOMAIN records \/ IsLink(records, end) THEN Refused ELSE end

(* _resolve_entrypoint of the manifest contract: entries only.             *)
ResolveEntrypoint(entries, p) ==
    LET Hop(q) == IF IsLink(entries, q) THEN Normal(Front(q) \o entries[q].data) ELSE q
        end == Resolution(Hop, p, MaxHops)
    IN  IF end \notin DOMAIN entries \/ IsLink(entries, end) THEN Refused ELSE end
-----------------------------------------------------------------------------
(* The file system walks name by name; Up leads to the directory that the  *)
(* last name led to has above it.  It follows so many links.  It has no    *)
(* absolute targets here, and nothing above the bundle root.               *)
WalkStep(tree, walk) ==
    LET name == Head(walk.rest)
        next == Append(walk.at, name)
    IN  CASE walk = Refused -> Refused
          [] walk # Refused /\ walk.rest = <<>> -> walk
          [] walk # Refused /\ walk.rest # <<>> /\ name = Up ->
               IF walk.at = <<>> THEN Refused
               ELSE [at |-> Front(walk.at), rest |-> Tail(walk.rest), links |-> walk.links]
          [] OTHER ->
               CASE name = Slash \/ next \notin DOMAIN tree -> Refused
                 [] name # Slash /\ IsLink(tree, next) ->
                      IF walk.links = MaxHops THEN Refused
                      ELSE [at |-> walk.at, rest |-> tree[next].data \o Tail(walk.rest),
                            links |-> walk.links + 1]
                 [] OTHER -> IF tree[next].kind # "dir" /\ Len(walk.rest) > 1 THEN Refused
                             ELSE [at |-> next, rest |-> Tail(walk.rest), links |-> walk.links]

(* So a walk ends: it takes a step for each name of the path, and of each  *)
(* target it comes upon.                                                   *)
MaxSteps == (MaxHops + 1) * MaxNames
Walk(p)  == [at |-> <<>>, rest |-> p, links |-> 0]
Walked(tree, p) ==
    LET end == Resolution(LAMBDA walk : WalkStep(tree, walk), Walk(p), MaxSteps)
    IN  IF end = Refused \/ (end # Refused /\ end.rest # <<>>) THEN Refused ELSE end.at
-----------------------------------------------------------------------------
Excluded(p) == \E x \in Excludes : IsPrefix(x, p)

(* _collect_one, of a target that is a real directory: directories are not *)
(* entered through links, and a link may have an excluded name.            *)
Collected(tree, root) ==
    {p \in DOMAIN tree :
        /\ IsPrefix(root, p) /\ tree[root].kind = "dir" /\ ~Excluded(p)
        /\ \A q \in Above(p) \cup {p} :
               IsPrefix(root, q) /\ tree[q].kind = "dir" => Last(q) \notin ExcludedNames}

(* collect_entries, collect_records: the targets, and the single files of  *)
(* --include-app, which are read through links.                            *)
Entries(tree, targets, included) ==
    LET below == UNION {Collected(tree, t) : t \in targets}
    IN  [p \in below \cup {f \in included : ~Excluded(f)} |->
            IF p \in DOMAIN tree THEN tree[p]
            ELSE tree[Append(Walked(tree, Front(p)), Last(p))]]
=============================================================================
