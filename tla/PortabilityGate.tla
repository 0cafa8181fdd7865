---------------------------- MODULE PortabilityGate ----------------------------
(***************************************************************************)
(* Whether a base image may be released: the sanitizer (ElfSanitizer), the *)
(* portability audit with its gate, the policy a review derives from an    *)
(* earlier report, and the import probe whose report the audit reads.      *)
(*                                                                         *)
(* Four programs, run apart: what the gate concludes about one image       *)
(* rests on a policy reviewed for an earlier one and on a probe report     *)
(* that was written at some other time.  A path is <<directory, name>>.    *)
(***************************************************************************)
EXTENDS ElfSanitizer

CONSTANTS SystemPaths, SystemExecutables, SystemLibraries, SystemDirs, \* inventory
          Env, Relative, Unsafe,     \* shebangs; Relative: a search path, too
          MutableDirs, Limits,       \* --max-findings
          Groups,                    \* the groups of the review
          Configs, Profiles, Runs,   \* of the critical imports and what they do
          MaxBuilds

ASSUME GateAssumption ==
    /\ MaxBuilds \in Nat \ {0} /\ Limits \subseteq Nat \ {0}
    /\ \A g \in Groups : \A signature \in g.exact :
          signature[1] \in {"missing_elf_library", "missing_absolute_shebang"}

VARIABLES policy,    \* the reviewed allowances, or None
          probe,     \* the report file of the import probe, or None
          ran,       \* what the imports of the last probe did (history)
          gate,      \* the verdict on the image, or None
          builds
gateVars == <<policy, probe, ran, gate, builds>>
vars     == <<sanitizerVars, gateVars>>

Finding(code, severity, path, evidence) ==
    [code |-> code, severity |-> severity, path |-> path, evidence |-> evidence]
Blockers(findings) == {f \in findings : f.severity = "blocker"}
-----------------------------------------------------------------------------
(* _provision and _resolve_inventory.                                      *)
Executable(f) == f.kind # "special" /\ f.mode = "exec"
Provisioned(tree, x, executable) ==
    IF x \in DOMAIN tree THEN executable => Executable(tree[x])
    ELSE x \in SystemPaths /\ (executable => x \in SystemExecutables)

ShebangFinding(tree, p) ==
    LET x == tree[p].interpreter
    IN  CASE x = Unsafe -> Finding("unsafe_shebang", "blocker", p, None)
          [] x = Relative -> Finding("relative_shebang", "warning", p, x)
          [] x = Env /\ Provisioned(tree, x, TRUE) ->
               Finding("path_dependent_shebang", "warning", p, None)
          [] x = Env /\ ~Provisioned(tree, x, TRUE) ->
               Finding("missing_env_interpreter", "blocker", p, x)
          [] OTHER -> IF Provisioned(tree, x, TRUE)
                      THEN Finding("absolute_shebang_resolved", "info", p, x)
                      ELSE Finding("missing_absolute_shebang", "blocker", p, x)

(* An entry without a value, which readelf prints as [], is no search path *)
(* for the audit - the sanitizer removes it.                               *)
Components(f) == UNION {ToSet(f.search[i].value) : i \in {j \in DOMAIN f.search : f.search[j].value # <<Blank>>}}
Candidates(tree, p, name) ==
    {x \in {<<d, name>> : d \in Components(tree[p]) \ {Blank, Relative}} \cap DOMAIN tree :
        tree[x].kind # "special"}
Elsewhere(tree, name) == {q \in DOMAIN tree : q[2] = name /\ tree[q].kind # "special"}

LibraryFinding(tree, p, name) ==
    CASE Candidates(tree, p, name) # {} \/ name \in SystemLibraries ->
           Finding("elf_library_resolved", "info", p, name)
      [] OTHER -> IF Elsewhere(tree, name) # {}
                  THEN Finding("runtime_library_present_unresolved", "warning", p, name)
                  ELSE Finding("missing_elf_library", "blocker", p, name)

SearchFinding(tree, p, c) ==
    CASE c = Blank -> Finding("implicit_cwd_elf_search_path", "blocker", p, tree[p].search)
      [] c = Relative -> Finding("unresolved_elf_search_path", "blocker", p, c)
      [] c \in MutableDirs -> Finding("elf_search_path_mutable", "blocker", p, c)
      [] OTHER -> IF c \in SystemDirs \/ \E q \in DOMAIN tree : q[1] = c
                  THEN Finding("elf_search_path_resolved", "info", p, c)
                  ELSE Finding("missing_elf_search_path", "warning", p, c)

InterpreterFinding(tree, p) ==
    IF Provisioned(tree, tree[p].interpreter, TRUE)
    THEN Finding("elf_interpreter_resolved", "info", p, tree[p].interpreter)
    ELSE Finding("missing_elf_interpreter", "blocker", p, tree[p].interpreter)

(* All that is to be said of one file.                                     *)
FileFindings(tree, p) ==
    CASE tree[p].kind = "special" -> {Finding("special_file", "blocker", p, None)}
      [] tree[p].kind = "script" ->
           IF tree[p].mode = "exec" THEN {ShebangFinding(tree, p)} ELSE {}
      [] OTHER ->
           (IF tree[p].interpreter = None THEN {} ELSE {InterpreterFinding(tree, p)})
           \cup {LibraryFinding(tree, p, name) : name \in tree[p].needed}
           \cup {SearchFinding(tree, p, c) : c \in Components(tree[p])}
-----------------------------------------------------------------------------
(* An audit may meet one file it cannot open, of which it says nothing, or *)
(* one ELF file of which readelf does not tell.                            *)
Handicaps(tree) ==
    {[unread |-> {}, untold |-> {}]}
    \cup {[unread |-> {p}, untold |-> {}] : p \in {q \in DOMAIN tree : tree[q].kind # "special"}}
    \cup {[unread |-> {}, untold |-> {p}] : p \in {q \in DOMAIN tree : tree[q].kind = "elf"}}

StaticFindings(tree, handicap) ==
    UNION {FileFindings(tree, p) : p \in DOMAIN tree \ (handicap.unread \cup handicap.untold)}
    \cup {Finding("readelf_unavailable_or_failed", "warning", p, None) : p \in handicap.untold}

(* _sorted_findings: blockers first, cut at the limit, and a cut report    *)
(* says so.  (Mutant: it does not.)                                        *)
Exceeded(code) == Finding(code, "blocker", None, None)
Cut(findings, limit) ==
    LET first == Blockers(findings)
    IN  CASE Cardinality(findings) <= limit -> {findings}
          [] Cardinality(first) >= limit -> kSubset(limit, first)
          [] OTHER -> {first \cup more : more \in kSubset(limit - Cardinality(first), findings \ first)}
Reports(findings, limit) ==
    IF Cardinality(findings) <= limit THEN {findings}
    ELSE {kept \cup {Exceeded("finding_limit_exceeded")} : kept \in Cut(findings, limit)}

(* evaluate_portability_gate: an allowance holds whole findings, of which  *)
(* the code keeps the digests; max_matches is their number.                *)
Unapproved(findings, allowances) ==
    {f \in Blockers(findings) :
        \/ f.code = "elf_analysis_incomplete"
        \/ Cardinality({a \in allowances : f \in a.findings}) # 1}
StaticGate(findings, handicap, allowances) ==
    LET analysis == IF handicap.untold = {} THEN {} ELSE {Exceeded("elf_analysis_incomplete")}
    IN  IF Unapproved(findings \cup analysis, allowances) = {} THEN "pass" ELSE "blocker"
StaticStatus(findings, handicap) ==
    CASE Blockers(findings) # {} -> "blocker"
      [] Blockers(findings) = {} /\ handicap.untold # {} -> "limited"
      [] OTHER -> "pass"
-----------------------------------------------------------------------------
(* _critical_entrypoint_findings and _critical_closure, of the image.      *)
(* An entrypoint need not be executable (main.py); a script has a shebang. *)
EntrypointStands(e, tree, handicap) ==
    /\ Provisioned(tree, e.path, e.executable)
    /\ e.path \in DOMAIN tree =>
          /\ tree[e.path].kind # "special"
          /\ e.kind = "script" => /\ e.path \notin handicap.unread
                                  /\ tree[e.path].kind = "script"
                                  /\ tree[e.path].interpreter = e.shebang
EntrypointFindings(config, tree, handicap) ==
    {Finding("critical_entrypoint", "blocker", e.path, None) : e \in
        {entry \in config.entrypoints : ~EntrypointStands(entry, tree, handicap)}}

Closure(config, tree) ==
    LET links(p) == UNION {Candidates(tree, p, name) : name \in tree[p].needed}
        next(S)  == S \cup UNION {links(p) : p \in S \cap DOMAIN tree}
        reach[n \in 0 .. Cardinality(DOMAIN tree)] ==
            IF n = 0 THEN {config.interpreter} ELSE next(reach[n - 1])
    IN  reach[Cardinality(DOMAIN tree)]
ClosureFindings(config, tree, handicap) ==
    UNION {IF \/ p \notin DOMAIN tree \/ tree[p].kind # "elf"
              \/ p \in handicap.unread \cup handicap.untold
           THEN {Finding("critical_missing_elf", "blocker", p, None)}
           ELSE {f \in FileFindings(tree, p) :
                    f.code \in {"missing_elf_interpreter", "missing_elf_library",
                                "runtime_library_present_unresolved"}} : p \in Closure(config, tree)}

(* What an import mapped from outside the archive: by its path, or its name.*)
OfLauncher(x) == x \in SystemPaths \/ x[2] \in SystemLibraries

Runnable(profile) == IF profile = "cpu" THEN {"cpu"} ELSE {"cpu", "gpu_required"}

(* _critical_report, of the probe.  (Mutant: a report of another config    *)
(* will do.)                                                               *)
ImportFindings(config, profile, report) ==
    {m \in DOMAIN config.imports \cup DOMAIN report.imports :
        \/ m \notin DOMAIN config.imports \cap DOMAIN report.imports
        \/ report.imports[m].import # config.imports[m]
        \/ /\ config.imports[m].profile \notin Runnable(profile)
           /\ report.imports[m].status # "not_executed"
        \/ /\ config.imports[m].profile \in Runnable(profile)
           /\ config.imports[m].required /\ report.imports[m].status # "pass"
        \/ /\ report.imports[m].status = "pass"
           /\ \E x \in report.imports[m].mapped : ~OfLauncher(x)}
ProbeAcceptedByStatus(config, profile, report) ==
    /\ report # None /\ report.profile = profile
    /\ report.status = "pass" \/ (report.status = "partial" /\ profile = "cpu")
ProbeAccepted(config, profile, report) ==
    /\ report # None /\ report.profile = profile
    /\ report.status = "pass" \/ (report.status = "partial" /\ profile = "cpu")
    /\ report.config = config
    /\ ImportFindings(config, profile, report) = {}
CriticalPasses(config, profile, report, tree, handicap) ==
    /\ EntrypointFindings(config, tree, handicap) = {}
    /\ ClosureFindings(config, tree, handicap) = {}
    /\ ProbeAccepted(config, profile, report)
-----------------------------------------------------------------------------
Init ==
    /\ node = <<>> /\ file = <<>> /\ built = <<>> /\ sanitizer = "none" /\ todo = <<>> /\ backup = None
    /\ policy = None /\ probe = None /\ ran = None /\ gate = None
    /\ builds = 0

(* A base image with the sanitizer's layer, or one from before it.         *)
BuildImage(tree) ==
    /\ builds < MaxBuilds /\ gate = None
    /\ sanitizer \in {"none", "clean", "failed", "foreign"}
    /\ \/ Build(tree, "scan") \/ Build(tree, "foreign")
    /\ builds' = builds + 1
    /\ UNCHANGED <<policy, probe, ran, gate>>

SanitizeImage == Sanitize /\ UNCHANGED gateVars

Built == sanitizer \in {"clean", "foreign"} /\ gate = None

(* An audit without allowances, and build_policy of its report: every      *)
(* group finds exactly as many findings as expected, none is in two.       *)
Members(group, findings) == {f \in findings : <<f.code, f.path, f.evidence>> \in group.exact}
Review(limit) ==
    /\ Built /\ policy = None
    /\ \E handicap \in Handicaps(Tree) :
          \E report \in Reports(StaticFindings(Tree, handicap), limit) :
             LET findings == Blockers(report)
             IN  /\ \A g \in Groups : Cardinality(Members(g, findings)) = g.count
                 /\ \A g, h \in Groups : g # h => Members(g, findings) \cap Members(h, findings) = {}
                 /\ policy' = {[id |-> g.id, findings |-> Members(g, findings)] : g \in Groups}
    /\ UNCHANGED <<sanitizerVars, probe, ran, gate, builds>>

(* Somebody adds by hand what validate_portability_gate_policy accepts: a  *)
(* second allowance for a finding, under another id.                       *)
AllowTwice ==
    /\ policy # None /\ gate = None
    /\ Cardinality(policy) = Cardinality(Groups)
    /\ \E f \in UNION {a.findings : a \in policy} :
          policy' = policy \cup {[id |-> Other, findings |-> {f}]}
    /\ UNCHANGED <<sanitizerVars, probe, ran, gate, builds>>

(* run_probe and main.  One report: a later one replaces it whole, and a   *)
(* probe that is killed, or whose alarm escapes, leaves it as it was.      *)
ProbeReport(config, profile, run) ==
    LET skipped(m) == config.imports[m].profile \notin Runnable(profile)
        result == [m \in DOMAIN config.imports |->
                     IF skipped(m) THEN [status |-> "not_executed", mapped |-> {}] ELSE run.results[m]]
        failed == \/ ~run.compiles
                  \/ \E m \in DOMAIN result : /\ ~skipped(m) /\ config.imports[m].required
                                              /\ result[m].status # "pass"
    IN  [profile |-> profile, config |-> config,
         status |-> CASE failed -> "blocker"
                      [] ~failed /\ (\E m \in DOMAIN result : skipped(m)) -> "partial"
                      [] OTHER -> "pass",
         imports |-> [m \in DOMAIN result |->
             [import |-> config.imports[m], status |-> result[m].status, mapped |-> result[m].mapped]]]

ASSUME ProbeAssumption ==
    \A config \in Configs, profile \in Profiles, run \in Runs :
        /\ ProbeReport(config, profile, run) # None
        /\ [config |-> config, profile |-> profile, run |-> run] # None

RunProbe(config, profile, run) ==
    /\ Built /\ probe = None
    /\ probe' = ProbeReport(config, profile, run)
    /\ ran' = [config |-> config, profile |-> profile, run |-> run]
    /\ UNCHANGED <<sanitizerVars, policy, gate, builds>>

(* audit_runtime: with or without a policy, and with or without a config   *)
(* of critical imports - then the raw status counts for nothing.           *)
Audit(critical, limit) ==
    /\ Built
    /\ \E handicap \in Handicaps(Tree) :
          \E findings \in Reports(StaticFindings(Tree, handicap), limit) :
             LET static == IF policy = None THEN StaticStatus(findings, handicap)
                           ELSE StaticGate(findings, handicap, policy)
                 passes == /\ CriticalPasses(critical.config, critical.profile, probe, Tree, handicap)
                           /\ policy = None \/ static = "pass"
             IN  gate' = [status |-> IF critical = None THEN static
                                     ELSE IF passes THEN "pass" ELSE "blocker",
                          critical |-> critical, handicap |-> handicap]
    /\ UNCHANGED <<sanitizerVars, policy, probe, ran, builds>>

Next ==
    \/ \E tree \in Trees : BuildImage(tree)
    \/ SanitizeImage
    \/ \E limit \in Limits : Review(limit)
    \/ AllowTwice
    \/ \E config \in Configs, profile \in Profiles, run \in Runs : RunProbe(config, profile, run)
    \/ \E critical \in {None} \cup [config : Configs, profile : Profiles], limit \in Limits :
          Audit(critical, limit)

Spec == Init /\ [][Next]_vars
-----------------------------------------------------------------------------
TypeOK ==
    /\ sanitizer \in {"none", "foreign", "scan", "inspect", "patch", "verify", "unlink", "restore",
                      "clean", "failed"}
    /\ DOMAIN node \subseteq Paths /\ \A p \in DOMAIN node : node[p] \in DOMAIN file
    /\ ToSet(todo) \subseteq DOMAIN node
    /\ sanitizer \in {"patch", "verify", "unlink", "restore"} => backup # None
    /\ backup # None => sanitizer \in {"patch", "verify", "unlink", "restore", "failed"}
    /\ probe # None <=> ran # None
    /\ gate # None => gate.status \in {"pass", "blocker", "limited"}
    /\ builds \in 0 .. MaxBuilds

(* README.md:245-249, "A new or modified finding, duplicate allowance, or  *)
(* incomplete report remains a gate blocker": an image that passes under a *)
(* policy, or without one and without critical imports, has been analysed  *)
(* whole - but for a file the audit could not open - and whatever blocks   *)
(* in it is identical to a reviewed finding, under just one allowance.     *)
GateSound ==
    gate # None /\ gate.status = "pass" /\ (policy # None \/ gate.critical = None) =>
        /\ gate.handicap.untold = {}
        /\ \A p \in DOMAIN node \ gate.handicap.unread :
              \A f \in Blockers(FileFindings(Tree, p)) :
                 /\ policy # None
                 /\ Cardinality({a \in policy : f \in a.findings}) = 1

(* An image that passes with critical imports has a probe behind it - not  *)
(* always one of this image - that was run for this configuration and this *)
(* profile: main.py compiled, every required import that the profile runs  *)
(* passed, and none that passed mapped an object of which the launcher has *)
(* neither the path nor, at any path, the name.                            *)
ImportsProven ==
    gate # None /\ gate.status = "pass" /\ gate.critical # None =>
        /\ ran # None /\ ran.config = gate.critical.config /\ ran.profile = gate.critical.profile
        /\ ran.run.compiles
        /\ \A m \in DOMAIN gate.critical.config.imports :
              gate.critical.config.imports[m].profile \in Runnable(gate.critical.profile) =>
                 /\ gate.critical.config.imports[m].required => ran.run.results[m].status = "pass"
                 /\ ran.run.results[m].status = "pass" => \A x \in ran.run.results[m].mapped : OfLauncher(x)
=============================================================================
