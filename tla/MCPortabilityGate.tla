--------------------------- MODULE MCPortabilityGate ---------------------------
(* An interpreter (twice, as a hard link), a library it needs, a script and  *)
(* an extension; two reviewed findings; a CPU and a GPU import.              *)
EXTENDS PortabilityGate
CONSTANTS bin, lib, pkgs, state, python, libp, libx, liby, tool, ext, ld, perl, ruby, cuda, cudart,
          torch, flash

Python == <<bin, python>>
Linked == <<pkgs, python>>
Libp   == <<lib, libp>>
Aside  == <<pkgs, libp>>
Tool   == <<bin, tool>>
Ext    == <<lib, ext>>
MCOrder == <<Python, Tool, Ext, Libp, Aside, Linked>>

Elf(interpreter, needed, search) ==
    [kind |-> "elf", mode |-> "exec", interpreter |-> interpreter, needed |-> needed, search |-> search]
Runpath(value) == [tag |-> "RUNPATH", value |-> value]
Rpath(value)   == [tag |-> "RPATH", value |-> value]
PythonElf(search) == Elf(ld, {libp}, search)
ExtElf(needed, search) == Elf(None, needed, search)
Script(interpreter) == [kind |-> "script", mode |-> "exec", interpreter |-> interpreter,
                        needed |-> {}, search |-> <<>>]
Special == [Script(None) EXCEPT !.kind = "special"]

Found == PythonElf(<<Runpath(<<lib>>)>>)
Blanks == Python :> PythonElf(<<Runpath(<<lib, Blank>>)>>)
Lib    == Libp :> ExtElf({}, <<>>)
Reviewed == Tool :> Script(perl) @@ Ext :> ExtElf({libx}, <<>>)
Plain == {Python :> Found @@ l @@ Tool :> Script(s) @@ Ext :> ExtElf(n, <<Rpath(<<lib>>)>>) :
             l \in {Lib, Aside :> ExtElf({}, <<>>), <<>>}, s \in {perl, ruby}, n \in {{libx}, {libx, liby}}}
Odd   == {Python :> Found @@ Lib @@ Tool :> Script(s) @@ Ext :> e :
             s \in {Python, Env, Unsafe, Relative},
             e \in {Special, ExtElf({}, <<Rpath(<<lib>>)>>),
                     ExtElf({libx}, <<Runpath(<<state, Relative, ruby>>)>>)}}
Unclean == {Python :> PythonElf(<<Rpath(<<Blank>>)>>) @@ Lib @@ Reviewed,
            Blanks @@ Linked :> PythonElf(<<Runpath(<<lib, Blank>>)>>) @@ Lib @@ Reviewed,
            Blanks @@ Lib @@ Tool :> Script(perl) @@ Ext :> ExtElf({libx}, <<Rpath(<<lib, Blank>>)>>),
            Blanks @@ Lib @@ Ext :> ExtElf({}, <<Rpath(<<Blank>>), Runpath(<<lib>>)>>)}
Contents == Plain \cup Odd \cup Unclean
Shared(tree) == [p \in DOMAIN tree |-> IF p = Linked THEN Python ELSE p]
MCTrees == {[node |-> Shared(tree), file |-> tree] : tree \in Contents}

MCGroups == {[id |-> tool, exact |-> {<<"missing_absolute_shebang", Tool, perl>>}, count |-> 1],
             [id |-> ext, exact |-> {<<"missing_elf_library", Ext, libx>>}, count |-> 1]}

Import(profile) == [required |-> TRUE, profile |-> profile]
Entrypoint(path, kind, executable) ==
    [path |-> path, kind |-> kind, executable |-> executable, shebang |-> IF kind = "script" THEN perl ELSE None]
Config(entry, imports) ==
    [interpreter |-> Python, entrypoints |-> {Entrypoint(Python, "elf", TRUE), entry}, imports |-> imports]
MCConfigs == {Config(Entrypoint(Tool, "script", TRUE), torch :> Import("cpu")),
              Config(Entrypoint(Ext, "python", FALSE),
                     torch :> Import("cpu") @@ flash :> Import("gpu_required"))}
Did(status, mapped) == [status |-> status, mapped |-> mapped]
Run(t, f, compiles) == [results |-> torch :> t @@ flash :> f, compiles |-> compiles]
Passed == Did("pass", {})
MCRuns == {Run(Passed, Passed, TRUE), Run(Passed, Did("timeout", {}), TRUE), Run(Did("pass", {<<pkgs, cudart>>}), Passed, TRUE),
           Run(Did("pass", {<<pkgs, cuda>>}), Passed, TRUE),
           Run(Passed, Passed, FALSE)}
===============================================================================
