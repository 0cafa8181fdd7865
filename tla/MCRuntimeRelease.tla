--------------------------- MODULE MCRuntimeRelease ---------------------------
(* One target with a directory or link d, a directory e, a .git, a file and  *)
(* the entrypoint l, a link; volumes that keep modes or normalize them.      *)
EXTENDS RuntimeRelease
CONSTANTS app, ui, opt, d, e, git, out, x, l, one, other, huge,
          m444, m555, m600, m644, m666, m700, m755, m777, m4755

MCTargets  == {{<<app, ui>>}, {<<app, ui>>, <<opt>>}}
MCModes    == {m444, m555, m600, m644, m666, m700, m755, m777, m4755}
In(p)      == <<app, ui>> \o p
MCOrder    == <<<<app>>, In(<<>>), In(<<git>>), In(<<git, x>>), In(<<d>>), In(<<d, x>>), In(<<e>>), In(<<e, d>>),
                In(<<e, x>>), In(<<l>>), In(<<out>>), In(<<x>>),
                <<opt>>, <<opt, out>>, <<opt, x>>>>
MCRank     == [p \in Range(MCOrder) |-> CHOOSE i \in DOMAIN MCOrder : MCOrder[i] = p]
MCEntrypoint == In(<<l>>)
MCIncludeApp == {{}, {In(<<d, x>>)}, {In(<<git, x>>)}}
MCExcludes   == {In(<<out>>), <<opt, out>>}

Dir        == [kind |-> "dir", mode |-> m755, data |-> None]
File(m, c) == [kind |-> "file", mode |-> m, data |-> c]
Link(t)    == [kind |-> "link", mode |-> m777, data |-> t]
Nothing    == Empty
At(p, node) == In(p) :> node

LinkTargets == {<<x>>, <<d, x>>, <<out>>, <<git, x>>, <<d, Up, x>>, <<Up>>, <<e, x>>,
                <<Up, Up, app, ui, x>>, <<Up, Up, Up, app, ui, x>>, <<Slash, x>>}
SlotD   == {Nothing, At(<<d>>, Dir) @@ At(<<d, x>>, File(m755, one))}
           \cup {At(<<d>>, Link(t)) : t \in {<<e>>, <<git>>, <<x>>, <<l>>, <<Up, ui, e>>, <<e, d>>}}
SlotE   == {Nothing, At(<<e>>, Dir) @@ At(<<e, x>>, File(m755, one)),
            At(<<e>>, Dir) @@ At(<<e, x>>, File(m644, one)) @@ At(<<e, d>>, Dir)}
ReadOnly == At(<<e>>, [Dir EXCEPT !.mode = m555]) @@ At(<<e, x>>, File(m444, one))
SlotGit == {Nothing, At(<<git>>, Dir) @@ At(<<git, x>>, File(m755, other)),
            At(<<git>>, Link(<<e>>)), At(<<git>>, Link(<<Up, Up, Up>>))}
SlotX   == {At(<<x>>, File(m, one)) : m \in {m644, m755, m4755}}
           \cup {Nothing, At(<<x>>, [Dir EXCEPT !.kind = "special"]),
                 At(<<x>>, Link(<<d, x>>)), At(<<x>>, Link(<<d>>))}
UiTree(t, sd, se, sg, sx) ==
    (<<app>> :> Dir) @@ At(<<>>, Dir) @@ At(<<out>>, Dir) @@ At(<<l>>, Link(t)) @@ sd @@ se @@ sg @@ sx
OptTree == (<<opt>> :> Dir) @@ (<<opt, out>> :> Dir)
UiTrees == {UiTree(t, sd, se, sg, sx) :
               t \in LinkTargets, sd \in SlotD, se \in SlotE, sg \in SlotGit, sx \in SlotX}
Program == UiTree(<<x>>, Nothing, Nothing, Nothing, At(<<x>>, File(m755, one)))
MCTrees == {tree @@ OptTree : tree \in UiTrees}
           \cup {Program, Program @@ (<<opt>> :> Dir), Program @@ (<<opt>> :> Link(<<app, ui>>))}
           \cup {Program @@ more @@ OptTree @@ (<<opt, x>> :> File(m, data)) :
                     more \in {Nothing, ReadOnly}, m \in {m444, m4755}, data \in {one, huge}}
           \cup {UiTree(<<x>>, At(<<d>>, Dir) @@ At(<<d, x>>, File(m755, one)), more, At(<<git>>, Link(<<e>>)),
                        At(<<x>>, File(m755, one))) @@ OptTree @@ (<<opt, x>> :> File(m755, one)) :
                     more \in SlotE}

Same == [m \in MCModes |-> m]
Normalized == [m \in MCModes |-> IF m \in {m555, m700, m755, m777, m4755} THEN m777 ELSE m666]
All(m) == [n \in MCModes |-> m]
Volume(dirs, files) == "dir" :> dirs @@ "file" :> files @@ "link" :> Same
MCVolumes == {Volume(Same, Same), Volume(All(m777), Normalized),
              Volume(All(m777), All(m777)), Volume(Same, [Same EXCEPT ![m4755] = m755])}
=============================================================================
