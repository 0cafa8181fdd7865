------------------------- MODULE RuntimeReleaseProofs -------------------------
(***************************************************************************)
(* Theorems about RuntimeRelease for any trees, links, volumes and modes.  *)
(***************************************************************************)
EXTENDS RuntimeRelease, FiniteSetTheorems, SequenceTheorems, WellFoundedInduction, TLAPS

(* What the audit reports, and what the exporter accepts.                  *)
Records == Entries(source, targets, {f \in included : IsFile(f)})
AuditReport ==
    {p \in DOMAIN Records :
        \/ Records[p].kind = "special"
        \/ Records[p].kind = "link" /\ ResolveSelected(Records, p) = Refused}
    \cup {f \in included : ~IsFile(f)} \cup {t \in targets : ~RealDirectory(t)}
Accepted ==
    /\ \A t \in targets : RealDirectory(t)
    /\ \A f \in included : IsFile(f)
    /\ \A x \in Excludes : Present(x)
    /\ \A p \in DOMAIN Selection : Selection[p].kind # "special"
    /\ LinksClosed(Selection)
    /\ Entrypoint \in DOMAIN Selection
    /\ IsProgram(Selection, ResolveSymlinkChain(Selection, Entrypoint))

(* The stages hand on what the earlier ones found: the verdict of the      *)
(* audit is the one of this tree, the entries are the selection, and the   *)
(* policy is the one of a volume that is fit for them.                     *)
SourceInv == source \in Trees /\ targets \in TargetSets /\ included \in IncludeApp
StageInv ==
    /\ pc \in PC /\ outcome \in Stages \cup {"ok", None}
    /\ pc = "done" <=> outcome # None
    /\ outcome # "audit"
AuditInv == audit = IF pc # "audit" /\ ExcludesInside THEN AuditReport ELSE None
Uncollected == pc \in {"audit", "collect"} \/ outcome = "collect"
EntriesInv ==
    /\ entries = IF Uncollected THEN Empty ELSE Selection
    /\ ~Uncollected => Accepted
    /\ outcome = "collect" => ~Accepted
    /\ archives = IF Uncollected \/ pc = "archive" THEN {} ELSE {entries}
VolumeInv ==
    /\ volume \in Volumes \cup {None}
    /\ pc \in {"extract", "verify"} \/ outcome \in {"extract", "verify", "ok"} =>
          Fit(volume) /\ policy = ModePolicy(volume)
MembersInv ==
    /\ at \in 0 .. Cardinality(DOMAIN entries)
    /\ pc \in {"audit", "collect", "archive", "manifest", "probe"} => at = 0
VerifiedInv == outcome = "ok" => TreeVerified
ReleaseInv == /\ SourceInv /\ StageInv /\ AuditInv /\ EntriesInv /\ VolumeInv
              /\ MembersInv /\ VerifiedInv
-----------------------------------------------------------------------------
(* Induction on the natural numbers, as a fact about a set: the least      *)
(* number that is not in it would follow one that is.                      *)
LEMMA NatSet ==
    ASSUME NEW S, 0 \in S, \A n \in Nat : n \in S => n + 1 \in S
    PROVE  Nat \subseteq S
<1>1. SUFFICES ASSUME Nat \ S # {} PROVE FALSE
  OBVIOUS
<1>2. PICK x \in Nat \ S : \A y \in Nat \ S : ~(<<y, x>> \in OpToRel(<, Nat))
  BY <1>1, NatLessThanWellFounded, WFMin
<1>3. \A y \in Nat \ S : ~(y < x)
  BY <1>2 DEF OpToRel
<1>4. x # 0
  BY <1>2
<1>5. x - 1 \in Nat /\ x - 1 < x
  BY <1>4
<1>6. QED
  BY <1>3, <1>5

(* The resolutions of RuntimeTree are runs of a step: f is a run of n       *)
(* steps from x over a path, the entries or a tree.                        *)
Step(kind, over, n, x) ==
    CASE kind = "relative" -> Joined(x, over[n], FALSE)
      [] kind = "absolute" -> Joined(x, over[n], TRUE)
      [] kind = "export"   -> ExportHop(over, x)
      [] kind = "audit"    -> AuditHop(over, x)
      [] kind = "walk"     -> WalkStep(over, x)
      [] kind = "contract" -> IF IsLink(over, x) THEN Normal(Front(x) \o over[x].data) ELSE x
Run(kind, over, x, f, n) ==
    f = [m \in 0 .. n |-> IF m = 0 THEN x ELSE Step(kind, over, m, f[m - 1])]

(* There is a run of any length.                                           *)
LEMMA RunExists ==
    ASSUME NEW kind, NEW over, NEW x PROVE \A n \in Nat : \E f : Run(kind, over, x, f, n)
<1> DEFINE N == {n \in Nat : \E f : Run(kind, over, x, f, n)}
<1>1. 0 \in N
  <2> DEFINE g == [m \in 0 .. 0 |-> x]
  <2>1. Run(kind, over, x, g, 0)
    BY DEF Run
  <2>2. QED
    BY <2>1
<1>2. ASSUME NEW n \in Nat, n \in N PROVE n + 1 \in N
  <2>1. PICK f : Run(kind, over, x, f, n)
    BY <1>2
  <2> DEFINE g == [m \in 0 .. n + 1 |-> IF m <= n THEN f[m] ELSE Step(kind, over, n + 1, f[n])]
  <2>2. \A m \in 0 .. n : f[m] = IF m = 0 THEN x ELSE Step(kind, over, m, f[m - 1])
    BY <2>1 DEF Run
  <2>3. ASSUME NEW m \in 0 .. n + 1
        PROVE  g[m] = IF m = 0 THEN x ELSE Step(kind, over, m, g[m - 1])
    <3>1. CASE m <= n
      <4>1. m \in 0 .. n /\ g[m] = f[m] /\ (m # 0 => g[m - 1] = f[m - 1])
        BY <3>1
      <4>2. QED
        BY <2>2, <4>1
    <3>2. CASE m = n + 1
      <4>1. g[n] = f[n] /\ m # 0 /\ m - 1 = n
        BY <3>2
      <4>2. QED
        BY <3>2, <4>1
    <3>3. QED
      BY <3>1, <3>2
  <2>4. Run(kind, over, x, g, n + 1)
    BY <2>3 DEF Run
  <2>5. QED
    BY <2>4
<1>3. Nat \subseteq N
  <2> HIDE DEF N
  <2>1. QED
    BY <1>1, <1>2, NatSet
<1>4. QED
  BY <1>3

(* What a run does at each of its steps.                                   *)
LEMMA RunSteps ==
    ASSUME NEW kind, NEW over, NEW x, NEW n \in Nat, NEW f, Run(kind, over, x, f, n)
    PROVE  f[0] = x /\ \A m \in 1 .. n : f[m] = Step(kind, over, m, f[m - 1])
<1>1. \A m \in 0 .. n : f[m] = IF m = 0 THEN x ELSE Step(kind, over, m, f[m - 1])
  BY DEF Run
<1>2. QED
  BY <1>1

(* normpath goes over the names of its path, one by one.                   *)
LEMMA NormalRuns ==
    ASSUME NEW path, Len(path) \in Nat
    PROVE  /\ \E f : /\ Normal(path) = f[Len(path)] /\ f[0] = <<>>
                    /\ \A m \in 1 .. Len(path) : f[m] = Joined(f[m - 1], path[m], FALSE)
           /\ \E f : /\ NormalAbsolute(path) = f[Len(path)] /\ f[0] = <<>>
                    /\ \A m \in 1 .. Len(path) : f[m] = Joined(f[m - 1], path[m], TRUE)
<1>1. \E f : /\ Normal(path) = f[Len(path)] /\ f[0] = <<>>
             /\ \A m \in 1 .. Len(path) : f[m] = Joined(f[m - 1], path[m], FALSE)
  <2> DEFINE is(f) == f = [m \in 0 .. Len(path) |->
                            IF m = 0 THEN <<>> ELSE Joined(f[m - 1], path[m], FALSE)]
             run == CHOOSE f : is(f)
  <2>1. \E f : is(f)
    <3>1. PICK f : Run("relative", path, <<>>, f, Len(path))
      BY RunExists
    <3>2. \A m, x : Step("relative", path, m, x) = Joined(x, path[m], FALSE)
      BY DEF Step
    <3>3. is(f)
      BY <3>1, <3>2 DEF Run
    <3>4. QED
      BY <3>3
  <2>2. Normal(path) = run[Len(path)]
    BY DEF Normal, NormalFrom
  <2>3. is(run)
    BY <2>1
  <2> HIDE DEF run
  <2>4. \A m \in 0 .. Len(path) : run[m] = IF m = 0 THEN <<>> ELSE Joined(run[m - 1], path[m], FALSE)
    BY <2>3
  <2>5. run[0] = <<>> /\ \A m \in 1 .. Len(path) : run[m] = Joined(run[m - 1], path[m], FALSE)
    <3>1. 0 \in 0 .. Len(path) /\ \A m \in 1 .. Len(path) : m \in 0 .. Len(path) /\ m # 0
      OBVIOUS
    <3>2. QED
      BY <2>4, <3>1
  <2>6. QED
    BY <2>2, <2>5
<1>2. \E f : /\ NormalAbsolute(path) = f[Len(path)] /\ f[0] = <<>>
             /\ \A m \in 1 .. Len(path) : f[m] = Joined(f[m - 1], path[m], TRUE)
  <2> DEFINE is(f) == f = [m \in 0 .. Len(path) |->
                            IF m = 0 THEN <<>> ELSE Joined(f[m - 1], path[m], TRUE)]
             run == CHOOSE f : is(f)
  <2>1. \E f : is(f)
    <3>1. PICK f : Run("absolute", path, <<>>, f, Len(path))
      BY RunExists
    <3>2. \A m, x : Step("absolute", path, m, x) = Joined(x, path[m], TRUE)
      BY DEF Step
    <3>3. is(f)
      BY <3>1, <3>2 DEF Run
    <3>4. QED
      BY <3>3
  <2>2. NormalAbsolute(path) = run[Len(path)]
    BY DEF NormalAbsolute, NormalFrom
  <2>3. is(run)
    BY <2>1
  <2> HIDE DEF run
  <2>4. \A m \in 0 .. Len(path) : run[m] = IF m = 0 THEN <<>> ELSE Joined(run[m - 1], path[m], TRUE)
    BY <2>3
  <2>5. run[0] = <<>> /\ \A m \in 1 .. Len(path) : run[m] = Joined(run[m - 1], path[m], TRUE)
    <3>1. 0 \in 0 .. Len(path) /\ \A m \in 1 .. Len(path) : m \in 0 .. Len(path) /\ m # 0
      OBVIOUS
    <3>2. QED
      BY <2>4, <3>1
  <2>6. QED
    BY <2>2, <2>5
<1>3. QED
  BY <1>1, <1>2

(* A sequence without its last element, and that element.                  *)
LEMMA Fronts ==
    ASSUME NEW V, NEW s \in Seq(V), s # <<>>
    PROVE  /\ Front(s) \in Seq(V) /\ Len(Front(s)) = Len(s) - 1 /\ Len(s) \in Nat \ {0}
           /\ \A i \in 1 .. Len(s) - 1 : Front(s)[i] = s[i]
           /\ Last(s) = s[Len(s)] /\ Last(s) \in V
<1>1. Len(s) \in Nat /\ Len(s) # 0
  OBVIOUS
<1>2. Front(s) = SubSeq(s, 1, Len(s) - 1) /\ Last(s) = s[Len(s)]
  BY DEF Front, Last
<1>3. /\ \A i \in 1 .. Len(s) - 1 : s[i] \in V
      /\ s[Len(s)] \in V /\ Len(s) - 1 \in Int
  BY <1>1
<1> DEFINE front == SubSeq(s, 1, Len(s) - 1)
<1>4. /\ front \in Seq(V)
      /\ Len(front) = IF 1 <= Len(s) - 1 THEN Len(s) - 1 - 1 + 1 ELSE 0
      /\ \A i \in 1 .. Len(s) - 1 - 1 + 1 : front[i] = s[1 + i - 1]
  BY <1>3, SubSeqProperties
<1>5. front \in Seq(V) /\ Len(front) = Len(s) - 1 /\ \A i \in 1 .. Len(s) - 1 : front[i] = s[i]
  <2> HIDE DEF front
  <2>1. Len(front) = Len(s) - 1
    <3> DEFINE n == Len(s)
    <3>1. n \in Nat /\ n # 0 /\ Len(front) = IF 1 <= n - 1 THEN n - 1 - 1 + 1 ELSE 0
      BY <1>1, <1>4
    <3> HIDE DEF n
    <3>2. Len(front) = n - 1
      BY <3>1
    <3>3. QED
      BY <3>2 DEF n
  <2>2. \A i \in 1 .. Len(s) - 1 : i \in 1 .. Len(s) - 1 - 1 + 1 /\ 1 + i - 1 = i
    BY <1>1
  <2>3. QED
    BY <1>4, <2>1, <2>2
<1>6. QED
  BY <1>1, <1>2, <1>3, <1>4, <1>5

(* The names that a relative path keeps after its leading Ups are what an  *)
(* absolute path keeps.                                                    *)
AfterUps(r, k, a) ==
    /\ Len(r) = k + Len(a)
    /\ \A i \in 1 .. k : r[i] = Up
    /\ \A i \in 1 .. Len(a) : r[k + i] = a[i] /\ a[i] # Up
SameNames(r, a) == \E k \in Nat : AfterUps(r, k, a)

(* A name does the same to a relative and to an absolute path that agree   *)
(* but for the Ups the relative one begins with.                           *)
LEMMA JoinedSame ==
    ASSUME NEW V, Up \in V, NEW r \in Seq(V), NEW a \in Seq(V), NEW name \in V, SameNames(r, a)
    PROVE  /\ Joined(r, name, FALSE) \in Seq(V) /\ Joined(a, name, TRUE) \in Seq(V)
           /\ SameNames(Joined(r, name, FALSE), Joined(a, name, TRUE))
<1>1. PICK k \in Nat : AfterUps(r, k, a)
  BY DEF SameNames
<1>0. /\ Len(r) = k + Len(a) /\ Len(a) \in Nat /\ Len(r) \in Nat
      /\ \A i \in 1 .. k : r[i] = Up
      /\ \A i \in 1 .. Len(a) : r[k + i] = a[i] /\ a[i] # Up
  BY <1>1 DEF AfterUps
<1>2. CASE name # Up
  <2>1. Joined(r, name, FALSE) = Append(r, name) /\ Joined(a, name, TRUE) = Append(a, name)
    BY <1>2 DEF Joined
  <2>2. /\ Append(r, name) \in Seq(V) /\ Append(a, name) \in Seq(V)
        /\ Len(Append(r, name)) = Len(r) + 1 /\ Len(Append(a, name)) = Len(a) + 1
        /\ \A i \in 1 .. Len(r) : Append(r, name)[i] = r[i]
        /\ \A i \in 1 .. Len(a) : Append(a, name)[i] = a[i]
        /\ Append(r, name)[Len(r) + 1] = name /\ Append(a, name)[Len(a) + 1] = name
    BY AppendProperties
  <2> DEFINE rn == Append(r, name)
             an == Append(a, name)
  <2> HIDE DEF rn, an
  <2>3. AfterUps(rn, k, an)
    <3>1. /\ Len(rn) = Len(r) + 1 /\ Len(an) = Len(a) + 1
          /\ \A i \in 1 .. Len(r) : rn[i] = r[i]
          /\ \A i \in 1 .. Len(a) : an[i] = a[i]
          /\ rn[Len(r) + 1] = name /\ an[Len(a) + 1] = name
      BY <2>2 DEF rn, an
    <3>2. ASSUME NEW i \in 1 .. Len(an) PROVE rn[k + i] = an[i] /\ an[i] # Up
      <4>1. CASE i \in 1 .. Len(a)
        <5>1. k + i \in 1 .. Len(r)
          BY <1>0, <4>1
        <5>2. QED
          BY <1>0, <3>1, <4>1, <5>1
      <4>2. CASE i = Len(a) + 1
        <5>1. k + i = Len(r) + 1
          BY <1>0, <4>2
        <5>2. QED
          BY <1>2, <3>1, <4>2, <5>1
      <4>3. QED
        BY <1>0, <3>1, <4>1, <4>2
    <3>3. \A i \in 1 .. k : i \in 1 .. Len(r)
      BY <1>0
    <3>4. Len(rn) = k + Len(an)
      BY <1>0, <3>1
    <3>5. QED
      BY <1>0, <3>1, <3>2, <3>3, <3>4 DEF AfterUps
  <2>4. QED
    BY <2>1, <2>2, <2>3 DEF SameNames, rn, an
<1>3. CASE name = Up /\ a # <<>>
  <2>1. r # <<>>
    BY <1>0, <1>3
  <2>2. /\ Front(r) \in Seq(V) /\ Front(a) \in Seq(V)
        /\ Len(Front(r)) = Len(r) - 1 /\ Len(Front(a)) = Len(a) - 1
        /\ Len(r) \in Nat \ {0} /\ Len(a) \in Nat \ {0}
        /\ \A i \in 1 .. Len(r) - 1 : Front(r)[i] = r[i]
        /\ \A i \in 1 .. Len(a) - 1 : Front(a)[i] = a[i]
        /\ Last(r) = r[Len(r)] /\ Last(a) = a[Len(a)]
    BY <1>3, <2>1, Fronts
  <2>3. Last(a) # Up /\ Last(r) # Up
    <3>1. Len(a) \in 1 .. Len(a)
      BY <2>2
    <3>2. QED
      BY <1>0, <2>2, <3>1
  <2>4. Joined(r, name, FALSE) = Front(r) /\ Joined(a, name, TRUE) = Front(a)
    BY <1>3, <2>1, <2>3 DEF Joined
  <2>5. AfterUps(Front(r), k, Front(a))
    <3>1. \A i \in 1 .. Len(Front(a)) : i \in 1 .. Len(a) - 1 /\ i \in 1 .. Len(a) /\ k + i \in 1 .. Len(r) - 1
      BY <1>0, <2>2
    <3>2. \A i \in 1 .. k : i \in 1 .. Len(r) - 1
      BY <1>0, <2>2
    <3>3. Len(Front(r)) = k + Len(Front(a))
      BY <1>0, <2>2
    <3>4. QED
      BY <1>0, <2>2, <3>1, <3>2, <3>3 DEF AfterUps
  <2>6. QED
    BY <2>2, <2>4, <2>5 DEF SameNames
<1>4. CASE name = Up /\ a = <<>>
  <2>1. Len(r) = k
    BY <1>0, <1>4
  <2>2. r # <<>> => Last(r) = Up
    <3>1. SUFFICES ASSUME r # <<>> PROVE Last(r) = Up
      OBVIOUS
    <3>2. Last(r) = r[Len(r)] /\ Len(r) \in 1 .. k
      <4>1. Last(r) = r[Len(r)] /\ Len(r) \in Nat \ {0}
        BY <3>1, Fronts
      <4>2. QED
        BY <2>1, <4>1
    <3>3. QED
      BY <1>0, <3>2
  <2>3. Joined(r, name, FALSE) = Append(r, Up) /\ Joined(a, name, TRUE) = a
    BY <1>4, <2>2 DEF Joined
  <2>4. /\ Append(r, Up) \in Seq(V) /\ Len(Append(r, Up)) = Len(r) + 1
        /\ \A i \in 1 .. Len(r) : Append(r, Up)[i] = r[i]
        /\ Append(r, Up)[Len(r) + 1] = Up
    BY AppendProperties
  <2>5. Len(a) = 0
    BY <1>4
  <2>6. \A i \in 1 .. k + 1 : Append(r, Up)[i] = Up
    <3>1. TAKE i \in 1 .. k + 1
    <3>2. CASE i \in 1 .. k
      BY <1>0, <2>1, <2>4, <3>2
    <3>3. CASE i = k + 1
      BY <2>1, <2>4, <3>3
    <3>4. i \in 1 .. k \/ i = k + 1
      OBVIOUS
    <3>5. QED
      BY <3>2, <3>3, <3>4
  <2>7. AfterUps(Append(r, Up), k + 1, a) /\ k + 1 \in Nat
    BY <2>1, <2>4, <2>5, <2>6 DEF AfterUps
  <2>8. QED
    BY <2>3, <2>4, <2>7 DEF SameNames
<1>5. QED
  BY <1>2, <1>3, <1>4

(* normpath makes the same of a path whether it is relative or absolute,   *)
(* unless it climbs over the root.                                         *)
LEMMA NormalSame ==
    ASSUME NEW V, Up \in V, NEW path \in Seq(V)
    PROVE  /\ Normal(path) \in Seq(V) /\ NormalAbsolute(path) \in Seq(V)
           /\ Normal(path) # <<>> /\ Head(Normal(path)) # Up => NormalAbsolute(path) = Normal(path)
<1>0. Len(path) \in Nat
  OBVIOUS
<1>1. PICK f : /\ Normal(path) = f[Len(path)] /\ f[0] = <<>>
               /\ \A n \in 1 .. Len(path) : f[n] = Joined(f[n - 1], path[n], FALSE)
  BY <1>0, NormalRuns
<1>2. PICK g : /\ NormalAbsolute(path) = g[Len(path)] /\ g[0] = <<>>
               /\ \A n \in 1 .. Len(path) : g[n] = Joined(g[n - 1], path[n], TRUE)
  BY <1>0, NormalRuns
<1> DEFINE Good(n) == f[n] \in Seq(V) /\ g[n] \in Seq(V) /\ SameNames(f[n], g[n])
           N == {n \in Nat : n <= Len(path) => Good(n)}
<1>3. 0 \in N
  <2>1. AfterUps(<<>>, 0, <<>>) /\ <<>> \in Seq(V)
    BY DEF AfterUps
  <2>2. SameNames(<<>>, <<>>)
    BY <2>1 DEF SameNames
  <2>3. QED
    BY <1>1, <1>2, <2>1, <2>2
<1>4. ASSUME NEW n \in Nat, n \in N PROVE n + 1 \in N
  <2>1. SUFFICES ASSUME n + 1 <= Len(path) PROVE Good(n + 1)
    OBVIOUS
  <2>2. n + 1 \in 1 .. Len(path) /\ (n + 1) - 1 = n /\ Good(n) /\ path[n + 1] \in V
    BY <1>0, <1>4, <2>1
  <2>3. f[n + 1] = Joined(f[n], path[n + 1], FALSE) /\ g[n + 1] = Joined(g[n], path[n + 1], TRUE)
    BY <1>1, <1>2, <2>2
  <2>4. QED
    BY <2>2, <2>3, JoinedSame
<1>5. Good(Len(path))
  <2>1. Nat \subseteq N
    <3> HIDE DEF N
    <3>1. QED
      BY <1>3, <1>4, NatSet
  <2>2. QED
    BY <1>0, <2>1
<1>6. ASSUME Normal(path) # <<>>, Head(Normal(path)) # Up
      PROVE  NormalAbsolute(path) = Normal(path)
  <2> DEFINE r == Normal(path)
             a == NormalAbsolute(path)
  <2>1. r \in Seq(V) /\ a \in Seq(V) /\ SameNames(r, a) /\ r # <<>> /\ Head(r) # Up
    BY <1>1, <1>2, <1>5, <1>6
  <2> HIDE DEF r, a
  <2>2. PICK k \in Nat : /\ Len(r) = k + Len(a)
                         /\ \A i \in 1 .. k : r[i] = Up
                         /\ \A i \in 1 .. Len(a) : r[k + i] = a[i] /\ a[i] # Up
    BY <2>1 DEF SameNames, AfterUps
  <2>3. Head(r) = r[1] /\ k = 0
    BY <2>1, <2>2
  <2>4. Len(r) = Len(a) /\ \A i \in 1 .. Len(a) : r[i] = a[i]
    BY <2>1, <2>2, <2>3
  <2>5. r = a
    BY <2>1, <2>4
  <2>6. QED
    BY <2>5 DEF r, a
<1>7. QED
  BY <1>1, <1>2, <1>5, <1>6
-----------------------------------------------------------------------------
(* The definitions over the state follow the variables they are about.     *)
LEMMA SameTree ==
    ASSUME source' = source, targets' = targets, included' = included
    PROVE  /\ Selection' = Selection /\ AuditReport' = AuditReport
           /\ (Accepted' <=> Accepted) /\ (ExcludesInside' <=> ExcludesInside)
<1>1. Selection' = Selection
  BY DEF Selection
<1>2. /\ \A f : (IsFile(f)' <=> IsFile(f)) /\ (Present(f)' <=> Present(f))
      /\ \A t : RealDirectory(t)' <=> RealDirectory(t)
  BY DEF IsFile, Present, RealDirectory
<1>3. AuditReport' = AuditReport
  BY <1>2 DEF AuditReport, Records, IsFile, Present, RealDirectory
<1>4. Accepted' <=> Accepted
  BY <1>1, <1>2 DEF Accepted, LinksClosed, IsProgram
<1>5. ExcludesInside' <=> ExcludesInside
  BY DEF ExcludesInside
<1>6. QED
  BY <1>1, <1>3, <1>4, <1>5

(* The same, of the definitions over the materializer's state.             *)
LEMMA SameVolume ==
    ASSUME entries' = entries, volume' = volume, policy' = policy
    PROVE  /\ Fit(volume)' <=> Fit(volume)
           /\ ModePolicy(volume)' = ModePolicy(volume)
           /\ staged' = staged => (TreeVerified' <=> TreeVerified)
<1>1. Variants' = Variants
  BY DEF Variants
<1>2. Fit(volume)' <=> Fit(volume)
  BY <1>1 DEF Fit, VolumeModeMatches
<1>3. ModePolicy(volume)' = ModePolicy(volume)
  BY <1>1 DEF ModePolicy
<1>4. staged' = staged => (TreeVerified' <=> TreeVerified)
  BY DEF TreeVerified, VerifySymlinkInside
<1>5. QED
  BY <1>2, <1>3, <1>4

(* Everything that is exported is in the tree of the image or named by     *)
(* --include-app.                                                          *)
LEMMA EntriesInTree ==
    ASSUME NEW tree, NEW roots, NEW files
    PROVE  DOMAIN Entries(tree, roots, files) \subseteq DOMAIN tree \cup files
<1>1. \A t : Collected(tree, t) \subseteq DOMAIN tree
  BY DEF Collected
<1>2. QED
  BY <1>1 DEF Entries

(* The selection is finite, as the image is.                               *)
LEMMA SelectionIsFinite ==
    ASSUME SourceInv PROVE IsFiniteSet(DOMAIN Selection)
<1>1. IsFiniteSet(DOMAIN source) /\ IsFiniteSet(included)
  BY ReleaseAssumption DEF SourceInv, IsTree
<1>2. IsFiniteSet(DOMAIN source \cup included)
  BY <1>1, FS_Union
<1>3. DOMAIN Selection \subseteq DOMAIN source \cup included
  BY EntriesInTree DEF Selection
<1>4. QED
  BY <1>2, <1>3, FS_Subset

(* The invariant holds before the audit.                                   *)
LEMMA ReleaseInit == ASSUME Init PROVE ReleaseInv
<1>1. SourceInv /\ StageInv /\ AuditInv /\ VolumeInv /\ VerifiedInv
  BY OutcomeAssumption DEF Init, SourceInv, StageInv, AuditInv, VolumeInv, VerifiedInv, PC, Stages
<1>2. EntriesInv
  BY OutcomeAssumption DEF Init, EntriesInv, Uncollected, Stages, PC
<1>3. MembersInv
  <2>1. DOMAIN entries = {}
    BY DEF Init, Empty
  <2>2. Cardinality(DOMAIN entries) = 0
    BY <2>1, FS_EmptySet
  <2>3. QED
    BY <2>2 DEF Init, MembersInv
<1>4. QED
  BY <1>1, <1>2, <1>3 DEF ReleaseInv

(* The audit reports on this tree.                                         *)
LEMMA AuditKeeps == ASSUME ReleaseInv, Audit PROVE ReleaseInv'
<1>1. /\ Selection' = Selection /\ AuditReport' = AuditReport /\ (Accepted' <=> Accepted)
      /\ (ExcludesInside' <=> ExcludesInside)
      /\ pc = "audit" /\ pc' = "collect" /\ outcome' = outcome /\ outcome = None
  BY SameTree DEF Audit, Goto, ReleaseInv, StageInv
<1>2. SourceInv' /\ StageInv'
  BY <1>1, OutcomeAssumption DEF Audit, ReleaseInv, SourceInv, StageInv, PC, Stages
<1>3. AuditInv'
  BY <1>1 DEF Audit, AuditReport, Records, AuditInv
<1>4. EntriesInv'
  BY <1>1, OutcomeAssumption DEF Audit, ReleaseInv, EntriesInv, Uncollected, PC, Stages
<1>5. VolumeInv' /\ MembersInv' /\ VerifiedInv'
  BY <1>1, OutcomeAssumption DEF Audit, materializer, ReleaseInv, VolumeInv, MembersInv, VerifiedInv, PC, Stages
<1>6. QED
  BY <1>2, <1>3, <1>4, <1>5 DEF ReleaseInv

(* The entries are collected only when the exporter accepts them.          *)
LEMMA CollectKeeps == ASSUME ReleaseInv, Collect PROVE ReleaseInv'
<1>1. /\ Selection' = Selection /\ AuditReport' = AuditReport /\ (Accepted' <=> Accepted)
      /\ (ExcludesInside' <=> ExcludesInside)
      /\ pc = "collect" /\ outcome = None /\ entries = Empty /\ archives' = {} /\ at' = 0
  BY SameTree, OutcomeAssumption DEF Collect, materializer, ReleaseInv, StageInv, EntriesInv, Uncollected, MembersInv
<1>2. \/ Accepted /\ entries' = Selection /\ pc' = "archive" /\ outcome' = None
      \/ ~Accepted /\ entries' = Empty /\ pc' = "done" /\ outcome' = "collect"
  BY <1>1 DEF Collect, Accepted, Selection, Refuse, Goto
<1>3. SourceInv' /\ StageInv' /\ AuditInv' /\ EntriesInv'
  <2>1. SourceInv' /\ AuditInv'
    BY <1>1, <1>2 DEF Collect, ReleaseInv, SourceInv, AuditInv
  <2>2. StageInv'
    BY <1>2, OutcomeAssumption DEF StageInv, PC, Stages
  <2>3. EntriesInv'
    BY <1>1, <1>2, OutcomeAssumption DEF EntriesInv, Uncollected, Stages, PC
  <2>4. QED
    BY <2>1, <2>2, <2>3
<1>4. MembersInv'
  <2>1. SourceInv'
    BY <1>3
  <2>2. IsFiniteSet(DOMAIN Selection) /\ DOMAIN Empty = {}
    BY SelectionIsFinite DEF ReleaseInv, Empty
  <2>3. Cardinality(DOMAIN entries') \in Nat
    BY <1>2, <2>2, FS_CardinalityType, FS_EmptySet
  <2>4. QED
    BY <1>1, <2>3 DEF MembersInv
<1>5. VolumeInv' /\ VerifiedInv'
  BY <1>2, OutcomeAssumption DEF Collect, materializer, ReleaseInv, VolumeInv, VerifiedInv, Stages, PC
<1>6. QED
  BY <1>3, <1>4, <1>5 DEF ReleaseInv

(* The archive has the collected entries.                                  *)
LEMMA PlaceArchiveKeeps == ASSUME ReleaseInv, PlaceArchive PROVE ReleaseInv'
<1>1. /\ Selection' = Selection /\ AuditReport' = AuditReport /\ (Accepted' <=> Accepted)
      /\ (ExcludesInside' <=> ExcludesInside)
      /\ pc = "archive" /\ pc' = "manifest" /\ outcome' = outcome /\ outcome = None
      /\ entries' = entries
  BY SameTree DEF PlaceArchive, Goto, ReleaseInv, StageInv
<1>2. SourceInv' /\ StageInv' /\ AuditInv'
  BY <1>1, OutcomeAssumption DEF PlaceArchive, ReleaseInv, SourceInv, StageInv, AuditInv, PC, Stages
<1>3. EntriesInv'
  BY <1>1, OutcomeAssumption DEF PlaceArchive, ReleaseInv, EntriesInv, Uncollected, PC, Stages
<1>4. VolumeInv' /\ MembersInv' /\ VerifiedInv'
  BY <1>1, OutcomeAssumption
     DEF PlaceArchive, materializer, ReleaseInv, VolumeInv, MembersInv, VerifiedInv, PC, Stages
<1>5. QED
  BY <1>2, <1>3, <1>4 DEF ReleaseInv

(* The manifest is read, not changed.                                      *)
LEMMA ValidateManifestKeeps == ASSUME ReleaseInv, ValidateManifest PROVE ReleaseInv'
<1>1. /\ Selection' = Selection /\ AuditReport' = AuditReport /\ (Accepted' <=> Accepted)
      /\ (ExcludesInside' <=> ExcludesInside)
      /\ pc = "manifest" /\ outcome = None /\ entries' = entries
      /\ \/ pc' = "probe" /\ outcome' = None
         \/ pc' = "done" /\ outcome' = "manifest"
  BY SameTree DEF ValidateManifest, Goto, Refuse, ReleaseInv, StageInv
<1>2. SourceInv' /\ StageInv' /\ AuditInv'
  BY <1>1, OutcomeAssumption DEF ValidateManifest, ReleaseInv, SourceInv, StageInv, AuditInv, PC, Stages
<1>3. EntriesInv'
  BY <1>1, OutcomeAssumption DEF ValidateManifest, ReleaseInv, EntriesInv, Uncollected, PC, Stages
<1>4. VolumeInv' /\ MembersInv' /\ VerifiedInv'
  BY <1>1, OutcomeAssumption
     DEF ValidateManifest, materializer, ReleaseInv, VolumeInv, MembersInv, VerifiedInv, PC, Stages
<1>5. QED
  BY <1>2, <1>3, <1>4 DEF ReleaseInv

(* The materializer goes on with a volume that is fit for every mode.      *)
LEMMA ProbeKeeps == ASSUME ReleaseInv, NEW v \in Volumes, Probe(v) PROVE ReleaseInv'
<1>1. /\ Selection' = Selection /\ AuditReport' = AuditReport /\ (Accepted' <=> Accepted)
      /\ (ExcludesInside' <=> ExcludesInside)
      /\ pc = "probe" /\ outcome = None /\ entries' = entries /\ volume' = v
  BY SameTree DEF Probe, ReleaseInv, StageInv
<1>2. \/ Fit(v) /\ policy' = ModePolicy(v) /\ pc' = "extract" /\ outcome' = None
      \/ ~(WithinLimits /\ Fit(v)) /\ pc' = "done" /\ outcome' = "probe"
  BY <1>1 DEF Probe, Fit, Goto, Refuse
<1>3. SourceInv' /\ StageInv' /\ AuditInv'
  BY <1>1, <1>2, OutcomeAssumption DEF Probe, ReleaseInv, SourceInv, StageInv, AuditInv, PC, Stages
<1>4. EntriesInv'
  BY <1>1, <1>2, OutcomeAssumption DEF Probe, ReleaseInv, EntriesInv, Uncollected, PC, Stages
<1>5. MembersInv' /\ VerifiedInv'
  BY <1>1, <1>2, OutcomeAssumption DEF Probe, ReleaseInv, MembersInv, VerifiedInv, PC, Stages
<1>6. VolumeInv'
  <2>1. Variants' = Variants
    BY <1>1 DEF Variants
  <2>2. Fit(volume)' <=> Fit(v)
    BY <1>1, <2>1 DEF Fit, VolumeModeMatches
  <2>3. ModePolicy(volume)' = ModePolicy(v)
    BY <1>1, <2>1 DEF ModePolicy
  <2>4. QED
    BY <1>1, <1>2, <2>2, <2>3, OutcomeAssumption DEF VolumeInv, PC, Stages
<1>7. QED
  BY <1>3, <1>4, <1>5, <1>6 DEF ReleaseInv

(* What the steps of the unpacking leave alone.                            *)
LEMMA UnpackKeeps ==
    ASSUME ReleaseInv, pc \in {"extract", "verify"}, pc' \in {"extract", "verify", "done"},
           outcome' \in {"extract", "verify", "ok", None}, pc' = "done" <=> outcome' # None,
           UNCHANGED <<source, targets, included, audit, entries, archives, volume, policy>>
    PROVE  SourceInv' /\ StageInv' /\ AuditInv' /\ EntriesInv' /\ VolumeInv'
<1>1. /\ Selection' = Selection /\ AuditReport' = AuditReport /\ (Accepted' <=> Accepted)
      /\ (ExcludesInside' <=> ExcludesInside)
      /\ (Fit(volume)' <=> Fit(volume)) /\ ModePolicy(volume)' = ModePolicy(volume)
      /\ outcome = None
  BY SameTree, SameVolume DEF ReleaseInv, StageInv
<1>2. SourceInv' /\ StageInv' /\ AuditInv'
  BY <1>1, OutcomeAssumption DEF ReleaseInv, SourceInv, StageInv, AuditInv, PC, Stages
<1>3. EntriesInv'
  BY <1>1, OutcomeAssumption DEF ReleaseInv, EntriesInv, Uncollected, PC, Stages
<1>4. VolumeInv'
  BY <1>1, OutcomeAssumption DEF ReleaseInv, VolumeInv, PC, Stages
<1>5. QED
  BY <1>2, <1>3, <1>4

(* There are never more members unpacked than there are entries.           *)
LEMMA ExtractMemberKeeps == ASSUME ReleaseInv, ExtractMember PROVE ReleaseInv'
<1>1. /\ pc = "extract" /\ outcome = None /\ entries' = entries /\ at < Cardinality(DOMAIN entries)
      /\ \/ pc' = "extract" /\ outcome' = None /\ at' = at + 1
         \/ pc' = "done" /\ outcome' = "extract" /\ at' = at
  BY DEF ExtractMember, Refuse, ReleaseInv, StageInv, Members
<1>2. SourceInv' /\ StageInv' /\ AuditInv' /\ EntriesInv' /\ VolumeInv'
  BY <1>1, UnpackKeeps, OutcomeAssumption DEF ExtractMember, Stages, PC
<1>3. MembersInv'
  <2>1. IsFiniteSet(DOMAIN entries)
    <3>1. IsFiniteSet(DOMAIN Selection) /\ entries = Selection
      BY <1>1, SelectionIsFinite, OutcomeAssumption DEF ReleaseInv, EntriesInv, Uncollected, Stages, PC
    <3>2. QED
      BY <3>1
  <2>2. Cardinality(DOMAIN entries) \in Nat
    BY <2>1, FS_CardinalityType
  <2>3. QED
    BY <1>1, <2>2 DEF ReleaseInv, MembersInv
<1>4. VerifiedInv'
  BY <1>1, OutcomeAssumption DEF VerifiedInv, Stages, PC
<1>5. QED
  BY <1>2, <1>3, <1>4 DEF ReleaseInv

(* The end of the unpacking hands on the staged tree.                      *)
LEMMA ExtractionEndsKeeps == ASSUME ReleaseInv, ExtractionEnds PROVE ReleaseInv'
<1>1. pc = "extract" /\ outcome = None /\ pc' = "verify" /\ outcome' = None
  BY DEF ExtractionEnds, Goto, ReleaseInv, StageInv
<1>2. SourceInv' /\ StageInv' /\ AuditInv' /\ EntriesInv' /\ VolumeInv'
  BY <1>1, UnpackKeeps DEF ExtractionEnds, materializer
<1>3. MembersInv' /\ VerifiedInv'
  BY <1>1, OutcomeAssumption
     DEF ExtractionEnds, materializer, ReleaseInv, MembersInv, VerifiedInv, Stages, PC
<1>4. QED
  BY <1>2, <1>3 DEF ReleaseInv

(* The release is ok when the tree is verified.                            *)
LEMMA VerifyKeeps == ASSUME ReleaseInv, Verify PROVE ReleaseInv'
<1>1. /\ pc = "verify" /\ outcome = None /\ pc' = "done"
      /\ outcome' = IF TreeVerified THEN "ok" ELSE "verify"
      /\ TreeVerified' <=> TreeVerified
  BY SameVolume DEF Verify, materializer, ReleaseInv, StageInv
<1>2. SourceInv' /\ StageInv' /\ AuditInv' /\ EntriesInv' /\ VolumeInv'
  <2>1. outcome' \in {"ok", "verify"} /\ outcome' # None
    BY <1>1, OutcomeAssumption DEF Stages, PC
  <2>2. QED
    BY <1>1, <2>1, UnpackKeeps DEF Verify, materializer
<1>3. MembersInv' /\ VerifiedInv'
  BY <1>1 DEF Verify, materializer, ReleaseInv, MembersInv, VerifiedInv
<1>4. QED
  BY <1>2, <1>3 DEF ReleaseInv

(* Nothing changes when the variables do not.                              *)
LEMMA StutterKeeps == ASSUME ReleaseInv, UNCHANGED vars PROVE ReleaseInv'
<1>1. /\ Selection' = Selection /\ AuditReport' = AuditReport /\ (Accepted' <=> Accepted)
      /\ (ExcludesInside' <=> ExcludesInside)
      /\ (Fit(volume)' <=> Fit(volume)) /\ ModePolicy(volume)' = ModePolicy(volume)
      /\ TreeVerified' <=> TreeVerified
  BY SameTree, SameVolume DEF vars, materializer
<1>2. SourceInv' /\ StageInv' /\ AuditInv'
  BY <1>1 DEF vars, ReleaseInv, SourceInv, StageInv, AuditInv
<1>3. EntriesInv'
  BY <1>1 DEF vars, ReleaseInv, EntriesInv, Uncollected
<1>4. VolumeInv' /\ MembersInv' /\ VerifiedInv'
  BY <1>1 DEF vars, materializer, ReleaseInv, VolumeInv, MembersInv, VerifiedInv
<1>5. QED
  BY <1>2, <1>3, <1>4 DEF ReleaseInv

(* Every step keeps the invariant.                                         *)
LEMMA ReleaseNext == ASSUME ReleaseInv, [Next]_vars PROVE ReleaseInv'
<1>1. CASE Audit
  BY <1>1, AuditKeeps
<1>2. CASE Collect
  BY <1>2, CollectKeeps
<1>3. CASE PlaceArchive
  BY <1>3, PlaceArchiveKeeps
<1>4. CASE ValidateManifest
  BY <1>4, ValidateManifestKeeps
<1>5. CASE \E v \in Volumes : Probe(v)
  BY <1>5, ProbeKeeps
<1>6. CASE ExtractMember
  BY <1>6, ExtractMemberKeeps
<1>7. CASE ExtractionEnds
  BY <1>7, ExtractionEndsKeeps
<1>8. CASE Verify
  BY <1>8, VerifyKeeps
<1>9. CASE UNCHANGED vars
  BY <1>9, StutterKeeps
<1>10. QED
  BY <1>1, <1>2, <1>3, <1>4, <1>5, <1>6, <1>7, <1>8, <1>9 DEF Next

(* So it always holds.                                                     *)
LEMMA ReleaseAlways == Spec => []ReleaseInv
<1>1. Init => ReleaseInv
  BY ReleaseInit
<1>2. ReleaseInv /\ [Next]_vars => ReleaseInv'
  BY ReleaseNext
<1>3. QED
  BY <1>1, <1>2, PTL DEF Spec

(* A stage either hands its result on or ends the release with its name;   *)
(* the audit reports and the manifest describes only what is in the image  *)
(* or was asked for.                                                       *)
LEMMA ReleaseTyped == ASSUME ReleaseInv PROVE TypeOK
<1>1. audit # None => audit \subseteq DOMAIN source \cup included \cup targets
  <2>1. DOMAIN Entries(source, targets, {f \in included : IsFile(f)})
           \subseteq DOMAIN source \cup {f \in included : IsFile(f)}
    BY EntriesInTree
  <2>2. AuditReport \subseteq DOMAIN source \cup included \cup targets
    BY <2>1 DEF AuditReport, Records
  <2>3. QED
    BY <2>2 DEF ReleaseInv, AuditInv
<1>2. DOMAIN Empty = {}
  BY DEF Empty
<1>3. DOMAIN entries \subseteq DOMAIN source \cup included
  BY <1>2, EntriesInTree DEF ReleaseInv, EntriesInv, Selection
<1>4. ASSUME NEW p \in DOMAIN entries PROVE entries[p].mode \in Modes
  <2>1. entries = Selection /\ Accepted
    BY <1>2 DEF ReleaseInv, EntriesInv
  <2>2. entries[p] = IF p \in DOMAIN source THEN source[p]
                     ELSE source[Append(Walked(source, Front(p)), Last(p))]
    BY <1>4, <2>1 DEF Selection, Entries
  <2>3. p \in DOMAIN source \/ Append(Walked(source, Front(p)), Last(p)) \in DOMAIN source
    BY <1>3, <1>4, <2>1 DEF Accepted, IsFile, Present
  <2>4. \A q \in DOMAIN source : source[q].mode \in Modes
    BY ReleaseAssumption DEF ReleaseInv, SourceInv, IsTree
  <2>5. QED
    BY <2>2, <2>3, <2>4
<1>5. archives \subseteq {entries}
  BY DEF ReleaseInv, EntriesInv
<1>6. QED
  BY <1>1, <1>3, <1>4, <1>5 DEF TypeOK, ReleaseInv, SourceInv, StageInv, VolumeInv, MembersInv

(* In every state of every release the variables have the values TypeOK    *)
(* says.                                                                   *)
THEOREM TypeCorrect == Spec => []TypeOK
<1>1. ReleaseInv => TypeOK
  BY ReleaseTyped
<1>2. QED
  BY <1>1, ReleaseAlways, PTL
-----------------------------------------------------------------------------
(* What the resolutions return is the end of a run.                        *)
LEMMA ExportRuns ==
    ASSUME NEW tree, NEW p
    PROVE  \E f : /\ f[0] = p /\ \A m \in 1 .. MaxHops : f[m] = ExportHop(tree, f[m - 1])
                  /\ ResolveSymlinkChain(tree, p) =
                        IF f[MaxHops] \notin DOMAIN tree \/ IsLink(tree, f[MaxHops]) THEN Refused
                        ELSE f[MaxHops]
<1> DEFINE is(f) == f = [m \in 0 .. MaxHops |-> IF m = 0 THEN p ELSE ExportHop(tree, f[m - 1])]
           run == CHOOSE f : is(f)
<1>1. \E f : is(f)
  <2>1. PICK f : Run("export", tree, p, f, MaxHops)
    BY RunExists, TreeAssumption
  <2>2. \A m, x : Step("export", tree, m, x) = ExportHop(tree, x)
    BY DEF Step
  <2>3. is(f)
    BY <2>1, <2>2 DEF Run
  <2>4. QED
    BY <2>3
<1>2. ResolveSymlinkChain(tree, p) =
                        IF run[MaxHops] \notin DOMAIN tree \/ IsLink(tree, run[MaxHops]) THEN Refused
                        ELSE run[MaxHops]
  BY DEF ResolveSymlinkChain, Resolution
<1>3. is(run)
  BY <1>1
<1> HIDE DEF run
<1>4. \A m \in 0 .. MaxHops : run[m] = IF m = 0 THEN p ELSE ExportHop(tree, run[m - 1])
  BY <1>3
<1>5. run[0] = p /\ \A m \in 1 .. MaxHops : run[m] = ExportHop(tree, run[m - 1])
  <2>1. 0 \in 0 .. MaxHops /\ \A m \in 1 .. MaxHops : m \in 0 .. MaxHops /\ m # 0
    BY TreeAssumption
  <2>2. QED
    BY <1>4, <2>1
<1>6. QED
  BY <1>2, <1>5

(* The same of the audit's resolution,                                     *)
LEMMA AuditRuns ==
    ASSUME NEW tree, NEW p
    PROVE  \E f : /\ f[0] = p /\ \A m \in 1 .. MaxHops : f[m] = AuditHop(tree, f[m - 1])
                  /\ ResolveSelected(tree, p) =
                        IF f[MaxHops] \notin DOMAIN tree \/ IsLink(tree, f[MaxHops]) THEN Refused
                        ELSE f[MaxHops]
<1> DEFINE is(f) == f = [m \in 0 .. MaxHops |-> IF m = 0 THEN p ELSE AuditHop(tree, f[m - 1])]
           run == CHOOSE f : is(f)
<1>1. \E f : is(f)
  <2>1. PICK f : Run("audit", tree, p, f, MaxHops)
    BY RunExists, TreeAssumption
  <2>2. \A m, x : Step("audit", tree, m, x) = AuditHop(tree, x)
    BY DEF Step
  <2>3. is(f)
    BY <2>1, <2>2 DEF Run
  <2>4. QED
    BY <2>3
<1>2. ResolveSelected(tree, p) =
                        IF run[MaxHops] \notin DOMAIN tree \/ IsLink(tree, run[MaxHops]) THEN Refused
                        ELSE run[MaxHops]
  BY DEF ResolveSelected, Resolution
<1>3. is(run)
  BY <1>1
<1> HIDE DEF run
<1>4. \A m \in 0 .. MaxHops : run[m] = IF m = 0 THEN p ELSE AuditHop(tree, run[m - 1])
  BY <1>3
<1>5. run[0] = p /\ \A m \in 1 .. MaxHops : run[m] = AuditHop(tree, run[m - 1])
  <2>1. 0 \in 0 .. MaxHops /\ \A m \in 1 .. MaxHops : m \in 0 .. MaxHops /\ m # 0
    BY TreeAssumption
  <2>2. QED
    BY <1>4, <2>1
<1>6. QED
  BY <1>2, <1>5

(* A walk is long enough for a path with a target for each of its links.   *)
LEMMA StepsNat == MaxSteps \in Nat /\ MaxNames <= MaxSteps /\ MaxNames \in Nat /\ MaxHops \in Nat
<1>1. MaxHops \in Nat /\ MaxNames \in Nat
  BY TreeAssumption
<1>2. (MaxHops + 1) * MaxNames = MaxHops * MaxNames + MaxNames /\ MaxHops * MaxNames \in Nat
  BY <1>1
<1>3. QED
  BY <1>1, <1>2 DEF MaxSteps

IsWalk(tree, p, f) ==
    /\ f[0] = Walk(p) /\ \A m \in 1 .. MaxSteps : f[m] = WalkStep(tree, f[m - 1])
    /\ Walked(tree, p) = IF f[MaxSteps] = Refused \/ (f[MaxSteps] # Refused /\ f[MaxSteps].rest # <<>>)
                         THEN Refused ELSE f[MaxSteps].at

(* and of the file system's.                                               *)
LEMMA WalkRuns == ASSUME NEW tree, NEW p PROVE \E f : IsWalk(tree, p, f)
<1> DEFINE is(f) == f = [m \in 0 .. MaxSteps |-> IF m = 0 THEN Walk(p) ELSE WalkStep(tree, f[m - 1])]
           run == CHOOSE f : is(f)
<1>1. \E f : is(f)
  <2>1. PICK f : Run("walk", tree, Walk(p), f, MaxSteps)
    BY RunExists, StepsNat
  <2>2. \A m, x : Step("walk", tree, m, x) = WalkStep(tree, x)
    BY DEF Step
  <2>3. is(f)
    BY <2>1, <2>2 DEF Run
  <2>4. QED
    BY <2>3
<1>2. Walked(tree, p) =
                        IF run[MaxSteps] = Refused \/ (run[MaxSteps] # Refused /\ run[MaxSteps].rest # <<>>)
                        THEN Refused ELSE run[MaxSteps].at
  BY DEF Walked, Resolution
<1>3. is(run)
  BY <1>1
<1> HIDE DEF run
<1>4. \A m \in 0 .. MaxSteps : run[m] = IF m = 0 THEN Walk(p) ELSE WalkStep(tree, run[m - 1])
  BY <1>3
<1>5. run[0] = Walk(p) /\ \A m \in 1 .. MaxSteps : run[m] = WalkStep(tree, run[m - 1])
  <2>1. 0 \in 0 .. MaxSteps /\ \A m \in 1 .. MaxSteps : m \in 0 .. MaxSteps /\ m # 0
    BY StepsNat
  <2>2. QED
    BY <1>4, <2>1
<1>6. IsWalk(tree, p, run)
  BY <1>2, <1>5 DEF IsWalk
<1>7. QED
  BY <1>6

(* The entries are nodes of the tree, under names that are paths.          *)
IsSelection(tree) ==
    \A p \in DOMAIN tree : /\ IsPath(p) /\ p # Refused /\ DOMAIN tree[p] = {"kind", "mode", "data"}
                           /\ tree[p].kind = "link" => IsTarget(tree[p].data)

(* So it is with the selection, when the included files exist.             *)
LEMMA SelectionTyped ==
    ASSUME SourceInv, \A f \in included : IsFile(f) PROVE IsSelection(Selection)
<1>1. SUFFICES ASSUME NEW p \in DOMAIN Selection
               PROVE  /\ IsPath(p) /\ p # Refused /\ DOMAIN Selection[p] = {"kind", "mode", "data"}
                      /\ Selection[p].kind = "link" => IsTarget(Selection[p].data)
  BY DEF IsSelection
<1>2. p \in DOMAIN source \/ p \in included
  BY EntriesInTree DEF Selection
<1>3. /\ \A q \in DOMAIN source : /\ IsPath(q) /\ DOMAIN source[q] = {"kind", "mode", "data"}
                                  /\ source[q].kind = "link" => IsTarget(source[q].data)
      /\ \A q \in included : IsPath(q)
  BY ReleaseAssumption DEF SourceInv, IsTree
<1>4. \E q \in DOMAIN source : Selection[p] = source[q]
  BY <1>1, <1>2 DEF Selection, Entries, IsFile, Present
<1>5. \A q : IsPath(q) => q # Refused
  <2>1. \A q \in Seq(Names) : q \in Seq(Names \cup {Up, Slash})
    OBVIOUS
  <2>2. QED
    BY <2>1, ReleaseAssumption DEF IsPath
<1>6. QED
  BY <1>2, <1>3, <1>4, <1>5
-----------------------------------------------------------------------------
(* The target of a link that stays below the root is the same to the       *)
(* exporter, who has relative paths, and to the audit, who has absolute    *)
(* ones.                                                                   *)
LEMMA TargetBelow ==
    ASSUME NEW p, NEW target, IsPath(p), IsTarget(target), LinkResolvedPath(p, target) # Refused
    PROVE  /\ Head(target) # Slash
           /\ LinkResolvedPath(p, target) = Normal(Front(p) \o target)
           /\ LinkResolvedPath(p, target) = NormalAbsolute(Front(p) \o target)
<1> DEFINE V == Names \cup {Up, Slash}
           path == Front(p) \o target
<1>1. path \in Seq(V)
  <2>1. p \in Seq(Names) /\ p # <<>>
    BY DEF IsPath
  <2>2. Front(p) \in Seq(Names)
    BY <2>1, Fronts
  <2>3. Front(p) \in Seq(V)
    BY <2>2
  <2>4. target \in Seq(V)
    BY DEF IsTarget
  <2> HIDE DEF V
  <2>5. QED
    BY <2>3, <2>4, ConcatProperties
<1>2. Head(target) # Slash /\ Normal(path) # <<>> /\ Head(Normal(path)) # Up
      /\ LinkResolvedPath(p, target) = Normal(path)
  BY DEF LinkResolvedPath
<1>3. NormalAbsolute(path) = Normal(path)
  <2> HIDE DEF path
  <2>1. Up \in V
    OBVIOUS
  <2> HIDE DEF V
  <2>2. QED
    BY <1>1, <1>2, <2>1, NormalSame
<1>4. QED
  BY <1>2, <1>3

(* So both follow the same links, as long as these lead to entries.        *)
LEMMA ResolvedAlike ==
    ASSUME NEW tree, IsSelection(tree), \A p \in LinksOf(tree) : StaysBelow(tree, p),
           NEW p \in DOMAIN tree, ResolveSelected(tree, p) # Refused
    PROVE  ResolveSymlinkChain(tree, p) # Refused
<1>1. PICK a : /\ a[0] = p /\ \A m \in 1 .. MaxHops : a[m] = AuditHop(tree, a[m - 1])
               /\ ResolveSelected(tree, p) =
                     IF a[MaxHops] \notin DOMAIN tree \/ IsLink(tree, a[MaxHops]) THEN Refused
                     ELSE a[MaxHops]
  BY AuditRuns
<1>2. PICK e : /\ e[0] = p /\ \A m \in 1 .. MaxHops : e[m] = ExportHop(tree, e[m - 1])
               /\ ResolveSymlinkChain(tree, p) =
                     IF e[MaxHops] \notin DOMAIN tree \/ IsLink(tree, e[MaxHops]) THEN Refused
                     ELSE e[MaxHops]
  BY ExportRuns
<1>3. ASSUME NEW q \in DOMAIN tree PROVE AuditHop(tree, q) = ExportHop(tree, q)
  <2>1. q # Refused /\ IsPath(q)
    BY DEF IsSelection
  <2>2. CASE IsLink(tree, q)
    <3>1. IsTarget(tree[q].data) /\ LinkResolvedPath(q, tree[q].data) # Refused
      BY <2>2 DEF IsSelection, IsLink, LinksOf, StaysBelow
    <3>2. AuditHop(tree, q) = LinkResolvedPath(q, tree[q].data)
      BY <2>1, <2>2, <3>1, TargetBelow DEF AuditHop
    <3>3. ExportHop(tree, q) = LinkResolvedPath(q, tree[q].data)
      BY <2>1, <2>2 DEF ExportHop
    <3>4. QED
      BY <3>2, <3>3
  <2>3. CASE ~IsLink(tree, q)
    BY <2>1, <2>3 DEF AuditHop, ExportHop
  <2>4. QED
    BY <2>2, <2>3
<1>4. \A q : q \notin DOMAIN tree => AuditHop(tree, q) = q
  BY DEF AuditHop, IsLink
<1> DEFINE N == {n \in Nat : n <= MaxHops => a[n] \notin DOMAIN tree \/ a[n] = e[n]}
<1>5. 0 \in N
  BY <1>1, <1>2
<1>6. ASSUME NEW n \in Nat, n \in N PROVE n + 1 \in N
  <2>1. SUFFICES ASSUME n + 1 <= MaxHops PROVE a[n + 1] \notin DOMAIN tree \/ a[n + 1] = e[n + 1]
    OBVIOUS
  <2>2. n + 1 \in 1 .. MaxHops /\ (n + 1) - 1 = n /\ n <= MaxHops
    BY <2>1, TreeAssumption
  <2>3. a[n + 1] = AuditHop(tree, a[n]) /\ e[n + 1] = ExportHop(tree, e[n])
    BY <1>1, <1>2, <2>2
  <2>4. QED
    BY <1>3, <1>4, <1>6, <2>2, <2>3
<1>7. a[MaxHops] \notin DOMAIN tree \/ a[MaxHops] = e[MaxHops]
  <2>1. Nat \subseteq N
    <3> HIDE DEF N
    <3>1. QED
      BY <1>5, <1>6, NatSet
  <2>2. QED
    BY <2>1, TreeAssumption
<1>8. a[MaxHops] \in DOMAIN tree /\ ~IsLink(tree, a[MaxHops])
  BY <1>1
<1>9. QED
  BY <1>2, <1>7, <1>8 DEF IsSelection

(* The audit has another algorithm for the exporter's question, but a tree *)
(* it finds nothing in is not refused for its links, its special files or  *)
(* a missing file: either a link climbs over the root, which the audit     *)
(* does not notice, or an exclude does not exist, or it is the entrypoint. *)
THEOREM AuditedExported == Spec => []AuditedIsExported
<1>1. ASSUME ReleaseInv PROVE AuditedIsExported
  <2>1. SUFFICES ASSUME audit = {}, outcome = "collect",
                        \A p \in LinksOf(Selection) : StaysBelow(Selection, p),
                        \A x \in Excludes : Present(x),
                        Entrypoint \in DOMAIN Selection,
                        IsProgram(Selection, ResolveSymlinkChain(Selection, Entrypoint))
                 PROVE  FALSE
    BY DEF AuditedIsExported
  <2>2. ~Accepted /\ AuditReport = {}
    <3>1. pc # "audit"
      BY <2>1, <1>1, OutcomeAssumption DEF ReleaseInv, StageInv, Stages, PC
    <3>2. QED
      BY <1>1, <2>1, <3>1, ReleaseAssumption DEF ReleaseInv, EntriesInv, AuditInv
  <2>3. (\A f \in included : IsFile(f)) /\ (\A t \in targets : RealDirectory(t))
    BY <2>2 DEF AuditReport
  <2>4. Records = Selection
    <3>1. {f \in included : IsFile(f)} = included
      BY <2>3
    <3>2. QED
      BY <3>1 DEF Records, Selection
  <2>5. /\ \A p \in DOMAIN Selection : Selection[p].kind # "special"
        /\ \A p \in LinksOf(Selection) : ResolveSelected(Selection, p) # Refused
    BY <2>2, <2>4 DEF AuditReport, LinksOf
  <2>6. IsSelection(Selection)
    BY <1>1, <2>3, SelectionTyped DEF ReleaseInv
  <2>7. LinksClosed(Selection)
    <3>1. ASSUME NEW p \in DOMAIN Selection, Selection[p].kind = "link"
          PROVE  /\ LinkResolvedPath(p, Selection[p].data) # Refused
                 /\ ResolveSymlinkChain(Selection, p) # Refused
      <4>1. p \in LinksOf(Selection)
        BY <3>1 DEF LinksOf
      <4>2. QED
        BY <2>1, <2>5, <2>6, <4>1, ResolvedAlike DEF StaysBelow
    <3>2. QED
      BY <3>1 DEF LinksClosed
  <2>8. QED
    BY <2>1, <2>2, <2>3, <2>5, <2>7 DEF Accepted
<1>2. QED
  BY <1>1, ReleaseAlways, PTL
-----------------------------------------------------------------------------
(* Paths below paths.                                                      *)
LEMMA PrefixOf ==
    ASSUME NEW V, NEW p \in Seq(V), NEW n \in 0 .. Len(p)
    PROVE  /\ SubSeq(p, 1, n) \in Seq(V) /\ Len(SubSeq(p, 1, n)) = n
           /\ \A i \in 1 .. n : SubSeq(p, 1, n)[i] = p[i]
<1> DEFINE s == SubSeq(p, 1, n)
<1>1. Len(p) \in Nat /\ n \in Int /\ \A i \in 1 .. n : p[i] \in V
  OBVIOUS
<1>2. /\ s \in Seq(V)
      /\ Len(s) = IF 1 <= n THEN n - 1 + 1 ELSE 0
      /\ \A i \in 1 .. n - 1 + 1 : s[i] = p[1 + i - 1]
  BY <1>1, SubSeqProperties
<1> HIDE DEF s
<1>3. Len(s) = n
  BY <1>1, <1>2
<1>4. \A i \in 1 .. n : i \in 1 .. n - 1 + 1 /\ 1 + i - 1 = i
  BY <1>1
<1>5. QED
  BY <1>2, <1>3, <1>4 DEF s

(* What is left of a path after its first n names.                         *)
LEMMA SuffixOf ==
    ASSUME NEW V, NEW p \in Seq(V), NEW n \in 0 .. Len(p)
    PROVE  /\ Suffix(p, n) \in Seq(V) /\ Len(Suffix(p, n)) = Len(p) - n
           /\ \A i \in 1 .. Len(p) - n : Suffix(p, n)[i] = p[n + i]
<1> DEFINE s == SubSeq(p, n + 1, Len(p))
           len == Len(p)
<1>1. len \in Nat /\ n \in Int /\ n + 1 \in Int /\ \A i \in n + 1 .. len : p[i] \in V
  OBVIOUS
<1>2. /\ s \in Seq(V)
      /\ Len(s) = IF n + 1 <= len THEN len - (n + 1) + 1 ELSE 0
      /\ \A i \in 1 .. len - (n + 1) + 1 : s[i] = p[n + 1 + i - 1]
  BY <1>1, SubSeqProperties
<1>3. n <= len /\ Suffix(p, n) = s
  BY DEF Suffix
<1> HIDE DEF s, len
<1>4. Len(s) = len - n
  BY <1>1, <1>2, <1>3
<1>5. \A i \in 1 .. len - n : i \in 1 .. len - (n + 1) + 1 /\ n + 1 + i - 1 = n + i
  BY <1>1
<1>6. QED
  BY <1>2, <1>3, <1>4, <1>5 DEF len

(* Sequences that agree everywhere are the same.                           *)
LEMMA SameSeq ==
    ASSUME NEW V, NEW W, NEW s \in Seq(V), NEW t \in Seq(W), Len(s) = Len(t), \A i \in 1 .. Len(s) : s[i] = t[i]
    PROVE  s = t
OBVIOUS

(* What is above a path is a shorter beginning of it.                      *)
LEMMA AboveOf ==
    ASSUME NEW V, NEW p \in Seq(V), NEW q \in Above(p)
    PROVE  /\ q \in Seq(V) /\ Len(q) \in 1 .. Len(p) - 1 /\ q # <<>> /\ q # p
           /\ q = SubSeq(p, 1, Len(q)) /\ \A i \in 1 .. Len(q) : q[i] = p[i]
<1>1. PICK n \in 1 .. Len(p) - 1 : q = SubSeq(p, 1, n)
  BY DEF Above
<1>2. n \in 0 .. Len(p) /\ Len(p) \in Nat
  OBVIOUS
<1>3. /\ q \in Seq(V) /\ Len(q) = n /\ \A i \in 1 .. n : q[i] = p[i]
  BY <1>1, <1>2, PrefixOf
<1>4. QED
  BY <1>1, <1>2, <1>3

(* What begins like p, and is shorter, is above it.                        *)
LEMMA IsAbove ==
    ASSUME NEW V, NEW p \in Seq(V), NEW q \in Seq(V), q # <<>>, Len(q) < Len(p),
           \A i \in 1 .. Len(q) : q[i] = p[i]
    PROVE  q \in Above(p)
<1>1. Len(q) \in 1 .. Len(p) - 1 /\ Len(q) \in 0 .. Len(p)
  OBVIOUS
<1>2. SubSeq(p, 1, Len(q)) \in Seq(V) /\ Len(SubSeq(p, 1, Len(q))) = Len(q)
      /\ \A i \in 1 .. Len(q) : SubSeq(p, 1, Len(q))[i] = p[i]
  BY <1>1, PrefixOf
<1>3. q = SubSeq(p, 1, Len(q))
  BY <1>2, SameSeq
<1>4. QED
  BY <1>1, <1>3 DEF Above

(* What is above something above a path is above the path.                 *)
LEMMA AboveAbove ==
    ASSUME NEW V, NEW p \in Seq(V), NEW q \in Above(p), NEW r \in Above(q) PROVE r \in Above(p)
<1>1. q \in Seq(V) /\ Len(q) \in 1 .. Len(p) - 1 /\ \A i \in 1 .. Len(q) : q[i] = p[i]
  BY AboveOf
<1>2. /\ r \in Seq(V) /\ r # <<>> /\ Len(r) \in 1 .. Len(q) - 1 /\ \A i \in 1 .. Len(r) : r[i] = q[i]
  BY <1>1, AboveOf
<1>3. Len(r) < Len(p) /\ \A i \in 1 .. Len(r) : r[i] = p[i]
  BY <1>1, <1>2
<1>4. QED
  BY <1>2, <1>3, IsAbove

(* It is a path, if the path is.                                           *)
LEMMA AboveIsPath == ASSUME NEW p, IsPath(p), NEW q \in Above(p) PROVE IsPath(q)
<1>1. p \in Seq(Names) /\ Len(p) <= MaxNames /\ Len(p) \in Nat
  BY DEF IsPath
<1>2. q \in Seq(Names) /\ q # <<>> /\ Len(q) \in 1 .. Len(p) - 1
  BY <1>1, AboveOf
<1>3. Len(q) <= MaxNames
  BY <1>1, <1>2, StepsNat
<1>4. QED
  BY <1>2, <1>3 DEF IsPath

(* The directory of a path is above it, unless it is the root.             *)
LEMMA FrontAbove ==
    ASSUME NEW V, NEW p \in Seq(V), p # <<>>, Front(p) # <<>> PROVE Front(p) \in Above(p)
<1>1. Front(p) \in Seq(V) /\ Len(Front(p)) = Len(p) - 1 /\ Len(p) \in Nat
      /\ \A i \in 1 .. Len(p) - 1 : Front(p)[i] = p[i]
  BY Fronts
<1>2. Len(Front(p)) < Len(p)
  BY <1>1
<1>3. QED
  BY <1>1, <1>2, IsAbove

(* A path is its directory and its last name.                              *)
LEMMA FrontLast ==
    ASSUME NEW V, NEW p \in Seq(V), p # <<>> PROVE Append(Front(p), Last(p)) = p
<1>1. /\ Front(p) \in Seq(V) /\ Len(Front(p)) = Len(p) - 1 /\ Len(p) \in Nat \ {0}
      /\ \A i \in 1 .. Len(p) - 1 : Front(p)[i] = p[i]
      /\ Last(p) = p[Len(p)] /\ Last(p) \in V
  BY Fronts
<1> DEFINE s == Append(Front(p), Last(p))
<1>2. /\ s \in Seq(V) /\ Len(s) = Len(Front(p)) + 1
      /\ \A i \in 1 .. Len(Front(p)) : s[i] = Front(p)[i]
      /\ s[Len(Front(p)) + 1] = Last(p)
  BY <1>1, AppendProperties
<1> HIDE DEF s
<1>3. Len(s) = Len(p)
  BY <1>1, <1>2
<1>4. \A i \in 1 .. Len(p) : s[i] = p[i]
  <2>1. TAKE i \in 1 .. Len(p)
  <2>2. i \in 1 .. Len(p) - 1 \/ i = Len(p)
    BY <1>1
  <2>3. QED
    BY <1>1, <1>2, <2>2
<1>5. QED
  BY <1>2, <1>3, <1>4, SameSeq DEF s
-----------------------------------------------------------------------------
(* A plain target begins with its Ups, and the rest of it are names.       *)
UpsFirst(t, k) == /\ k \in 0 .. Len(t)
                  /\ \A i \in 1 .. k : t[i] = Up
                  /\ \A i \in k + 1 .. Len(t) : t[i] \in Names

(* A plain target that is not absolute has its Ups first.                  *)
LEMMA PlainUps ==
    ASSUME NEW t, IsTarget(t), Plain(t), Head(t) # Slash PROVE \E k : UpsFirst(t, k)
<1> DEFINE len == Len(t)
           Stop == {i \in Nat : i >= 1 /\ i <= len /\ t[i] = Up}
           N == {n \in Nat : n <= len => \E k \in 0 .. n : /\ \A i \in 1 .. k : t[i] = Up
                                                        /\ \A i \in k + 1 .. n : t[i] # Up}
<1>1. /\ len \in Nat /\ t[1] # Slash /\ \A i \in 2 .. len : t[i] # Slash
      /\ \A i \in 1 .. len : t[i] \in Names \cup {Up, Slash}
  BY DEF IsTarget
<1>2. \A i \in 1 .. len : t[i] = Up => \A j \in 1 .. i : t[j] = Up
  BY DEF Plain
<1> HIDE DEF len
<1>3. 0 \in N
  OBVIOUS
<1>4. ASSUME NEW n \in Nat, n \in N PROVE n + 1 \in N
  <2>1. SUFFICES ASSUME n + 1 <= len
                 PROVE  \E k \in 0 .. n + 1 : /\ \A i \in 1 .. k : t[i] = Up
                                              /\ \A i \in k + 1 .. n + 1 : t[i] # Up
    OBVIOUS
  <2>2. CASE t[n + 1] = Up
    <3>1. \A i \in 1 .. n + 1 : t[i] = Up
      BY <1>1, <1>2, <2>1, <2>2
    <3>2. n + 1 \in 0 .. n + 1 /\ \A i \in (n + 1) + 1 .. n + 1 : FALSE
      OBVIOUS
    <3>3. QED
      BY <3>1, <3>2
  <2>3. CASE t[n + 1] # Up
    <3>1. PICK k \in 0 .. n : /\ \A i \in 1 .. k : t[i] = Up
                              /\ \A i \in k + 1 .. n : t[i] # Up
      BY <1>1, <1>4, <2>1
    <3>2. \A i \in k + 1 .. n + 1 : i \in k + 1 .. n \/ i = n + 1
      OBVIOUS
    <3>3. k \in 0 .. n + 1 /\ \A i \in k + 1 .. n + 1 : t[i] # Up
      BY <2>3, <3>1, <3>2
    <3>4. QED
      BY <3>1, <3>3
  <2>4. QED
    BY <2>2, <2>3
<1>5. PICK k \in 0 .. len : /\ \A i \in 1 .. k : t[i] = Up
                            /\ \A i \in k + 1 .. len : t[i] # Up
  <2>1. len \in N
    <3> HIDE DEF N
    <3>1. QED
      BY <1>1, <1>3, <1>4, NatSet
  <2>2. len <= len
    BY <1>1
  <2>3. QED
    BY <2>1, <2>2
<1>6. \A i \in k + 1 .. len : t[i] \in Names
  <2>1. TAKE i \in k + 1 .. len
  <2>2. i \in 1 .. len /\ (i = 1 \/ i \in 2 .. len)
    BY <1>1
  <2>3. QED
    BY <1>1, <1>5, <2>2
<1>7. QED
  BY <1>5, <1>6 DEF UpsFirst, len

(* The names before a plain target lose the last ones to its Ups, and get  *)
(* its names; when there are too few of them, the Ups are what is left.    *)
(* x is what normpath has after n of l + Len(t) names.                     *)
Depth(l, n) == IF n <= l THEN n ELSE l + l - n
Into(p, l, t, k, n, x) ==
    n <= l + k /\ n <= l + l => Len(x) = Depth(l, n) /\ \A i \in 1 .. Depth(l, n) : x[i] = p[i]
Over(p, l, t, k, n, x) == k > l /\ n > l + l => Len(x) # 0 /\ x[1] = Up
Down(p, l, t, k, n, x) ==
    k <= l /\ n >= l + k =>
        /\ Len(x) = n - k - k
        /\ \A i \in 1 .. l - k : x[i] = p[i]
        /\ \A i \in k + 1 .. n - l : x[l - k - k + i] = t[i]
PlainRun(p, l, t, k, n, x) == Into(p, l, t, k, n, x) /\ Over(p, l, t, k, n, x) /\ Down(p, l, t, k, n, x)

UpsOf(p, l, t, len, k) == /\ \A i \in 1 .. l : p[i] # Up
                          /\ \A i \in 1 .. k : t[i] = Up
                          /\ \A i \in k + 1 .. len : t[i] # Up

(* What a name does to what normpath has: y is x with it at the end, x     *)
(* without the last one, or x with an Up.                                  *)
JoinedName(x, name, y) ==
    /\ name # Up => /\ Len(y) = Len(x) + 1 /\ y[Len(x) + 1] = name
                    /\ \A i \in 1 .. Len(x) : y[i] = x[i]
    /\ name = Up /\ Len(x) # 0 /\ x[Len(x)] # Up =>
          Len(y) = Len(x) - 1 /\ \A i \in 1 .. Len(x) - 1 : y[i] = x[i]
    /\ name = Up /\ (Len(x) = 0 \/ x[Len(x)] = Up) =>
          /\ Len(y) = Len(x) + 1 /\ y[Len(x) + 1] = Up
          /\ \A i \in 1 .. Len(x) : y[i] = x[i]

(* This is what normpath does with a name.                                 *)
LEMMA JoinedIs ==
    ASSUME NEW V, Up \in V, NEW x \in Seq(V), NEW name \in V
    PROVE  /\ Joined(x, name, FALSE) \in Seq(V) /\ Len(x) \in Nat
           /\ Len(Joined(x, name, FALSE)) \in Nat /\ JoinedName(x, name, Joined(x, name, FALSE))
<1> DEFINE y == Joined(x, name, FALSE)
           s == Append(x, name)
           r == Front(x)
<1>1. /\ s \in Seq(V) /\ Len(s) = Len(x) + 1 /\ s[Len(x) + 1] = name
      /\ \A i \in 1 .. Len(x) : s[i] = x[i]
  BY AppendProperties
<1>2. x # <<>> => /\ r \in Seq(V) /\ Len(r) = Len(x) - 1 /\ Last(x) = x[Len(x)]
                  /\ \A i \in 1 .. Len(x) - 1 : r[i] = x[i]
  BY Fronts
<1>3. Len(x) \in Nat /\ (Len(x) = 0 <=> x = <<>>)
  OBVIOUS
<1>4. CASE name # Up \/ x = <<>> \/ x[Len(x)] = Up
  <2>1. y = s
    BY <1>2, <1>4 DEF Joined
  <2> HIDE DEF y, s, r
  <2>2. JoinedName(x, name, s)
    BY <1>1, <1>3, <1>4 DEF JoinedName
  <2>3. y \in Seq(V) /\ Len(y) \in Nat /\ JoinedName(x, name, y)
    BY <1>1, <1>3, <2>1, <2>2
  <2>4. QED
    BY <1>3, <2>3 DEF y
<1>5. CASE name = Up /\ x # <<>> /\ x[Len(x)] # Up
  <2>1. y = r
    BY <1>2, <1>5 DEF Joined
  <2> HIDE DEF y, s, r
  <2>2. JoinedName(x, name, r)
    BY <1>2, <1>3, <1>5 DEF JoinedName
  <2>3. Len(r) \in Nat
    BY <1>2, <1>3, <1>5
  <2>4. y \in Seq(V) /\ Len(y) \in Nat /\ JoinedName(x, name, y)
    BY <1>2, <1>5, <2>1, <2>2, <2>3
  <2>5. QED
    BY <1>3, <2>4 DEF y
<1>6. QED
  BY <1>4, <1>5

(* One name more of a path with a plain target.                            *)
LEMMA PlainStep ==
    ASSUME NEW p, NEW t, NEW l \in Nat, NEW len \in Nat, NEW k \in 0 .. len, UpsOf(p, l, t, len, k),
           NEW n \in Nat, n + 1 <= l + len, NEW x, PlainRun(p, l, t, k, n, x),
           NEW name, n + 1 <= l => name = p[n + 1], ~(n + 1 <= l) => name = t[n + 1 - l],
           NEW y, JoinedName(x, name, y), Len(x) \in Nat, Len(y) \in Nat
    PROVE  PlainRun(p, l, t, k, n + 1, y)
<1>1. CASE n + 1 <= l
  <2>1. name = p[n + 1] /\ name # Up
    <3>1. n + 1 \in 1 .. l
      BY <1>1
    <3>2. QED
      BY <1>1, <3>1 DEF UpsOf
  <2>2. Len(x) = n /\ \A i \in 1 .. n : x[i] = p[i]
    <3>1. n <= l + k /\ n <= l + l /\ Depth(l, n) = n
      BY <1>1 DEF Depth
    <3>2. QED
      BY <3>1 DEF PlainRun, Into
  <2>3. Len(y) = n + 1 /\ \A i \in 1 .. n + 1 : y[i] = p[i]
    <3>1. Len(y) = n + 1 /\ y[n + 1] = p[n + 1] /\ \A i \in 1 .. n : y[i] = p[i]
      BY <2>1, <2>2 DEF JoinedName
    <3>2. \A i \in 1 .. n + 1 : i \in 1 .. n \/ i = n + 1
      OBVIOUS
    <3>3. QED
      BY <3>1, <3>2
  <2>4. Into(p, l, t, k, n + 1, y)
    <3>1. Depth(l, n + 1) = n + 1
      BY <1>1 DEF Depth
    <3>2. QED
      BY <2>3, <3>1 DEF Into
  <2>5. Over(p, l, t, k, n + 1, y)
    <3>1. ~(n + 1 > l + l)
      BY <1>1
    <3>2. QED
      BY <3>1 DEF Over
  <2>6. Down(p, l, t, k, n + 1, y)
    <3>1. SUFFICES ASSUME k <= l, n + 1 >= l + k
                   PROVE  /\ Len(y) = n + 1 - k - k
                          /\ \A i \in 1 .. l - k : y[i] = p[i]
                          /\ \A i \in k + 1 .. n + 1 - l : y[l - k - k + i] = t[i]
      BY DEF Down
    <3>2. k = 0 /\ n + 1 = l
      BY <1>1, <3>1
    <3>3. n + 1 = n + 1 - k - k /\ l - k = n + 1 /\ \A i \in k + 1 .. n + 1 - l : FALSE
      BY <3>2
    <3>4. QED
      BY <2>3, <3>3
  <2>7. QED
    BY <2>4, <2>5, <2>6 DEF PlainRun
<1>2. CASE n >= l /\ n + 1 <= l + k /\ n + 1 <= l + l
  <2>1. name = Up
    <3>1. n + 1 - l \in 1 .. k /\ ~(n + 1 <= l)
      BY <1>2
    <3>2. QED
      BY <3>1 DEF UpsOf
  <2>2. Len(x) = l + l - n /\ \A i \in 1 .. l + l - n : x[i] = p[i]
    <3>1. n <= l + k /\ n <= l + l /\ Depth(l, n) = l + l - n
      BY <1>2 DEF Depth
    <3>2. QED
      BY <3>1 DEF PlainRun, Into
  <2>3. Len(x) # 0 /\ x[Len(x)] # Up
    <3>1. l + l - n \in 1 .. l /\ l + l - n \in 1 .. l + l - n
      BY <1>2
    <3>2. x[Len(x)] = p[l + l - n] /\ p[l + l - n] # Up
      BY <2>2, <3>1 DEF UpsOf
    <3>3. QED
      BY <2>2, <3>1, <3>2
  <2>4. Len(y) = l + l - n - 1 /\ \A i \in 1 .. l + l - n - 1 : y[i] = p[i]
    <3>1. Len(y) = Len(x) - 1 /\ \A i \in 1 .. Len(x) - 1 : y[i] = x[i]
      BY <2>1, <2>3 DEF JoinedName
    <3>2. \A i \in 1 .. l + l - n - 1 : i \in 1 .. l + l - n
      BY <1>2
    <3>3. QED
      BY <2>2, <3>1, <3>2
  <2>5. l + l - n - 1 = l + l - (n + 1) /\ ~(n + 1 > l + l)
    BY <1>2
  <2>6. Into(p, l, t, k, n + 1, y)
    <3>1. Depth(l, n + 1) = l + l - n - 1
      BY <1>2 DEF Depth
    <3>2. QED
      BY <2>4, <3>1 DEF Into
  <2>7. Over(p, l, t, k, n + 1, y)
    BY <2>5 DEF Over
  <2>8. Down(p, l, t, k, n + 1, y)
    <3>1. SUFFICES ASSUME k <= l, n + 1 >= l + k
                   PROVE  /\ Len(y) = n + 1 - k - k
                          /\ \A i \in 1 .. l - k : y[i] = p[i]
                          /\ \A i \in k + 1 .. n + 1 - l : y[l - k - k + i] = t[i]
      BY DEF Down
    <3>2. n + 1 = l + k
      BY <1>2, <3>1
    <3>3. /\ l + l - n - 1 = n + 1 - k - k /\ l - k = l + l - n - 1
          /\ \A i \in k + 1 .. n + 1 - l : FALSE
      BY <3>2
    <3>4. QED
      BY <2>4, <3>3
  <2>9. QED
    BY <2>6, <2>7, <2>8 DEF PlainRun
<1>3. CASE k > l /\ n >= l + l
  <2>1. Into(p, l, t, k, n + 1, y) /\ Down(p, l, t, k, n + 1, y)
    <3>1. ~(n + 1 <= l + l) /\ ~(k <= l)
      BY <1>3
    <3>2. QED
      BY <3>1 DEF Into, Down
  <2>2. Len(y) # 0 /\ y[1] = Up
    <3>1. CASE n = l + l
      <4>1. name = Up
        <5>1. n + 1 - l \in 1 .. k /\ ~(n + 1 <= l)
          BY <1>3, <3>1
        <5>2. QED
          BY <5>1 DEF UpsOf
      <4>2. Len(x) = 0
        <5>1. n <= l + k /\ n <= l + l /\ Depth(l, n) = 0
          BY <1>3, <3>1 DEF Depth
        <5>2. QED
          BY <5>1 DEF PlainRun, Into
      <4>3. QED
        BY <4>1, <4>2 DEF JoinedName
    <3>2. CASE n > l + l
      <4>1. Len(x) # 0 /\ x[1] = Up
        BY <1>3, <3>2 DEF PlainRun, Over
      <4>2. CASE name # Up \/ x[Len(x)] = Up
        <5>1. Len(y) = Len(x) + 1 /\ \A i \in 1 .. Len(x) : y[i] = x[i]
          BY <4>2 DEF JoinedName
        <5>2. 1 \in 1 .. Len(x)
          BY <4>1
        <5>3. QED
          BY <4>1, <5>1, <5>2
      <4>3. CASE name = Up /\ x[Len(x)] # Up
        <5>1. Len(y) = Len(x) - 1 /\ \A i \in 1 .. Len(x) - 1 : y[i] = x[i]
          BY <4>1, <4>3 DEF JoinedName
        <5>2. Len(x) # 1
          BY <4>1, <4>3
        <5>3. 1 \in 1 .. Len(x) - 1 /\ Len(x) - 1 # 0
          <6> DEFINE m == Len(x)
          <6>1. m \in Nat /\ m # 0 /\ m # 1
            BY <4>1, <5>2
          <6> HIDE DEF m
          <6>2. 1 \in 1 .. m - 1 /\ m - 1 # 0
            BY <6>1
          <6>3. QED
            BY <6>2 DEF m
        <5>4. y[1] = x[1] /\ Len(y) # 0
          BY <5>1, <5>3
        <5>5. QED
          BY <4>1, <5>4
      <4>4. QED
        BY <4>2, <4>3
    <3>3. QED
      BY <1>3, <3>1, <3>2
  <2>3. QED
    BY <2>1, <2>2 DEF PlainRun, Over
<1>4. CASE k <= l /\ n >= l + k
  <2>1. name = t[n + 1 - l] /\ name # Up
    <3>1. n + 1 - l \in k + 1 .. len /\ ~(n + 1 <= l)
      BY <1>4
    <3>2. QED
      BY <3>1 DEF UpsOf
  <2>2. /\ Len(x) = n - k - k
        /\ \A i \in 1 .. l - k : x[i] = p[i]
        /\ \A i \in k + 1 .. n - l : x[l - k - k + i] = t[i]
    <3>1. Down(p, l, t, k, n, x)
      BY DEF PlainRun
    <3>2. QED
      BY <1>4, <3>1 DEF Down
  <2>3. Len(y) = Len(x) + 1 /\ y[Len(x) + 1] = t[n + 1 - l] /\ \A i \in 1 .. Len(x) : y[i] = x[i]
    BY <2>1 DEF JoinedName
  <2>4. Len(y) = n + 1 - k - k
    <3>1. n - k - k + 1 = n + 1 - k - k
      OBVIOUS
    <3>2. QED
      BY <2>2, <2>3, <3>1
  <2>5. \A i \in 1 .. l - k : y[i] = p[i]
    <3>1. \A i \in 1 .. l - k : i \in 1 .. n - k - k
      BY <1>4
    <3>2. QED
      BY <2>2, <2>3, <3>1
  <2>6. ASSUME NEW i \in k + 1 .. n + 1 - l PROVE y[l - k - k + i] = t[i]
    <3>1. CASE i \in k + 1 .. n - l
      <4>1. l - k - k + i \in 1 .. n - k - k
        BY <1>4, <3>1
      <4>2. QED
        BY <2>2, <2>3, <3>1, <4>1
    <3>2. CASE i = n + 1 - l
      <4>1. l - k - k + i = n - k - k + 1
        BY <3>2
      <4>2. QED
        BY <2>2, <2>3, <3>2, <4>1
    <3>3. QED
      BY <1>4, <2>6, <3>1, <3>2
  <2>7. Down(p, l, t, k, n + 1, y)
    BY <2>4, <2>5, <2>6 DEF Down
  <2>8. Into(p, l, t, k, n + 1, y) /\ Over(p, l, t, k, n + 1, y)
    <3>1. ~(n + 1 <= l + k) /\ ~(k > l)
      BY <1>4
    <3>2. QED
      BY <3>1 DEF Into, Over
  <2>9. QED
    BY <2>7, <2>8 DEF PlainRun
<1>5. n + 1 <= l \/ n >= l
  OBVIOUS
<1>6. k > l => n >= l + l \/ (n + 1 <= l + k /\ n + 1 <= l + l)
  OBVIOUS
<1>7. k <= l => n >= l + k \/ (n + 1 <= l + k /\ n + 1 <= l + l)
  OBVIOUS
<1>8. k > l \/ k <= l
  OBVIOUS
<1>9. QED
  BY <1>1, <1>2, <1>3, <1>4, <1>5, <1>6, <1>7, <1>8

(* What normpath makes of the directory of a link with a plain target.     *)
LEMMA NormalPlain ==
    ASSUME NEW p \in Seq(Names), NEW t \in Seq(Names \cup {Up, Slash}), NEW k, UpsFirst(t, k)
    PROVE  /\ Normal(p \o t) \in Seq(Names \cup {Up, Slash})
           /\ PlainRun(p, Len(p), t, k, Len(p) + Len(t), Normal(p \o t))
<1> DEFINE V == Names \cup {Up, Slash}
           path == p \o t
           l == Len(p)
           len == Len(t)
<1>1. /\ Up \in V /\ p \in Seq(V) /\ t \in Seq(V) /\ l \in Nat /\ len \in Nat /\ k \in 0 .. len
      /\ UpsOf(p, l, t, len, k)
  <2>1. Up \notin Names
    BY ReleaseAssumption
  <2>2. \A i \in 1 .. l : p[i] \in Names
    OBVIOUS
  <2>3. QED
    BY <2>1, <2>2 DEF UpsFirst, UpsOf
<1> HIDE DEF V
<1>2. /\ path \in Seq(V) /\ Len(path) = l + len
      /\ \A i \in 1 .. l + len : (i <= l => path[i] = p[i]) /\ (~(i <= l) => path[i] = t[i - l])
  BY <1>1, ConcatProperties
<1> HIDE DEF path
<1>3. PICK f : /\ Normal(path) = f[l + len] /\ f[0] = <<>>
               /\ \A n \in 1 .. l + len : f[n] = Joined(f[n - 1], path[n], FALSE)
  <2>1. Len(path) \in Nat
    BY <1>1, <1>2
  <2>2. \E f : /\ Normal(path) = f[Len(path)] /\ f[0] = <<>>
               /\ \A n \in 1 .. Len(path) : f[n] = Joined(f[n - 1], path[n], FALSE)
    BY <2>1, NormalRuns
  <2>3. QED
    BY <1>2, <2>2
<1> HIDE DEF l, len
<1> DEFINE N == {n \in Nat : n <= l + len => f[n] \in Seq(V) /\ PlainRun(p, l, t, k, n, f[n])}
<1>4. 0 \in N
  <2>1. Into(p, l, t, k, 0, <<>>) /\ Over(p, l, t, k, 0, <<>>)
    BY <1>1 DEF Into, Over, Depth
  <2>2. Down(p, l, t, k, 0, <<>>)
    BY <1>1 DEF Down
  <2>3. PlainRun(p, l, t, k, 0, <<>>) /\ <<>> \in Seq(V)
    BY <2>1, <2>2 DEF PlainRun
  <2>4. QED
    BY <1>3, <2>3
<1>5. ASSUME NEW n \in Nat, n \in N PROVE n + 1 \in N
  <2>1. SUFFICES ASSUME n + 1 <= l + len
                 PROVE  f[n + 1] \in Seq(V) /\ PlainRun(p, l, t, k, n + 1, f[n + 1])
    OBVIOUS
  <2>2. n + 1 \in 1 .. l + len /\ (n + 1) - 1 = n /\ n <= l + len
    BY <1>1, <2>1
  <2>3. f[n] \in Seq(V) /\ PlainRun(p, l, t, k, n, f[n])
    BY <1>5, <2>2
  <2>4. f[n + 1] = Joined(f[n], path[n + 1], FALSE)
    BY <1>3, <2>2
  <2>5. /\ path[n + 1] \in V
        /\ (n + 1 <= l => path[n + 1] = p[n + 1]) /\ (~(n + 1 <= l) => path[n + 1] = t[n + 1 - l])
    <3>1. n + 1 \in 1 .. Len(path)
      BY <1>2, <2>2
    <3>2. path[n + 1] \in V
      BY <1>2, <3>1
    <3>3. (n + 1 <= l => path[n + 1] = p[n + 1]) /\ (~(n + 1 <= l) => path[n + 1] = t[n + 1 - l])
      <4>1. l \in Nat /\ len \in Nat
        BY <1>1
      <4>2. QED
        BY <1>2, <2>2, <4>1
    <3>4. QED
      BY <3>2, <3>3
  <2>6. QED
    <3>1. /\ f[n + 1] \in Seq(V) /\ JoinedName(f[n], path[n + 1], f[n + 1])
          /\ Len(f[n]) \in Nat /\ Len(f[n + 1]) \in Nat
      BY <1>1, <2>3, <2>4, <2>5, JoinedIs
    <3>2. QED
      BY <1>1, <2>1, <2>3, <2>5, <3>1, PlainStep
<1>6. l + len \in N
  <2> HIDE DEF N
  <2>1. l + len \in Nat
    BY <1>1
  <2>2. QED
    BY <1>4, <1>5, <2>1, NatSet
<1>7. l + len <= l + len
  BY <1>1
<1>8. QED
  BY <1>3, <1>6, <1>7 DEF V, path, l, len
-----------------------------------------------------------------------------
(* A tree on a volume: the nodes of the selection, perhaps with other      *)
(* modes, and the directories above them.                                  *)
IsVolume(vol, tree) ==
    /\ DOMAIN tree \subseteq DOMAIN vol
    /\ \A p \in DOMAIN tree : vol[p].kind = tree[p].kind /\ vol[p].data = tree[p].data
    /\ \A p \in DOMAIN vol \ DOMAIN tree : vol[p].kind = "dir"
    /\ \A p \in DOMAIN vol : /\ IsPath(p)
                            /\ \A q \in Above(p) : q \in DOMAIN vol /\ vol[q].kind = "dir"

(* A walk that has come to at, with rest ahead, stands for the path h of   *)
(* the exporter: h is at, without the last k names, and the names of rest  *)
(* after its k Ups.                                                        *)
Stands(vol, w, k, h) ==
    /\ w = [at |-> w.at, rest |-> w.rest, links |-> w.links] /\ w.links \in Nat
    /\ w.at \in Seq(Names) /\ w.rest \in Seq(Names \cup {Up, Slash}) /\ UpsFirst(w.rest, k)
    /\ k <= Len(w.at)
    /\ h \in Seq(Names) /\ Len(h) = Len(w.at) + Len(w.rest) - k - k
    /\ \A i \in 1 .. Len(w.at) - k : h[i] = w.at[i]
    /\ \A i \in k + 1 .. Len(w.rest) : h[Len(w.at) - k - k + i] = w.rest[i]
    /\ w.at # <<>> => /\ w.at \in DOMAIN vol /\ vol[w.at].kind # "link"
                      /\ w.rest # <<>> => vol[w.at].kind = "dir"

(* A sequence without its first element.                                   *)
LEMMA TailOf ==
    ASSUME NEW V, NEW s \in Seq(V), s # <<>>
    PROVE  /\ Head(s) = s[1] /\ Tail(s) \in Seq(V) /\ Len(Tail(s)) = Len(s) - 1 /\ Len(s) \in Nat \ {0}
           /\ \A i \in 1 .. Len(s) - 1 : Tail(s)[i] = s[i + 1]
<1>1. /\ Head(s) \in V /\ Tail(s) \in Seq(V) /\ Len(Tail(s)) = Len(s) - 1
      /\ \A i \in 1 .. Len(Tail(s)) : Tail(s)[i] = s[i + 1]
  BY HeadTailProperties
<1>2. Head(s) = s[1] /\ Len(s) \in Nat \ {0}
  OBVIOUS
<1>3. QED
  BY <1>1, <1>2

(* When no Up is ahead, the path that the walk stands for goes on from at  *)
(* with the names of rest; next is what it comes to.                       *)
AheadIs(w, h, next) ==
    /\ w.at \in Seq(Names) /\ Len(w.at) \in Nat /\ Len(w.rest) \in Nat \ {0}
    /\ h \in Seq(Names) /\ Len(h) = Len(w.at) + Len(w.rest)
    /\ \A i \in 1 .. Len(w.at) : h[i] = w.at[i]
    /\ \A i \in 1 .. Len(w.rest) : w.rest[i] \in Names /\ h[Len(w.at) + i] = w.rest[i]
    /\ Head(w.rest) = w.rest[1] /\ Tail(w.rest) \in Seq(Names)
    /\ Len(Tail(w.rest)) = Len(w.rest) - 1
    /\ \A i \in 1 .. Len(w.rest) - 1 : Tail(w.rest)[i] = w.rest[i + 1]
    /\ next \in Seq(Names) /\ Len(next) = Len(w.at) + 1 /\ next # <<>>
    /\ \A i \in 1 .. Len(w.at) : next[i] = w.at[i]
    /\ next[Len(w.at) + 1] = w.rest[1]
    /\ Front(next) = w.at
    /\ IF Len(w.rest) = 1 THEN next = h ELSE next \in Above(h)

(* This follows from what the walk stands for.                             *)
LEMMA Ahead ==
    ASSUME NEW vol, NEW w, NEW h, Stands(vol, w, 0, h), w.rest # <<>>
    PROVE  AheadIs(w, h, Append(w.at, w.rest[1]))
<1> DEFINE V == Names \cup {Up, Slash}
           at0 == w.at
           rest == w.rest
           l == Len(at0)
           r == Len(rest)
           tail == Tail(rest)
           next == Append(at0, rest[1])
<1>1. /\ at0 \in Seq(Names) /\ rest \in Seq(V) /\ l \in Nat /\ r \in Nat /\ r # 0
      /\ \A i \in 1 .. r : rest[i] \in Names
      /\ h \in Seq(Names) /\ Len(h) = l + r
      /\ \A i \in 1 .. l : h[i] = at0[i]
      /\ \A i \in 1 .. r : h[l + i] = rest[i]
  <2>1. l \in Nat /\ r \in Nat /\ l - 0 = l /\ l + r - 0 - 0 = l + r /\ l - 0 - 0 = l /\ r # 0
    BY DEF Stands
  <2>2. /\ at0 \in Seq(Names) /\ rest \in Seq(V) /\ UpsFirst(rest, 0)
        /\ h \in Seq(Names) /\ Len(h) = l + r
        /\ \A i \in 1 .. l : h[i] = at0[i]
        /\ \A i \in 0 + 1 .. r : h[l + i] = rest[i]
    BY <2>1 DEF Stands
  <2>3. \A i \in 0 + 1 .. r : rest[i] \in Names
    BY <2>2 DEF UpsFirst
  <2>4. 0 + 1 = 1
    OBVIOUS
  <2> HIDE DEF at0, rest, l, r, V
  <2>5. QED
    BY <2>1, <2>2, <2>3, <2>4
<1>2. /\ Head(rest) = rest[1] /\ tail \in Seq(V) /\ Len(tail) = r - 1
      /\ \A i \in 1 .. r - 1 : tail[i] = rest[i + 1]
  BY <1>1, TailOf
<1>3. tail \in Seq(Names)
  <2> HIDE DEF tail, rest, r
  <2>1. \A i \in 1 .. r - 1 : i + 1 \in 1 .. r
    BY <1>1
  <2>2. \A i \in 1 .. Len(tail) : tail[i] \in Names
    BY <1>1, <1>2, <2>1
  <2>3. QED
    BY <1>2, <2>2
<1>4. rest[1] \in Names
  BY <1>1
<1>5. /\ next \in Seq(Names) /\ Len(next) = l + 1 /\ next # <<>>
      /\ \A i \in 1 .. l : next[i] = at0[i]
      /\ next[l + 1] = rest[1]
  BY <1>1, <1>4, AppendProperties
<1> HIDE DEF next
<1>6. Front(next) = at0
  <2>1. /\ Front(next) \in Seq(Names) /\ Len(Front(next)) = Len(next) - 1
        /\ \A i \in 1 .. Len(next) - 1 : Front(next)[i] = next[i]
    BY <1>5, Fronts
  <2> HIDE DEF at0, l
  <2>2. Len(next) - 1 = l
    BY <1>1, <1>5
  <2>3. Len(Front(next)) = Len(at0) /\ \A i \in 1 .. Len(Front(next)) : Front(next)[i] = at0[i]
    BY <1>5, <2>1, <2>2 DEF l
  <2>4. QED
    BY <1>1, <2>1, <2>3, SameSeq
<1>7. IF r = 1 THEN next = h ELSE next \in Above(h)
  <2> HIDE DEF at0, rest, l, r
  <2>1. h[l + 1] = rest[1]
    BY <1>1
  <2>2. \A i \in 1 .. l + 1 : next[i] = h[i]
    <3>1. \A i \in 1 .. l + 1 : i \in 1 .. l \/ i = l + 1
      BY <1>1
    <3>2. QED
      BY <1>1, <1>5, <2>1, <3>1
  <2>3. CASE r = 1
    <3>1. Len(next) = Len(h)
      BY <1>1, <1>5, <2>3
    <3>2. next = h
      BY <1>1, <1>5, <2>2, <3>1, SameSeq
    <3>3. QED
      BY <2>3, <3>2
  <2>4. CASE r # 1
    <3>1. Len(next) < Len(h)
      BY <1>1, <1>5, <2>4
    <3>2. next \in Above(h)
      BY <1>1, <1>5, <2>2, <3>1, IsAbove
    <3>3. QED
      BY <2>4, <3>2
  <2>5. QED
    BY <2>3, <2>4
<1> HIDE DEF V
<1>8. AheadIs(w, h, next)
  BY <1>1, <1>2, <1>3, <1>5, <1>6, <1>7 DEF AheadIs
<1>9. QED
  BY <1>8 DEF next

(* A step over an Up does not change what the walk stands for.             *)
LEMMA WalkUp ==
    ASSUME NEW vol, NEW tree, IsVolume(vol, tree), NEW w, NEW k, NEW h, Stands(vol, w, k, h), k # 0,
           w # Refused
    PROVE  /\ Stands(vol, WalkStep(vol, w), k - 1, h)
           /\ WalkStep(vol, w).links = w.links /\ Len(WalkStep(vol, w).rest) = Len(w.rest) - 1
<1> DEFINE V == Names \cup {Up, Slash}
           at0 == w.at
           rest == w.rest
           l == Len(at0)
           r == Len(rest)
<1>1. /\ at0 \in Seq(Names) /\ rest \in Seq(V) /\ l \in Nat /\ r \in Nat /\ k \in 1 .. r /\ k <= l
      /\ \A i \in 1 .. k : rest[i] = Up
      /\ \A i \in k + 1 .. r : rest[i] \in Names
      /\ h \in Seq(Names) /\ Len(h) = l + r - k - k
      /\ \A i \in 1 .. l - k : h[i] = at0[i]
      /\ \A i \in k + 1 .. r : h[l - k - k + i] = rest[i]
      /\ at0 \in DOMAIN vol /\ at0 # <<>> /\ rest # <<>> /\ w.links \in Nat
  BY DEF Stands, UpsFirst
<1>2. /\ Front(at0) \in Seq(Names) /\ Len(Front(at0)) = l - 1
      /\ \A i \in 1 .. l - 1 : Front(at0)[i] = at0[i]
  BY <1>1, Fronts
<1>3. /\ Head(rest) = rest[1] /\ Tail(rest) \in Seq(V) /\ Len(Tail(rest)) = r - 1
      /\ \A i \in 1 .. r - 1 : Tail(rest)[i] = rest[i + 1]
  BY <1>1, TailOf
<1>4. WalkStep(vol, w) = [at |-> Front(at0), rest |-> Tail(rest), links |-> w.links]
  <2>1. Head(rest) = Up
    BY <1>1, <1>3
  <2>2. QED
    BY <1>1, <2>1 DEF WalkStep
<1>5. Front(at0) # <<>> => Front(at0) \in DOMAIN vol /\ vol[Front(at0)].kind = "dir"
  BY <1>1, FrontAbove DEF IsVolume
<1> DEFINE front == Front(at0)
           tail == Tail(rest)
<1> HIDE DEF V, at0, rest, l, r, front, tail
<1>6. UpsFirst(tail, k - 1)
  <2>1. k - 1 \in 0 .. Len(tail)
    BY <1>1, <1>3 DEF tail
  <2>2. ASSUME NEW i \in 1 .. k - 1 PROVE tail[i] = Up
    <3>1. i \in 1 .. r - 1 /\ i + 1 \in 1 .. k
      BY <1>1
    <3>2. QED
      BY <1>1, <1>3, <3>1 DEF tail
  <2>3. ASSUME NEW i \in (k - 1) + 1 .. Len(tail) PROVE tail[i] \in Names
    <3>1. i \in 1 .. r - 1 /\ i + 1 \in k + 1 .. r
      BY <1>1, <1>3 DEF tail
    <3>2. QED
      BY <1>1, <1>3, <3>1 DEF tail
  <2>4. QED
    BY <2>1, <2>2, <2>3 DEF UpsFirst
<1>7. /\ k - 1 <= Len(front) /\ Len(h) = Len(front) + Len(tail) - (k - 1) - (k - 1)
      /\ Len(front) - (k - 1) = l - k
  <2>1. Len(front) = l - 1 /\ Len(tail) = r - 1
    BY <1>2, <1>3 DEF front, tail
  <2>2. k \in Nat /\ k <= l /\ l \in Nat /\ r \in Nat /\ Len(h) = l + r - k - k
    BY <1>1
  <2>3. /\ k - 1 <= l - 1 /\ l + r - k - k = (l - 1) + (r - 1) - (k - 1) - (k - 1)
        /\ (l - 1) - (k - 1) = l - k
    BY <2>2
  <2>4. QED
    BY <2>1, <2>2, <2>3
<1>8. \A i \in 1 .. Len(front) - (k - 1) : h[i] = front[i]
  <2>1. \A i \in 1 .. l - k : i \in 1 .. l - 1
    BY <1>1
  <2>2. QED
    BY <1>1, <1>2, <1>7, <2>1 DEF front
<1>9. ASSUME NEW i \in (k - 1) + 1 .. Len(tail)
      PROVE  h[Len(front) - (k - 1) - (k - 1) + i] = tail[i]
  <2>1. /\ i \in 1 .. r - 1 /\ i + 1 \in k + 1 .. r
        /\ Len(front) - (k - 1) - (k - 1) + i = l - k - k + (i + 1)
    BY <1>1, <1>2, <1>3 DEF front, tail
  <2>2. QED
    BY <1>1, <1>3, <2>1 DEF tail
<1> DEFINE u == [at |-> front, rest |-> tail, links |-> w.links]
<1>10. /\ u.at = front /\ u.rest = tail /\ u.links = w.links
       /\ u = [at |-> u.at, rest |-> u.rest, links |-> u.links]
  OBVIOUS
<1>11. Stands(vol, u, k - 1, h)
  <2>1. front \in Seq(Names) /\ tail \in Seq(Names \cup {Up, Slash}) /\ h \in Seq(Names)
    BY <1>1, <1>2, <1>3 DEF front, tail, V
  <2>2. front # <<>> => front \in DOMAIN vol /\ vol[front].kind = "dir" /\ vol[front].kind # "link"
    BY <1>5 DEF front
  <2> HIDE DEF u
  <2>3. QED
    BY <1>1, <1>6, <1>7, <1>8, <1>9, <1>10, <2>1, <2>2 DEF Stands
<1>12. WalkStep(vol, w) = u /\ Len(u.rest) = r - 1
  BY <1>3, <1>4, <1>10 DEF u, front, tail
<1>13. QED
  BY <1>10, <1>11, <1>12 DEF r, rest

(* Neither does a step to an entry that is no link.                        *)
LEMMA WalkDown ==
    ASSUME NEW vol, NEW tree, IsVolume(vol, tree), NEW w, NEW h, Stands(vol, w, 0, h),
           w # Refused, w.rest # <<>>, WalkStep(vol, w) # Refused,
           ~IsLink(vol, Append(w.at, w.rest[1]))
    PROVE  /\ Stands(vol, WalkStep(vol, w), 0, h)
           /\ WalkStep(vol, w).links = w.links /\ Len(WalkStep(vol, w).rest) = Len(w.rest) - 1
<1> DEFINE at0 == w.at
           rest == w.rest
           l == Len(at0)
           r == Len(rest)
           next == Append(at0, rest[1])
           tail == Tail(rest)
<1>0. AheadIs(w, h, next)
  BY Ahead
<1>1. /\ at0 \in Seq(Names) /\ l \in Nat /\ r \in Nat /\ r # 0
      /\ \A i \in 1 .. r : rest[i] \in Names
      /\ h \in Seq(Names) /\ Len(h) = l + r
      /\ \A i \in 1 .. l : h[i] = at0[i]
      /\ \A i \in 1 .. r : h[l + i] = rest[i]
  BY <1>0 DEF AheadIs
<1>2. /\ Head(rest) = rest[1] /\ tail \in Seq(Names) /\ Len(tail) = r - 1
      /\ \A i \in 1 .. r - 1 : tail[i] = rest[i + 1]
  BY <1>0 DEF AheadIs
<1>3. rest[1] \in Names
  BY <1>1
<1>4. /\ next \in Seq(Names) /\ Len(next) = l + 1 /\ next # <<>>
      /\ \A i \in 1 .. l : next[i] = at0[i]
      /\ next[l + 1] = rest[1]
  BY <1>0 DEF AheadIs
<1>5. /\ WalkStep(vol, w) = [at |-> next, rest |-> tail, links |-> w.links]
      /\ next \in DOMAIN vol /\ (r > 1 => vol[next].kind = "dir")
  <2>1. Head(rest) # Up /\ Head(rest) # Slash
    BY <1>2, <1>3, ReleaseAssumption
  <2>2. QED
    BY <1>2, <2>1 DEF WalkStep
<1>6. vol[next].kind # "link"
  BY <1>5 DEF IsLink
<1> HIDE DEF at0, rest, l, r, next, tail
<1>7. Len(next) \in Nat /\ Len(tail) \in Nat /\ Len(h) = Len(next) + Len(tail) - 0 - 0
  BY <1>1, <1>2, <1>4
<1>8. UpsFirst(tail, 0)
  <2>1. \A i \in 1 .. r - 1 : i + 1 \in 1 .. r
    BY <1>1
  <2>2. \A i \in 1 .. r - 1 : tail[i] \in Names
    BY <1>1, <1>2, <2>1
  <2>3. 0 \in 0 .. Len(tail) /\ Len(tail) = r - 1
    BY <1>2, <1>7
  <2>4. QED
    BY <2>2, <2>3 DEF UpsFirst
<1>9. \A i \in 1 .. Len(next) : h[i] = next[i]
  <2>1. \A i \in 1 .. l + 1 : i \in 1 .. l \/ i = l + 1
    BY <1>1
  <2>2. h[l + 1] = rest[1]
    BY <1>1
  <2>3. QED
    BY <1>1, <1>4, <2>1, <2>2
<1>10. ASSUME NEW i \in 1 .. Len(tail) PROVE h[Len(next) + i] = tail[i]
  <2>1. i \in 1 .. r - 1 /\ i + 1 \in 1 .. r /\ Len(next) + i = l + (i + 1)
    BY <1>1, <1>2, <1>4
  <2>2. tail[i] = rest[i + 1] /\ h[l + (i + 1)] = rest[i + 1]
    BY <1>1, <1>2, <2>1
  <2>3. QED
    BY <2>1, <2>2
<1> DEFINE u == [at |-> next, rest |-> tail, links |-> w.links]
<1>11. /\ u.at = next /\ u.rest = tail /\ u.links = w.links
       /\ u = [at |-> u.at, rest |-> u.rest, links |-> u.links]
  OBVIOUS
<1>12. Stands(vol, u, 0, h)
  <2>1. tail # <<>> => r > 1
    <3>1. tail # <<>> => Len(tail) # 0
      BY <1>2
    <3>2. QED
      BY <1>1, <1>2, <3>1
  <2>2. Len(next) - 0 = Len(next) /\ Len(next) - 0 - 0 = Len(next) /\ 0 <= Len(next) /\ 0 + 1 = 1
    BY <1>7
  <2>3. tail \in Seq(Names \cup {Up, Slash}) /\ w.links \in Nat
    BY <1>2 DEF Stands
  <2> HIDE DEF u
  <2>4. QED
    BY <1>1, <1>4, <1>5, <1>6, <1>7, <1>8, <1>9, <1>10, <1>11, <2>1, <2>2, <2>3 DEF Stands
<1>13. WalkStep(vol, w) = u /\ Len(u.rest) = r - 1
  BY <1>2, <1>5, <1>11 DEF u
<1>14. QED
  BY <1>11, <1>12, <1>13 DEF r, rest

(* The exporter looks for the first link on a path it has no entry for,    *)
(* and the file system comes to that one, too.                             *)
LEMMA HopOverLink ==
    ASSUME NEW vol, NEW tree, IsVolume(vol, tree), IsSelection(tree), NEW h \in Seq(Names),
           NEW q \in LinksOf(tree), StaysBelow(tree, q), q = h \/ q \in Above(h)
    PROVE  ExportHop(tree, h) = LinkResolvedPath(q, tree[q].data) \o Suffix(h, Len(q))
<1> DEFINE path == LinkResolvedPath(q, tree[q].data)
<1>1. /\ IsLink(tree, q) /\ q \in DOMAIN tree /\ q # Refused /\ IsPath(q) /\ IsTarget(tree[q].data)
      /\ path # Refused /\ vol[q].kind = "link"
  BY DEF LinksOf, IsLink, IsSelection, StaysBelow, IsVolume
<1>2. path \in Seq(Names \cup {Up, Slash})
  <2>1. path = Normal(Front(q) \o tree[q].data)
    BY <1>1, TargetBelow
  <2>2. Front(q) \in Seq(Names)
    BY <1>1, Fronts DEF IsPath
  <2> DEFINE V == Names \cup {Up, Slash}
  <2>3. Front(q) \in Seq(V) /\ tree[q].data \in Seq(V) /\ Up \in V
    BY <1>1, <2>2 DEF IsTarget
  <2> HIDE DEF V
  <2>4. Front(q) \o tree[q].data \in Seq(V)
    BY <2>3, ConcatProperties
  <2>5. Normal(Front(q) \o tree[q].data) \in Seq(V)
    BY <2>3, <2>4, NormalSame
  <2>6. QED
    BY <2>1, <2>5 DEF V
<1>3. CASE q = h
  <2>1. ExportHop(tree, h) = path
    BY <1>1, <1>3 DEF ExportHop
  <2>2. Suffix(h, Len(q)) = <<>>
    <3>1. Len(h) \in 0 .. Len(h) /\ Len(h) - Len(h) = 0
      OBVIOUS
    <3>2. Suffix(h, Len(h)) \in Seq(Names) /\ Len(Suffix(h, Len(h))) = 0
      BY <3>1, SuffixOf
    <3>3. QED
      BY <1>3, <3>2
  <2> HIDE DEF path
  <2>3. path \o <<>> = path
    BY <1>2, ConcatEmptySeq
  <2>4. QED
    BY <2>1, <2>2, <2>3 DEF path
<1>4. CASE q \in Above(h)
  <2>1. h \notin DOMAIN tree
    BY <1>1, <1>4 DEF IsVolume
  <2>2. h # Refused
    <3>1. h \in Seq(Names \cup {Up, Slash})
      OBVIOUS
    <3>2. QED
      BY <3>1, ReleaseAssumption
  <2> DEFINE linked == {p \in Above(h) : IsLink(tree, p)}
             First(p) == p \in linked /\ \A x \in linked : Len(p) <= Len(x)
  <2>3. \A x \in linked : x \in Above(h) /\ x \in DOMAIN tree /\ vol[x].kind = "link" /\ Len(x) \in Nat
    BY AboveOf DEF IsLink, IsVolume
  <2>4. \A x \in linked : x \notin Above(q)
    BY <1>1, <2>3 DEF IsVolume
  <2>5. ASSUME NEW x \in linked PROVE Len(q) <= Len(x)
    <3>1. /\ x \in Seq(Names) /\ x # <<>> /\ \A i \in 1 .. Len(x) : x[i] = h[i]
          /\ q \in Seq(Names) /\ \A i \in 1 .. Len(q) : q[i] = h[i]
      BY <1>4, <2>3, AboveOf
    <3>2. SUFFICES ASSUME Len(x) < Len(q) PROVE FALSE
      BY <3>1
    <3>3. \A i \in 1 .. Len(x) : i \in 1 .. Len(q)
      BY <3>1, <3>2
    <3>4. \A i \in 1 .. Len(x) : x[i] = q[i]
      BY <3>1, <3>3
    <3>5. x \in Above(q)
      BY <3>1, <3>2, <3>4, IsAbove
    <3>6. QED
      BY <2>4, <3>5
  <2>6. First(q)
    BY <1>1, <1>4, <2>5
  <2>7. ASSUME NEW p, First(p) PROVE p = q
    <3>1. p \in Above(h) /\ Len(p) <= Len(q) /\ Len(q) <= Len(p) /\ Len(p) \in Nat /\ Len(q) \in Nat
      BY <2>3, <2>5, <2>6, <2>7
    <3>2. Len(p) = Len(q)
      BY <3>1
    <3>3. p = SubSeq(h, 1, Len(p)) /\ q = SubSeq(h, 1, Len(q))
      BY <1>4, <3>1, AboveOf
    <3>4. QED
      BY <3>2, <3>3
  <2>8. q = CHOOSE p \in linked : \A x \in linked : Len(p) <= Len(x)
    <3>1. \E p : First(p)
      BY <2>6
    <3>2. First(CHOOSE p : First(p))
      BY <3>1
    <3>3. q = CHOOSE p : First(p)
      BY <2>7, <3>2
    <3>4. (CHOOSE p : First(p)) = CHOOSE p \in linked : \A x \in linked : Len(p) <= Len(x)
      OBVIOUS
    <3>5. QED
      BY <3>3, <3>4
  <2>9. linked # {}
    BY <2>6
  <2>10. ExportHop(tree, h) =
            LET p == CHOOSE p \in linked : \A x \in linked : Len(p) <= Len(x)
                prefix == LinkResolvedPath(p, tree[p].data)
            IN  IF linked = {} \/ prefix = Refused THEN Refused ELSE prefix \o Suffix(h, Len(p))
    BY <2>1, <2>2 DEF ExportHop
  <2> HIDE DEF linked
  <2>11. QED
    BY <1>1, <2>8, <2>9, <2>10
<1>5. QED
  BY <1>3, <1>4

(* The exporter's hop is what the file system's step over a link stands    *)
(* for.                                                                    *)
LEMMA WalkLink ==
    ASSUME NEW vol, NEW tree, IsVolume(vol, tree), IsSelection(tree), NEW w, NEW h, Stands(vol, w, 0, h),
           w # Refused, w.rest # <<>>,
           NEW next, next = Append(w.at, w.rest[1]), next \in LinksOf(tree),
           Plain(tree[next].data), StaysBelow(tree, next), w.links # MaxHops
    PROVE  /\ \E kk : Stands(vol, WalkStep(vol, w), kk, ExportHop(tree, h))
           /\ WalkStep(vol, w).links = w.links + 1
           /\ Len(WalkStep(vol, w).rest) <= Len(w.rest) - 1 + MaxNames
<1> DEFINE V == Names \cup {Up, Slash}
           at0 == w.at
           rest == w.rest
           l == Len(at0)
           r == Len(rest)
           tail == Tail(rest)
           data == tree[next].data
           d == Len(data)
           x == Normal(at0 \o data)
           rem == Suffix(h, l + 1)
           ahead == data \o tail
           h2 == x \o rem
<1>0. AheadIs(w, h, next)
  BY Ahead
<1>1. /\ at0 \in Seq(Names) /\ l \in Nat /\ r \in Nat /\ r # 0
      /\ \A i \in 1 .. r : rest[i] \in Names
      /\ h \in Seq(Names) /\ Len(h) = l + r
      /\ \A i \in 1 .. l : h[i] = at0[i]
      /\ \A i \in 1 .. r : h[l + i] = rest[i]
  BY <1>0 DEF AheadIs
<1>2. at0 # <<>> => at0 \in DOMAIN vol /\ vol[at0].kind # "link" /\ vol[at0].kind = "dir"
  BY DEF Stands
<1>3. /\ Head(rest) = rest[1] /\ tail \in Seq(Names) /\ Len(tail) = r - 1
      /\ \A i \in 1 .. r - 1 : tail[i] = rest[i + 1]
  BY <1>0 DEF AheadIs
<1>4. rest[1] \in Names
  BY <1>1
<1>5. /\ next \in Seq(Names) /\ Len(next) = l + 1 /\ next # <<>>
      /\ \A i \in 1 .. l : next[i] = at0[i]
      /\ next[l + 1] = rest[1]
  BY <1>0 DEF AheadIs
<1>6. /\ next \in DOMAIN tree /\ tree[next].kind = "link" /\ IsPath(next) /\ IsTarget(data)
      /\ next \in DOMAIN vol /\ vol[next].kind = "link" /\ vol[next].data = data
      /\ LinkResolvedPath(next, data) # Refused
  BY DEF LinksOf, IsSelection, IsVolume, StaysBelow
<1>7. WalkStep(vol, w) = [at |-> at0, rest |-> ahead, links |-> w.links + 1]
  <2>1. Head(rest) # Up /\ Head(rest) # Slash
    BY <1>3, <1>4, ReleaseAssumption
  <2>2. IsLink(vol, next)
    BY <1>6 DEF IsLink
  <2>3. QED
    BY <1>3, <1>6, <2>1, <2>2 DEF WalkStep
<1>8. Front(next) = at0
  BY <1>0 DEF AheadIs
<1>9. LinkResolvedPath(next, data) = x /\ Head(data) # Slash /\ x # <<>> /\ Head(x) # Up
  <2>1. LinkResolvedPath(next, data) = Normal(Front(next) \o data) /\ Head(data) # Slash
    BY <1>6, TargetBelow
  <2>2. QED
    BY <1>6, <1>8, <2>1 DEF LinkResolvedPath
<1>10. PICK kk : UpsFirst(data, kk)
  BY <1>6, <1>9, PlainUps
<1>11. data \in Seq(V) /\ d \in Nat /\ kk \in 0 .. d
  BY <1>6, <1>10 DEF IsTarget, UpsFirst
<1>12. x \in Seq(V) /\ PlainRun(at0, l, data, kk, l + d, x)
  BY <1>1, <1>10, <1>11, NormalPlain
<1>13. ExportHop(tree, h) = h2
  <2>1. next = h \/ next \in Above(h)
    BY <1>0 DEF AheadIs
  <2>2. h \in Seq(Names)
    BY <1>1
  <2>3. ExportHop(tree, h) = LinkResolvedPath(next, data) \o Suffix(h, Len(next))
    BY <2>1, <2>2, HopOverLink
  <2>4. QED
    BY <1>5, <1>9, <2>3
<1>14. /\ rem \in Seq(Names) /\ Len(rem) = r - 1
       /\ \A i \in 1 .. r - 1 : rem[i] = tail[i]
  <2> HIDE DEF at0, rest, l, r, tail
  <2>1. l + 1 \in 0 .. Len(h) /\ Len(h) - (l + 1) = r - 1
    BY <1>1
  <2>2. /\ rem \in Seq(Names) /\ Len(rem) = r - 1
        /\ \A i \in 1 .. r - 1 : rem[i] = h[(l + 1) + i]
    <3>1. /\ rem \in Seq(Names) /\ Len(rem) = Len(h) - (l + 1)
          /\ \A i \in 1 .. Len(h) - (l + 1) : rem[i] = h[(l + 1) + i]
      BY <1>1, <2>1, SuffixOf
    <3> HIDE DEF rem
    <3>2. QED
      BY <2>1, <3>1
  <2>3. ASSUME NEW i \in 1 .. r - 1 PROVE rem[i] = tail[i]
    <3>1. i + 1 \in 1 .. r /\ (l + 1) + i = l + (i + 1)
      BY <1>1
    <3>2. h[l + (i + 1)] = rest[i + 1]
      BY <1>1, <3>1
    <3>3. QED
      BY <1>3, <2>2, <3>1, <3>2
  <2>4. QED
    BY <2>2, <2>3
<1> HIDE DEF V, at0, rest, l, r, tail, data, d, x, rem
<1>15. kk <= l
  <2>1. SUFFICES ASSUME kk > l PROVE FALSE
    BY <1>1, <1>11
  <2>2. l + d > l + l
    BY <1>1, <1>11, <2>1
  <2>3. Len(x) # 0 /\ x[1] = Up
    BY <1>12, <2>1, <2>2 DEF PlainRun, Over
  <2>4. Head(x) = x[1]
    BY <1>9, <1>12
  <2>5. QED
    BY <1>9, <2>3, <2>4
<1>nats. /\ l \in Nat /\ d \in Nat /\ r \in Nat /\ r # 0 /\ kk \in Nat
         /\ kk <= l /\ kk <= d
  BY <1>1, <1>11, <1>15
<1>16. /\ Len(x) = l + d - kk - kk
       /\ \A i \in 1 .. l - kk : x[i] = at0[i]
       /\ \A i \in kk + 1 .. d : x[l - kk - kk + i] = data[i]
  <2>1. l + d >= l + kk /\ l + d - l = d
    BY <1>nats
  <2>2. Down(at0, l, data, kk, l + d, x)
    BY <1>12 DEF PlainRun
  <2> DEFINE n == l + d
  <2> HIDE DEF n
  <2>3. Down(at0, l, data, kk, n, x) /\ n >= l + kk
    BY <2>1, <2>2 DEF n
  <2>4. /\ Len(x) = n - kk - kk
        /\ \A i \in 1 .. l - kk : x[i] = at0[i]
        /\ \A i \in kk + 1 .. n - l : x[l - kk - kk + i] = data[i]
    BY <1>15, <2>3 DEF Down
  <2>5. n - l = d /\ n = l + d
    BY <1>nats DEF n
  <2>6. \A i \in kk + 1 .. d : x[l - kk - kk + i] = data[i]
    BY <2>4, <2>5
  <2>7. Len(x) = l + d - kk - kk
    <3>1. n - kk - kk = l + d - kk - kk
      BY <1>nats DEF n
    <3>2. Len(x) = n - kk - kk
      BY <2>4
    <3>3. QED
      BY <3>1, <3>2
  <2>8. QED
    BY <2>4, <2>6, <2>7
<1>17. x \in Seq(Names)
  <2>1. ASSUME NEW i \in 1 .. l + d - kk - kk PROVE x[i] \in Names
    <3>1. CASE i \in 1 .. l - kk
      <4>1. i \in 1 .. l
        BY <1>nats, <3>1
      <4>2. at0[i] \in Names
        BY <1>1, <4>1 DEF l
      <4>3. QED
        BY <1>16, <3>1, <4>2
    <3>2. CASE i > l - kk
      <4> DEFINE j == i - l + kk + kk
      <4>1. j \in kk + 1 .. d /\ l - kk - kk + j = i
        BY <1>nats, <3>2
      <4> HIDE DEF j
      <4>2. x[i] = data[j]
        BY <1>16, <4>1
      <4>3. data[j] \in Names
        BY <1>10, <4>1 DEF UpsFirst, d
      <4>4. QED
        BY <4>2, <4>3
    <3>3. QED
      BY <1>nats, <3>1, <3>2
  <2>2. \A i \in 1 .. Len(x) : x[i] \in Names
    BY <1>16, <2>1
  <2>3. QED
    BY <1>12, <2>2
<1>18. /\ h2 \in Seq(Names) /\ Len(h2) = Len(x) + (r - 1)
       /\ \A i \in 1 .. Len(x) : h2[i] = x[i]
       /\ \A i \in 1 .. r - 1 : h2[Len(x) + i] = tail[i]
  <2>1. /\ h2 \in Seq(Names) /\ Len(h2) = Len(x) + Len(rem)
        /\ \A i \in 1 .. Len(x) + Len(rem) : h2[i] = IF i <= Len(x) THEN x[i] ELSE rem[i - Len(x)]
    BY <1>14, <1>17, ConcatProperties
  <2> DEFINE m == Len(x)
  <2>2. m \in Nat
    BY <1>17
  <2> HIDE DEF m, h2
  <2>3. \A i \in 1 .. m : i \in 1 .. m + (r - 1) /\ i <= m
    BY <1>nats, <2>2
  <2>4. \A i \in 1 .. r - 1 : m + i \in 1 .. m + (r - 1) /\ ~(m + i <= m) /\ m + i - m = i
    BY <1>nats, <2>2
  <2>5. \A i \in 1 .. m + (r - 1) : h2[i] = IF i <= m THEN x[i] ELSE rem[i - m]
    BY <1>14, <2>1 DEF m
  <2>6. \A i \in 1 .. m : h2[i] = x[i]
    BY <2>3, <2>5
  <2>7. ASSUME NEW i \in 1 .. r - 1 PROVE h2[m + i] = tail[i]
    <3> DEFINE j == m + i
    <3>1. j \in 1 .. m + (r - 1) /\ ~(j <= m) /\ j - m = i
      BY <1>nats, <2>2
    <3> HIDE DEF j
    <3>2. h2[j] = rem[j - m]
      BY <2>5, <3>1
    <3>3. rem[i] = tail[i]
      BY <1>14
    <3>4. QED
      BY <3>1, <3>2, <3>3 DEF j
  <2>8. h2 \in Seq(Names) /\ Len(h2) = m + (r - 1)
    BY <1>14, <2>1 DEF m
  <2>9. QED
    BY <2>6, <2>7, <2>8 DEF m
<1>19. /\ ahead \in Seq(V) /\ Len(ahead) = d + (r - 1)
       /\ \A i \in 1 .. d : ahead[i] = data[i]
       /\ \A i \in d + 1 .. d + (r - 1) : ahead[i] = tail[i - d]
  <2>1. /\ ahead \in Seq(V) /\ Len(ahead) = Len(data) + Len(tail)
        /\ \A i \in 1 .. Len(data) + Len(tail) :
               ahead[i] = IF i <= Len(data) THEN data[i] ELSE tail[i - Len(data)]
    <3>1. tail \in Seq(V)
      BY <1>3 DEF V
    <3>2. QED
      BY <1>11, <3>1, ConcatProperties
  <2> HIDE DEF ahead
  <2>2. \A i \in 1 .. d : i \in 1 .. d + (r - 1) /\ i <= d
    BY <1>nats
  <2>3. \A i \in d + 1 .. d + (r - 1) : i \in 1 .. d + (r - 1) /\ ~(i <= d)
    BY <1>nats
  <2>4. \A i \in 1 .. d + (r - 1) : ahead[i] = IF i <= d THEN data[i] ELSE tail[i - d]
    BY <1>3, <2>1 DEF d
  <2>5. Len(ahead) = d + (r - 1)
    BY <1>3, <2>1 DEF d
  <2>6. QED
    BY <2>1, <2>2, <2>3, <2>4, <2>5
<1> HIDE DEF h2, ahead
<1>20. UpsFirst(ahead, kk)
  <2>1. kk \in 0 .. Len(ahead) /\ \A i \in 1 .. kk : i \in 1 .. d
    BY <1>nats, <1>19
  <2>2. \A i \in 1 .. kk : ahead[i] = Up
    BY <1>10, <1>19, <2>1 DEF UpsFirst
  <2>3. ASSUME NEW i \in kk + 1 .. Len(ahead) PROVE ahead[i] \in Names
    <3>1. i \in kk + 1 .. d + (r - 1)
      BY <1>19
    <3>2. CASE i <= d
      <4>1. i \in 1 .. d /\ i \in kk + 1 .. d
        BY <1>nats, <3>1, <3>2
      <4>2. data[i] \in Names
        BY <1>10, <4>1 DEF UpsFirst, d
      <4>3. QED
        BY <1>19, <4>1, <4>2
    <3>3. CASE i > d
      <4>1. i \in d + 1 .. d + (r - 1) /\ i - d \in 1 .. r - 1 /\ i - d + 1 \in 1 .. r
        BY <1>nats, <3>1, <3>3
      <4>2. tail[i - d] \in Names
        BY <1>1, <1>3, <4>1
      <4>3. QED
        BY <1>19, <4>1, <4>2
    <3>4. QED
      BY <1>11, <3>1, <3>2, <3>3
  <2>4. QED
    BY <2>1, <2>2, <2>3 DEF UpsFirst
<1>21. Len(h2) = l + Len(ahead) - kk - kk
  <2>1. (l + d - kk - kk) + (r - 1) = l + (d + (r - 1)) - kk - kk
    BY <1>nats
  <2>2. QED
    BY <1>16, <1>18, <1>19, <2>1
<1>22. \A i \in 1 .. l - kk : h2[i] = at0[i]
  <2>1. \A i \in 1 .. l - kk : i \in 1 .. l + d - kk - kk
    BY <1>nats
  <2>2. QED
    BY <1>16, <1>18, <2>1
<1>23. ASSUME NEW i \in kk + 1 .. Len(ahead) PROVE h2[l - kk - kk + i] = ahead[i]
  <2>1. i \in kk + 1 .. d + (r - 1)
    BY <1>19
  <2>2. CASE i <= d
    <3>1. i \in 1 .. d /\ i \in kk + 1 .. d
      BY <1>11, <2>1, <2>2
    <3>2. l - kk - kk + i \in 1 .. l + d - kk - kk
      BY <1>nats, <3>1
    <3>3. h2[l - kk - kk + i] = x[l - kk - kk + i]
      BY <1>16, <1>18, <3>2
    <3>4. QED
      BY <1>16, <1>19, <3>1, <3>3
  <2>3. CASE i > d
    <3>1. /\ i \in d + 1 .. d + (r - 1) /\ i - d \in 1 .. r - 1
          /\ l - kk - kk + i = l + d - kk - kk + (i - d)
      BY <1>nats, <2>1, <2>3
    <3>2. h2[l + d - kk - kk + (i - d)] = tail[i - d]
      BY <1>16, <1>18, <3>1
    <3>3. QED
      BY <1>19, <3>1, <3>2
  <2>4. QED
    BY <1>11, <2>1, <2>2, <2>3
<1> DEFINE u == [at |-> at0, rest |-> ahead, links |-> w.links + 1]
<1>24. /\ u.at = at0 /\ u.rest = ahead /\ u.links = w.links + 1
       /\ u = [at |-> u.at, rest |-> u.rest, links |-> u.links]
  OBVIOUS
<1>25. Stands(vol, u, kk, h2)
  <2>1. /\ at0 \in Seq(Names) /\ ahead \in Seq(Names \cup {Up, Slash}) /\ h2 \in Seq(Names)
        /\ kk <= Len(at0)
    BY <1>1, <1>15, <1>18, <1>19 DEF V, l
  <2>2. /\ Len(h2) = Len(at0) + Len(ahead) - kk - kk
        /\ \A i \in 1 .. Len(at0) - kk : h2[i] = at0[i]
        /\ \A i \in kk + 1 .. Len(ahead) : h2[Len(at0) - kk - kk + i] = ahead[i]
    BY <1>21, <1>22, <1>23 DEF l
  <2>3. w.links + 1 \in Nat
    BY DEF Stands
  <2> HIDE DEF u
  <2>4. QED
    BY <1>2, <1>20, <1>24, <2>1, <2>2, <2>3 DEF Stands
<1>26. WalkStep(vol, w) = u /\ Len(u.rest) <= r - 1 + MaxNames
  <2>1. d <= MaxNames /\ MaxNames \in Nat
    BY <1>6, StepsNat DEF IsTarget, d
  <2>2. Len(u.rest) = d + (r - 1)
    BY <1>19, <1>24
  <2>3. WalkStep(vol, w) = u
    BY <1>7 DEF u
  <2>4. QED
    BY <1>nats, <2>1, <2>2, <2>3
<1>27. QED
  BY <1>13, <1>24, <1>25, <1>26 DEF u, r, rest

(* A walk stands for its path when it begins, and is there when it ends.   *)
LEMMA WalkBegins ==
    ASSUME NEW vol, NEW p, IsPath(p)
    PROVE  /\ Stands(vol, Walk(p), 0, p) /\ Walk(p) # Refused
           /\ Walk(p).links = 0 /\ Walk(p).rest = p /\ Walk(p).at = <<>>
<1> DEFINE u == Walk(p)
<1>1. /\ u.at = <<>> /\ u.rest = p /\ u.links = 0
      /\ u = [at |-> u.at, rest |-> u.rest, links |-> u.links]
  BY DEF Walk
<1>2. p \in Seq(Names) /\ p \in Seq(Names \cup {Up, Slash}) /\ Len(p) \in Nat /\ Len(<<>>) = 0
  BY DEF IsPath
<1>3. \A i \in 1 .. Len(p) : p[i] \in Names
  BY <1>2
<1>4. 0 + 1 = 1 /\ 0 \in 0 .. Len(p) /\ 0 + Len(p) - 0 - 0 = Len(p) /\ 0 - 0 = 0
      /\ \A i \in 1 .. Len(p) : 0 - 0 - 0 + i = i
  BY <1>2
<1>5. UpsFirst(p, 0)
  BY <1>3, <1>4 DEF UpsFirst
<1>6. u # Refused
  <2>1. <<>> \in Seq(Names)
    OBVIOUS
  <2>2. u \in [at : Seq(Names), rest : Seq(Names \cup {Up, Slash}), links : Nat]
    BY <1>2, <2>1 DEF Walk
  <2> HIDE DEF u
  <2>3. QED
    BY <2>2, ReleaseAssumption
<1> HIDE DEF u
<1>7. Stands(vol, u, 0, p)
  <2>1. \A i \in 1 .. 0 - 0 : p[i] = u.at[i]
    OBVIOUS
  <2>2. \A i \in 0 + 1 .. Len(p) : p[0 - 0 - 0 + i] = p[i]
    BY <1>4
  <2>3. u.at \in Seq(Names) /\ Len(u.at) = 0
    BY <1>1
  <2>4. QED
    BY <1>1, <1>2, <1>4, <1>5, <2>1, <2>2, <2>3 DEF Stands
<1>8. QED
  BY <1>1, <1>6, <1>7 DEF u

(* When nothing is left of its path, a walk is where the path leads.       *)
LEMMA WalkEnds ==
    ASSUME NEW vol, NEW w, NEW k, NEW h, Stands(vol, w, k, h), w.rest = <<>>
    PROVE  w.at = h
<1>1. UpsFirst(<<>>, k) /\ Len(<<>>) = 0
  BY DEF Stands
<1>2. k = 0
  BY <1>1 DEF UpsFirst
<1> DEFINE end == w.at
           l == Len(end)
<1>3. /\ end \in Seq(Names) /\ l \in Nat /\ h \in Seq(Names) /\ Len(h) = l + 0 - 0 - 0
      /\ \A i \in 1 .. l - 0 : h[i] = end[i]
  BY <1>1, <1>2 DEF Stands
<1> HIDE DEF end
<1>4. l + 0 - 0 - 0 = l /\ l - 0 = l
  BY <1>3
<1>5. h = end
  BY <1>3, <1>4, SameSeq
<1>6. QED
  BY <1>5 DEF end

(* Where a link is ahead, a walk only goes on if it may still follow one.  *)
LEMMA FollowsLinks ==
    ASSUME NEW vol, NEW w, NEW h, Stands(vol, w, 0, h), w # Refused, w.rest # <<>>,
           IsLink(vol, Append(w.at, w.rest[1])), WalkStep(vol, w) # Refused
    PROVE  w.links # MaxHops
<1>1. AheadIs(w, h, Append(w.at, w.rest[1]))
  BY Ahead
<1>2. 1 \in 1 .. Len(w.rest)
  BY <1>1 DEF AheadIs
<1>3. w.rest[1] \in Names /\ Head(w.rest) = w.rest[1]
  BY <1>1, <1>2 DEF AheadIs
<1>4. Head(w.rest) # Up /\ Head(w.rest) # Slash
  BY <1>3, ReleaseAssumption
<1>5. QED
  BY <1>3, <1>4 DEF WalkStep, IsLink

(* So where the file system ends up, the exporter does.                    *)
LEMMA WalkedResolves ==
    ASSUME NEW vol, NEW tree, IsVolume(vol, tree), IsSelection(tree), PlainLinks(tree),
           \A q \in LinksOf(tree) : StaysBelow(tree, q),
           NEW p, IsPath(p), Walked(vol, p) \in DOMAIN tree
    PROVE  ResolveSymlinkChain(tree, p) = Walked(vol, p)
<1> DEFINE end == Walked(vol, p)
<1>0. PICK w : IsWalk(vol, p, w)
  BY WalkRuns
<1>1. /\ w[0] = Walk(p)
      /\ \A m \in 1 .. MaxSteps : w[m] = WalkStep(vol, w[m - 1])
      /\ Walked(vol, p) = IF w[MaxSteps] = Refused \/ (w[MaxSteps] # Refused /\ w[MaxSteps].rest # <<>>)
                          THEN Refused ELSE w[MaxSteps].at
  BY <1>0 DEF IsWalk
<1>2. PICK e : /\ e[0] = p /\ \A m \in 1 .. MaxHops : e[m] = ExportHop(tree, e[m - 1])
               /\ ResolveSymlinkChain(tree, p) =
                     IF e[MaxHops] \notin DOMAIN tree \/ IsLink(tree, e[MaxHops]) THEN Refused
                     ELSE e[MaxHops]
  BY ExportRuns
<1> DEFINE Good(n) == \/ w[n] = Refused
                      \/ \E j \in 0 .. MaxHops : w[n].links = j /\ \E k : Stands(vol, w[n], k, e[j])
           N == {n \in Nat : n <= MaxSteps => Good(n)}
<1>3. 0 \in N
  <2>1. Stands(vol, w[0], 0, e[0]) /\ w[0].links = 0
    BY <1>1, <1>2, WalkBegins
  <2>2. 0 \in 0 .. MaxHops
    BY StepsNat
  <2>3. QED
    BY <2>1, <2>2
<1>4. ASSUME NEW n \in Nat, n \in N PROVE n + 1 \in N
  <2>1. SUFFICES ASSUME n + 1 <= MaxSteps, w[n + 1] # Refused
                 PROVE  \E j \in 0 .. MaxHops : w[n + 1].links = j /\ \E k : Stands(vol, w[n + 1], k, e[j])
    OBVIOUS
  <2>2. n + 1 \in 1 .. MaxSteps /\ (n + 1) - 1 = n /\ n <= MaxSteps
    BY <2>1, StepsNat
  <2>3. w[n + 1] = WalkStep(vol, w[n])
    BY <1>1, <2>2
  <2>4. w[n] # Refused
    BY <2>1, <2>3 DEF WalkStep
  <2>hops. PICK j \in 0 .. MaxHops : w[n].links = j /\ \E k : Stands(vol, w[n], k, e[j])
    BY <1>4, <2>2, <2>4
  <2>5. PICK k : w[n].links = j /\ Stands(vol, w[n], k, e[j])
    BY <2>hops
  <2>6. j # MaxHops => j + 1 \in 0 .. MaxHops /\ j + 1 \in 1 .. MaxHops /\ (j + 1) - 1 = j
    BY StepsNat
  <2>7. CASE w[n].rest = <<>>
    <3>1. w[n + 1] = w[n]
      BY <2>3, <2>4, <2>7 DEF WalkStep
    <3>2. QED
      BY <2>5, <3>1
  <2>8. CASE k # 0
    <3>1. /\ Stands(vol, WalkStep(vol, w[n]), k - 1, e[j])
          /\ WalkStep(vol, w[n]).links = w[n].links
      BY <2>4, <2>5, <2>8, WalkUp
    <3>2. QED
      BY <2>3, <2>5, <3>1
  <2>9. CASE k = 0 /\ w[n].rest # <<>>
    <3> DEFINE next == Append(w[n].at, w[n].rest[1])
    <3>1. Stands(vol, w[n], 0, e[j])
      BY <2>5, <2>9
    <3>2. CASE ~IsLink(vol, next)
      <4>1. Stands(vol, w[n + 1], 0, e[j]) /\ w[n + 1].links = j
        BY <2>1, <2>3, <2>4, <2>5, <2>9, <3>1, <3>2, WalkDown
      <4>2. QED
        BY <4>1
    <3>3. CASE IsLink(vol, next)
      <4>1. next \in LinksOf(tree)
        BY <3>3 DEF IsLink, LinksOf, IsVolume
      <4>2. Plain(tree[next].data) /\ StaysBelow(tree, next)
        BY <4>1 DEF PlainLinks
      <4>3. j # MaxHops
        BY <2>1, <2>3, <2>4, <2>5, <2>9, <3>1, <3>3, FollowsLinks
      <4> HIDE DEF next
      <4>4. next = Append(w[n].at, w[n].rest[1])
        BY DEF next
      <4>5. /\ \E kk : Stands(vol, WalkStep(vol, w[n]), kk, ExportHop(tree, e[j]))
            /\ WalkStep(vol, w[n]).links = w[n].links + 1
        BY <2>4, <2>5, <2>9, <3>1, <4>1, <4>2, <4>3, <4>4, WalkLink
      <4>6. e[j + 1] = ExportHop(tree, e[j])
        BY <1>2, <2>6, <4>3
      <4>7. \E kk : Stands(vol, w[n + 1], kk, e[j + 1])
        BY <2>3, <4>5, <4>6
      <4>8. w[n + 1].links = j + 1
        BY <2>3, <2>5, <4>5
      <4>9. QED
        BY <2>6, <4>3, <4>7, <4>8
    <3>4. QED
      BY <3>2, <3>3
  <2>10. QED
    BY <2>7, <2>8, <2>9
<1>5. Good(MaxSteps)
  <2>1. Nat \subseteq N
    <3> HIDE DEF N
    <3>1. QED
      BY <1>3, <1>4, NatSet
  <2>2. MaxSteps \in N /\ MaxSteps <= MaxSteps
    BY <2>1, StepsNat
  <2>3. QED
    BY <2>2
<1>6. end # Refused
  BY DEF IsSelection
<1>7. /\ w[MaxSteps] # Refused /\ w[MaxSteps].rest = <<>> /\ end = w[MaxSteps].at
  BY <1>1, <1>6
<1>hops. PICK j \in 0 .. MaxHops : \E k : Stands(vol, w[MaxSteps], k, e[j])
  BY <1>5, <1>7
<1>8. PICK k : Stands(vol, w[MaxSteps], k, e[j])
  BY <1>hops
<1>9. e[j] = end /\ ~IsLink(tree, end)
  <2>1. e[j] = end
    BY <1>7, <1>8, WalkEnds
  <2>2. end # <<>>
    <3>1. IsPath(end)
      BY DEF IsSelection
    <3> HIDE DEF end
    <3>2. QED
      BY <3>1 DEF IsPath
  <2>3. vol[end].kind # "link"
    BY <1>7, <1>8, <2>2 DEF Stands
  <2>4. QED
    BY <2>1, <2>3 DEF IsLink, IsVolume
<1>10. e[MaxHops] = end
  <2> DEFINE M == {n \in Nat : j <= n /\ n <= MaxHops => e[n] = end}
  <2> HIDE DEF end
  <2>1. ExportHop(tree, end) = end
    BY <1>6, <1>9 DEF ExportHop, end
  <2>2. 0 \in M
    <3>1. j <= 0 => j = 0
      OBVIOUS
    <3>2. QED
      BY <1>9, <3>1
  <2>3. ASSUME NEW n \in Nat, n \in M PROVE n + 1 \in M
    <3>1. SUFFICES ASSUME j <= n + 1, n + 1 <= MaxHops PROVE e[n + 1] = end
      OBVIOUS
    <3>2. n + 1 \in 1 .. MaxHops /\ (n + 1) - 1 = n /\ n <= MaxHops /\ (j = n + 1 \/ j <= n)
      BY <3>1, TreeAssumption
    <3>3. e[n + 1] = ExportHop(tree, e[n])
      BY <1>2, <3>2
    <3>4. QED
      BY <1>9, <2>1, <2>3, <3>2, <3>3
  <2>4. Nat \subseteq M
    <3> HIDE DEF M
    <3>1. QED
      BY <2>2, <2>3, NatSet
  <2>5. QED
    BY <2>4, TreeAssumption
<1>11. QED
  BY <1>2, <1>9, <1>10

(* A path to what is no link leads there.                                  *)
LEMMA WalkedItself ==
    ASSUME NEW vol, NEW tree, IsVolume(vol, tree), NEW p \in DOMAIN vol,
           vol[p].kind # "link"
    PROVE  Walked(vol, p) = p
<1>0. PICK w : IsWalk(vol, p, w)
  BY WalkRuns
<1>1. /\ w[0] = Walk(p)
      /\ \A m \in 1 .. MaxSteps : w[m] = WalkStep(vol, w[m - 1])
      /\ Walked(vol, p) = IF w[MaxSteps] = Refused \/ (w[MaxSteps] # Refused /\ w[MaxSteps].rest # <<>>)
                          THEN Refused ELSE w[MaxSteps].at
  BY <1>0 DEF IsWalk
<1> DEFINE l == Len(p)
<1>2. IsPath(p) /\ p \in Seq(Names) /\ p # <<>> /\ l \in Nat \ {0} /\ l <= MaxSteps
  BY StepsNat DEF IsVolume, IsPath
<1> DEFINE Ahead0(n) == IF n <= l THEN l - n ELSE 0
           Good(n) == /\ w[n] # Refused /\ Stands(vol, w[n], 0, p)
                      /\ Len(w[n].rest) = Ahead0(n)
           N == {n \in Nat : n <= MaxSteps => Good(n)}
<1>3. 0 \in N
  <2>1. Stands(vol, w[0], 0, p) /\ w[0] # Refused /\ w[0].rest = p
    BY <1>1, <1>2, WalkBegins
  <2>2. Ahead0(0) = l
    BY <1>2
  <2>3. QED
    BY <2>1, <2>2
<1>4. ASSUME NEW n \in Nat, n \in N PROVE n + 1 \in N
  <2>1. SUFFICES ASSUME n + 1 <= MaxSteps PROVE Good(n + 1)
    OBVIOUS
  <2>2. n + 1 \in 1 .. MaxSteps /\ (n + 1) - 1 = n /\ n <= MaxSteps
    BY <2>1, StepsNat
  <2>3. w[n + 1] = WalkStep(vol, w[n])
    BY <1>1, <2>2
  <2>4. w[n] # Refused /\ Stands(vol, w[n], 0, p) /\ Len(w[n].rest) = Ahead0(n)
    BY <1>4, <2>2
  <2>5. CASE w[n].rest = <<>>
    <3>1. w[n + 1] = w[n]
      BY <2>3, <2>4, <2>5 DEF WalkStep
    <3>2. Ahead0(n) = 0 /\ Ahead0(n + 1) = 0
      <4>1. Ahead0(n) = 0
        BY <2>4, <2>5
      <4> HIDE DEF l
      <4>2. QED
        BY <1>2, <4>1
    <3>3. QED
      BY <2>4, <3>1, <3>2
  <2>6. CASE w[n].rest # <<>>
    <3> DEFINE next == Append(w[n].at, w[n].rest[1])
               tail == Tail(w[n].rest)
    <3>1. AheadIs(w[n], p, next)
      BY <2>4, <2>6, Ahead
    <3>2. /\ w[n].rest[1] \in Names /\ Head(w[n].rest) = w[n].rest[1]
          /\ Len(w[n].rest) \in Nat \ {0} /\ Len(tail) = Len(w[n].rest) - 1
          /\ next \in Seq(Names) /\ tail \in Seq(Names)
          /\ IF Len(w[n].rest) = 1 THEN next = p ELSE next \in Above(p)
      <4> HIDE DEF next
      <4>1. Len(w[n].rest) \in Nat \ {0}
        BY <3>1 DEF AheadIs
      <4>2. 1 \in 1 .. Len(w[n].rest)
        BY <4>1
      <4>3. QED
        BY <3>1, <4>2 DEF AheadIs
    <3> HIDE DEF next, tail
    <3>3. /\ next \in DOMAIN vol /\ vol[next].kind # "link"
          /\ Len(w[n].rest) > 1 => vol[next].kind = "dir"
      <4>1. \A q \in Above(p) : q \in DOMAIN vol /\ vol[q].kind = "dir"
        BY DEF IsVolume
      <4>2. CASE Len(w[n].rest) = 1
        <5>1. next = p /\ ~(Len(w[n].rest) > 1)
          BY <3>2, <4>2
        <5>2. QED
          BY <5>1
      <4>3. CASE Len(w[n].rest) # 1
        <5>1. next \in Above(p)
          BY <3>2, <4>3
        <5>2. QED
          BY <4>1, <5>1
      <4>4. QED
        BY <4>2, <4>3
    <3>4. w[n + 1] = [at |-> next, rest |-> tail, links |-> w[n].links] /\ ~IsLink(vol, next)
      <4>1. Head(w[n].rest) # Up /\ Head(w[n].rest) # Slash /\ next = Append(w[n].at, Head(w[n].rest))
        BY <3>2, ReleaseAssumption DEF next
      <4>2. ~IsLink(vol, next)
        BY <3>3 DEF IsLink
      <4>3. QED
        BY <2>3, <2>4, <2>6, <3>3, <4>1, <4>2 DEF WalkStep, tail
    <3>5. w[n + 1] # Refused
      <4>1. w[n].links \in Nat /\ tail \in Seq(Names \cup {Up, Slash})
        BY <2>4, <3>2 DEF Stands
      <4>2. w[n + 1] \in [at : Seq(Names), rest : Seq(Names \cup {Up, Slash}), links : Nat]
        BY <3>2, <3>4, <4>1
      <4>3. QED
        BY <4>2, ReleaseAssumption
    <3>6. Stands(vol, WalkStep(vol, w[n]), 0, p)
      BY <2>3, <2>4, <2>6, <3>4, <3>5, WalkDown DEF next
    <3>7. Ahead0(n) - 1 = Ahead0(n + 1)
      <4>1. Ahead0(n) # 0
        BY <2>4, <3>2
      <4> HIDE DEF l
      <4>2. QED
        BY <1>2, <4>1
    <3>8. w[n + 1].rest = tail
      BY <3>4
    <3>9. Len(w[n + 1].rest) = Ahead0(n + 1)
      BY <2>4, <3>2, <3>7, <3>8
    <3>10. QED
      BY <2>3, <3>5, <3>6, <3>9
  <2>7. QED
    BY <2>5, <2>6
<1>5. Good(MaxSteps)
  <2>1. Nat \subseteq N
    <3> HIDE DEF N
    <3>1. QED
      BY <1>3, <1>4, NatSet
  <2>2. MaxSteps \in N /\ MaxSteps <= MaxSteps
    BY <2>1, StepsNat
  <2>3. QED
    BY <2>2
<1>6. w[MaxSteps].rest = <<>>
  <2>1. Ahead0(MaxSteps) = 0
    BY <1>2, StepsNat
  <2>2. Len(w[MaxSteps].rest) = 0
    BY <1>5, <2>1
  <2>3. w[MaxSteps].rest \in Seq(Names \cup {Up, Slash})
    BY <1>5 DEF Stands
  <2>4. QED
    BY <2>2, <2>3
<1>7. w[MaxSteps].at = p
  BY <1>5, <1>6, WalkEnds
<1>8. QED
  BY <1>1, <1>5, <1>6, <1>7
-----------------------------------------------------------------------------
(* What is unpacked is a tree: whatever has something below it is a        *)
(* directory.                                                              *)
StagedInv ==
    \A p \in DOMAIN staged : /\ IsPath(p)
                             /\ \A q \in Above(p) : q \in DOMAIN staged /\ staged[q].kind = "dir"

(* A member is unpacked below directories only, and a directory stays      *)
(* one.                                                                    *)
LEMMA ExtractedIsTree == ASSUME ReleaseInv, StagedInv, ExtractMember PROVE StagedInv'
<1>1. CASE staged' = staged
  BY <1>1 DEF StagedInv
<1>2. CASE staged' # staged
  <2>1. PICK p \in DOMAIN entries :
            /\ ParentsFit(staged, p) /\ ~Collides(p)
            /\ staged' = [q \in {p} \cup DOMAIN WithParents(staged, p) |->
                             IF q = p THEN Stored(WithParents(staged, p), p)
                             ELSE WithParents(staged, p)[q]]
    BY <1>2 DEF ExtractMember
  <2>2. IsSelection(entries)
    <3>1. pc = "extract" /\ outcome = None
      BY DEF ExtractMember, ReleaseInv, StageInv
    <3>2. entries = Selection /\ Accepted
      BY <3>1, OutcomeAssumption DEF ReleaseInv, EntriesInv, Uncollected, Stages, PC
    <3>3. QED
      BY <3>2, SelectionTyped DEF Accepted, ReleaseInv
  <2>3. IsPath(p) /\ p \in Seq(Names) /\ p # <<>> /\ "kind" \in DOMAIN entries[p]
    BY <2>2 DEF IsSelection, IsPath
  <2>4. DOMAIN staged' = {p} \cup DOMAIN staged \cup Above(p)
    BY <2>1 DEF WithParents
  <2>5. ASSUME NEW q \in DOMAIN staged, q # p PROVE staged'[q] = staged[q]
    BY <2>1, <2>5 DEF WithParents
  <2>6. ASSUME NEW q \in Above(p) PROVE q \in DOMAIN staged' /\ staged'[q].kind = "dir"
    <3>1. q # p
      BY <2>3, AboveOf
    <3>2. CASE q \in DOMAIN staged
      BY <2>1, <2>4, <2>5, <3>1, <3>2 DEF ParentsFit
    <3>3. CASE q \notin DOMAIN staged
      <4>1. staged'[q] = [kind |-> "dir", mode |-> volume["dir"][PrivateMode], data |-> None]
        BY <2>1, <3>1, <3>3 DEF WithParents
      <4>2. QED
        BY <2>4, <4>1
    <3>4. QED
      BY <3>2, <3>3
  <2>7. ASSUME p \in DOMAIN staged, staged[p].kind = "dir" PROVE staged'[p].kind = "dir"
    <3>1. entries[p].kind = "dir"
      BY <2>1, <2>7 DEF Collides
    <3>2. Stored(WithParents(staged, p), p) =
              [entries[p] EXCEPT !.mode = volume[entries[p].kind][entries[p].mode]]
      BY <3>1 DEF Stored
    <3>3. QED
      BY <2>1, <2>3, <3>1, <3>2
  <2>8. ASSUME NEW r \in DOMAIN staged'
        PROVE  IsPath(r) /\ \A q \in Above(r) : q \in DOMAIN staged' /\ staged'[q].kind = "dir"
    <3>1. CASE r \in DOMAIN staged
      <4>1. IsPath(r) /\ \A q \in Above(r) : q \in DOMAIN staged /\ staged[q].kind = "dir"
        BY <3>1 DEF StagedInv
      <4>2. QED
        BY <2>4, <2>5, <2>7, <4>1
    <3>2. CASE r \in Above(p)
      <4>1. IsPath(r)
        BY <2>3, <3>2, AboveIsPath
      <4>2. \A q \in Above(r) : q \in Above(p)
        BY <2>3, <3>2, AboveAbove
      <4>3. QED
        BY <2>6, <4>1, <4>2
    <3>3. CASE r = p
      BY <2>3, <2>6, <3>3
    <3>4. QED
      BY <2>4, <3>1, <3>2, <3>3
  <2>9. QED
    BY <2>8 DEF StagedInv
<1>3. QED
  BY <1>1, <1>2

(* So the staged tree is always one.                                       *)
LEMMA StagedAlways == Spec => []StagedInv
<1>1. Init => StagedInv
  BY DEF Init, Empty, StagedInv
<1>2. ASSUME ReleaseInv, StagedInv, [Next]_vars PROVE StagedInv'
  <2>1. CASE ExtractMember
    BY <1>2, <2>1, ExtractedIsTree
  <2>2. CASE UNCHANGED staged
    BY <1>2, <2>2 DEF StagedInv
  <2>3. QED
    BY <1>2, <2>1, <2>2 DEF Next, Audit, Collect, PlaceArchive, ValidateManifest, Probe,
                            ExtractionEnds, Verify, vars, materializer
<1>3. QED
  BY <1>1, <1>2, ReleaseAlways, PTL DEF Spec

(* What is verified is the selection on a volume.                          *)
LEMMA VerifiedVolume ==
    ASSUME ReleaseInv, StagedInv, outcome = "ok"
    PROVE  /\ entries = Selection /\ Accepted /\ TreeVerified /\ Fit(volume) /\ policy = ModePolicy(volume)
           /\ IsSelection(Selection) /\ IsVolume(staged, Selection)
           /\ DOMAIN staged = DOMAIN Selection \cup UNION {Above(p) : p \in DOMAIN Selection}
<1>1. TreeVerified /\ entries = Selection /\ Accepted /\ Fit(volume) /\ policy = ModePolicy(volume)
  BY OutcomeAssumption
     DEF ReleaseInv, StageInv, EntriesInv, Uncollected, VolumeInv, VerifiedInv, Stages, PC
<1>2. IsSelection(Selection)
  BY <1>1, SelectionTyped DEF Accepted, ReleaseInv
<1>3. /\ DOMAIN staged = DOMAIN Selection \cup UNION {Above(p) : p \in DOMAIN Selection}
      /\ \A p \in DOMAIN Selection : staged[p].kind = Selection[p].kind /\ staged[p].data = Selection[p].data
      /\ \A p \in DOMAIN staged \ DOMAIN Selection : staged[p].kind = "dir"
  BY <1>1 DEF TreeVerified
<1>4. IsVolume(staged, Selection)
  BY <1>3 DEF IsVolume, StagedInv
<1>5. QED
  BY <1>1, <1>2, <1>3, <1>4

(* The modes are those of the manifest, as far as they matter.             *)
LEMMA VerifiedModes ==
    ASSUME ReleaseInv, StagedInv, outcome = "ok", NEW p \in DOMAIN Selection
    PROVE  /\ staged[p].mode \notin Special /\ Selection[p].mode \notin Special
           /\ staged[p].kind = "file" =>
                  (staged[p].mode \in Executable <=> Selection[p].mode \in Executable)
<1>1. /\ entries = Selection /\ TreeVerified /\ Fit(volume) /\ policy = ModePolicy(volume)
  BY VerifiedVolume
<1> DEFINE kind == Selection[p].kind
           mode == Selection[p].mode
           x == [kind |-> kind, mode |-> mode]
<1>2. x \in Variants /\ x.kind = kind /\ x.mode = mode
  BY <1>1 DEF Variants
<1>3. staged[p].kind = kind /\ staged[p].mode = policy[x]
  BY <1>1 DEF TreeVerified
<1> HIDE DEF kind, mode, x
<1>4. policy[x] = volume[kind][mode]
  BY <1>1, <1>2 DEF ModePolicy
<1>5. VolumeModeMatches(kind, mode, volume[kind][mode])
  BY <1>1, <1>2 DEF Fit
<1>6. /\ mode \notin Special /\ volume[kind][mode] \notin Special
      /\ kind = "file" => (volume[kind][mode] \in Executable <=> mode \in Executable)
  BY <1>5, ReleaseAssumption DEF VolumeModeMatches
<1>7. QED
  BY <1>3, <1>4, <1>6 DEF kind, mode

(* A walk that does not fail in a part of a tree is the same in the tree.  *)
IsPart(vol, tree) ==
    \A p \in DOMAIN vol : /\ p \in DOMAIN tree /\ vol[p].kind = tree[p].kind
                          /\ vol[p].kind = "link" => vol[p].data = tree[p].data

(* By the steps of the walk: as long as it has not failed, it is at the    *)
(* same place in both.                                                     *)
LEMMA WalkedInPart ==
    ASSUME NEW vol, NEW tree, IsPart(vol, tree), NEW p, Walked(vol, p) # Refused
    PROVE  Walked(tree, p) = Walked(vol, p)
<1>0. /\ \E w : IsWalk(vol, p, w)
      /\ \E v : IsWalk(tree, p, v)
  BY WalkRuns
<1>1. PICK w : IsWalk(vol, p, w)
  BY <1>0
<1>2. PICK v : IsWalk(tree, p, v)
  BY <1>0
<1>3. ASSUME NEW u, WalkStep(vol, u) # Refused PROVE WalkStep(tree, u) = WalkStep(vol, u)
  <2> DEFINE next == Append(u.at, Head(u.rest))
  <2>1. u # Refused
    BY <1>3 DEF WalkStep
  <2>2. CASE u.rest = <<>> \/ Head(u.rest) = Up
    BY <2>1, <2>2 DEF WalkStep
  <2>3. CASE u.rest # <<>> /\ Head(u.rest) # Up
    <3>1. next \in DOMAIN vol /\ Head(u.rest) # Slash
      <4>1. WalkStep(vol, u) =
                CASE Head(u.rest) = Slash \/ next \notin DOMAIN vol -> Refused
                  [] Head(u.rest) # Slash /\ IsLink(vol, next) ->
                       IF u.links = MaxHops THEN Refused
                       ELSE [at |-> u.at, rest |-> vol[next].data \o Tail(u.rest),
                             links |-> u.links + 1]
                  [] OTHER -> IF vol[next].kind # "dir" /\ Len(u.rest) > 1 THEN Refused
                              ELSE [at |-> next, rest |-> Tail(u.rest), links |-> u.links]
        BY <2>1, <2>3 DEF WalkStep
      <4> HIDE DEF next
      <4>2. CASE Head(u.rest) = Slash \/ next \notin DOMAIN vol
        <5>1. ~IsLink(vol, next) \/ next \in DOMAIN vol
          BY DEF IsLink
        <5>2. QED
          BY <1>3, <4>1, <4>2, <5>1
      <4>3. QED
        BY <4>2
    <3>2. /\ next \in DOMAIN tree /\ vol[next].kind = tree[next].kind
          /\ vol[next].kind = "link" => vol[next].data = tree[next].data
      BY <3>1 DEF IsPart
    <3>3. QED
      BY <2>1, <2>3, <3>1, <3>2 DEF WalkStep, IsLink
  <2>4. QED
    BY <2>2, <2>3
<1> DEFINE N == {n \in Nat : n <= MaxSteps => w[n] = Refused \/ v[n] = w[n]}
<1>4. 0 \in N
  BY <1>1, <1>2 DEF IsWalk
<1>5. ASSUME NEW n \in Nat, n \in N PROVE n + 1 \in N
  <2>1. SUFFICES ASSUME n + 1 <= MaxSteps PROVE w[n + 1] = Refused \/ v[n + 1] = w[n + 1]
    OBVIOUS
  <2>2. n + 1 \in 1 .. MaxSteps /\ (n + 1) - 1 = n /\ n <= MaxSteps
    BY <2>1, StepsNat
  <2>3. w[n + 1] = WalkStep(vol, w[n]) /\ v[n + 1] = WalkStep(tree, v[n])
    BY <1>1, <1>2, <2>2 DEF IsWalk
  <2>4. CASE w[n] = Refused
    BY <2>3, <2>4 DEF WalkStep
  <2>5. CASE w[n] # Refused
    <3>1. v[n] = w[n]
      BY <1>5, <2>2, <2>5
    <3>2. QED
      BY <1>3, <2>3, <3>1
  <2>6. QED
    BY <2>4, <2>5
<1>6. w[MaxSteps] = Refused \/ v[MaxSteps] = w[MaxSteps]
  <2>1. Nat \subseteq N
    <3> HIDE DEF N
    <3>1. QED
      BY <1>4, <1>5, NatSet
  <2>2. QED
    BY <2>1, StepsNat
<1>7. QED
  BY <1>1, <1>2, <1>6 DEF IsWalk

(* Without links on the way to an included file, the selection is a part   *)
(* of the image.                                                           *)
LEMMA SelectionInImage ==
    ASSUME SourceInv, \A f \in included : InPlace(f)
    PROVE  \A p \in DOMAIN Selection : p \in DOMAIN source /\ Selection[p] = source[p]
<1>1. ASSUME NEW f \in included PROVE f \in DOMAIN source
  <2>1. Append(Front(f), Last(f)) \in DOMAIN source
    BY DEF InPlace, IsFile, Present
  <2>2. f \in Seq(Names) /\ f # <<>>
    BY ReleaseAssumption DEF SourceInv, IsPath
  <2>3. QED
    BY <2>1, <2>2, FrontLast
<1>2. DOMAIN Selection \subseteq DOMAIN source
  BY <1>1, EntriesInTree DEF Selection
<1>3. QED
  BY <1>2 DEF Selection, Entries

(* What is materialized is the selection, on any volume: nothing is lost   *)
(* or added, and programs are programs; every link leads where it led in   *)
(* the image, if no file is included through one; with plain links, the    *)
(* entrypoint leads to a program.                                          *)
THEOREM Materialized == Spec => []MaterializedIsImage
<1>1. ASSUME ReleaseInv, StagedInv PROVE MaterializedIsImage
  <2>1. SUFFICES ASSUME outcome = "ok"
                 PROVE  LET tree == Selection
                        IN  /\ {p \in DOMAIN staged : staged[p].kind # "dir"} =
                                   {p \in DOMAIN tree : tree[p].kind # "dir"}
                            /\ \A p \in DOMAIN tree :
                                   /\ staged[p].kind = tree[p].kind /\ staged[p].data = tree[p].data
                                   /\ (staged[p].mode \in Special) = (tree[p].mode \in Special)
                                   /\ staged[p].kind = "file" =>
                                          (staged[p].mode \in Executable) = (tree[p].mode \in Executable)
                            /\ (\A f \in included : InPlace(f)) =>
                                   \A p \in LinksOf(tree) : Walked(staged, p) = Walked(source, p)
                            /\ PlainLinks(tree) => IsProgram(staged, Walked(staged, Entrypoint))
    BY DEF MaterializedIsImage
  <2>2. /\ entries = Selection /\ Accepted /\ TreeVerified
        /\ IsSelection(Selection) /\ IsVolume(staged, Selection)
        /\ DOMAIN staged = DOMAIN Selection \cup UNION {Above(p) : p \in DOMAIN Selection}
    BY <1>1, <2>1, VerifiedVolume
  <2>3. {p \in DOMAIN staged : staged[p].kind # "dir"} = {p \in DOMAIN Selection : Selection[p].kind # "dir"}
    BY <2>2 DEF IsVolume
  <2>4. ASSUME NEW p \in DOMAIN Selection
        PROVE  /\ staged[p].kind = Selection[p].kind /\ staged[p].data = Selection[p].data
               /\ (staged[p].mode \in Special) = (Selection[p].mode \in Special)
               /\ staged[p].kind = "file" =>
                      (staged[p].mode \in Executable) = (Selection[p].mode \in Executable)
    <3>1. /\ staged[p].mode \notin Special /\ Selection[p].mode \notin Special
          /\ staged[p].kind = "file" =>
                 (staged[p].mode \in Executable <=> Selection[p].mode \in Executable)
      BY <1>1, <2>1, VerifiedModes
    <3>2. staged[p].kind = Selection[p].kind /\ staged[p].data = Selection[p].data
      BY <2>2 DEF IsVolume
    <3>3. QED
      BY <3>1, <3>2
  <2>5. ASSUME NEW p \in LinksOf(Selection)
        PROVE  Walked(staged, p) \in DOMAIN Selection /\ Walked(staged, p) # Refused
    <3>1. p \in DOMAIN Selection /\ staged[p].kind = "link"
      BY <2>2 DEF LinksOf, IsVolume
    <3>2. Walked(staged, p) \in DOMAIN Selection
      BY <2>2, <3>1 DEF TreeVerified, VerifySymlinkInside
    <3>3. QED
      BY <2>2, <3>2 DEF IsSelection
  <2>6. ASSUME \A f \in included : InPlace(f), NEW p \in LinksOf(Selection)
        PROVE  Walked(staged, p) = Walked(source, p)
    <3>1. \A q \in DOMAIN Selection : q \in DOMAIN source /\ Selection[q] = source[q]
      BY <1>1, <2>6, SelectionInImage DEF ReleaseInv
    <3>2. \A q \in DOMAIN source : \A r \in Above(q) : r \in DOMAIN source /\ source[r].kind = "dir"
      BY <1>1, ReleaseAssumption DEF ReleaseInv, SourceInv, IsTree
    <3>3. ASSUME NEW q \in DOMAIN staged
          PROVE  /\ q \in DOMAIN source /\ staged[q].kind = source[q].kind
                 /\ staged[q].kind = "link" => staged[q].data = source[q].data
      <4>1. CASE q \in DOMAIN Selection
        BY <2>2, <3>1, <4>1 DEF IsVolume
      <4>2. CASE q \notin DOMAIN Selection
        <5>1. PICK r \in DOMAIN Selection : q \in Above(r)
          BY <2>2, <4>2
        <5>2. q \in DOMAIN source /\ source[q].kind = "dir"
          BY <3>1, <3>2, <5>1
        <5>3. staged[q].kind = "dir"
          BY <2>2, <4>2 DEF IsVolume
        <5>4. QED
          BY <5>2, <5>3
      <4>3. QED
        BY <4>1, <4>2
    <3>4. IsPart(staged, source)
      BY <3>3 DEF IsPart
    <3>5. QED
      BY <2>5, <3>4, WalkedInPart
  <2>7. ASSUME PlainLinks(Selection) PROVE IsProgram(staged, Walked(staged, Entrypoint))
    <3> DEFINE end == ResolveSymlinkChain(Selection, Entrypoint)
    <3>1. /\ Entrypoint \in DOMAIN Selection /\ IsPath(Entrypoint)
          /\ end # Refused /\ Selection[end].kind = "file" /\ Selection[end].mode \in Executable
          /\ \A q \in LinksOf(Selection) : StaysBelow(Selection, q)
      BY <2>2, ReleaseAssumption DEF Accepted, IsProgram, LinksClosed, LinksOf, StaysBelow
    <3>2. end \in DOMAIN Selection
      BY <3>1 DEF ResolveSymlinkChain
    <3>3. CASE Entrypoint \in LinksOf(Selection)
      <4>1. end = Walked(staged, Entrypoint)
        BY <2>2, <2>5, <2>7, <3>1, <3>3, WalkedResolves
      <4>2. QED
        BY <2>4, <3>1, <3>2, <4>1 DEF IsProgram
    <3>4. CASE Entrypoint \notin LinksOf(Selection)
      <4>1. staged[Entrypoint].kind # "link" /\ Entrypoint \in DOMAIN staged
        BY <2>2, <3>1, <3>4 DEF LinksOf, IsVolume
      <4>2. Walked(staged, Entrypoint) = Entrypoint
        BY <2>2, <3>1, <4>1, WalkedItself
      <4>3. Entrypoint # Refused
        BY <2>2, <3>1 DEF IsSelection
      <4>4. end = Entrypoint
        BY <2>2, <2>7, <3>1, <4>2, WalkedResolves
      <4>5. QED
        BY <2>4, <3>1, <4>2, <4>3, <4>4 DEF IsProgram
    <3>5. QED
      BY <3>3, <3>4
  <2>8. QED
    BY <2>3, <2>4, <2>6, <2>7
<1>2. QED
  BY <1>1, ReleaseAlways, StagedAlways, PTL
-----------------------------------------------------------------------------
(* A walk with more Ups ahead than it has names, or with as many and       *)
(* nothing after them, comes to no entry.                                  *)
Climbs(u) == /\ u.at \in Seq(Names) /\ u.rest \in Seq(Names \cup {Up, Slash})
             /\ \E k \in 0 .. Len(u.rest) :
                    /\ \A i \in 1 .. k : u.rest[i] = Up
                    /\ k > Len(u.at) \/ (k = Len(u.at) /\ k = Len(u.rest))

(* It stays like this from step to step.                                   *)
LEMMA ClimbsOn ==
    ASSUME NEW vol, NEW u, u # Refused, Climbs(u), WalkStep(vol, u) # Refused
    PROVE  Climbs(WalkStep(vol, u))
<1> DEFINE V == Names \cup {Up, Slash}
           at0 == u.at
           rest == u.rest
           tail == Tail(rest)
           front == Front(at0)
           l == Len(at0)
           r == Len(rest)
<1>1. at0 \in Seq(Names) /\ rest \in Seq(V) /\ l \in Nat /\ r \in Nat
  BY DEF Climbs
<1>2. PICK k \in 0 .. r : (\A i \in 1 .. k : rest[i] = Up) /\ (k > l \/ (k = l /\ k = r))
  BY DEF Climbs
<1>3. CASE rest = <<>>
  <2>1. WalkStep(vol, u) = u
    BY <1>3 DEF WalkStep
  <2>2. QED
    BY <2>1
<1>4. CASE rest # <<>>
  <2>1. /\ Head(rest) = rest[1] /\ tail \in Seq(V) /\ Len(tail) = r - 1 /\ r # 0
        /\ \A i \in 1 .. r - 1 : tail[i] = rest[i + 1]
    BY <1>1, <1>4, TailOf
  <2>2. k # 0
    <3> HIDE DEF at0, rest, l, r
    <3>1. QED
      BY <1>1, <1>2, <2>1
  <2>3. Head(rest) = Up
    BY <1>2, <2>1, <2>2
  <2>4. at0 # <<>> /\ WalkStep(vol, u) = [at |-> front, rest |-> tail, links |-> u.links]
    BY <1>4, <2>3 DEF WalkStep
  <2>5. front \in Seq(Names) /\ Len(front) = l - 1
    BY <1>1, <2>4, Fronts
  <2> DEFINE next == [at |-> front, rest |-> tail, links |-> u.links]
  <2>6. next.at = front /\ next.rest = tail
    OBVIOUS
  <2> HIDE DEF V, at0, rest, tail, front, l, r, next
  <2>7. k - 1 \in 0 .. Len(tail) /\ (k - 1 > Len(front) \/ (k - 1 = Len(front) /\ k - 1 = Len(tail)))
    <3>1. l \in Nat /\ r \in Nat /\ k \in 0 .. r /\ k # 0
      BY <1>1, <2>2
    <3>2. k > l \/ (k = l /\ k = r)
      BY <1>2
    <3>3. k - 1 \in 0 .. r - 1 /\ (k - 1 > l - 1 \/ (k - 1 = l - 1 /\ k - 1 = r - 1))
      BY <3>1, <3>2
    <3>4. Len(tail) = r - 1 /\ Len(front) = l - 1
      BY <2>1, <2>5
    <3>5. QED
      BY <3>3, <3>4
  <2>8. ASSUME NEW i \in 1 .. k - 1 PROVE tail[i] = Up
    <3>1. i \in 1 .. r - 1 /\ i + 1 \in 1 .. k
      BY <1>1, <1>2, <2>2
    <3>2. QED
      BY <1>2, <2>1, <3>1
  <2>9. Climbs(next)
    <3>1. tail \in Seq(Names \cup {Up, Slash})
      BY <2>1 DEF V
    <3>2. QED
      BY <2>5, <2>6, <2>7, <2>8, <3>1 DEF Climbs
  <2>10. QED
    BY <2>4, <2>9 DEF next
<1>5. QED
  BY <1>3, <1>4

(* So a plain link that leads to an entry does not climb over the root.    *)
LEMMA LeadsBelow ==
    ASSUME NEW vol, NEW tree, IsVolume(vol, tree), IsSelection(tree),
           NEW p \in LinksOf(tree), Plain(tree[p].data), Head(tree[p].data) # Slash,
           Walked(vol, p) \in DOMAIN tree
    PROVE  StaysBelow(tree, p)
<1> DEFINE front == Front(p)
           data == tree[p].data
           l == Len(front)
           d == Len(data)
           x == Normal(front \o data)
<1>1. /\ p \in DOMAIN tree /\ IsPath(p) /\ p \in Seq(Names) /\ p # <<>> /\ IsTarget(data)
      /\ vol[p].kind = "link" /\ vol[p].data = data /\ p \in DOMAIN vol
      /\ \A q \in Above(p) : q \in DOMAIN vol /\ vol[q].kind = "dir"
  BY DEF LinksOf, IsSelection, IsVolume, IsPath
<1>2. PICK kk : UpsFirst(data, kk)
  BY <1>1, PlainUps
<1>3. front \in Seq(Names) /\ l \in Nat /\ d \in Nat /\ kk \in 0 .. d /\ data \in Seq(Names \cup {Up, Slash})
  BY <1>1, <1>2, Fronts DEF UpsFirst, IsTarget
<1>4. x \in Seq(Names \cup {Up, Slash}) /\ PlainRun(front, l, data, kk, l + d, x)
  BY <1>2, <1>3, NormalPlain
<1>5. SUFFICES ASSUME x = <<>> \/ Head(x) = Up PROVE FALSE
  <2>1. x # Refused
    BY <1>4, ReleaseAssumption
  <2>2. LinkResolvedPath(p, data) = IF Head(data) = Slash \/ x = <<>> \/ Head(x) = Up THEN Refused ELSE x
    BY DEF LinkResolvedPath
  <2> HIDE DEF x
  <2>3. QED
    BY <2>1, <2>2 DEF StaysBelow
<1> HIDE DEF front, data, l, d, x
<1>6. kk > l \/ (kk = l /\ kk = d)
  <2>1. SUFFICES ASSUME kk <= l PROVE kk = l /\ kk = d
    BY <1>3
  <2> DEFINE n == l + d
  <2> HIDE DEF n
  <2>2. Down(front, l, data, kk, n, x)
    BY <1>4 DEF PlainRun, n
  <2>3. n >= l + kk /\ n \in Nat /\ n - l = d
    BY <1>3 DEF n
  <2>4. /\ Len(x) = n - kk - kk
        /\ \A i \in 1 .. l - kk : x[i] = front[i]
        /\ \A i \in kk + 1 .. n - l : x[l - kk - kk + i] = data[i]
    BY <2>1, <2>2, <2>3 DEF Down
  <2>5. SUFFICES ASSUME ~(kk = l /\ kk = d) PROVE FALSE
    OBVIOUS
  <2>6. Len(x) # 0
    <3>1. n - kk - kk # 0
      BY <1>3, <2>1, <2>5 DEF n
    <3>2. QED
      BY <2>4, <3>1
  <2>7. x # <<>> /\ Head(x) = x[1]
    BY <1>4, <2>6
  <2>8. x[1] \in Names
    <3>1. CASE kk < l
      <4>1. 1 \in 1 .. l - kk /\ 1 \in 1 .. l
        BY <1>3, <3>1
      <4>2. x[1] = front[1] /\ front[1] \in Names
        BY <1>3, <2>4, <4>1 DEF l
      <4>3. QED
        BY <4>2
    <3>2. CASE kk = l
      <4>1. kk + 1 \in kk + 1 .. d /\ l - kk - kk + (kk + 1) = 1
        BY <1>3, <2>5, <3>2
      <4>2. x[1] = data[kk + 1]
        BY <2>3, <2>4, <4>1
      <4>3. data[kk + 1] \in Names
        BY <1>2, <4>1 DEF UpsFirst, d
      <4>4. QED
        BY <4>2, <4>3
    <3>3. QED
      BY <1>3, <2>1, <3>1, <3>2
  <2>9. QED
    BY <1>5, <2>7, <2>8, ReleaseAssumption
<1>7. PICK w : IsWalk(vol, p, w)
  BY WalkRuns
<1> DEFINE Good(n) == \/ w[n] = Refused
                      \/ Climbs(w[n])
                      \/ Stands(vol, w[n], 0, p) /\ w[n].rest # <<>>
           N == {n \in Nat : n <= MaxSteps => Good(n)}
<1>8. 0 \in N
  <2>1. w[0] = Walk(p) /\ Stands(vol, Walk(p), 0, p)
    BY <1>1, <1>7, WalkBegins DEF IsWalk
  <2>2. w[0].rest # <<>>
    BY <1>1, <2>1, WalkBegins
  <2>3. QED
    BY <2>1, <2>2
<1>9. ASSUME NEW n \in Nat, n \in N PROVE n + 1 \in N
  <2>1. SUFFICES ASSUME n + 1 <= MaxSteps, w[n + 1] # Refused PROVE Good(n + 1)
    OBVIOUS
  <2>2. n + 1 \in 1 .. MaxSteps /\ (n + 1) - 1 = n /\ n <= MaxSteps
    BY <2>1, StepsNat
  <2>3. w[n + 1] = WalkStep(vol, w[n])
    BY <1>7, <2>2 DEF IsWalk
  <2>4. w[n] # Refused
    BY <2>1, <2>3 DEF WalkStep
  <2>5. CASE Climbs(w[n])
    BY <2>1, <2>3, <2>4, <2>5, ClimbsOn
  <2>6. CASE Stands(vol, w[n], 0, p) /\ w[n].rest # <<>>
    <3> DEFINE next == Append(w[n].at, w[n].rest[1])
               r == Len(w[n].rest)
               tail == Tail(w[n].rest)
    <3>1. AheadIs(w[n], p, next)
      BY <2>6, Ahead
    <3> HIDE DEF next
    <3>2. /\ r \in Nat \ {0} /\ w[n].rest[1] \in Names /\ Head(w[n].rest) = w[n].rest[1]
          /\ tail \in Seq(Names) /\ Len(tail) = r - 1
          /\ Front(next) = w[n].at
          /\ IF r = 1 THEN next = p ELSE next \in Above(p)
      <4>1. r \in Nat \ {0}
        BY <3>1 DEF AheadIs
      <4>2. 1 \in 1 .. r
        BY <4>1
      <4>3. QED
        BY <3>1, <4>2 DEF AheadIs
    <3>3. Head(w[n].rest) # Up /\ Head(w[n].rest) # Slash /\ next = Append(w[n].at, Head(w[n].rest))
      BY <3>2, ReleaseAssumption DEF next
    <3>4. CASE r = 1
      <4>1. next = p /\ IsLink(vol, next) /\ next \in DOMAIN vol /\ vol[next].data = data
        BY <1>1, <3>2, <3>4 DEF IsLink
      <4>2. WalkStep(vol, w[n]) = [at |-> w[n].at, rest |-> vol[next].data \o tail, links |-> w[n].links + 1]
        BY <2>1, <2>3, <2>4, <2>6, <3>3, <4>1 DEF WalkStep
      <4>3. tail = <<>> /\ data \o <<>> = data
        <5> HIDE DEF r, tail
        <5>1. tail = <<>>
          BY <3>2, <3>4
        <5>2. QED
          BY <1>3, <5>1, ConcatEmptySeq
      <4>4. w[n + 1] = [at |-> front, rest |-> data, links |-> w[n].links + 1]
        BY <2>3, <3>2, <4>1, <4>2, <4>3 DEF front
      <4> DEFINE u == [at |-> front, rest |-> data, links |-> w[n].links + 1]
      <4>5. u.at = front /\ u.rest = data
        OBVIOUS
      <4> HIDE DEF u
      <4>6. Climbs(u)
        <5>1. \A i \in 1 .. kk : data[i] = Up
          BY <1>2 DEF UpsFirst
        <5>2. QED
          BY <1>3, <1>6, <4>5, <5>1 DEF Climbs, l, d
      <4>7. QED
        BY <4>4, <4>6 DEF u
    <3>5. CASE r # 1
      <4>1. next \in DOMAIN vol /\ vol[next].kind = "dir" /\ ~IsLink(vol, next)
        BY <1>1, <3>2, <3>5 DEF IsLink
      <4>2. WalkStep(vol, w[n]) = [at |-> next, rest |-> tail, links |-> w[n].links]
        BY <2>4, <2>6, <3>3, <4>1 DEF WalkStep
      <4>3. Stands(vol, WalkStep(vol, w[n]), 0, p)
        BY <2>1, <2>3, <2>4, <2>6, <4>1, WalkDown DEF next
      <4>4. w[n + 1].rest = tail
        BY <2>3, <4>2
      <4>5. tail # <<>>
        <5> HIDE DEF r, tail
        <5>1. Len(tail) # 0
          BY <3>2, <3>5
        <5>2. QED
          BY <5>1
      <4>6. QED
        BY <2>3, <4>3, <4>4, <4>5
    <3>6. QED
      BY <3>4, <3>5
  <2>7. QED
    BY <1>9, <2>2, <2>4, <2>5, <2>6
<1>10. Good(MaxSteps)
  <2>1. Nat \subseteq N
    <3> HIDE DEF N
    <3>1. QED
      BY <1>8, <1>9, NatSet
  <2>2. MaxSteps \in N /\ MaxSteps <= MaxSteps
    BY <2>1, StepsNat
  <2>3. QED
    BY <2>2
<1> DEFINE end == Walked(vol, p)
<1>11. end # Refused /\ end # <<>>
  <2>1. IsPath(end) /\ end # Refused
    BY DEF IsSelection
  <2> HIDE DEF end
  <2>2. QED
    BY <2>1 DEF IsPath
<1>12. w[MaxSteps] # Refused /\ w[MaxSteps].rest = <<>> /\ end = w[MaxSteps].at
  BY <1>7, <1>11 DEF IsWalk
<1>13. Climbs(w[MaxSteps])
  BY <1>10, <1>12
<1>14. end = <<>>
  <2> HIDE DEF end
  <2>1. end \in Seq(Names) /\ Len(<<>>) = 0
    BY <1>12, <1>13 DEF Climbs
  <2>2. \E k \in 0 .. 0 : k > Len(end) \/ k = Len(end)
    BY <1>12, <1>13, <2>1 DEF Climbs
  <2>3. Len(end) = 0
    BY <2>1, <2>2
  <2>4. QED
    BY <2>1, <2>3
<1>15. QED
  BY <1>11, <1>14

(* A walk that stands for a path has not failed.                           *)
LEMMA StandsOn == ASSUME NEW vol, NEW w, NEW k, NEW h, Stands(vol, w, k, h) PROVE w # Refused
<1>1. /\ w = [at |-> w.at, rest |-> w.rest, links |-> w.links] /\ w.links \in Nat
      /\ w.at \in Seq(Names) /\ w.rest \in Seq(Names \cup {Up, Slash})
  BY DEF Stands
<1>2. w \in [at : Seq(Names), rest : Seq(Names \cup {Up, Slash}), links : Nat]
  BY <1>1
<1>3. QED
  BY <1>2, ReleaseAssumption

(* The hops of the exporter from p to where it ends.                       *)
IsChain(tree, p, e) ==
    /\ e[0] = p /\ \A m \in 1 .. MaxHops : e[m] = ExportHop(tree, e[m - 1])
    /\ e[MaxHops] \in DOMAIN tree /\ ~IsLink(tree, e[MaxHops])

(* A hop that fails would be the last.                                     *)
LEMMA ChainHolds ==
    ASSUME NEW tree, IsSelection(tree), NEW p, NEW e, IsChain(tree, p, e), NEW j \in 0 .. MaxHops
    PROVE  e[j] # Refused
<1>1. SUFFICES ASSUME e[j] = Refused PROVE FALSE
  OBVIOUS
<1> DEFINE M == {n \in Nat : j <= n /\ n <= MaxHops => e[n] = Refused}
<1>2. 0 \in M
  <2>1. j <= 0 => j = 0
    OBVIOUS
  <2>2. QED
    BY <1>1, <2>1
<1>3. ASSUME NEW n \in Nat, n \in M PROVE n + 1 \in M
  <2>1. SUFFICES ASSUME j <= n + 1, n + 1 <= MaxHops PROVE e[n + 1] = Refused
    OBVIOUS
  <2>2. n + 1 \in 1 .. MaxHops /\ (n + 1) - 1 = n /\ n <= MaxHops /\ (j = n + 1 \/ j <= n)
    BY <2>1, StepsNat
  <2>3. e[n + 1] = ExportHop(tree, e[n])
    BY <2>2 DEF IsChain
  <2>4. e[n] = Refused => ExportHop(tree, e[n]) = Refused
    BY DEF ExportHop
  <2>5. QED
    BY <1>1, <1>3, <2>2, <2>3, <2>4
<1>4. Nat \subseteq M
  <2> HIDE DEF M
  <2>1. QED
    BY <1>2, <1>3, NatSet
<1>5. e[MaxHops] = Refused
  BY <1>4, StepsNat
<1>6. QED
  BY <1>5 DEF IsChain, IsSelection

(* A path of the chain that no link is above is an entry.                  *)
LEMMA ChainEntry ==
    ASSUME NEW tree, IsSelection(tree), NEW p, NEW e, IsChain(tree, p, e), NEW j \in 0 .. MaxHops,
           \A q \in Above(e[j]) : ~IsLink(tree, q)
    PROVE  e[j] \in DOMAIN tree
<1>1. CASE j = MaxHops
  BY <1>1 DEF IsChain
<1>2. CASE j # MaxHops
  <2>1. j + 1 \in 0 .. MaxHops /\ j + 1 \in 1 .. MaxHops /\ (j + 1) - 1 = j
    BY <1>2, StepsNat
  <2>2. e[j + 1] = ExportHop(tree, e[j]) /\ e[j] # Refused /\ e[j + 1] # Refused
    BY <2>1, ChainHolds DEF IsChain
  <2>3. {q \in Above(e[j]) : IsLink(tree, q)} = {}
    OBVIOUS
  <2>4. QED
    BY <2>2, <2>3 DEF ExportHop
<1>3. QED
  BY <1>1, <1>2

(* A step to a node that is no link, and a directory if more is ahead,     *)
(* does not fail.                                                          *)
LEMMA StepsDown ==
    ASSUME NEW vol, NEW w, NEW h, Stands(vol, w, 0, h), w # Refused, w.rest # <<>>,
           NEW next, next = Append(w.at, w.rest[1]), next \in DOMAIN vol, ~IsLink(vol, next),
           Len(w.rest) > 1 => vol[next].kind = "dir"
    PROVE  WalkStep(vol, w) # Refused
<1>1. AheadIs(w, h, next)
  BY Ahead
<1>2. 1 \in 1 .. Len(w.rest)
  BY <1>1 DEF AheadIs
<1>3. w.rest[1] \in Names /\ Head(w.rest) = w.rest[1] /\ next \in Seq(Names) /\ Tail(w.rest) \in Seq(Names)
  BY <1>1, <1>2 DEF AheadIs
<1>4. Head(w.rest) # Up /\ Head(w.rest) # Slash /\ next = Append(w.at, Head(w.rest))
  BY <1>3, ReleaseAssumption
<1>5. WalkStep(vol, w) = [at |-> next, rest |-> Tail(w.rest), links |-> w.links]
  BY <1>4 DEF WalkStep
<1>6. Tail(w.rest) \in Seq(Names \cup {Up, Slash}) /\ w.links \in Nat
  BY <1>3 DEF Stands
<1>7. WalkStep(vol, w) \in [at : Seq(Names), rest : Seq(Names \cup {Up, Slash}), links : Nat]
  BY <1>3, <1>5, <1>6
<1>8. QED
  BY <1>7, ReleaseAssumption

(* While the exporter has hops to come, a walk finds on the volume what it *)
(* comes to: the directories above the next link, or above the entry.      *)
LEMMA NextThere ==
    ASSUME NEW vol, NEW tree, IsVolume(vol, tree), IsSelection(tree),
           NEW p, NEW e, IsChain(tree, p, e), NEW j \in 0 .. MaxHops,
           NEW w, Stands(vol, w, 0, e[j]), w.rest # <<>>,
           NEW next, next = Append(w.at, w.rest[1])
    PROVE  /\ IsLink(vol, next) => j # MaxHops
           /\ ~IsLink(vol, next) => WalkStep(vol, w) # Refused
<1> DEFINE h == e[j]
           l == Len(w.at)
           r == Len(w.rest)
<1>1. AheadIs(w, h, next)
  BY Ahead
<1>2. /\ w.at \in Seq(Names) /\ l \in Nat /\ r \in Nat \ {0}
      /\ h \in Seq(Names) /\ Len(h) = l + r
      /\ \A i \in 1 .. l : h[i] = w.at[i]
      /\ next \in Seq(Names) /\ Len(next) = l + 1 /\ next # <<>>
      /\ \A i \in 1 .. l : next[i] = w.at[i]
      /\ next[l + 1] = w.rest[1] /\ h[l + 1] = w.rest[1]
      /\ IF r = 1 THEN next = h ELSE next \in Above(h)
  <2>1. 1 \in 1 .. r
    BY <1>1 DEF AheadIs
  <2>2. QED
    BY <1>1, <2>1 DEF AheadIs
<1>3. \A i \in 1 .. l + 1 : next[i] = h[i]
  <2>1. \A i \in 1 .. l + 1 : i \in 1 .. l \/ i = l + 1
    BY <1>2
  <2>2. QED
    BY <1>2, <2>1
<1>4. w # Refused
  BY StandsOn
<1>5. w.at # <<>> => w.at \in DOMAIN vol /\ vol[w.at].kind = "dir"
  BY DEF Stands
<1> HIDE DEF h, l, r
<1>6. SUFFICES /\ IsLink(vol, next) => j # MaxHops
               /\ ~IsLink(vol, next) => next \in DOMAIN vol /\ (r > 1 => vol[next].kind = "dir")
  BY <1>4, StepsDown DEF h, r
<1>7. CASE h \in DOMAIN tree
  <2>1. /\ h \in DOMAIN vol /\ vol[h].kind = tree[h].kind
        /\ \A q \in Above(h) : q \in DOMAIN vol /\ vol[q].kind = "dir"
    BY <1>7 DEF IsVolume
  <2>2. CASE r = 1
    <3>1. next = h
      BY <1>2, <2>2
    <3>2. j = MaxHops => ~IsLink(vol, h)
      BY <1>7, <2>1 DEF IsChain, IsLink, h
    <3>3. QED
      BY <2>1, <2>2, <3>1, <3>2
  <2>3. CASE r # 1
    <3>1. next \in DOMAIN vol /\ vol[next].kind = "dir"
      BY <1>2, <2>1, <2>3
    <3>2. QED
      BY <3>1 DEF IsLink
  <2>4. QED
    BY <2>2, <2>3
<1>8. CASE h \notin DOMAIN tree
  <2>1. j # MaxHops
    BY <1>8 DEF IsChain, h
  <2>2. SUFFICES ASSUME ~IsLink(vol, next) PROVE next \in DOMAIN vol /\ vol[next].kind = "dir"
    BY <2>1
  <2>3. PICK q \in Above(h) : IsLink(tree, q)
    BY <1>8, ChainEntry DEF h
  <2>4. /\ q \in DOMAIN vol /\ vol[q].kind = "link" /\ IsLink(vol, q)
        /\ \A x \in Above(q) : x \in DOMAIN vol /\ vol[x].kind = "dir"
    BY <2>3 DEF IsLink, IsVolume
  <2>5. q \in Seq(Names) /\ q # <<>> /\ Len(q) \in Nat \ {0} /\ \A i \in 1 .. Len(q) : q[i] = h[i]
    BY <1>2, <2>3, AboveOf
  <2>6. CASE Len(q) < l
    <3>1. \A i \in 1 .. Len(q) : i \in 1 .. l
      BY <1>2, <2>5, <2>6
    <3>2. \A i \in 1 .. Len(q) : q[i] = w.at[i]
      BY <1>2, <2>5, <3>1
    <3>3. q \in Above(w.at)
      BY <1>2, <2>5, <2>6, <3>2, IsAbove DEF l
    <3>4. w.at # <<>>
      BY <1>2, <2>5, <2>6 DEF l
    <3>5. QED
      BY <1>5, <2>4, <3>3, <3>4 DEF IsVolume
  <2>7. CASE Len(q) = l
    <3>1. q = w.at
      BY <1>2, <2>5, <2>7, SameSeq DEF l
    <3>2. QED
      BY <1>5, <2>4, <2>5, <3>1
  <2>8. CASE Len(q) = l + 1
    <3>1. \A i \in 1 .. Len(q) : q[i] = next[i]
      BY <1>3, <2>5, <2>8
    <3>2. q = next
      BY <1>2, <2>5, <2>8, <3>1, SameSeq
    <3>3. QED
      BY <2>2, <2>4, <3>2
  <2>9. CASE Len(q) > l + 1
    <3>1. \A i \in 1 .. l + 1 : i \in 1 .. Len(q)
      BY <1>2, <2>5, <2>9
    <3>2. \A i \in 1 .. Len(next) : next[i] = q[i]
      BY <1>2, <1>3, <2>5, <3>1
    <3>3. Len(next) < Len(q)
      BY <1>2, <2>9
    <3>4. next \in Above(q)
      BY <1>2, <2>5, <3>2, <3>3, IsAbove
    <3>5. QED
      BY <2>4, <3>4
  <2>10. QED
    BY <1>2, <2>5, <2>6, <2>7, <2>8, <2>9
<1>9. QED
  BY <1>7, <1>8

(* The names that a walk has room for after j links.                       *)
Room(j) == (j + 1) * MaxNames

LEMMA Rooms ==
    ASSUME NEW j \in 0 .. MaxHops
    PROVE  /\ Room(j) \in Nat /\ Room(0) = MaxNames /\ Room(j + 1) = Room(j) + MaxNames
           /\ Room(j) <= MaxSteps
<1>1. MaxHops \in Nat /\ MaxNames \in Nat /\ j \in Nat /\ j <= MaxHops /\ MaxHops - j \in Nat
  BY StepsNat
<1>2. /\ (j + 1) * MaxNames \in Nat /\ (0 + 1) * MaxNames = MaxNames
      /\ (j + 1 + 1) * MaxNames = (j + 1) * MaxNames + MaxNames
  BY <1>1
<1>3. (MaxHops + 1) * MaxNames = (j + 1) * MaxNames + (MaxHops - j) * MaxNames
  BY <1>1
<1>4. (MaxHops - j) * MaxNames \in Nat
  BY <1>1
<1>5. (j + 1) * MaxNames <= (MaxHops + 1) * MaxNames
  BY <1>1, <1>2, <1>3, <1>4
<1>6. QED
  BY <1>2, <1>5 DEF Room, MaxSteps

(* A step takes a name away, and a link brings so many.                    *)
LEMMA Onward ==
    ASSUME NEW n \in Nat, NEW before \in Nat, NEW room \in Nat, NEW names \in Nat, NEW after,
           before + n <= room
    PROVE  /\ after = before - 1 => after + (n + 1) <= room
           /\ after \in Nat /\ after <= before - 1 + names => after + (n + 1) <= room + names
  OBVIOUS

(* So where the exporter ends up, the file system does.                    *)
LEMMA ResolvesWalked ==
    ASSUME NEW vol, NEW tree, IsVolume(vol, tree), IsSelection(tree), PlainLinks(tree),
           \A q \in LinksOf(tree) : StaysBelow(tree, q),
           NEW p, IsPath(p), ResolveSymlinkChain(tree, p) # Refused
    PROVE  Walked(vol, p) = ResolveSymlinkChain(tree, p) /\ ResolveSymlinkChain(tree, p) \in DOMAIN tree
<1>0. PICK w : IsWalk(vol, p, w)
  BY WalkRuns
<1>1. /\ w[0] = Walk(p)
      /\ \A m \in 1 .. MaxSteps : w[m] = WalkStep(vol, w[m - 1])
      /\ Walked(vol, p) = IF w[MaxSteps] = Refused \/ (w[MaxSteps] # Refused /\ w[MaxSteps].rest # <<>>)
                          THEN Refused ELSE w[MaxSteps].at
  BY <1>0 DEF IsWalk
<1>2. PICK e : IsChain(tree, p, e) /\ ResolveSymlinkChain(tree, p) = e[MaxHops]
  BY ExportRuns DEF IsChain
<1> DEFINE Good(n) == \E j \in 0 .. MaxHops :
                          /\ w[n].links = j /\ \E k : Stands(vol, w[n], k, e[j])
                          /\ w[n].rest = <<>> \/ Len(w[n].rest) + n <= Room(j)
           N == {n \in Nat : n <= MaxSteps => Good(n)}
<1>3. 0 \in N
  <2>1. Stands(vol, w[0], 0, e[0]) /\ w[0].links = 0 /\ w[0].rest = p
    BY <1>1, <1>2, WalkBegins DEF IsChain
  <2>2. 0 \in 0 .. MaxHops
    BY StepsNat
  <2>3. Len(p) + 0 <= Room(0)
    BY <2>2, Rooms DEF IsPath
  <2>4. QED
    BY <2>1, <2>2, <2>3
<1>4. ASSUME NEW n \in Nat, n \in N PROVE n + 1 \in N
  <2>1. SUFFICES ASSUME n + 1 <= MaxSteps PROVE Good(n + 1)
    OBVIOUS
  <2>2. n + 1 \in 1 .. MaxSteps /\ (n + 1) - 1 = n /\ n <= MaxSteps
    BY <2>1, StepsNat
  <2> DEFINE u == w[n]
             v == WalkStep(vol, u)
  <2>3. w[n + 1] = v
    BY <1>1, <2>2
  <2>hops. PICK j \in 0 .. MaxHops :
               /\ u.links = j /\ \E k : Stands(vol, u, k, e[j])
               /\ u.rest = <<>> \/ Len(u.rest) + n <= Room(j)
    BY <1>4, <2>2
  <2>4. PICK k : /\ u.links = j /\ Stands(vol, u, k, e[j])
                 /\ u.rest = <<>> \/ Len(u.rest) + n <= Room(j)
    BY <2>hops
  <2>5. u # Refused
    BY <2>4, StandsOn
  <2>6. u.rest \in Seq(Names \cup {Up, Slash}) /\ Len(u.rest) \in Nat
    BY <2>4 DEF Stands
  <2>7. SUFFICES \E i \in 0 .. MaxHops :
                     /\ v.links = i /\ \E kk : Stands(vol, v, kk, e[i])
                     /\ v.rest = <<>> \/ Len(v.rest) + (n + 1) <= Room(i)
    BY <2>3
  <2> HIDE DEF u
  <2>8. CASE u.rest = <<>>
    <3>1. v = u
      BY <2>5, <2>8 DEF WalkStep
    <3> HIDE DEF v
    <3>2. QED
      BY <2>4, <2>8, <3>1
  <2>9. CASE u.rest # <<>> /\ k # 0
    <3>1. /\ Stands(vol, v, k - 1, e[j])
          /\ v.links = u.links /\ Len(v.rest) = Len(u.rest) - 1
      BY <2>4, <2>5, <2>9, WalkUp
    <3> HIDE DEF v
    <3>2. Len(v.rest) + (n + 1) <= Room(j)
      <4>1. Len(u.rest) + n <= Room(j) /\ Room(j) \in Nat
        BY <2>4, <2>9, Rooms
      <4>2. Len(v.rest) = Len(u.rest) - 1 /\ Len(u.rest) \in Nat
        BY <2>6, <3>1
      <4>3. QED
        BY <4>1, <4>2, Onward
    <3>3. QED
      BY <2>4, <3>1, <3>2
  <2>10. CASE u.rest # <<>> /\ k = 0
    <3> DEFINE next == Append(u.at, u.rest[1])
    <3>1. Stands(vol, u, 0, e[j])
      BY <2>4, <2>10
    <3>2. /\ IsLink(vol, next) => j # MaxHops
          /\ ~IsLink(vol, next) => v # Refused
      BY <1>2, <2>10, <3>1, NextThere
    <3>3. CASE ~IsLink(vol, next)
      <4>1. Stands(vol, v, 0, e[j]) /\ v.links = u.links /\ Len(v.rest) = Len(u.rest) - 1
        BY <2>5, <2>10, <3>1, <3>2, <3>3, WalkDown
      <4> HIDE DEF v
      <4>2. Len(v.rest) + (n + 1) <= Room(j)
        <5>1. Len(u.rest) + n <= Room(j) /\ Room(j) \in Nat
          BY <2>4, <2>10, Rooms
        <5>2. Len(v.rest) = Len(u.rest) - 1 /\ Len(u.rest) \in Nat
          BY <2>6, <4>1
        <5>3. QED
          BY <5>1, <5>2, Onward
      <4>3. QED
        BY <2>4, <4>1, <4>2
    <3>4. CASE IsLink(vol, next)
      <4>1. next \in LinksOf(tree)
        BY <3>4 DEF IsLink, LinksOf, IsVolume
      <4>2. Plain(tree[next].data) /\ StaysBelow(tree, next)
        BY <4>1 DEF PlainLinks
      <4>3. u.links # MaxHops /\ j # MaxHops
        BY <2>4, <3>2, <3>4
      <4>4. j + 1 \in 0 .. MaxHops /\ j + 1 \in 1 .. MaxHops /\ (j + 1) - 1 = j
        BY <4>3, StepsNat
      <4> HIDE DEF next
      <4>5. next = Append(u.at, u.rest[1])
        BY DEF next
      <4>6. /\ \E kk : Stands(vol, v, kk, ExportHop(tree, e[j]))
            /\ v.links = u.links + 1
            /\ Len(v.rest) <= Len(u.rest) - 1 + MaxNames
        BY <2>5, <2>10, <3>1, <4>1, <4>2, <4>3, <4>5, WalkLink
      <4> HIDE DEF v
      <4>7. e[j + 1] = ExportHop(tree, e[j])
        BY <1>2, <4>4 DEF IsChain
      <4>8. \E kk : Stands(vol, v, kk, e[j + 1])
        BY <4>6, <4>7
      <4>9. Len(v.rest) + (n + 1) <= Room(j + 1)
        <5>1. Len(v.rest) \in Nat
          BY <4>8 DEF Stands
        <5>2. Room(j) \in Nat /\ Room(j + 1) = Room(j) + MaxNames /\ MaxNames \in Nat
          BY Rooms, StepsNat
        <5>3. Len(u.rest) + n <= Room(j)
          BY <2>4, <2>10
        <5>4. Len(u.rest) \in Nat /\ Len(v.rest) <= Len(u.rest) - 1 + MaxNames
          BY <2>6, <4>6
        <5>5. QED
          BY <5>1, <5>2, <5>3, <5>4, Onward
      <4>10. QED
        BY <2>4, <4>4, <4>6, <4>8, <4>9
    <3>5. QED
      BY <3>3, <3>4
  <2>11. QED
    BY <2>8, <2>9, <2>10
<1>5. Good(MaxSteps)
  <2>1. Nat \subseteq N
    <3> HIDE DEF N
    <3>1. QED
      BY <1>3, <1>4, NatSet
  <2> HIDE DEF Good
  <2>2. MaxSteps \in Nat /\ MaxSteps <= MaxSteps
    BY StepsNat
  <2>3. QED
    BY <2>1, <2>2
<1> DEFINE end == w[MaxSteps]
<1>hops. PICK j \in 0 .. MaxHops :
             /\ \E k : Stands(vol, end, k, e[j])
             /\ end.rest = <<>> \/ Len(end.rest) + MaxSteps <= Room(j)
  BY <1>5
<1>6. PICK k : Stands(vol, end, k, e[j])
  BY <1>hops
<1> HIDE DEF end
<1>7. end.rest = <<>> /\ end # Refused
  <2>1. end.rest \in Seq(Names \cup {Up, Slash}) /\ Len(end.rest) \in Nat
    BY <1>6 DEF Stands
  <2>2. Room(j) \in Nat /\ Room(j) <= MaxSteps /\ MaxSteps \in Nat
    BY Rooms, StepsNat
  <2>3. end.rest = <<>> \/ Len(end.rest) = 0
    BY <1>hops, <2>1, <2>2
  <2>4. end # Refused
    BY <1>6, StandsOn
  <2>5. QED
    BY <2>1, <2>3, <2>4
<1>8. end.at = e[j]
  BY <1>6, <1>7, WalkEnds
<1>9. Walked(vol, p) = e[j]
  BY <1>1, <1>7, <1>8 DEF end
<1>10. e[j] \in DOMAIN tree /\ ~IsLink(tree, e[j])
  <2>1. e[j] # <<>> => e[j] \in DOMAIN vol /\ vol[e[j]].kind # "link"
    BY <1>6, <1>8 DEF Stands
  <2>2. \A q \in Above(e[j]) : ~IsLink(tree, q)
    <3>1. CASE e[j] = <<>>
      <4>1. Above(e[j]) = {}
        BY <3>1 DEF Above
      <4>2. QED
        BY <4>1
    <3>2. CASE e[j] # <<>>
      <4>1. \A q \in Above(e[j]) : vol[q].kind = "dir"
        BY <2>1, <3>2 DEF IsVolume
      <4>2. QED
        BY <4>1 DEF IsVolume, IsLink
    <3>3. QED
      BY <3>1, <3>2
  <2>3. e[j] \in DOMAIN tree
    BY <1>2, <2>2, ChainEntry
  <2>4. e[j] # <<>>
    BY <2>3 DEF IsSelection, IsPath
  <2>5. QED
    BY <2>1, <2>3, <2>4 DEF IsVolume, IsLink
<1>11. e[MaxHops] = e[j]
  <2> DEFINE x == e[j]
             M == {n \in Nat : j <= n /\ n <= MaxHops => e[n] = x}
  <2>1. ExportHop(tree, x) = x
    BY <1>10 DEF ExportHop, IsSelection
  <2>2. 0 \in M
    <3>1. j <= 0 => j = 0
      OBVIOUS
    <3>2. QED
      BY <3>1
  <2>3. ASSUME NEW n \in Nat, n \in M PROVE n + 1 \in M
    <3>1. SUFFICES ASSUME j <= n + 1, n + 1 <= MaxHops PROVE e[n + 1] = x
      OBVIOUS
    <3>2. n + 1 \in 1 .. MaxHops /\ (n + 1) - 1 = n /\ n <= MaxHops /\ (j = n + 1 \/ j <= n)
      BY <3>1, StepsNat
    <3>3. e[n + 1] = ExportHop(tree, e[n])
      BY <1>2, <3>2 DEF IsChain
    <3>4. QED
      BY <2>1, <2>3, <3>2, <3>3
  <2>4. Nat \subseteq M
    <3> HIDE DEF M
    <3>1. QED
      BY <2>2, <2>3, NatSet
  <2>5. QED
    BY <2>4, StepsNat
<1>12. QED
  BY <1>2, <1>9, <1>10, <1>11

(* The selection of a tree is what a volume has of it, when no file is     *)
(* included through a link.                                                *)
LEMMA SelectionOnVolume ==
    ASSUME ReleaseInv, \A f \in included : InPlace(f)
    PROVE  IsSelection(Selection) /\ IsVolume(OnVolume(Selection), Selection)
<1> DEFINE tree == Selection
           vol == OnVolume(tree)
<1>1. \A f \in included : IsFile(f)
  BY DEF InPlace
<1>2. IsSelection(tree)
  BY <1>1, SelectionTyped DEF ReleaseInv
<1>3. \A p \in DOMAIN tree : p \in DOMAIN source /\ tree[p] = source[p]
  BY SelectionInImage DEF ReleaseInv
<1>4. \A p \in DOMAIN source : \A q \in Above(p) : q \in DOMAIN source /\ source[q].kind = "dir"
  BY ReleaseAssumption DEF ReleaseInv, SourceInv, IsTree
<1> HIDE DEF tree
<1>5. /\ DOMAIN vol = DOMAIN tree \cup UNION {Above(p) : p \in DOMAIN tree}
      /\ \A p \in DOMAIN tree : vol[p] = tree[p]
      /\ \A p \in DOMAIN vol \ DOMAIN tree : vol[p].kind = "dir"
  BY DEF OnVolume
<1> HIDE DEF vol
<1>6. ASSUME NEW p \in DOMAIN tree, NEW q \in Above(p)
      PROVE  q \in DOMAIN vol /\ vol[q].kind = "dir"
  <2>1. q \in DOMAIN vol
    BY <1>5
  <2>2. CASE q \in DOMAIN tree
    BY <1>3, <1>4, <1>5, <2>2
  <2>3. CASE q \notin DOMAIN tree
    BY <1>5, <2>1, <2>3
  <2>4. QED
    BY <2>1, <2>2, <2>3
<1>7. ASSUME NEW r \in DOMAIN vol
      PROVE  IsPath(r) /\ \A q \in Above(r) : q \in DOMAIN vol /\ vol[q].kind = "dir"
  <2>1. CASE r \in DOMAIN tree
    BY <1>2, <1>6, <2>1 DEF IsSelection
  <2>2. CASE r \notin DOMAIN tree
    <3>1. PICK p \in DOMAIN tree : r \in Above(p)
      BY <1>5, <2>2
    <3>2. IsPath(p) /\ p \in Seq(Names)
      BY <1>2 DEF IsSelection, IsPath
    <3>3. IsPath(r) /\ \A q \in Above(r) : q \in Above(p)
      BY <3>1, <3>2, AboveIsPath, AboveAbove
    <3>4. QED
      BY <1>6, <3>3
  <2>3. QED
    BY <2>1, <2>2
<1>8. IsVolume(vol, tree)
  BY <1>5, <1>7 DEF IsVolume
<1>9. QED
  BY <1>2, <1>8 DEF vol, tree

(* The exporter resolves links as the file system of the volume does: an   *)
(* exported tree with plain links has links that lead to entries there and *)
(* an entrypoint that leads to a program, and a tree that has them is not  *)
(* refused.                                                                *)
THEOREM ExportedResolves == Spec => []ExportsWhatResolves
<1>1. ASSUME ReleaseInv PROVE ExportsWhatResolves
  <2> DEFINE tree == Selection
             vol == OnVolume(tree)
  <2>1. SUFFICES ASSUME \A f \in included : InPlace(f)
                 PROVE  /\ pc = "archive" /\ PlainLinks(entries) => Resolves(tree)
                        /\ outcome = "collect" => ~Collectable(tree) \/ ~Resolves(tree)
    BY DEF ExportsWhatResolves
  <2>2. IsSelection(tree) /\ IsVolume(vol, tree)
    BY <1>1, <2>1, SelectionOnVolume
  <2>3. \A f \in included : IsFile(f)
    BY <2>1 DEF InPlace
  <2>4. /\ pc = "archive" => Accepted /\ entries = tree
        /\ outcome = "collect" => ~Accepted
    BY <1>1, OutcomeAssumption DEF ReleaseInv, StageInv, EntriesInv, Uncollected, Stages, PC
  <2>5. IsPath(Entrypoint)
    BY ReleaseAssumption
  <2>6. Accepted <=> /\ \A t \in targets : RealDirectory(t)
                     /\ \A x \in Excludes : Present(x)
                     /\ \A p \in DOMAIN tree : tree[p].kind # "special"
                     /\ LinksClosed(tree)
                     /\ Entrypoint \in DOMAIN tree
                     /\ IsProgram(tree, ResolveSymlinkChain(tree, Entrypoint))
    BY <2>3 DEF Accepted
  <2> HIDE DEF tree
  <2>7. ASSUME NEW p
        PROVE  Leads(tree, p) = IF Walked(vol, p) \in DOMAIN tree THEN Walked(vol, p) ELSE Refused
    BY DEF Leads
  <2> HIDE DEF vol
  <2>8. ASSUME pc = "archive", PlainLinks(tree) PROVE Resolves(tree)
    <3>1. /\ LinksClosed(tree) /\ Entrypoint \in DOMAIN tree
          /\ IsProgram(tree, ResolveSymlinkChain(tree, Entrypoint))
      BY <2>4, <2>6, <2>8
    <3>2. \A q \in LinksOf(tree) :
              StaysBelow(tree, q) /\ ResolveSymlinkChain(tree, q) # Refused /\ IsPath(q)
      BY <2>2, <3>1 DEF LinksClosed, LinksOf, StaysBelow, IsSelection
    <3>3. ASSUME NEW p, IsPath(p), ResolveSymlinkChain(tree, p) # Refused
          PROVE  Leads(tree, p) = ResolveSymlinkChain(tree, p)
      <4>1. Walked(vol, p) = ResolveSymlinkChain(tree, p) /\ ResolveSymlinkChain(tree, p) \in DOMAIN tree
        BY <2>2, <2>8, <3>2, <3>3, ResolvesWalked
      <4>2. QED
        BY <2>7, <4>1
    <3>4. ASSUME NEW p \in LinksOf(tree)
          PROVE  Head(tree[p].data) # Slash /\ Leads(tree, p) # Refused
      <4>1. Head(tree[p].data) # Slash
        BY <3>2 DEF StaysBelow, LinkResolvedPath
      <4>2. QED
        BY <3>2, <3>3, <4>1
    <3>5. IsProgram(tree, Leads(tree, Entrypoint))
      <4>1. ResolveSymlinkChain(tree, Entrypoint) # Refused
        BY <3>1 DEF IsProgram
      <4>2. QED
        BY <2>5, <3>1, <3>3, <4>1
    <3>6. QED
      BY <3>1, <3>4, <3>5 DEF Resolves
  <2>9. ASSUME outcome = "collect", Collectable(tree), Resolves(tree) PROVE FALSE
    <3>1. /\ PlainLinks(tree) /\ \A p \in DOMAIN tree : tree[p].kind # "special"
          /\ \A t \in targets : RealDirectory(t)
          /\ \A x \in Excludes : Present(x)
      BY <2>9 DEF Collectable
    <3>2. /\ \A p \in LinksOf(tree) : Head(tree[p].data) # Slash /\ Leads(tree, p) # Refused
          /\ Entrypoint \in DOMAIN tree /\ IsProgram(tree, Leads(tree, Entrypoint))
      BY <2>9 DEF Resolves
    <3>3. ASSUME NEW p, Leads(tree, p) # Refused
          PROVE  Walked(vol, p) \in DOMAIN tree /\ Leads(tree, p) = Walked(vol, p)
      BY <2>7, <3>3
    <3>4. ASSUME NEW p \in LinksOf(tree) PROVE StaysBelow(tree, p)
      <4>1. Plain(tree[p].data)
        BY <3>1 DEF PlainLinks
      <4>2. QED
        BY <2>2, <3>2, <3>3, <4>1, LeadsBelow
    <3>5. ASSUME NEW p, IsPath(p), Leads(tree, p) # Refused
          PROVE  ResolveSymlinkChain(tree, p) = Leads(tree, p)
      <4>1. Walked(vol, p) \in DOMAIN tree /\ Leads(tree, p) = Walked(vol, p)
        BY <3>3, <3>5
      <4>2. QED
        BY <2>2, <3>1, <3>4, <3>5, <4>1, WalkedResolves
    <3>6. LinksClosed(tree)
      <4>1. ASSUME NEW p \in DOMAIN tree, tree[p].kind = "link"
            PROVE  LinkResolvedPath(p, tree[p].data) # Refused /\ ResolveSymlinkChain(tree, p) # Refused
        <5>1. p \in LinksOf(tree) /\ IsPath(p)
          BY <2>2, <4>1 DEF LinksOf, IsSelection
        <5>2. Leads(tree, p) # Refused
          BY <3>2, <5>1
        <5>3. QED
          BY <3>4, <3>5, <5>1, <5>2 DEF StaysBelow
      <4>2. QED
        BY <4>1 DEF LinksClosed
    <3>7. IsProgram(tree, ResolveSymlinkChain(tree, Entrypoint))
      <4>1. Leads(tree, Entrypoint) # Refused
        BY <3>2 DEF IsProgram
      <4>2. QED
        BY <2>5, <3>2, <3>5, <4>1
    <3>8. QED
      BY <2>4, <2>6, <2>9, <3>1, <3>2, <3>6, <3>7
  <2>10. QED
    BY <2>4, <2>8, <2>9
<1>2. QED
  BY <1>1, ReleaseAlways, PTL
-----------------------------------------------------------------------------
(* The resolution of the manifest contract is the end of a run as well,    *)
LEMMA ContractRuns ==
    ASSUME NEW tree, NEW p
    PROVE  \E f : /\ f[0] = p
                  /\ \A m \in 1 .. MaxHops :
                         f[m] = IF IsLink(tree, f[m - 1])
                                THEN Normal(Front(f[m - 1]) \o tree[f[m - 1]].data) ELSE f[m - 1]
                  /\ ResolveEntrypoint(tree, p) =
                        IF f[MaxHops] \notin DOMAIN tree \/ IsLink(tree, f[MaxHops]) THEN Refused
                        ELSE f[MaxHops]
<1> DEFINE hop(q) == IF IsLink(tree, q) THEN Normal(Front(q) \o tree[q].data) ELSE q
           is(f) == f = [m \in 0 .. MaxHops |-> IF m = 0 THEN p ELSE hop(f[m - 1])]
           run == CHOOSE f : is(f)
<1>1. \E f : is(f)
  <2>1. PICK f : Run("contract", tree, p, f, MaxHops)
    BY RunExists, TreeAssumption
  <2>2. \A m, x : Step("contract", tree, m, x) = hop(x)
    BY DEF Step
  <2>3. is(f)
    BY <2>1, <2>2 DEF Run
  <2>4. QED
    BY <2>3
<1>2. ResolveEntrypoint(tree, p) =
                        IF run[MaxHops] \notin DOMAIN tree \/ IsLink(tree, run[MaxHops]) THEN Refused
                        ELSE run[MaxHops]
  BY DEF ResolveEntrypoint, Resolution
<1>3. is(run)
  BY <1>1
<1> HIDE DEF run
<1>4. \A m \in 0 .. MaxHops : run[m] = IF m = 0 THEN p ELSE hop(run[m - 1])
  BY <1>3
<1> HIDE DEF hop
<1>5. run[0] = p /\ \A m \in 1 .. MaxHops : run[m] = hop(run[m - 1])
  <2>1. 0 \in 0 .. MaxHops /\ \A m \in 1 .. MaxHops : m \in 0 .. MaxHops /\ m # 0
    BY TreeAssumption
  <2>2. QED
    BY <1>4, <2>1
<1>6. QED
  BY <1>2, <1>5 DEF hop

(* and where it ends up, the exporter does.                                *)
LEMMA ContractAlike ==
    ASSUME NEW tree, IsSelection(tree), \A q \in LinksOf(tree) : StaysBelow(tree, q),
           NEW p, ResolveEntrypoint(tree, p) # Refused
    PROVE  ResolveSymlinkChain(tree, p) = ResolveEntrypoint(tree, p)
<1>1. PICK a : /\ a[0] = p
               /\ \A m \in 1 .. MaxHops :
                      a[m] = IF IsLink(tree, a[m - 1])
                             THEN Normal(Front(a[m - 1]) \o tree[a[m - 1]].data) ELSE a[m - 1]
               /\ ResolveEntrypoint(tree, p) =
                     IF a[MaxHops] \notin DOMAIN tree \/ IsLink(tree, a[MaxHops]) THEN Refused
                     ELSE a[MaxHops]
  BY ContractRuns
<1>2. PICK e : /\ e[0] = p /\ \A m \in 1 .. MaxHops : e[m] = ExportHop(tree, e[m - 1])
               /\ ResolveSymlinkChain(tree, p) =
                     IF e[MaxHops] \notin DOMAIN tree \/ IsLink(tree, e[MaxHops]) THEN Refused
                     ELSE e[MaxHops]
  BY ExportRuns
<1> DEFINE hop(q) == IF IsLink(tree, q) THEN Normal(Front(q) \o tree[q].data) ELSE q
<1>3. ASSUME NEW q \in DOMAIN tree PROVE hop(q) = ExportHop(tree, q)
  <2>1. q # Refused
    BY DEF IsSelection
  <2>2. CASE IsLink(tree, q)
    <3>1. LinkResolvedPath(q, tree[q].data) # Refused
      BY <2>2 DEF IsLink, LinksOf, StaysBelow
    <3>2. LinkResolvedPath(q, tree[q].data) = Normal(Front(q) \o tree[q].data)
      BY <3>1 DEF LinkResolvedPath
    <3>3. QED
      BY <2>1, <2>2, <3>2 DEF ExportHop
  <2>3. CASE ~IsLink(tree, q)
    BY <2>1, <2>3 DEF ExportHop
  <2>4. QED
    BY <2>2, <2>3
<1>4. \A q : q \notin DOMAIN tree => hop(q) = q
  BY DEF IsLink
<1>5. \A m \in 1 .. MaxHops : a[m] = hop(a[m - 1])
  BY <1>1
<1> HIDE DEF hop
<1> DEFINE N == {n \in Nat : n <= MaxHops => a[n] \notin DOMAIN tree \/ a[n] = e[n]}
<1>6. 0 \in N
  BY <1>1, <1>2
<1>7. ASSUME NEW n \in Nat, n \in N PROVE n + 1 \in N
  <2>1. SUFFICES ASSUME n + 1 <= MaxHops PROVE a[n + 1] \notin DOMAIN tree \/ a[n + 1] = e[n + 1]
    OBVIOUS
  <2>2. n + 1 \in 1 .. MaxHops /\ (n + 1) - 1 = n /\ n <= MaxHops
    BY <2>1, TreeAssumption
  <2>3. a[n + 1] = hop(a[n]) /\ e[n + 1] = ExportHop(tree, e[n])
    BY <1>2, <1>5, <2>2
  <2>4. QED
    BY <1>3, <1>4, <1>7, <2>2, <2>3
<1>8. a[MaxHops] \notin DOMAIN tree \/ a[MaxHops] = e[MaxHops]
  <2>1. Nat \subseteq N
    <3> HIDE DEF N
    <3>1. QED
      BY <1>6, <1>7, NatSet
  <2>2. QED
    BY <2>1, TreeAssumption
<1>9. a[MaxHops] \in DOMAIN tree /\ ~IsLink(tree, a[MaxHops])
  BY <1>1
<1>10. QED
  BY <1>1, <1>2, <1>8, <1>9

(* What is above a path is below a beginning of the path, or above it.     *)
LEMMA PrefixOrAbove ==
    ASSUME NEW p \in Seq(Names), NEW t \in Seq(Names), IsPrefix(t, p), NEW q \in Above(p), ~IsPrefix(t, q)
    PROVE  q \in Above(t)
<1>1. /\ q \in Seq(Names) /\ q # <<>> /\ Len(q) \in 1 .. Len(p) - 1 /\ Len(p) \in Nat
      /\ \A i \in 1 .. Len(q) : q[i] = p[i]
  BY AboveOf
<1>2. Len(t) \in Nat /\ Len(t) <= Len(p) /\ SubSeq(t, 1, Len(t)) = SubSeq(p, 1, Len(t))
  BY DEF IsPrefix
<1>3. \A i \in 1 .. Len(t) : t[i] = p[i]
  <2>1. Len(t) \in 0 .. Len(t) /\ Len(t) \in 0 .. Len(p)
    BY <1>1, <1>2
  <2>2. /\ \A i \in 1 .. Len(t) : SubSeq(t, 1, Len(t))[i] = t[i]
        /\ \A i \in 1 .. Len(t) : SubSeq(p, 1, Len(t))[i] = p[i]
    BY <2>1, PrefixOf
  <2>3. QED
    BY <1>2, <2>2
<1>4. Len(q) < Len(t)
  <2>1. SUFFICES ASSUME Len(t) <= Len(q) PROVE FALSE
    BY <1>1, <1>2
  <2>2. Len(t) \in 0 .. Len(t) /\ Len(t) \in 0 .. Len(q)
    BY <1>1, <1>2, <2>1
  <2>3. /\ SubSeq(t, 1, Len(t)) \in Seq(Names) /\ Len(SubSeq(t, 1, Len(t))) = Len(t)
        /\ \A i \in 1 .. Len(t) : SubSeq(t, 1, Len(t))[i] = t[i]
        /\ SubSeq(q, 1, Len(t)) \in Seq(Names) /\ Len(SubSeq(q, 1, Len(t))) = Len(t)
        /\ \A i \in 1 .. Len(t) : SubSeq(q, 1, Len(t))[i] = q[i]
    BY <1>1, <2>2, PrefixOf
  <2>4. \A i \in 1 .. Len(t) : i \in 1 .. Len(q)
    BY <1>1, <1>2, <2>1
  <2>5. \A i \in 1 .. Len(t) : SubSeq(t, 1, Len(t))[i] = SubSeq(q, 1, Len(t))[i]
    BY <1>1, <1>3, <2>3, <2>4
  <2>6. SubSeq(t, 1, Len(t)) = SubSeq(q, 1, Len(t))
    BY <2>3, <2>5, SameSeq
  <2>7. QED
    BY <2>1, <2>6 DEF IsPrefix
<1>5. \A i \in 1 .. Len(q) : q[i] = t[i]
  <2>1. \A i \in 1 .. Len(q) : i \in 1 .. Len(t)
    BY <1>1, <1>2, <1>4
  <2>2. QED
    BY <1>1, <1>3, <2>1
<1>6. QED
  BY <1>1, <1>4, <1>5, IsAbove

(* A runtime that is collected can be described: the contract refuses no   *)
(* ordinary manifest.                                                      *)
LEMMA OrdinaryIsAccepted ==
    ASSUME ReleaseInv, ~Uncollected, Ordinary(entries) PROVE ManifestAccepts
<1>1. /\ entries = Selection /\ Accepted /\ source \in Trees /\ targets \in TargetSets /\ included \in IncludeApp
  BY DEF ReleaseInv, EntriesInv, SourceInv
<1>2. /\ PlainLinks(entries) /\ \A f \in included : InPlace(f)
      /\ \A p \in targets \cup included : \A q \in Above(p) : Last(q) \notin ExcludedNames
      /\ ResolveEntrypoint(entries, Entrypoint) # Refused
  BY DEF Ordinary
<1>3. IsSelection(entries) /\ \A p \in DOMAIN entries : p \in DOMAIN source /\ entries[p] = source[p]
  BY <1>1, <1>2, SelectionTyped, SelectionInImage DEF Accepted, ReleaseInv
<1>4. \A p \in DOMAIN source : \A q \in Above(p) : q \in DOMAIN source /\ source[q].kind = "dir"
  BY <1>1, ReleaseAssumption DEF IsTree
<1>5. ASSUME NEW p \in DOMAIN entries
      PROVE  /\ ~Excluded(p)
             /\ \A q \in Above(p) : Last(q) \notin ExcludedNames
             /\ entries[p].kind = "dir" => Last(p) \notin ExcludedNames
  <2>1. (\E t \in targets : p \in Collected(source, t)) \/ (p \in included /\ ~Excluded(p))
    BY <1>1 DEF Selection, Entries
  <2>2. CASE p \in included /\ ~Excluded(p)
    <3>1. source[p].kind # "dir"
      <4>1. /\ source[Append(Walked(source, Front(p)), Last(p))].kind # "dir"
            /\ Walked(source, Front(p)) = Front(p)
        BY <1>2, <2>2 DEF InPlace, IsFile
      <4>2. p \in Seq(Names) /\ p # <<>>
        BY <1>3 DEF IsSelection, IsPath
      <4>3. Append(Front(p), Last(p)) = p
        BY <4>2, FrontLast
      <4>4. QED
        BY <4>1, <4>3
    <3>2. QED
      BY <1>2, <1>3, <2>2, <3>1
  <2>3. CASE \E t \in targets : p \in Collected(source, t)
    <3>1. PICK t \in targets : p \in Collected(source, t)
      BY <2>3
    <3>2. /\ IsPrefix(t, p) /\ ~Excluded(p)
          /\ \A q \in Above(p) \cup {p} :
                 IsPrefix(t, q) /\ source[q].kind = "dir" => Last(q) \notin ExcludedNames
      BY <3>1 DEF Collected
    <3>3. t \in Seq(Names) /\ p \in Seq(Names)
      BY <1>1, <1>3, ReleaseAssumption DEF IsSelection, IsPath
    <3>4. ASSUME NEW q \in Above(p) PROVE Last(q) \notin ExcludedNames
      <4>1. CASE IsPrefix(t, q)
        BY <1>3, <1>4, <3>2, <4>1
      <4>2. CASE ~IsPrefix(t, q)
        <5>1. q \in Above(t)
          BY <3>2, <3>3, <4>2, PrefixOrAbove
        <5>2. QED
          BY <1>2, <5>1
      <4>3. QED
        BY <4>1, <4>2
    <3>5. QED
      BY <1>3, <3>2, <3>4
  <2>4. QED
    BY <2>1, <2>2, <2>3
<1>6. IsProgram(entries, ResolveEntrypoint(entries, Entrypoint))
  <2>1. \A q \in LinksOf(entries) : StaysBelow(entries, q)
    BY <1>1 DEF Accepted, LinksClosed, LinksOf, StaysBelow
  <2>2. ResolveSymlinkChain(entries, Entrypoint) = ResolveEntrypoint(entries, Entrypoint)
    BY <1>2, <1>3, <2>1, ContractAlike
  <2>3. QED
    BY <1>1, <2>2 DEF Accepted
<1>7. QED
  BY <1>5, <1>6 DEF ManifestAccepts, Ordinary

(* The number of a member; what is unpacked when there are that many.      *)
Number(p) == Cardinality({q \in DOMAIN entries : Before(q, p)})
Extracted == {p \in DOMAIN entries : Number(p) < at}
Copy(p)   == [entries[p] EXCEPT !.mode = volume[entries[p].kind][entries[p].mode]]

(* A set of numbers that is not empty has a least one.                     *)
LEMMA LeastNumber == ASSUME NEW S, S \subseteq Nat, S # {} PROVE \E n \in S : \A m \in S : n <= m
<1>1. PICK n \in S : \A m \in S : ~(<<m, n>> \in OpToRel(<, Nat))
  BY NatLessThanWellFounded, WFMin
<1>2. \A m \in S : ~(m < n)
  BY <1>1 DEF OpToRel
<1>3. \A m \in S : n <= m
  BY <1>2
<1>4. QED
  BY <1>3

(* What is above an entry is a directory of the image.                     *)
LEMMA AboveIsDir ==
    ASSUME ReleaseInv, ~Uncollected, Ordinary(entries), NEW p \in DOMAIN entries,
           NEW q \in Above(p), q \in DOMAIN entries
    PROVE  entries[q].kind = "dir"
<1>1. /\ source \in Trees
      /\ \A r \in DOMAIN entries : r \in DOMAIN source /\ entries[r] = source[r]
  BY SelectionInImage DEF ReleaseInv, EntriesInv, SourceInv, Ordinary
<1>2. QED
  BY <1>1, ReleaseAssumption DEF IsTree

(* The ranks of the entries are the order of their paths.                  *)
LEMMA Ranked ==
    ASSUME ReleaseInv, ~Uncollected, NEW p \in DOMAIN entries, NEW q \in DOMAIN entries
    PROVE  /\ Rank[p] \in Nat /\ Rank[q] \in Nat /\ (Rank[p] = Rank[q] => p = q)
           /\ IsStrictPrefix(p, q) => Rank[p] < Rank[q]
<1>1. DOMAIN entries \subseteq DOMAIN source \cup included
  BY EntriesInTree DEF ReleaseInv, EntriesInv, Selection
<1>2. source \in Trees /\ included \in IncludeApp
  BY DEF ReleaseInv, SourceInv
<1>3. /\ p \in UNION ({DOMAIN tree : tree \in Trees} \cup IncludeApp)
      /\ q \in UNION ({DOMAIN tree : tree \in Trees} \cup IncludeApp)
  BY <1>1, <1>2
<1>4. QED
  BY <1>3, ReleaseAssumption

(* Members are numbered in their order, all below their count; what is     *)
(* above a path has a lower number.                                        *)
LEMMA Numbers ==
    ASSUME ReleaseInv, ~Uncollected, NEW p \in DOMAIN entries
    PROVE  /\ Number(p) \in Nat /\ Members \in Nat /\ Number(p) < Members
           /\ \A q \in DOMAIN entries : /\ Before(q, p) => Number(q) < Number(p)
                                        /\ Number(q) = Number(p) => q = p
                                        /\ q \in Above(p) => Number(q) < Number(p)
<1> DEFINE All == DOMAIN entries
           Prior(q) == {r \in All : Before(r, q)}
<1>1. IsFiniteSet(All)
  BY SelectionIsFinite DEF ReleaseInv, EntriesInv
<1>2. \A q \in All, r \in All : /\ Rank[q] \in Nat /\ Rank[r] \in Nat /\ (Rank[q] = Rank[r] => q = r)
                                /\ IsStrictPrefix(q, r) => Rank[q] < Rank[r]
  BY Ranked
<1>3. \A q \in All : IsPath(q)
  <2>1. Selection = entries /\ Accepted
    BY DEF ReleaseInv, EntriesInv
  <2>2. QED
    BY <2>1, SelectionTyped DEF ReleaseInv, Accepted, IsSelection
<1>4. \A q \in All : /\ IsFiniteSet(Prior(q)) /\ Number(q) = Cardinality(Prior(q))
                     /\ Number(q) \in Nat
  <2>1. \A q \in All : Prior(q) \subseteq All /\ Number(q) = Cardinality(Prior(q))
    BY DEF Number
  <2> HIDE DEF All, Prior
  <2>2. QED
    BY <1>1, <2>1, FS_Subset, FS_CardinalityType
<1>5. ASSUME NEW q \in All PROVE Number(q) < Members
  <2>1. Prior(q) \subseteq All /\ q \notin Prior(q) /\ q \in All
    BY <1>2 DEF Before
  <2>2. Members = Cardinality(All) /\ Members \in Nat
    BY <1>1, FS_CardinalityType DEF Members
  <2> HIDE DEF All, Prior
  <2>3. Cardinality(Prior(q)) <= Cardinality(All) /\ Cardinality(Prior(q)) # Cardinality(All)
    BY <1>1, <2>1, FS_Subset
  <2>4. QED
    BY <1>4, <2>2, <2>3
<1>6. ASSUME NEW q \in All, NEW r \in All, Before(q, r) PROVE Number(q) < Number(r)
  <2>1. q \in Prior(r)
    BY <1>6
  <2>2. q \notin Prior(q)
    BY <1>2 DEF Before
  <2>3. Prior(q) \subseteq Prior(r)
    BY <1>2, <1>6 DEF Before
  <2> HIDE DEF All, Prior
  <2>4. Cardinality(Prior(q)) <= Cardinality(Prior(r)) /\ Cardinality(Prior(q)) # Cardinality(Prior(r))
    BY <1>4, <2>1, <2>2, <2>3, FS_Subset
  <2>5. QED
    BY <1>4, <2>4
<1>7. ASSUME NEW q \in All, Number(q) = Number(p) PROVE q = p
  <2>1. ~(Number(q) < Number(p)) /\ ~(Number(p) < Number(q))
    <3>1. Number(p) \in Nat
      BY <1>4
    <3>2. \A n \in Nat : ~(n < n)
      OBVIOUS
    <3>3. QED
      BY <1>7, <3>1, <3>2
  <2>2. ~Before(q, p) /\ ~Before(p, q)
    BY <1>6, <2>1
  <2>3. QED
    BY <1>2, <2>2 DEF Before
<1>8. ASSUME NEW q \in All, q \in Above(p) PROVE Before(q, p)
  <2>1. p \in Seq(Names)
    BY <1>3 DEF IsPath
  <2>2. q \in Seq(Names) /\ Len(q) \in 1 .. Len(p) - 1 /\ q # p /\ q = SubSeq(p, 1, Len(q))
    BY <1>8, <2>1, AboveOf
  <2>3. Len(q) \in 0 .. Len(q) /\ Len(q) <= Len(p)
    BY <2>1, <2>2
  <2>4. SubSeq(q, 1, Len(q)) = q
    <3>1. /\ SubSeq(q, 1, Len(q)) \in Seq(Names) /\ Len(SubSeq(q, 1, Len(q))) = Len(q)
          /\ \A i \in 1 .. Len(q) : SubSeq(q, 1, Len(q))[i] = q[i]
      BY <2>2, <2>3, PrefixOf
    <3>2. QED
      BY <2>2, <3>1, SameSeq
  <2>5. IsStrictPrefix(q, p)
    BY <2>2, <2>3, <2>4 DEF IsStrictPrefix, IsPrefix
  <2>6. QED
    BY <1>2, <2>5 DEF Before
<1>9. Members \in Nat
  BY <1>1, FS_CardinalityType DEF Members
<1>10. QED
  BY <1>4, <1>5, <1>6, <1>7, <1>8, <1>9

(* An ordinary runtime is refused by no program after the exporter, but    *)
(* for an unfit volume.  On the volume there are copies of the members so  *)
(* far, and directories above them.                                        *)
CopiesInv ==
    /\ DOMAIN staged = Extracted \cup UNION {Above(p) : p \in Extracted}
    /\ \A p \in Extracted : staged[p] = Copy(p)
    /\ \A p \in DOMAIN staged \ Extracted : staged[p].kind = "dir"
UnpackInv ==
    /\ pc \in {"audit", "collect"} => staged = Empty /\ at = 0
    /\ ~Uncollected /\ Ordinary(entries) =>
           /\ outcome \notin {"archive", "manifest", "extract", "verify"}
           /\ outcome = "probe" => ~Fit(volume)
           /\ pc = "verify" => at = Members
           /\ CopiesInv

(* In an ordinary tree, a member has only directories above it, and is the *)
(* first there.                                                            *)
LEMMA OrdinaryMember ==
    ASSUME ReleaseInv, UnpackInv, ~Uncollected, Ordinary(entries),
           NEW p \in DOMAIN entries, IsMember(at, p)
    PROVE  /\ \A q \in DOMAIN entries : Number(q) < at + 1 <=> (Number(q) < at \/ q = p)
           /\ \A q \in Above(p) : /\ q \in DOMAIN entries => entries[q].kind = "dir" /\ q \in Extracted
                                  /\ q \in DOMAIN staged => staged[q].kind = "dir"
           /\ p \notin DOMAIN staged
           /\ ~HasPaxSize(p) /\ ParentsFit(staged, p) /\ ~Collides(p)
           /\ entries[p].kind = "link" => LinkResolvedPath(p, entries[p].data) # Refused
<1>1. Number(p) = at /\ at \in Nat
  BY DEF IsMember, Number, ReleaseInv, MembersInv
<1>2. /\ entries = Selection /\ Accepted /\ source \in Trees
      /\ \A q \in DOMAIN entries : q \in DOMAIN source /\ entries[q] = source[q]
  BY SelectionInImage DEF ReleaseInv, EntriesInv, SourceInv, Ordinary
<1>3. \A q \in DOMAIN entries : \A r \in Above(q) : r \in DOMAIN source /\ source[r].kind = "dir"
  BY <1>2, ReleaseAssumption DEF IsTree
<1>4. CopiesInv
  BY DEF UnpackInv
<1>5. ASSUME NEW q \in DOMAIN entries PROVE Number(q) < at + 1 <=> (Number(q) < at \/ q = p)
  <2>1. Number(q) \in Nat /\ (Number(q) = at => q = p)
    BY <1>1, Numbers
  <2>2. QED
    BY <1>1, <2>1
<1>6. ASSUME NEW q \in Above(p), q \in DOMAIN entries PROVE entries[q].kind = "dir" /\ q \in Extracted
  <2>1. Number(q) < at
    BY <1>1, <1>6, Numbers
  <2>2. QED
    BY <1>2, <1>3, <1>6, <2>1 DEF Extracted
<1>7. ASSUME NEW q \in Above(p), q \in DOMAIN staged PROVE staged[q].kind = "dir"
  <2>1. CASE q \in Extracted
    <3>1. q \in DOMAIN entries /\ staged[q] = Copy(q)
      BY <1>4, <2>1 DEF CopiesInv, Extracted
    <3>2. entries[q].kind = "dir"
      BY <1>6, <1>7, <3>1
    <3>3. IsSelection(entries)
      BY <1>2, SelectionTyped DEF Accepted, ReleaseInv
    <3>4. "kind" \in DOMAIN entries[q]
      BY <3>1, <3>3 DEF IsSelection
    <3>5. QED
      BY <3>1, <3>2, <3>4 DEF Copy
  <2>2. CASE q \notin Extracted
    BY <1>4, <1>7, <2>2 DEF CopiesInv
  <2>3. QED
    BY <2>1, <2>2
<1>8. p \notin DOMAIN staged
  <2>1. p \notin Extracted
    BY <1>1 DEF Extracted
  <2>2. ASSUME NEW r \in Extracted, p \in Above(r) PROVE FALSE
    <3>1. r \in DOMAIN entries /\ Number(r) < at
      BY DEF Extracted
    <3>2. Number(r) \in Nat /\ Number(p) < Number(r)
      BY <2>2, <3>1, Numbers
    <3>3. QED
      BY <1>1, <3>1, <3>2
  <2>3. QED
    BY <1>4, <2>1, <2>2 DEF CopiesInv
<1>9. ParentsFit(staged, p)
  BY <1>6, <1>7 DEF ParentsFit
<1>10. ~Collides(p)
  BY <1>8 DEF Collides
<1>11. entries[p].kind = "link" => LinkResolvedPath(p, entries[p].data) # Refused
  BY <1>2 DEF Accepted, LinksClosed
<1>12. ~HasPaxSize(p)
  BY DEF Ordinary
<1>13. QED
  BY <1>5, <1>6, <1>7, <1>8, <1>9, <1>10, <1>11, <1>12

(* It is stored as a copy, or linked to one.                               *)
LEMMA StoredIsCopy ==
    ASSUME ReleaseInv, UnpackInv, ~Uncollected, Ordinary(entries),
           NEW p \in DOMAIN entries, IsMember(at, p)
    PROVE  Stored(WithParents(staged, p), p) = Copy(p)
<1> DEFINE tree == WithParents(staged, p)
           same == {q \in DOMAIN entries : SameFile(p, q)}
           first == DedupeTarget(p)
<1>1. CopiesInv
  BY DEF UnpackInv
<1>2. SUFFICES ASSUME entries[p].kind = "file", first # p, first \in DOMAIN tree
               PROVE  tree[first] = Copy(p)
  BY DEF Stored, Copy
<1>3. first \in same
  <2> DEFINE S == {Rank[q] : q \in same}
  <2>1. \A q \in same, r \in same : Rank[q] \in Nat /\ (Rank[q] = Rank[r] => q = r)
    BY Ranked
  <2>2. p \in same
    BY <1>2 DEF SameFile
  <2>3. PICK q \in same : \A r \in same : Rank[q] <= Rank[r]
    <3>1. Rank[p] \in S /\ S \subseteq Nat
      BY <2>1, <2>2
    <3> HIDE DEF S
    <3>2. PICK n \in S : \A m \in S : n <= m
      BY <3>1, LeastNumber
    <3>3. QED
      BY <3>2 DEF S
  <2>4. \A r \in same \ {q} : Before(q, r)
    <3>1. TAKE r \in same \ {q}
    <3>2. Rank[q] \in Nat /\ Rank[r] \in Nat /\ Rank[q] # Rank[r] /\ Rank[q] <= Rank[r]
      BY <2>1, <2>3
    <3>3. QED
      BY <3>2 DEF Before
  <2> HIDE DEF same
  <2>5. \E x \in same : \A r \in same \ {x} : Before(x, r)
    BY <2>4
  <2>6. first = CHOOSE x \in same : \A r \in same \ {x} : Before(x, r)
    BY DEF DedupeTarget, same
  <2> HIDE DEF first
  <2>7. QED
    BY <2>5, <2>6
<1>4. first \in DOMAIN entries /\ entries[first] = entries[p] /\ entries[first].kind = "file"
  BY <1>3 DEF SameFile
<1> HIDE DEF first, same
<1>5. DOMAIN tree = DOMAIN staged \cup Above(p) /\ \A q \in DOMAIN staged : tree[q] = staged[q]
  BY DEF WithParents
<1>6. first \notin Above(p)
  BY <1>4, OrdinaryMember
<1>7. first \in DOMAIN staged
  BY <1>2, <1>5, <1>6
<1>8. first \in Extracted
  <2>1. ASSUME NEW r \in Extracted, first \in Above(r) PROVE FALSE
    <3>1. r \in DOMAIN entries
      BY DEF Extracted
    <3>2. entries[first].kind = "dir"
      BY <1>4, <2>1, <3>1, AboveIsDir
    <3>3. QED
      BY <1>4, <3>2
  <2>2. QED
    BY <1>1, <1>7, <2>1 DEF CopiesInv
<1>9. staged[first] = Copy(first) /\ Copy(first) = Copy(p)
  BY <1>1, <1>4, <1>8 DEF CopiesInv, Copy
<1>10. QED
  BY <1>5, <1>7, <1>9

(* When all members are unpacked, the tree is as the manifest says.        *)
LEMMA OrdinaryIsVerified ==
    ASSUME ReleaseInv, StagedInv, UnpackInv, pc = "verify", Ordinary(entries) PROVE TreeVerified
<1>1. /\ ~Uncollected /\ entries = Selection /\ Accepted
      /\ policy = ModePolicy(volume)
  BY OutcomeAssumption DEF ReleaseInv, StageInv, EntriesInv, VolumeInv, Uncollected, Stages, PC
<1>2. at = Members /\ CopiesInv
  BY <1>1 DEF UnpackInv
<1>3. Extracted = DOMAIN entries
  BY <1>1, <1>2, Numbers DEF Extracted
<1>4. IsSelection(entries) /\ PlainLinks(entries)
  BY <1>1, SelectionTyped DEF Accepted, ReleaseInv, Ordinary
<1>5. DOMAIN staged = DOMAIN entries \cup UNION {Above(p) : p \in DOMAIN entries}
      /\ \A p \in DOMAIN staged \ DOMAIN entries : staged[p].kind = "dir"
  BY <1>2, <1>3 DEF CopiesInv
<1>6. ASSUME NEW p \in DOMAIN entries
      PROVE  /\ staged[p].kind = entries[p].kind /\ staged[p].data = entries[p].data
             /\ staged[p].mode = policy[[kind |-> entries[p].kind, mode |-> entries[p].mode]]
  <2>1. staged[p] = [entries[p] EXCEPT !.mode = volume[entries[p].kind][entries[p].mode]]
    BY <1>2, <1>3 DEF CopiesInv, Copy
  <2>2. DOMAIN entries[p] = {"kind", "mode", "data"}
    BY <1>4 DEF IsSelection
  <2>3. /\ staged[p].kind = entries[p].kind /\ staged[p].data = entries[p].data
        /\ staged[p].mode = volume[entries[p].kind][entries[p].mode]
    BY <2>1, <2>2
  <2> DEFINE x == [kind |-> entries[p].kind, mode |-> entries[p].mode]
  <2>4. x \in Variants /\ x.kind = entries[p].kind /\ x.mode = entries[p].mode
    BY DEF Variants
  <2> HIDE DEF x
  <2>5. policy[x] = volume[entries[p].kind][entries[p].mode]
    BY <1>1, <2>4 DEF ModePolicy
  <2>6. QED
    BY <2>3, <2>5 DEF x
<1>7. ASSUME NEW p \in DOMAIN entries, staged[p].kind = "link" PROVE VerifySymlinkInside(p)
  <2>1. IsVolume(staged, entries)
    BY <1>5, <1>6 DEF IsVolume, StagedInv
  <2>2. entries[p].kind = "link" /\ IsPath(p)
    BY <1>4, <1>6, <1>7 DEF IsSelection
  <2>3. /\ \A q \in LinksOf(entries) : StaysBelow(entries, q)
        /\ ResolveSymlinkChain(entries, p) # Refused
    BY <1>1, <2>2 DEF Accepted, LinksClosed, LinksOf, StaysBelow
  <2>4. Walked(staged, p) \in DOMAIN entries
    BY <1>4, <2>1, <2>2, <2>3, ResolvesWalked
  <2>5. QED
    BY <2>4 DEF VerifySymlinkInside
<1>8. QED
  BY <1>5, <1>6, <1>7 DEF TreeVerified

(* What the invariant is about follows the variables.                      *)
LEMMA SameOrdinary ==
    ASSUME source' = source, targets' = targets, included' = included, entries' = entries
    PROVE  (Ordinary(entries)' <=> Ordinary(entries)) /\ Members' = Members
<1>1. \A f : InPlace(f)' <=> InPlace(f)
  BY DEF InPlace, IsFile, Present
<1>2. /\ ExcludesInside' <=> ExcludesInside
      /\ WithinLimits' <=> WithinLimits
      /\ \A p : HasPaxSize(p)' <=> HasPaxSize(p)
  BY DEF ExcludesInside, WithinLimits, Variants, HasPaxSize
<1>3. QED
  BY <1>1, <1>2 DEF Ordinary, PlainLinks, LinksOf, Members

(* The same of the members' numbers and copies.                            *)
LEMMA SameNumbers ==
    ASSUME entries' = entries
    PROVE  /\ \A p : Number(p)' = Number(p)
           /\ at' = at => Extracted' = Extracted
           /\ volume' = volume => \A p : Copy(p)' = Copy(p)
           /\ at' = at /\ volume' = volume /\ staged' = staged => (CopiesInv' <=> CopiesInv)
<1>1. \A p : Number(p)' = Number(p)
  BY DEF Number
<1>2. at' = at => Extracted' = Extracted
  BY <1>1 DEF Extracted
<1>3. volume' = volume => \A p : Copy(p)' = Copy(p)
  BY DEF Copy
<1>4. at' = at /\ volume' = volume /\ staged' = staged => (CopiesInv' <=> CopiesInv)
  BY <1>2, <1>3 DEF CopiesInv
<1>5. QED
  BY <1>1, <1>2, <1>3, <1>4

(* A collected runtime has no copies yet.                                  *)
LEMMA CollectUnpacks == ASSUME ReleaseInv, UnpackInv, Collect PROVE UnpackInv'
<1>1. pc = "collect" /\ outcome = None /\ staged' = Empty /\ at' = 0
  BY DEF Collect, materializer, ReleaseInv, StageInv, UnpackInv
<1>2. CASE pc' = "archive" /\ outcome' = None
  <2>1. IsFiniteSet(DOMAIN entries')
    <3>1. entries' = Selection
      BY <1>2, OutcomeAssumption DEF Collect, Refuse, Selection, PC
    <3>2. QED
      BY <3>1, SelectionIsFinite DEF ReleaseInv
  <2>2. ASSUME NEW p \in DOMAIN entries' PROVE ~(Number(p)' < at')
    <3> DEFINE S == {q \in DOMAIN entries' : Before(q, p)}
    <3>1. S \subseteq DOMAIN entries' /\ Number(p)' = Cardinality(S)
      BY DEF Number, Before
    <3> HIDE DEF S
    <3>2. Cardinality(S) \in Nat
      BY <2>1, <3>1, FS_Subset, FS_CardinalityType
    <3>3. QED
      BY <1>1, <3>1, <3>2
  <2>3. Extracted' = {}
    BY <2>2 DEF Extracted
  <2>4. CopiesInv'
    BY <1>1, <2>3 DEF CopiesInv, Empty
  <2>5. QED
    BY <1>2, <2>4, OutcomeAssumption DEF UnpackInv, Stages, PC
<1>3. CASE pc' = "done" /\ outcome' = "collect"
  BY <1>3 DEF UnpackInv, Uncollected
<1>4. QED
  BY <1>1, <1>2, <1>3 DEF Collect, Goto, Refuse

(* The volume is chosen before there are copies.                           *)
LEMMA ProbeUnpacks == ASSUME ReleaseInv, UnpackInv, NEW v \in Volumes, Probe(v) PROVE UnpackInv'
<1>1. /\ pc = "probe" /\ outcome = None /\ at = 0 /\ volume' = v
      /\ source' = source /\ targets' = targets /\ included' = included /\ entries' = entries
      /\ staged' = staged /\ at' = at /\ ~Uncollected
      /\ \/ pc' = "extract" /\ outcome' = None
         \/ pc' = "done" /\ outcome' = "probe" /\ ~(WithinLimits /\ Fit(v))
  BY OutcomeAssumption
     DEF Probe, Goto, Refuse, Fit, ReleaseInv, StageInv, MembersInv, Uncollected, Stages, PC
<1>2. ASSUME Ordinary(entries) PROVE CopiesInv'
  <2>1. Extracted = {}
    <3>1. \A p \in DOMAIN entries : Number(p) \in Nat
      BY <1>1, Numbers
    <3>2. QED
      BY <1>1, <3>1 DEF Extracted
  <2>2. Extracted' = {}
    BY <1>1, <2>1, SameNumbers
  <2>3. DOMAIN staged' = {}
    BY <1>1, <1>2, <2>1 DEF UnpackInv, CopiesInv
  <2>4. QED
    BY <2>2, <2>3 DEF CopiesInv
<1>3. Fit(volume)' <=> Fit(v)
  <2>1. Variants' = Variants
    BY <1>1 DEF Variants
  <2>2. QED
    BY <1>1, <2>1 DEF Fit
<1>4. Ordinary(entries) => WithinLimits
  BY DEF Ordinary
<1>5. QED
  BY <1>1, <1>2, <1>3, <1>4, SameOrdinary, OutcomeAssumption DEF UnpackInv, Stages, PC

(* A member is unpacked as a copy, and adds directories.                   *)
LEMMA ExtractUnpacks == ASSUME ReleaseInv, UnpackInv, ExtractMember PROVE UnpackInv'
<1>1. /\ pc = "extract" /\ outcome = None /\ ~Uncollected /\ at \in Nat
      /\ source' = source /\ targets' = targets /\ included' = included /\ entries' = entries /\ volume' = volume
      /\ pc' \in {"extract", "done"}
  BY OutcomeAssumption
     DEF ExtractMember, Refuse, ReleaseInv, StageInv, MembersInv, Uncollected, Stages, PC
<1>2. SUFFICES ASSUME Ordinary(entries)
               PROVE  pc' = "extract" /\ outcome' = None /\ CopiesInv'
  BY <1>1, SameOrdinary, OutcomeAssumption DEF UnpackInv, Stages, PC
<1>3. CopiesInv
  BY <1>1, <1>2 DEF UnpackInv
<1> DEFINE tree(p) == WithParents(staged, p)
<1>4. PICK p \in DOMAIN entries :
          /\ IsMember(at, p)
          /\ IF /\ ~HasPaxSize(p) /\ ParentsFit(staged, p) /\ ~Collides(p)
                /\ entries[p].kind = "link" => LinkResolvedPath(p, entries[p].data) # Refused
             THEN /\ staged' = [q \in {p} \cup DOMAIN tree(p) |->
                                   IF q = p THEN Stored(tree(p), p) ELSE tree(p)[q]]
                  /\ at' = at + 1 /\ UNCHANGED <<pc, outcome>>
             ELSE Refuse /\ UNCHANGED <<staged, at>>
  BY DEF ExtractMember
<1>5. /\ \A q \in DOMAIN entries : Number(q) < at + 1 <=> (Number(q) < at \/ q = p)
      /\ p \notin DOMAIN staged
      /\ ~HasPaxSize(p) /\ ParentsFit(staged, p) /\ ~Collides(p)
      /\ entries[p].kind = "link" => LinkResolvedPath(p, entries[p].data) # Refused
  BY <1>1, <1>2, <1>4, OrdinaryMember
<1>6. \A q \in Above(p) : q \in DOMAIN entries => q \in Extracted
  BY <1>1, <1>2, <1>4, OrdinaryMember
<1>7. Stored(tree(p), p) = Copy(p)
  BY <1>1, <1>2, <1>4, StoredIsCopy
<1>8. /\ staged' = [q \in {p} \cup DOMAIN tree(p) |-> IF q = p THEN Copy(p) ELSE tree(p)[q]]
      /\ at' = at + 1 /\ pc' = pc /\ outcome' = outcome
  BY <1>4, <1>5, <1>7
<1>9. DOMAIN tree(p) = DOMAIN staged \cup Above(p)
      /\ \A q \in DOMAIN tree(p) :
             IF q \in DOMAIN staged THEN tree(p)[q] = staged[q] ELSE tree(p)[q].kind = "dir"
  BY DEF WithParents
<1> HIDE DEF tree
<1>10. Extracted' = Extracted \cup {p}
  <2>1. \A q : Number(q)' = Number(q)
    BY <1>1, SameNumbers
  <2>2. Extracted' = {q \in DOMAIN entries : Number(q) < at + 1}
    BY <1>1, <1>8, <2>1 DEF Extracted
  <2>3. QED
    BY <1>4, <1>5, <2>2 DEF Extracted
<1>11. DOMAIN staged' = Extracted' \cup UNION {Above(q) : q \in Extracted'}
  BY <1>3, <1>8, <1>9, <1>10 DEF CopiesInv
<1>12. ASSUME NEW q \in Extracted' PROVE staged'[q] = Copy(q)'
  <2>1. Copy(q)' = Copy(q)
    BY <1>1, SameNumbers
  <2>2. CASE q = p
    BY <1>8, <2>1, <2>2
  <2>3. CASE q # p
    <3>1. q \in Extracted /\ q \in DOMAIN staged /\ staged[q] = Copy(q)
      BY <1>3, <1>10, <2>3 DEF CopiesInv
    <3>2. QED
      BY <1>8, <1>9, <2>1, <2>3, <3>1
  <2>4. QED
    BY <2>2, <2>3
<1>13. ASSUME NEW q \in DOMAIN staged' \ Extracted' PROVE staged'[q].kind = "dir"
  <2>1. q # p /\ q \notin Extracted /\ q \in DOMAIN tree(p) /\ staged'[q] = tree(p)[q]
    BY <1>8, <1>10
  <2>2. q \in DOMAIN staged => staged[q].kind = "dir"
    BY <1>3, <2>1 DEF CopiesInv
  <2>3. QED
    BY <1>9, <2>1, <2>2
<1>14. CopiesInv'
  BY <1>11, <1>12, <1>13 DEF CopiesInv
<1>15. QED
  BY <1>1, <1>8, <1>14

(* The other stages leave the volume alone.                                *)
LEMMA OthersUnpack ==
    ASSUME ReleaseInv, StagedInv, UnpackInv,
           Audit \/ PlaceArchive \/ ValidateManifest \/ ExtractionEnds \/ Verify \/ UNCHANGED vars
    PROVE  UnpackInv'
<1>1. /\ source' = source /\ targets' = targets /\ included' = included /\ entries' = entries /\ volume' = volume
      /\ staged' = staged /\ at' = at
  BY DEF Audit, PlaceArchive, ValidateManifest, ExtractionEnds, Verify, vars, materializer
<1>2. /\ Ordinary(entries)' <=> Ordinary(entries)
      /\ Members' = Members /\ (CopiesInv' <=> CopiesInv)
      /\ Fit(volume)' <=> Fit(volume)
  <2>1. Variants' = Variants
    BY <1>1 DEF Variants
  <2>2. Fit(volume)' <=> Fit(volume)
    BY <1>1, <2>1 DEF Fit
  <2>3. QED
    BY <1>1, <2>2, SameOrdinary, SameNumbers
<1>3. pc \in Stages => outcome = None /\ (Uncollected <=> pc \in {"audit", "collect"})
  BY OutcomeAssumption DEF ReleaseInv, StageInv, Uncollected, Stages, PC
<1>4. CASE Audit
  <2>1. pc = "audit" /\ pc' = "collect" /\ outcome' = outcome
    BY <1>4 DEF Audit, Goto
  <2>2. QED
    BY <1>1, <2>1 DEF UnpackInv, Uncollected
<1>5. CASE PlaceArchive
  <2>1. pc = "archive" /\ pc' = "manifest" /\ outcome' = outcome
    BY <1>5 DEF PlaceArchive, Goto
  <2>2. QED
    BY <1>2, <1>3, <2>1 DEF UnpackInv, Stages, PC
<1>6. CASE ValidateManifest
  <2>1. pc = "manifest" /\ ~Uncollected /\ outcome = None
    BY <1>3, <1>6 DEF ValidateManifest, Stages, PC
  <2>2. Ordinary(entries) => pc' = "probe" /\ outcome' = outcome
    BY <1>6, <2>1, OrdinaryIsAccepted DEF ValidateManifest, Goto
  <2>3. pc' \in {"probe", "done"}
    BY <1>6 DEF ValidateManifest, Goto, Refuse
  <2>4. QED
    BY <1>2, <2>1, <2>2, <2>3 DEF UnpackInv
<1>7. CASE ExtractionEnds
  <2>1. pc = "extract" /\ at = Members /\ pc' = "verify" /\ outcome' = outcome
    BY <1>7 DEF ExtractionEnds, Goto
  <2>2. QED
    BY <1>1, <1>2, <1>3, <2>1 DEF UnpackInv, Stages, PC
<1>8. CASE Verify
  <2>1. pc = "verify" /\ pc' = "done" /\ (Ordinary(entries) => outcome' = "ok") /\ outcome' # None
    BY <1>8, OrdinaryIsVerified, OutcomeAssumption DEF Verify, Stages, PC
  <2>2. QED
    BY <1>2, <1>3, <2>1 DEF UnpackInv, Stages, PC
<1>9. CASE UNCHANGED vars
  <2>1. pc' = pc /\ outcome' = outcome
    BY <1>9 DEF vars
  <2>2. QED
    BY <1>1, <1>2, <2>1 DEF UnpackInv, Uncollected
<1>10. QED
  BY <1>4, <1>5, <1>6, <1>7, <1>8, <1>9

(* So it always holds.                                                     *)
LEMMA UnpackAlways == Spec => []UnpackInv
<1>1. Init => UnpackInv
  BY DEF Init, UnpackInv, Uncollected
<1>2. ASSUME ReleaseInv, StagedInv, UnpackInv, [Next]_vars PROVE UnpackInv'
  BY <1>2, CollectUnpacks, ProbeUnpacks, ExtractUnpacks, OthersUnpack DEF Next
<1>3. QED
  BY <1>1, <1>2, ReleaseAlways, StagedAlways, PTL DEF Spec

(* What the exporter lets through, nothing after it refuses, but an unfit  *)
(* volume: an ordinary runtime that has an archive is described, unpacked  *)
(* and verified.                                                           *)
THEOREM Unpacked == Spec => []ExportedCanBeUnpacked
<1>1. ASSUME ReleaseInv, UnpackInv PROVE ExportedCanBeUnpacked
  <2>1. SUFFICES ASSUME pc = "done", archives # {}, Ordinary(entries)
                 PROVE  outcome = "ok" \/ (outcome = "probe" /\ ~Fit(volume))
    BY DEF ExportedCanBeUnpacked
  <2>2. ~Uncollected /\ outcome \in {"archive", "manifest", "probe", "extract", "verify", "ok"}
    BY <1>1, <2>1 DEF ReleaseInv, StageInv, EntriesInv, Uncollected, Stages, PC
  <2>3. QED
    BY <1>1, <2>1, <2>2 DEF UnpackInv
<1>2. QED
  BY <1>1, ReleaseAlways, UnpackAlways, PTL
=============================================================================
