------------------------- MODULE PortabilityGateProofs -------------------------
(***************************************************************************)
(* Theorems about PortabilityGate for any image, inventory, groups, limits *)
(* and probes: first the sanitizer, with what its filter of a sequence     *)
(* computes, then the gate.                                                *)
(***************************************************************************)
EXTENDS PortabilityGate, FiniteSetTheorems, WellFoundedInduction, TLAPS

(* Induction on the natural numbers, as a fact about a set: the least      *)
(* number that is not in it would follow one that is.                      *)
LEMMA NatSet ==
    ASSUME NEW S, 0 \in S, \A n \in Nat : n \in S => n + 1 \in S
    PROVE  Nat \subseteq S
<1>1. SUFFICES ASSUME Nat \ S # {} PROVE FALSE
  OBVIOUS
<1>2. PICK x \in Nat \ S : \A y \in Nat \ S : ~(<<y, x>> \in OpToRel(<, Nat))
  BY <1>1, NatLessThanWellFounded, WFMin
<1>3. \A y \in Nat \ S : ~(y < x)
  BY <1>2 DEF OpToRel
<1>4. x # 0
  BY <1>2
<1>5. x - 1 \in Nat /\ x - 1 < x
  BY <1>4
<1>6. QED
  BY <1>3, <1>5

(* f is the function that Keep names, on the first n members of s; there   *)
(* is one, so Keep has the value its recursion says.                       *)
Kept(s, S, f, n) ==
  f = [m \in 0 .. n |->
        IF m = 0 THEN <<>> ELSE IF s[m] \in S THEN Append(f[m - 1], s[m]) ELSE f[m - 1]]

LEMMA KeptExists ==
    ASSUME NEW V, NEW s \in Seq(V), NEW S
    PROVE  \A n \in Nat : n <= Len(s) => \E f : Kept(s, S, f, n)
<1> DEFINE N == {n \in Nat : n <= Len(s) => \E f : Kept(s, S, f, n)}
<1>1. 0 \in N
  <2> DEFINE g == [m \in 0 .. 0 |-> <<>>]
  <2>1. Kept(s, S, g, 0)
    BY DEF Kept
  <2>2. QED
    BY <2>1
<1>2. ASSUME NEW n \in Nat, n \in N PROVE n + 1 \in N
  <2>1. SUFFICES ASSUME n + 1 <= Len(s) PROVE \E f : Kept(s, S, f, n + 1)
    BY <1>2
  <2>2. PICK f : Kept(s, S, f, n)
    BY <1>2, <2>1
  <2> DEFINE g == [m \in 0 .. n + 1 |-> IF m <= n THEN f[m]
                     ELSE IF s[n + 1] \in S THEN Append(f[n], s[n + 1]) ELSE f[n]]
  <2>3. \A m \in 0 .. n + 1 : g[m] =
            IF m = 0 THEN <<>> ELSE IF s[m] \in S THEN Append(g[m - 1], s[m]) ELSE g[m - 1]
    <3>1. \A m \in 0 .. n : f[m] =
            IF m = 0 THEN <<>> ELSE IF s[m] \in S THEN Append(f[m - 1], s[m]) ELSE f[m - 1]
      BY <2>2 DEF Kept
    <3>2. TAKE m \in 0 .. n + 1
    <3>3. CASE m <= n
      <4>1. m \in 0 .. n /\ g[m] = f[m] /\ (m # 0 => m - 1 \in 0 .. n /\ m - 1 \in 0 .. n+1 /\ g[m - 1] = f[m - 1])
        BY <3>3
      <4>2. QED
        BY <3>1, <4>1
    <3>4. CASE m = n + 1
      <4>1. g[n] = f[n] /\ m # 0 /\ m - 1 = n
        BY <3>4
      <4>2. QED
        BY <4>1, <3>4
    <3>5. QED
      BY <3>3, <3>4
  <2>4. Kept(s, S, g, n + 1)
    BY <2>3 DEF Kept
  <2>5. QED
    BY <2>4
<1>3. QED
  <2>1. Nat \subseteq N
    <3> HIDE DEF N
    <3>1. QED BY <1>1, <1>2, NatSet
  <2>2. QED BY <2>1

LEMMA KeepIsKept ==
    ASSUME NEW V, NEW s \in Seq(V), NEW S
    PROVE  \E f : Kept(s, S, f, Len(s)) /\ Keep(s, S) = f[Len(s)]
<1> DEFINE f == CHOOSE f : Kept(s, S, f, Len(s))
<1>1. Kept(s, S, f, Len(s))
  <2>1. Len(s) \in Nat /\ Len(s) <= Len(s)
    OBVIOUS
  <2>2. \E g : Kept(s, S, g, Len(s))
    BY <2>1, KeptExists
  <2>3. QED
    BY <2>2
<1>2. Keep(s, S) = f[Len(s)]
  BY DEF Keep, Kept
<1>3. QED
  BY <1>1, <1>2

LEMMA InToSet ==
    ASSUME NEW V, NEW s \in Seq(V), NEW v
    PROVE  v \in ToSet(s) <=> \E i \in 1 .. Len(s) : s[i] = v
<1>1. DOMAIN s = 1 .. Len(s)
  OBVIOUS
<1>2. QED
  BY <1>1 DEF ToSet

(* What Keep returns: a sequence of just the members that are in S, and    *)
(* the sequence itself when all are.                                       *)
LEMMA KeepOfSeq ==
    ASSUME NEW V, NEW s \in Seq(V), NEW S
    PROVE  /\ Keep(s, S) \in Seq(V)
           /\ ToSet(Keep(s, S)) = ToSet(s) \cap S
           /\ ToSet(s) \subseteq S => Keep(s, S) = s
<1>1. PICK f : Kept(s, S, f, Len(s)) /\ Keep(s, S) = f[Len(s)]
  BY KeepIsKept
<1>2. /\ f[0] = <<>>
      /\ \A n \in 1 .. Len(s) :
            f[n] = IF s[n] \in S THEN Append(f[n - 1], s[n]) ELSE f[n - 1]
  <2>1. \A n \in 0 .. Len(s) : f[n] =
            IF n = 0 THEN <<>> ELSE IF s[n] \in S THEN Append(f[n - 1], s[n]) ELSE f[n - 1]
    BY <1>1 DEF Kept
  <2>2. 0 \in 0 .. Len(s) /\ \A n \in 1 .. Len(s) : n \in 0 .. Len(s) /\ n # 0
    OBVIOUS
  <2>3. QED
    BY <2>1, <2>2
<1> DEFINE Good(n) == /\ f[n] \in Seq(V)
                      /\ \A v : v \in ToSet(f[n]) <=> \E i \in 1 .. n : s[i] = v /\ v \in S
                      /\ ToSet(s) \subseteq S => Len(f[n]) = n /\ \A i \in 1 .. n : f[n][i] = s[i]
           N == {n \in Nat : n <= Len(s) => Good(n)}
<1>3. 0 \in N
  <2>1. <<>> \in Seq(V) /\ Len(<<>>) = 0 /\ 1 .. 0 = {}
    OBVIOUS
  <2>2. \A v : v \notin ToSet(<<>>)
    BY <2>1, InToSet
  <2>3. QED
    BY <1>2, <2>1, <2>2
<1>4. ASSUME NEW n \in Nat, n \in N PROVE n + 1 \in N
  <2>1. SUFFICES ASSUME n + 1 <= Len(s) PROVE Good(n + 1)
    OBVIOUS
  <2>2. Good(n) /\ n + 1 \in 1 .. Len(s) /\ (n + 1) - 1 = n
    BY <1>4, <2>1
  <2>3. s[n + 1] \in V /\ s[n + 1] \in ToSet(s)
    BY <2>2 DEF ToSet
  <2>4. CASE s[n + 1] \in S
    <3>1. f[n + 1] = Append(f[n], s[n + 1])
      BY <1>2, <2>2, <2>4
    <3>2. f[n + 1] \in Seq(V) /\ Len(f[n + 1]) = Len(f[n]) + 1
      BY <2>2, <2>3, <3>1
    <3>3. \A i \in 1 .. Len(f[n + 1]) : f[n + 1][i] = IF i <= Len(f[n]) THEN f[n][i] ELSE s[n + 1]
      BY <2>2, <2>3, <3>1
    <3>4. ASSUME NEW v PROVE v \in ToSet(f[n + 1]) <=> v \in ToSet(f[n]) \/ v = s[n + 1]
      <4>1. v \in ToSet(f[n]) <=> \E i \in 1 .. Len(f[n]) : f[n][i] = v
        BY <2>2, InToSet
      <4>2. v \in ToSet(f[n + 1]) <=> \E i \in 1 .. Len(f[n + 1]) : f[n + 1][i] = v
        BY <3>2, InToSet
      <4>3. Len(f[n]) \in Nat
        BY <2>2
      <4>4. /\ \A i \in 1 .. Len(f[n]) : i \in 1 .. Len(f[n + 1]) /\ f[n + 1][i] = f[n][i]
            /\ Len(f[n]) + 1 \in 1 .. Len(f[n + 1]) /\ f[n + 1][Len(f[n]) + 1] = s[n + 1]
            /\ \A i \in 1 .. Len(f[n + 1]) : i \in 1 .. Len(f[n]) \/ i = Len(f[n]) + 1
        BY <3>2, <3>3, <4>3
      <4>5. QED
        BY <4>1, <4>2, <4>4
    <3>5. QED
      BY <2>2, <2>4, <3>2, <3>3, <3>4
  <2>5. CASE s[n + 1] \notin S
    <3>1. f[n + 1] = f[n]
      BY <1>2, <2>2, <2>5
    <3>2. QED
      BY <2>2, <2>3, <2>5, <3>1
  <2>6. QED
    BY <2>4, <2>5
<1>5. Good(Len(s))
  <2>1. Nat \subseteq N
    <3> HIDE DEF N
    <3>1. QED
      BY <1>3, <1>4, NatSet
  <2>2. Len(s) \in Nat /\ Len(s) <= Len(s)
    OBVIOUS
  <2>3. QED
    BY <2>1, <2>2
<1>6. ToSet(Keep(s, S)) = ToSet(s) \cap S
  <2>1. \A v : v \in ToSet(s) <=> \E i \in 1 .. Len(s) : s[i] = v
    BY InToSet
  <2>2. QED
    BY <1>1, <1>5, <2>1
<1>7. ASSUME ToSet(s) \subseteq S PROVE Keep(s, S) = s
  BY <1>1, <1>5, <1>7
<1>8. QED
  BY <1>1, <1>5, <1>6, <1>7

-----------------------------------------------------------------------------
(* What the sanitizer makes of an entry and of a file.                     *)
LEMMA EntryCleaned ==
    ASSUME NEW e, IsEntry(e)
    PROVE  /\ ToSet(CleanEntry(e).value) = ToSet(e.value) \ {Blank}
           /\ ~IsDirty(e) => CleanEntry(e) = e
<1>1. e.value \in Seq(ToSet(e.value)) /\ e = [tag |-> e.tag, value |-> e.value]
  BY DEF IsEntry, IsSequence
<1>2. CleanEntry(e) = [e EXCEPT !.value = Keep(e.value, ToSet(e.value) \ {Blank})]
  BY DEF CleanEntry
<1>3. /\ CleanEntry(e).value = Keep(e.value, ToSet(e.value) \ {Blank})
      /\ CleanEntry(e) = [tag |-> e.tag, value |-> Keep(e.value, ToSet(e.value) \ {Blank})]
  BY <1>1, <1>2
<1>4. ToSet(CleanEntry(e).value) = ToSet(e.value) \cap (ToSet(e.value) \ {Blank})
  BY <1>1, <1>3, KeepOfSeq
<1>5. ASSUME ~IsDirty(e) PROVE CleanEntry(e) = e
  <2>1. ToSet(e.value) \subseteq ToSet(e.value) \ {Blank}
    BY <1>5 DEF IsDirty
  <2>2. Keep(e.value, ToSet(e.value) \ {Blank}) = e.value
    BY <1>1, <2>1, KeepOfSeq
  <2>3. QED
    BY <1>1, <1>3, <2>2
<1>6. QED
  BY <1>4, <1>5

LEMMA FileCleaned ==
    ASSUME NEW f, IsContents(f)
    PROVE  /\ ~Dirty(Cleaned(f))
           /\ ~Dirty(f) => Cleaned(f) = f
           /\ Cleaned(f) = [kind |-> f.kind, mode |-> f.mode, interpreter |-> f.interpreter,
                            needed |-> f.needed, search |-> Cleaned(f).search]
<1> DEFINE all == [i \in DOMAIN f.search |-> CleanEntry(f.search[i])]
           S == {entry \in ToSet(all) : entry.value # <<>>}
<1>1. /\ f.search \in Seq(ToSet(f.search)) /\ DOMAIN f.search = 1 .. Len(f.search)
      /\ Len(f.search) \in Nat
  <2>1. f.search \in Seq(ToSet(f.search))
    BY DEF IsContents, IsSequence
  <2>2. QED
    BY <2>1
<1>2. f = [kind |-> f.kind, mode |-> f.mode, interpreter |-> f.interpreter,
           needed |-> f.needed, search |-> f.search]
  BY DEF IsContents
<1>3. all \in Seq(ToSet(all))
  <2>1. \A i \in 1 .. Len(f.search) : all[i] \in ToSet(all)
    BY <1>1 DEF ToSet
  <2>2. all = [i \in 1 .. Len(f.search) |-> all[i]]
    BY <1>1
  <2>3. QED
    BY <1>1, <2>1, <2>2
<1>4. Cleaned(f) = [f EXCEPT !.search = Keep(all, S)]
  BY DEF Cleaned
<1>5. Cleaned(f) = [kind |-> f.kind, mode |-> f.mode, interpreter |-> f.interpreter,
                    needed |-> f.needed, search |-> Keep(all, S)]
  BY <1>2, <1>4
<1>6. /\ Keep(all, S) \in Seq(ToSet(all)) /\ ToSet(Keep(all, S)) = S
      /\ ToSet(all) \subseteq S => Keep(all, S) = all
  BY <1>3, KeepOfSeq
<1>7. ~Dirty(Cleaned(f))
  <2>1. SUFFICES ASSUME NEW i \in DOMAIN Keep(all, S), IsDirty(Keep(all, S)[i]) PROVE FALSE
    BY <1>5 DEF Dirty
  <2>2. Keep(all, S)[i] \in ToSet(all)
    BY <1>6
  <2>3. PICK j \in DOMAIN f.search : Keep(all, S)[i] = CleanEntry(f.search[j])
    BY <2>2 DEF ToSet
  <2>4. Blank \notin ToSet(CleanEntry(f.search[j]).value)
    BY EntryCleaned DEF IsContents
  <2>5. QED
    BY <2>1, <2>3, <2>4 DEF IsDirty
<1>8. ASSUME ~Dirty(f) PROVE Cleaned(f) = f
  <2>1. \A i \in DOMAIN f.search : all[i] = f.search[i]
    BY <1>8, EntryCleaned DEF IsContents, Dirty
  <2>2. all = f.search
    <3>1. f.search = [i \in DOMAIN f.search |-> f.search[i]]
      BY <1>1
    <3> HIDE DEF all
    <3>2. all = [i \in DOMAIN f.search |-> f.search[i]]
      BY <2>1 DEF all
    <3>3. QED
      BY <3>1, <3>2
  <2>3. ToSet(all) \subseteq S
    <3>1. \A i \in DOMAIN f.search : f.search[i].value # <<>>
      BY DEF IsContents, IsEntry
    <3>2. \A e \in ToSet(f.search) : e.value # <<>>
      BY <3>1 DEF ToSet
    <3>3. QED
      BY <2>2, <3>2
  <2>4. QED
    BY <1>2, <1>5, <1>6, <2>2, <2>3
<1>9. QED
  BY <1>5, <1>7, <1>8

(* _verify_patch lets nothing through that differs, in what is compared,   *)
(* from the file as it should be.                                          *)
LEMMA Verified ==
    ASSUME NEW f, IsContents(f), Dirty(f), NEW result \in PatchResults(f), VerifyPatch(f, result)
    PROVE  Agree(result, Cleaned(f))
<1>1. result # f
  BY DEF VerifyPatch
<1>2. Cleaned(f) = [kind |-> f.kind, mode |-> f.mode, interpreter |-> f.interpreter,
                    needed |-> f.needed, search |-> Cleaned(f).search]
  BY FileCleaned
<1>3. CASE result = [Cleaned(f) EXCEPT !.needed = {Other}]
  BY <1>2, <1>3 DEF VerifyPatch, Agree
<1>4. CASE result = [Cleaned(f) EXCEPT !.mode = Other]
  BY <1>2, <1>4 DEF VerifyPatch, Agree
<1>5. CASE result = [Cleaned(f) EXCEPT !.search = <<>>]
  BY <1>2, <1>5 DEF VerifyPatch, Agree
<1>6. CASE result = [Cleaned(f) EXCEPT !.interpreter = Other]
  BY <1>2, <1>6 DEF Agree
<1>7. CASE result = Cleaned(f)
  BY <1>7 DEF Agree
<1>8. QED
  BY <1>1, <1>3, <1>4, <1>5, <1>6, <1>7 DEF PatchResults

(* A file is right when it is what the sanitizer should make of the one    *)
(* that was built; then it has no empty component.                         *)
Right(f, original) == IF Dirty(original) THEN Agree(f, Cleaned(original)) ELSE f = original

LEMMA RightIsClean ==
    ASSUME NEW original, IsContents(original), NEW f, Right(f, original)
    PROVE  ~Dirty(f)
<1>1. CASE Dirty(original)
  <2>1. f.search = Cleaned(original).search
    BY <1>1 DEF Right, Agree
  <2>2. ~Dirty(Cleaned(original))
    BY FileCleaned
  <2>3. QED
    BY <2>1, <2>2 DEF Dirty
<1>2. CASE ~Dirty(original)
  BY <1>2 DEF Right
<1>3. QED
  BY <1>1, <1>2
-----------------------------------------------------------------------------
(* The sanitizer's invariant.  The image: hard links are the same file,    *)
(* and as it was built it is well formed.                                  *)
ImageInv ==
    /\ DOMAIN node \subseteq Paths /\ DOMAIN built = DOMAIN node
    /\ \A p \in DOMAIN node :
          /\ node[p] \in DOMAIN file /\ IsContents(built[p])
          /\ [path |-> p, file |-> built[p]] # None
          /\ sanitizer # "failed" => node[p] # Fresh
          /\ \A q \in DOMAIN node : node[p] = node[q] => built[p] = built[q]

Done(p)     == Right(Tree[p], built[p])
Sound(p)    == Tree[p] = built[p] \/ Done(p)
Patching    == {"patch", "verify", "unlink", "restore"}
Untouched   == {"none", "foreign", "scan"}
Consistent  == {"inspect", "patch", "unlink", "clean"}
SameNode(p) == node[p] = node[Current]

(* What is handled is clean and stays so: not even a hard link of it is    *)
(* patched.  What is patched was as built before, and only it, under all   *)
(* of its names, may be anything.                                          *)
ProgressInv ==
    /\ sanitizer \in {"none", "foreign", "scan", "inspect", "clean", "failed"} \cup Patching
    /\ todo \in Seq(DOMAIN node)
    /\ sanitizer \in Untouched => \A p \in DOMAIN node : Tree[p] = built[p]
    /\ sanitizer \in Consistent => \A p \in DOMAIN node : Sound(p)
    /\ sanitizer \in Patching \cup {"inspect", "clean"} =>
          \A p \in DOMAIN node \ ToSet(todo) : Done(p)
    /\ sanitizer = "clean" => todo = <<>>
    /\ sanitizer \notin Patching \cup {"failed"} => backup = None
    /\ sanitizer \in Patching =>
          /\ todo # <<>> /\ backup = [path |-> Current, file |-> built[Current]]
          /\ Dirty(built[Current])
    /\ sanitizer \in Patching \ {"unlink"} =>
          /\ \A p \in DOMAIN node : Sound(p) \/ SameNode(p)
          /\ \A p \in DOMAIN node \ ToSet(todo) : ~SameNode(p)
    /\ sanitizer = "patch" => Tree[Current] = built[Current]
    /\ sanitizer = "verify" => Tree[Current] \in PatchResults(built[Current])
    /\ sanitizer = "unlink" => Done(Current)

SanitizerInv == ImageInv /\ ProgressInv /\ OriginalNeverLost
-----------------------------------------------------------------------------
LEMMA SanitizerInit == Init => SanitizerInv
<1>1. SUFFICES ASSUME Init PROVE SanitizerInv
  OBVIOUS
<1>2. DOMAIN node = {} /\ <<>> \in Seq(DOMAIN node)
  BY <1>1 DEF Init
<1>3. QED
  BY <1>1, <1>2 DEF Init, SanitizerInv, ImageInv, ProgressInv, OriginalNeverLost, Patching,
                    Untouched, Consistent

LEMMA AllSound == ASSUME \A p \in DOMAIN node : Sound(p) PROVE OriginalNeverLost
  BY DEF OriginalNeverLost, Sound, Done, Right

(* A step that touches no file.                                            *)
LEMMA SameTree ==
    ASSUME UNCHANGED <<node, file, built>>
    PROVE  /\ Tree' = Tree
           /\ \A p : (Sound(p)' <=> Sound(p)) /\ (Done(p)' <=> Done(p))
           /\ OriginalNeverLost /\ backup' = backup => OriginalNeverLost'
           /\ ImageInv /\ sanitizer # "failed" => ImageInv'
<1>1. Tree' = Tree
  BY DEF Tree, Holds
<1>2. QED
  BY <1>1 DEF Sound, Done, OriginalNeverLost, ImageInv

LEMMA HeadTail ==
    ASSUME NEW S, NEW s \in Seq(S), s # <<>>
    PROVE  /\ Head(s) \in S /\ Head(s) \in ToSet(s) /\ Tail(s) \in Seq(S)
           /\ ToSet(s) = {Head(s)} \cup ToSet(Tail(s))
<1>1. /\ Len(s) \in Nat /\ Len(s) >= 1 /\ Head(s) = s[1] /\ Tail(s) \in Seq(S)
      /\ Len(Tail(s)) = Len(s) - 1 /\ \A i \in 1 .. Len(s) - 1 : Tail(s)[i] = s[i + 1]
      /\ DOMAIN s = 1 .. Len(s) /\ DOMAIN Tail(s) = 1 .. Len(s) - 1
  OBVIOUS
<1>2. Head(s) \in S /\ Head(s) \in ToSet(s)
  BY <1>1 DEF ToSet
<1>3. ASSUME NEW v \in ToSet(Tail(s)) PROVE v \in ToSet(s)
  <2>1. PICK i \in 1 .. Len(s) - 1 : v = Tail(s)[i]
    BY <1>1, <1>3 DEF ToSet
  <2>2. i + 1 \in DOMAIN s /\ v = s[i + 1]
    BY <1>1, <2>1
  <2>3. QED
    BY <2>2 DEF ToSet
<1>4. ASSUME NEW v \in ToSet(s), v # Head(s) PROVE v \in ToSet(Tail(s))
  <2>1. PICK i \in 1 .. Len(s) : v = s[i]
    BY <1>1, <1>4 DEF ToSet
  <2>2. i - 1 \in DOMAIN Tail(s) /\ Tail(s)[i - 1] = v
    BY <1>1, <1>4, <2>1
  <2>3. QED
    BY <2>2 DEF ToSet
<1>5. QED
  BY <1>1, <1>2, <1>3, <1>4

LEMMA BuildSanitizer ==
    ASSUME NEW tree \in Trees, BuildImage(tree)
    PROVE  SanitizerInv'
<1>1. /\ node' = tree.node /\ file' = tree.file /\ todo' = <<>> /\ backup' = None
      /\ built' = [p \in DOMAIN tree.node |-> tree.file[tree.node[p]]]
      /\ sanitizer' \in {"scan", "foreign"}
  BY DEF BuildImage, Build
<1>2. ImageInv'
  BY <1>1, SanitizerAssumption DEF ImageInv
<1>3. \A p \in DOMAIN node' : Tree'[p] = built'[p]
  BY <1>1 DEF Tree, Holds
<1>4. ProgressInv'
  BY <1>1, <1>3 DEF ProgressInv, Untouched, Consistent, Patching
<1>5. OriginalNeverLost'
  BY <1>3 DEF OriginalNeverLost
<1>6. QED
  BY <1>2, <1>4, <1>5 DEF SanitizerInv

(* What is not on the list is no ELF file, and has no search path.         *)
LEMMA ScanSanitizer == ASSUME SanitizerInv, Scan PROVE SanitizerInv'
<1>1. /\ sanitizer = "scan" /\ sanitizer' = "inspect"
      /\ UNCHANGED <<node, file, built, backup>>
      /\ todo' = Keep(Order, {p \in DOMAIN node : Tree[p].kind = "elf"})
  BY DEF Scan
<1>2. ImageInv' /\ OriginalNeverLost' /\ Tree' = Tree
  BY <1>1, SameTree DEF SanitizerInv
<1>3. \A p \in DOMAIN node : Tree[p] = built[p] /\ IsContents(built[p])
  BY <1>1 DEF SanitizerInv, ImageInv, ProgressInv, Untouched
<1> DEFINE Elf == {p \in DOMAIN node : Tree[p].kind = "elf"}
<1>4. /\ todo' \in Seq(ToSet(Order)) /\ ToSet(todo') = ToSet(Order) \cap Elf
  BY <1>1, KeepOfSeq, SanitizerAssumption DEF IsSequence
<1>5. DOMAIN node \subseteq ToSet(Order)
  BY DEF SanitizerInv, ImageInv, Paths
<1>6. ToSet(todo') = Elf
  BY <1>4, <1>5
<1>7. todo' \in Seq(DOMAIN node)
  <2>1. /\ Len(todo') \in Nat /\ DOMAIN todo' = 1 .. Len(todo')
        /\ todo' = [i \in 1 .. Len(todo') |-> todo'[i]]
    BY <1>4
  <2>2. \A i \in 1 .. Len(todo') : todo'[i] \in DOMAIN node
    BY <1>6, <2>1 DEF ToSet
  <2>3. QED
    BY <2>1, <2>2
<1>8. ASSUME NEW p \in DOMAIN node, p \notin Elf PROVE Done(p)
  <2>1. built[p].search = <<>>
    BY <1>3, <1>8 DEF IsContents
  <2>2. ~Dirty(built[p])
    BY <2>1 DEF Dirty
  <2>3. QED
    BY <1>3, <2>2 DEF Done, Right
<1>9. \A p : (Sound(p)' <=> Sound(p)) /\ (Done(p)' <=> Done(p))
  BY <1>1, SameTree
<1>10. \A p \in DOMAIN node : Sound(p)
  BY <1>3 DEF Sound
<1>11. ProgressInv'
  BY <1>1, <1>2, <1>6, <1>7, <1>8, <1>9, <1>10
     DEF SanitizerInv, ProgressInv, Untouched, Consistent, Patching
<1>12. QED
  BY <1>2, <1>11 DEF SanitizerInv

LEMMA FailSanitizer == ASSUME SanitizerInv, Fail \/ RefuseSeveral PROVE SanitizerInv'
<1>1. /\ sanitizer \in {"scan", "inspect"} /\ sanitizer' = "failed"
      /\ UNCHANGED <<node, file, built, todo, backup>>
  BY DEF Fail, RefuseSeveral
<1>2. ImageInv' /\ OriginalNeverLost'
  BY <1>1, SameTree DEF SanitizerInv
<1>3. ProgressInv'
  BY <1>1 DEF SanitizerInv, ProgressInv, Untouched, Consistent, Patching
<1>4. QED
  BY <1>2, <1>3 DEF SanitizerInv

(* What is passed over is as it was built, or was cleaned under another    *)
(* name; either way it is clean.                                           *)
LEMMA SkipSanitizer == ASSUME SanitizerInv, Skip PROVE SanitizerInv'
<1>1. /\ sanitizer = "inspect" /\ sanitizer' = "inspect" /\ todo # <<>> /\ todo' = Tail(todo)
      /\ ~Dirty(Tree[Current]) /\ UNCHANGED <<node, file, built, backup>>
  BY DEF Skip
<1>2. /\ ImageInv' /\ OriginalNeverLost' /\ Tree' = Tree
      /\ \A p : (Sound(p)' <=> Sound(p)) /\ (Done(p)' <=> Done(p))
  BY <1>1, SameTree DEF SanitizerInv
<1>3. /\ Current \in DOMAIN node /\ todo' \in Seq(DOMAIN node)
      /\ ToSet(todo) = {Current} \cup ToSet(todo')
  BY <1>1, HeadTail DEF SanitizerInv, ProgressInv, Current
<1>4. Done(Current)
  <2>1. IsContents(built[Current]) /\ Sound(Current)
    BY <1>1, <1>3 DEF SanitizerInv, ImageInv, ProgressInv, Consistent
  <2>2. QED
    BY <1>1, <2>1 DEF Sound, Done, Right
<1>5. ProgressInv'
  BY <1>1, <1>2, <1>3, <1>4 DEF SanitizerInv, ProgressInv, Untouched, Consistent, Patching
<1>6. QED
  BY <1>2, <1>5 DEF SanitizerInv

(* A dirty file is as it was built, and none of its names is handled yet.  *)
LEMMA BackUpSanitizer == ASSUME SanitizerInv, BackUp PROVE SanitizerInv'
<1>1. /\ sanitizer = "inspect" /\ sanitizer' = "patch" /\ todo # <<>> /\ Dirty(Tree[Current])
      /\ backup' = [path |-> Current, file |-> Tree[Current]]
      /\ UNCHANGED <<node, file, built, todo>>
  BY DEF BackUp
<1>2. /\ ImageInv' /\ Tree' = Tree /\ Current' = Current
      /\ \A p : (Sound(p)' <=> Sound(p)) /\ (Done(p)' <=> Done(p))
  BY <1>1, SameTree DEF SanitizerInv, Current
<1>3. Current \in DOMAIN node
  BY <1>1, HeadTail DEF SanitizerInv, ProgressInv, Current
<1>4. /\ \A p \in DOMAIN node : Sound(p) /\ IsContents(built[p])
      /\ \A p \in DOMAIN node \ ToSet(todo) : Done(p)
  BY <1>1 DEF SanitizerInv, ImageInv, ProgressInv, Consistent
<1>5. Tree[Current] = built[Current]
  BY <1>1, <1>3, <1>4, RightIsClean DEF Sound, Done
<1>6. ASSUME NEW p \in DOMAIN node \ ToSet(todo) PROVE ~SameNode(p)
  <2>1. SUFFICES ASSUME SameNode(p) PROVE FALSE
    OBVIOUS
  <2>2. Tree[p] = Tree[Current]
    BY <1>3, <2>1 DEF SameNode, Tree, Holds
  <2>3. QED
    BY <1>1, <1>4, <2>2, RightIsClean DEF Done
<1>7. \A p : SameNode(p)' <=> SameNode(p)
  BY <1>1, <1>2 DEF SameNode
<1>8. OriginalNeverLost'
  BY <1>1, <1>2, <1>4 DEF OriginalNeverLost, Sound, Done, Right
<1>9. ProgressInv'
  BY <1>1, <1>2, <1>4, <1>5, <1>6, <1>7 DEF SanitizerInv, ProgressInv, Untouched, Consistent,
     Patching
<1>10. QED
  BY <1>2, <1>8, <1>9 DEF SanitizerInv

(* patchelf writes into the node: all names of the file change, no other.  *)
LEMMA PatchSanitizer == ASSUME SanitizerInv, Patch PROVE SanitizerInv'
<1>1. /\ sanitizer = "patch" /\ sanitizer' \in {"verify", "restore"}
      /\ UNCHANGED <<node, built, todo, backup>>
  BY DEF Patch
<1>2. PICK result \in PatchResults(backup.file) : file' = [file EXCEPT ![node[Current]] = result]
  BY DEF Patch
<1>3. /\ Current \in DOMAIN node /\ Current' = Current
      /\ backup = [path |-> Current, file |-> built[Current]] /\ backup # None
  BY <1>1, HeadTail DEF SanitizerInv, ImageInv, ProgressInv, Current, Patching
<1>4. result \in PatchResults(built[Current])
  BY <1>2, <1>3
<1>5. ImageInv'
  BY <1>1, <1>2 DEF SanitizerInv, ImageInv
<1>6. \A p \in DOMAIN node : Tree'[p] = IF SameNode(p) THEN result ELSE Tree[p]
  BY <1>1, <1>2, <1>3 DEF SanitizerInv, ImageInv, Tree, Holds, SameNode
<1>7. \A p \in DOMAIN node : ~SameNode(p) => (Sound(p)' <=> Sound(p)) /\ (Done(p)' <=> Done(p))
  BY <1>1, <1>6 DEF Sound, Done
<1>8. Tree'[Current] \in PatchResults(built[Current])
  BY <1>3, <1>4, <1>6 DEF SameNode
<1>9. \A p : SameNode(p)' <=> SameNode(p)
  BY <1>1, <1>3 DEF SameNode
<1>10. ProgressInv'
  BY <1>1, <1>3, <1>7, <1>8, <1>9 DEF SanitizerInv, ProgressInv, Untouched, Consistent, Patching
<1>11. OriginalNeverLost'
  <2>1. ASSUME NEW p \in DOMAIN node
        PROVE  \/ Tree'[p] = built[p] \/ Agree(Tree'[p], Cleaned(built[p]))
               \/ backup.file = built[p]
    <3>1. CASE SameNode(p)
      BY <1>3, <3>1 DEF SanitizerInv, ImageInv, SameNode
    <3>2. CASE ~SameNode(p)
      BY <1>1, <1>6, <3>2 DEF SanitizerInv, ProgressInv, Consistent, Sound, Done, Right
    <3>3. QED
      BY <3>1, <3>2
  <2>2. QED
    BY <1>1, <1>3, <2>1 DEF OriginalNeverLost
<1>12. QED
  BY <1>5, <1>10, <1>11 DEF SanitizerInv

LEMMA VerifySanitizer == ASSUME SanitizerInv, Verify PROVE SanitizerInv'
<1>1. /\ sanitizer = "verify" /\ UNCHANGED <<node, file, built, todo, backup>>
      /\ \/ VerifyPatch(backup.file, Tree[Current]) /\ sanitizer' = "unlink"
         \/ sanitizer' = "restore"
  BY DEF Verify
<1>2. /\ ImageInv' /\ OriginalNeverLost' /\ Tree' = Tree /\ Current' = Current
      /\ \A p : (Sound(p)' <=> Sound(p)) /\ (Done(p)' <=> Done(p)) /\ (SameNode(p)' <=> SameNode(p))
  BY <1>1, SameTree DEF SanitizerInv, Current, SameNode
<1>3. /\ Current \in DOMAIN node /\ backup.file = built[Current] /\ Dirty(built[Current])
      /\ Tree[Current] \in PatchResults(built[Current]) /\ IsContents(built[Current])
  BY <1>1, HeadTail DEF SanitizerInv, ImageInv, ProgressInv, Current, Patching
<1>4. CASE sanitizer' = "restore"
  BY <1>1, <1>2, <1>4 DEF SanitizerInv, ProgressInv, Untouched, Consistent, Patching
<1>5. CASE sanitizer' = "unlink" /\ VerifyPatch(backup.file, Tree[Current])
  <2>1. Done(Current)
    BY <1>3, <1>5, Verified DEF Done, Right
  <2>2. ASSUME NEW p \in DOMAIN node PROVE Sound(p)
    <3>1. CASE SameNode(p)
      BY <1>3, <2>1, <3>1 DEF SanitizerInv, ImageInv, SameNode, Sound, Done, Tree, Holds
    <3>2. CASE ~SameNode(p)
      BY <1>1, <3>2 DEF SanitizerInv, ProgressInv, Patching
    <3>3. QED
      BY <3>1, <3>2
  <2>3. ProgressInv'
    BY <1>1, <1>2, <1>5, <2>1, <2>2
       DEF SanitizerInv, ProgressInv, Untouched, Consistent, Patching
  <2>4. QED
    BY <1>2, <2>3 DEF SanitizerInv
<1>6. QED
  BY <1>1, <1>2, <1>4, <1>5 DEF SanitizerInv

LEMMA UnlinkSanitizer == ASSUME SanitizerInv, Unlink PROVE SanitizerInv'
<1>1. /\ sanitizer = "unlink" /\ UNCHANGED <<node, file, built>>
      /\ \/ sanitizer' = "inspect" /\ backup' = None /\ todo' = Tail(todo)
         \/ sanitizer' = "failed" /\ UNCHANGED <<todo, backup>>
  BY DEF Unlink
<1>2. /\ ImageInv' /\ Tree' = Tree
      /\ \A p : (Sound(p)' <=> Sound(p)) /\ (Done(p)' <=> Done(p))
  BY <1>1, SameTree DEF SanitizerInv
<1>3. /\ \A p \in DOMAIN node : Sound(p)
      /\ \A p \in DOMAIN node \ ToSet(todo) : Done(p)
      /\ todo \in Seq(DOMAIN node) /\ todo # <<>> /\ Done(Current)
  BY <1>1 DEF SanitizerInv, ProgressInv, Consistent, Patching
<1>4. Tail(todo) \in Seq(DOMAIN node) /\ ToSet(todo) = {Current} \cup ToSet(Tail(todo))
  BY <1>3, HeadTail DEF Current
<1>5. OriginalNeverLost'
  BY <1>1, <1>2, <1>3 DEF OriginalNeverLost, Sound, Done, Right
<1>6. ProgressInv'
  BY <1>1, <1>2, <1>3, <1>4 DEF SanitizerInv, ProgressInv, Untouched, Consistent, Patching
<1>7. QED
  BY <1>2, <1>5, <1>6 DEF SanitizerInv

(* The restored file has a node of its own; what was a hard link of it     *)
(* keeps the patch, but was built as the restored file was.                *)
LEMMA RestoreSanitizer == ASSUME SanitizerInv, Restore PROVE SanitizerInv'
<1>1. /\ sanitizer = "restore" /\ sanitizer' = "failed" /\ UNCHANGED <<built, todo>>
  BY DEF Restore
<1>2. /\ Current \in DOMAIN node /\ backup = [path |-> Current, file |-> built[Current]]
      /\ \A p \in DOMAIN node : Sound(p) \/ SameNode(p)
      /\ todo \in Seq(DOMAIN node)
  BY <1>1, HeadTail DEF SanitizerInv, ImageInv, ProgressInv, Current, Patching
<1>3. CASE UNCHANGED <<node, file, backup>>
  <2>1. OriginalNeverLost' /\ ImageInv'
    BY <1>1, <1>3, SameTree DEF SanitizerInv
  <2>2. ProgressInv'
    BY <1>1, <1>2, <1>3 DEF ProgressInv, Untouched, Consistent, Patching
  <2>3. QED
    BY <2>1, <2>2 DEF SanitizerInv
<1>4. CASE /\ node' = [node EXCEPT ![Current] = Fresh]
           /\ file' = [n \in {Fresh} \cup DOMAIN file |-> IF n = Fresh THEN backup.file ELSE file[n]]
           /\ backup' = None
  <2>1. \A p \in DOMAIN node : node[p] # Fresh /\ node[p] \in DOMAIN file
    BY <1>1 DEF SanitizerInv, ImageInv
  <2>2. /\ DOMAIN node' = DOMAIN node /\ node'[Current] = Fresh
        /\ \A p \in DOMAIN node : p # Current => node'[p] = node[p]
    BY <1>2, <1>4
  <2>3. /\ DOMAIN file' = {Fresh} \cup DOMAIN file /\ file'[Fresh] = backup.file
        /\ \A n \in DOMAIN file : n # Fresh => file'[n] = file[n]
    BY <1>4
  <2>4. /\ Tree'[Current] = built[Current]
        /\ \A p \in DOMAIN node : p # Current => Tree'[p] = Tree[p]
    BY <1>2, <2>1, <2>2, <2>3 DEF Tree, Holds
  <2>5. ImageInv'
    BY <1>1, <2>1, <2>2, <2>3 DEF SanitizerInv, ImageInv
  <2>6. ASSUME NEW p \in DOMAIN node
        PROVE  \/ Tree'[p] = built[p] \/ Agree(Tree'[p], Cleaned(built[p]))
               \/ \E q \in DOMAIN node : node'[q] = Fresh /\ Tree'[q] = built[p]
    <3>1. CASE p = Current
      BY <2>4, <3>1
    <3>2. CASE p # Current /\ Sound(p)
      BY <2>4, <3>2 DEF Sound, Done, Right
    <3>3. CASE SameNode(p)
      BY <1>2, <2>2, <2>4, <3>3 DEF SanitizerInv, ImageInv, SameNode
    <3>4. QED
      BY <1>2, <3>1, <3>2, <3>3
  <2>7. OriginalNeverLost'
    BY <1>1, <2>2, <2>6 DEF OriginalNeverLost
  <2>8. ProgressInv'
    BY <1>1, <1>2, <2>2 DEF ProgressInv, Untouched, Consistent, Patching
  <2>9. QED
    BY <2>5, <2>7, <2>8 DEF SanitizerInv
<1>5. QED
  BY <1>3, <1>4 DEF Restore

LEMMA SucceedSanitizer == ASSUME SanitizerInv, Succeed PROVE SanitizerInv'
<1>1. /\ sanitizer = "inspect" /\ todo = <<>> /\ sanitizer' = "clean"
      /\ UNCHANGED <<node, file, built, todo, backup>>
  BY DEF Succeed
<1>2. /\ ImageInv' /\ OriginalNeverLost'
      /\ \A p : (Sound(p)' <=> Sound(p)) /\ (Done(p)' <=> Done(p))
  BY <1>1, SameTree DEF SanitizerInv
<1>3. ProgressInv'
  BY <1>1, <1>2 DEF SanitizerInv, ProgressInv, Untouched, Consistent, Patching
<1>4. QED
  BY <1>2, <1>3 DEF SanitizerInv

LEMMA SanitizerNext == SanitizerInv /\ [Next]_vars => SanitizerInv'
<1>1. SUFFICES ASSUME SanitizerInv, [Next]_vars PROVE SanitizerInv'
  OBVIOUS
<1>2. CASE UNCHANGED sanitizerVars
  <2>1. OriginalNeverLost' /\ Tree' = Tree
    BY <1>1, <1>2, SameTree DEF SanitizerInv, sanitizerVars
  <2>2. ImageInv' /\ ProgressInv'
    BY <1>1, <1>2, <2>1 DEF sanitizerVars, SanitizerInv, ImageInv, ProgressInv, Sound, Done,
                            SameNode, Current
  <2>3. QED
    BY <2>1, <2>2 DEF SanitizerInv
<1>3. CASE SanitizeImage
  BY <1>1, <1>3, ScanSanitizer, FailSanitizer, SkipSanitizer, BackUpSanitizer, PatchSanitizer,
     VerifySanitizer, UnlinkSanitizer, RestoreSanitizer, SucceedSanitizer
     DEF SanitizeImage, Sanitize
<1>4. ASSUME NEW tree \in Trees, BuildImage(tree) PROVE SanitizerInv'
  BY <1>4, BuildSanitizer
<1>5. QED
  BY <1>1, <1>2, <1>3, <1>4 DEF Next, vars, Review, AllowTwice, RunProbe, Audit, sanitizerVars

LEMMA SanitizerInductive == Spec => []SanitizerInv
  BY SanitizerInit, SanitizerNext, PTL DEF Spec

(* sanitize_elf_search_paths.py: when the layer succeeds, a file without   *)
(* an empty component is the one that was built, and any other has lost    *)
(* just its empty components, as far as the program compares - its dynamic *)
(* section and its mode - for any image and any hard links in it, and also *)
(* when patchelf changed something else.                                   *)
THEOREM Sanitized == Spec => []SanitizedIsClean
<1>1. ASSUME SanitizerInv PROVE SanitizedIsClean
  <2>1. SUFFICES ASSUME sanitizer = "clean", NEW p \in DOMAIN node
                 PROVE  Done(p)
    BY DEF SanitizedIsClean, Done, Right
  <2>2. todo = <<>> /\ <<>> \in Seq(DOMAIN node) /\ ToSet(<<>>) = {}
    BY <1>1, <2>1 DEF SanitizerInv, ProgressInv, ToSet
  <2>3. QED
    BY <1>1, <2>1, <2>2 DEF SanitizerInv, ProgressInv
<1>2. QED
  BY <1>1, SanitizerInductive, PTL

(* Wherever the sanitizer fails or is killed, a file that is neither as it *)
(* was built nor, in what is compared, sanitized exists as it was built,   *)
(* in the backup or under the name it was restored to.                     *)
THEOREM OriginalIsKept == Spec => []OriginalNeverLost
<1>1. SanitizerInv => OriginalNeverLost
  BY DEF SanitizerInv
<1>2. QED
  BY <1>1, SanitizerInductive, PTL
-----------------------------------------------------------------------------
GateTypes ==
    /\ probe # None <=> ran # None
    /\ gate # None => gate.status \in {"pass", "blocker", "limited"}
    /\ builds \in 0 .. MaxBuilds

LEMMA GateTypesNext == GateTypes /\ [Next]_vars => GateTypes'
<1>1. SUFFICES ASSUME GateTypes, [Next]_vars PROVE GateTypes'
  OBVIOUS
<1>2. ASSUME NEW tree \in Trees, BuildImage(tree) PROVE GateTypes'
  BY <1>1, <1>2, GateAssumption DEF BuildImage, GateTypes
<1>3. ASSUME NEW config \in Configs, NEW profile \in Profiles, NEW run \in Runs,
             RunProbe(config, profile, run)
      PROVE  GateTypes'
  BY <1>1, <1>3, ProbeAssumption DEF RunProbe, Built, GateTypes
<1>4. ASSUME NEW critical \in {None} \cup [config : Configs, profile : Profiles],
             NEW limit \in Limits, Audit(critical, limit)
      PROVE  GateTypes'
  <2>1. \A findings, handicap, allowances :
            /\ StaticStatus(findings, handicap) \in {"pass", "blocker", "limited"}
            /\ StaticGate(findings, handicap, allowances) \in {"pass", "blocker"}
    BY DEF StaticStatus, StaticGate
  <2>2. gate'.status \in {"pass", "blocker", "limited"}
    BY <1>4, <2>1 DEF Audit
  <2>3. QED
    BY <1>1, <1>4, <2>2 DEF Audit, GateTypes
<1>5. CASE UNCHANGED <<probe, ran, gate, builds>>
  BY <1>1, <1>5 DEF GateTypes
<1>6. QED
  BY <1>1, <1>2, <1>3, <1>4, <1>5
     DEF Next, vars, gateVars, SanitizeImage, Review, AllowTwice

(* The type invariant: what is listed is in the image, there is a backup   *)
(* as long as a file is being patched, a report if and only if a probe     *)
(* ran, and a verdict is one of three.                                     *)
THEOREM TypeCorrect == Spec => []TypeOK
<1>1. Init => GateTypes
  BY GateAssumption DEF Init, GateTypes
<1>2. ASSUME SanitizerInv, GateTypes PROVE TypeOK
  <2>1. sanitizer \in Patching => Current \in DOMAIN node /\ backup # None
    BY <1>2, HeadTail DEF SanitizerInv, ImageInv, ProgressInv, Current, Patching
  <2>2. ToSet(todo) \subseteq DOMAIN node
    <3>1. todo \in Seq(DOMAIN node)
      BY <1>2 DEF SanitizerInv, ProgressInv
    <3>2. QED
      BY <3>1 DEF ToSet
  <2>3. QED
    BY <1>2, <2>1, <2>2 DEF SanitizerInv, ImageInv, ProgressInv, GateTypes, TypeOK, Patching
<1>3. QED
  BY <1>1, <1>2, GateTypesNext, SanitizerInductive, PTL DEF Spec
-----------------------------------------------------------------------------
(* An image is not touched any more once it has its verdict.               *)
VerdictInv == gate # None => sanitizer \in {"clean", "foreign"}

(* A review never allows that a report is cut.                             *)
PolicyInv ==
    policy # None => \A a \in policy : \A f \in a.findings : f.code # "finding_limit_exceeded"

(* What a report that is not a blocker says of its probe.                  *)
ProbeInv ==
    probe # None =>
        /\ ran # None
        /\ probe.config = ran.config /\ probe.profile = ran.profile
        /\ DOMAIN probe.imports = DOMAIN ran.config.imports
        /\ \A m \in DOMAIN ran.config.imports :
              ran.config.imports[m].profile \in Runnable(ran.profile) =>
                 /\ probe.imports[m].status = ran.run.results[m].status
                 /\ probe.imports[m].mapped = ran.run.results[m].mapped
        /\ probe.status # "blocker" =>
              /\ ran.run.compiles
              /\ \A m \in DOMAIN ran.config.imports :
                    /\ ran.config.imports[m].profile \in Runnable(ran.profile)
                    /\ ran.config.imports[m].required
                    => ran.run.results[m].status = "pass"

IInv == VerdictInv /\ PolicyInv /\ ProbeInv /\ GateSound /\ ImportsProven
-----------------------------------------------------------------------------
USE DEF sanitizerVars, gateVars

LEMMA InitInv == Init => IInv
  BY DEF Init, IInv, VerdictInv, PolicyInv, ProbeInv, GateSound, ImportsProven

(* A step without a verdict before or after it.                            *)
LEMMA Open == ASSUME gate' = None PROVE VerdictInv' /\ GateSound' /\ ImportsProven'
  BY DEF VerdictInv, GateSound, ImportsProven

LEMMA BuildInv == ASSUME IInv, NEW tree \in Trees, BuildImage(tree) PROVE IInv'
  BY Open DEF BuildImage, IInv, PolicyInv, ProbeInv

(* The sanitizer has ended when there is a verdict.                        *)
LEMMA SanitizeInv == ASSUME IInv, SanitizeImage PROVE IInv'
<1>1. sanitizer \notin {"clean", "foreign"}
  BY DEF SanitizeImage, Sanitize, Scan, Fail, Skip, RefuseSeveral, BackUp, Patch, Verify,
         Unlink, Restore, Succeed
<1>2. gate' = None /\ UNCHANGED gateVars
  BY <1>1 DEF SanitizeImage, IInv, VerdictInv
<1>3. QED
  BY <1>2, Open DEF IInv, PolicyInv, ProbeInv

LEMMA ReviewInv == ASSUME IInv, NEW limit \in Limits, Review(limit) PROVE IInv'
<1>1. gate' = None /\ UNCHANGED <<probe, ran>>
  BY DEF Review, Built
<1>2. PolicyInv'
  <2>1. PICK findings :
            policy' = {[id |-> g.id, findings |-> Members(g, findings)] : g \in Groups}
    BY DEF Review
  <2>2. ASSUME NEW g \in Groups, NEW f \in Members(g, findings)
        PROVE  f.code # "finding_limit_exceeded"
    <3>1. <<f.code, f.path, f.evidence>> \in g.exact
      BY <2>2 DEF Members
    <3>2. f.code \in {"missing_elf_library", "missing_absolute_shebang"}
      BY <2>2, <3>1, GateAssumption
    <3>3. QED
      BY <3>2
  <2>3. QED
    BY <2>1, <2>2 DEF PolicyInv
<1>3. QED
  BY <1>1, <1>2, Open DEF IInv, ProbeInv

LEMMA AllowTwiceInv == ASSUME IInv, AllowTwice PROVE IInv'
<1>1. gate' = None /\ UNCHANGED <<probe, ran>> /\ policy # None
  BY DEF AllowTwice
<1>2. PolicyInv'
  <2>1. PICK f \in UNION {a.findings : a \in policy} :
            policy' = policy \cup {[id |-> Other, findings |-> {f}]}
    BY DEF AllowTwice
  <2>2. QED
    BY <1>1, <2>1 DEF IInv, PolicyInv
<1>3. QED
  BY <1>1, <1>2, Open DEF IInv, ProbeInv

LEMMA RunProbeInv ==
    ASSUME IInv, NEW config \in Configs, NEW profile \in Profiles, NEW result \in Runs,
           RunProbe(config, profile, result)
    PROVE  IInv'
<1>1. gate' = None /\ UNCHANGED policy
  BY DEF RunProbe, Built
<1>2. ran' = [config |-> config, profile |-> profile, run |-> result] /\ ran' # None
  BY ProbeAssumption DEF RunProbe
<1> DEFINE skipped(m) == config.imports[m].profile \notin Runnable(profile)
           done == [m \in DOMAIN config.imports |->
                      IF skipped(m) THEN [status |-> "not_executed", mapped |-> {}]
                      ELSE result.results[m]]
           failed == \/ ~result.compiles
                     \/ \E m \in DOMAIN done : /\ ~skipped(m) /\ config.imports[m].required
                                               /\ done[m].status # "pass"
<1>3. /\ probe'.profile = profile /\ probe'.config = config
      /\ probe'.imports = [m \in DOMAIN done |-> [import |-> config.imports[m],
                             status |-> done[m].status, mapped |-> done[m].mapped]]
      /\ failed => probe'.status = "blocker"
  BY DEF RunProbe, ProbeReport
<1>4. \A m \in DOMAIN config.imports : ~skipped(m) =>
        /\ done[m] = result.results[m]
        /\ probe'.imports[m].status = done[m].status /\ probe'.imports[m].mapped = done[m].mapped
  <2>1. SUFFICES ASSUME NEW m \in DOMAIN config.imports, ~skipped(m)
                 PROVE  /\ done[m] = result.results[m]
                        /\ probe'.imports[m].status = done[m].status
                        /\ probe'.imports[m].mapped = done[m].mapped
    OBVIOUS
  <2>2. done[m] = result.results[m] /\ m \in DOMAIN done
    BY <2>1
  <2>3. probe'.imports[m] = [import |-> config.imports[m],
                             status |-> done[m].status, mapped |-> done[m].mapped]
    BY <1>3, <2>2
  <2>4. QED
    BY <2>2, <2>3
<1>5. ProbeInv'
  BY <1>2, <1>3, <1>4 DEF ProbeInv
<1>6. QED
  BY <1>1, <1>5, Open DEF IInv, PolicyInv
-----------------------------------------------------------------------------
(* A report that was cut holds a blocker which no review allows, and so    *)
(* does one of an incomplete analysis.                                     *)
LEMMA NotCut ==
    ASSUME NEW findings, NEW limit, NEW report \in Reports(findings, limit),
           Exceeded("finding_limit_exceeded") \notin report
    PROVE  report = findings
  BY DEF Reports

LEMMA Exceptions ==
    ASSUME NEW code PROVE /\ Exceeded(code).severity = "blocker" /\ Exceeded(code).code = code
  BY DEF Exceeded, Finding

LEMMA Complete ==
    ASSUME NEW tree, NEW handicap, NEW p \in DOMAIN tree \ handicap.unread, handicap.untold = {}
    PROVE  FileFindings(tree, p) \subseteq StaticFindings(tree, handicap)
  BY DEF StaticFindings

LEMMA PolicyGate ==
    ASSUME PolicyInv, policy # None, NEW limit, NEW handicap,
           NEW report \in Reports(StaticFindings(Tree, handicap), limit),
           StaticGate(report, handicap, policy) = "pass"
    PROVE  /\ handicap.untold = {} /\ report = StaticFindings(Tree, handicap)
           /\ \A f \in Blockers(report) : Cardinality({a \in policy : f \in a.findings}) = 1
<1> DEFINE analysis == IF handicap.untold = {} THEN {} ELSE {Exceeded("elf_analysis_incomplete")}
<1>1. Unapproved(report \cup analysis, policy) = {}
  BY DEF StaticGate
<1>2. \A f \in report \cup analysis : f.severity = "blocker" =>
        /\ f.code # "elf_analysis_incomplete"
        /\ Cardinality({a \in policy : f \in a.findings}) = 1
  BY <1>1 DEF Unapproved, Blockers
<1>3. handicap.untold = {}
  BY <1>2, Exceptions
<1>4. Exceeded("finding_limit_exceeded") \notin report
  <2>1. {a \in policy : Exceeded("finding_limit_exceeded") \in a.findings} = {}
    BY Exceptions DEF PolicyInv
  <2>2. Cardinality({a \in policy : Exceeded("finding_limit_exceeded") \in a.findings}) # 1
    BY <2>1, FS_EmptySet
  <2>3. QED
    BY <1>2, <2>2, Exceptions
<1>5. QED
  BY <1>2, <1>3, <1>4, NotCut DEF Blockers

LEMMA RawStatus ==
    ASSUME NEW limit, NEW handicap,
           NEW report \in Reports(StaticFindings(Tree, handicap), limit),
           StaticStatus(report, handicap) = "pass"
    PROVE  /\ handicap.untold = {} /\ report = StaticFindings(Tree, handicap)
           /\ Blockers(report) = {}
<1>1. Blockers(report) = {} /\ handicap.untold = {}
  BY DEF StaticStatus
<1>2. Exceeded("finding_limit_exceeded") \notin report
  BY <1>1, Exceptions DEF Blockers
<1>3. QED
  BY <1>1, <1>2, NotCut

(* A verdict on the critical imports rests on the probe's report.          *)
LEMMA Critical ==
    ASSUME ProbeInv, NEW config, NEW profile, ProbeAccepted(config, profile, probe)
    PROVE  /\ ran # None /\ ran.config = config /\ ran.profile = profile /\ ran.run.compiles
           /\ \A m \in DOMAIN config.imports : config.imports[m].profile \in Runnable(profile) =>
                 /\ config.imports[m].required => ran.run.results[m].status = "pass"
                 /\ ran.run.results[m].status = "pass" =>
                       \A x \in ran.run.results[m].mapped : OfLauncher(x)
<1>1. /\ probe # None /\ probe.profile = profile /\ probe.config = config
      /\ probe.status # "blocker" /\ ImportFindings(config, profile, probe) = {}
  BY DEF ProbeAccepted
<1>2. /\ ran # None /\ ran.config = config /\ ran.profile = profile /\ ran.run.compiles
      /\ DOMAIN probe.imports = DOMAIN config.imports
  BY <1>1 DEF ProbeInv
<1>3. ASSUME NEW m \in DOMAIN config.imports, config.imports[m].profile \in Runnable(profile)
      PROVE  /\ config.imports[m].required => ran.run.results[m].status = "pass"
             /\ ran.run.results[m].status = "pass" =>
                   \A x \in ran.run.results[m].mapped : OfLauncher(x)
  <2>1. /\ probe.imports[m].status = ran.run.results[m].status
        /\ probe.imports[m].mapped = ran.run.results[m].mapped
        /\ config.imports[m].required => ran.run.results[m].status = "pass"
    BY <1>1, <1>2, <1>3 DEF ProbeInv
  <2>2. probe.imports[m].status = "pass" => \A x \in probe.imports[m].mapped : OfLauncher(x)
    BY <1>1, <1>2, <1>3 DEF ImportFindings
  <2>3. QED
    BY <2>1, <2>2
<1>4. QED
  BY <1>2, <1>3

LEMMA AuditInv ==
    ASSUME IInv, NEW critical \in {None} \cup [config : Configs, profile : Profiles],
           NEW limit \in Limits, Audit(critical, limit)
    PROVE  IInv'
<1>1. /\ sanitizer \in {"clean", "foreign"}
      /\ UNCHANGED <<sanitizerVars, policy, probe, ran>>
  BY DEF Audit, Built
<1> DEFINE Verdict(handicap, report) ==
        LET static == IF policy = None THEN StaticStatus(report, handicap)
                      ELSE StaticGate(report, handicap, policy)
            passes == /\ CriticalPasses(critical.config, critical.profile, probe, Tree, handicap)
                      /\ policy = None \/ static = "pass"
        IN  gate' = [status |-> IF critical = None THEN static
                                ELSE IF passes THEN "pass" ELSE "blocker",
                     critical |-> critical, handicap |-> handicap]
<1>2. PICK handicap \in Handicaps(Tree) :
          \E report \in Reports(StaticFindings(Tree, handicap), limit) : Verdict(handicap, report)
  BY DEF Audit
<1>3. PICK report \in Reports(StaticFindings(Tree, handicap), limit) : Verdict(handicap, report)
  BY <1>2
<1>4. gate'.critical = critical /\ gate'.handicap = handicap
  BY <1>3
<1>5. ASSUME gate'.status = "pass", policy # None \/ critical = None
      PROVE  /\ handicap.untold = {} /\ report = StaticFindings(Tree, handicap)
             /\ \A f \in Blockers(report) :
                   policy # None /\ Cardinality({a \in policy : f \in a.findings}) = 1
  <2>1. CASE policy # None
    <3>1. StaticGate(report, handicap, policy) = "pass"
      BY <1>3, <1>5, <2>1
    <3>2. QED
      BY <2>1, <3>1, PolicyGate DEF IInv
  <2>2. CASE policy = None
    <3>1. StaticStatus(report, handicap) = "pass"
      BY <1>3, <1>5, <2>2
    <3>2. QED
      BY <3>1, RawStatus
  <2>3. QED
    BY <2>1, <2>2
<1>6. GateSound'
  <2>1. Tree' = Tree
    BY <1>1 DEF Tree, Holds
  <2>2. SUFFICES ASSUME gate'.status = "pass", policy # None \/ critical = None
                 PROVE  /\ handicap.untold = {}
                        /\ \A p \in DOMAIN node \ handicap.unread :
                              \A f \in Blockers(FileFindings(Tree, p)) :
                                 /\ policy # None
                                 /\ Cardinality({a \in policy : f \in a.findings}) = 1
    BY <1>1, <1>4, <2>1 DEF GateSound
  <2>3. ASSUME NEW p \in DOMAIN node \ handicap.unread, NEW f \in Blockers(FileFindings(Tree, p))
        PROVE  f \in Blockers(report)
    <3>1. p \in DOMAIN Tree \ handicap.unread
      BY <2>3 DEF Tree
    <3>2. QED
      BY <1>5, <2>2, <2>3, <3>1, Complete DEF Blockers
  <2>4. QED
    BY <1>5, <2>2, <2>3
<1>7. ImportsProven'
  <2>1. ASSUME gate'.status = "pass", critical # None
        PROVE  ProbeAccepted(critical.config, critical.profile, probe)
    BY <1>3, <2>1 DEF CriticalPasses
  <2>2. QED
    BY <1>1, <1>4, <2>1, Critical DEF IInv, ImportsProven
<1>8. VerdictInv' /\ PolicyInv' /\ ProbeInv'
  BY <1>1 DEF IInv, VerdictInv, PolicyInv, ProbeInv
<1>9. QED
  BY <1>6, <1>7, <1>8 DEF IInv
-----------------------------------------------------------------------------
LEMMA NextInv == IInv /\ [Next]_vars => IInv'
<1>1. SUFFICES ASSUME IInv, [Next]_vars PROVE IInv'
  OBVIOUS
<1>2. CASE UNCHANGED vars
  <2>1. Tree' = Tree
    BY <1>2 DEF vars, Tree, Holds
  <2>2. VerdictInv' /\ PolicyInv' /\ ProbeInv'
    BY <1>1, <1>2 DEF vars, IInv, VerdictInv, PolicyInv, ProbeInv
  <2>3. GateSound'
    BY <1>1, <1>2, <2>1 DEF vars, IInv, GateSound
  <2>4. ImportsProven'
    BY <1>1, <1>2 DEF vars, IInv, ImportsProven
  <2>5. QED
    BY <2>2, <2>3, <2>4 DEF IInv
<1>3. QED
  BY <1>1, <1>2, BuildInv, SanitizeInv, ReviewInv, AllowTwiceInv, RunProbeInv, AuditInv DEF Next

LEMMA Inductive == Spec => []IInv
  BY InitInv, NextInv, PTL DEF Spec

(* evaluate_portability_gate: what passes under a policy, or without one   *)
(* and without critical imports, was analysed whole, and whatever blocks   *)
(* in it was reviewed under exactly one allowance, whatever else the       *)
(* image, the inventory and the limit of the report are.                   *)
THEOREM GateIsSound == Spec => []GateSound
<1>1. IInv => GateSound
  BY DEF IInv
<1>2. QED
  BY <1>1, Inductive, PTL

(* _critical_report: what passes with critical imports rests on a probe of *)
(* this configuration and profile whose required imports passed, and whose *)
(* passing imports mapped only what the launcher has, by path or by name.  *)
THEOREM ImportsAreProven == Spec => []ImportsProven
<1>1. IInv => ImportsProven
  BY DEF IInv
<1>2. QED
  BY <1>1, Inductive, PTL
=============================================================================
