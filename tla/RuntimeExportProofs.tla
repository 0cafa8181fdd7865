------------------------- MODULE RuntimeExportProofs -------------------------
(***************************************************************************)
(* Theorems about RuntimeExport for any files, links, sizes and number of  *)
(* edits and faults.                                                       *)
(***************************************************************************)
EXTENDS RuntimeExport, TLAPS

(* The data a file with one edit reads as, and what a record e of path p   *)
(* that was made earlier has to do with its node s: nothing in it is newer *)
(* than the node, and what begins like the node has not changed since.     *)
Older(p, e, s) ==
    /\ e.mode <= s.mode
    /\ \A i \in 1 .. Len(e.data) : e.data[i] <= s.data
    /\ e.data[1] = s.data => e.data = Whole(p, s.data)

(* Edits are numbered: what is recorded or being read is not from the      *)
(* future, and it is older than the tree.                                  *)
EntryInv ==
    \A p \in Paths : entries[p] # None =>
        /\ Len(entries[p].data) # 0
        /\ entries[p].mode <= edits
        /\ \A i \in 1 .. Len(entries[p].data) : entries[p].data[i] <= edits
        /\ source[p] # None => Older(p, entries[p], source[p])
SourceInv ==
    \A p \in Paths : source[p] # None => source[p].mode <= edits /\ source[p].data <= edits
HashInv ==
    /\ pc \in {"collect", "check"} => buf = <<>>
    /\ pc = "hash" =>
          /\ at \in listed /\ at \in Files /\ seen \in [mode : Edits, size : Nat]
          /\ seen.mode <= edits
          /\ \A i \in 1 .. Len(buf) : buf[i] <= edits
          /\ source[at] # None =>
                /\ seen.mode <= source[at].mode
                /\ \A i \in 1 .. Len(buf) : buf[i] <= source[at].data
                /\ Len(buf) # 0 /\ buf[1] = source[at].data =>
                      /\ \A i \in 1 .. Len(buf) : buf[i] = source[at].data
                      /\ Len(buf) <= SizeOf[source[at].data]

(* From the end of the collection on, the snapshot is between the entries  *)
(* and the tree.  A path that was not there then can only come back newer. *)
Between(p) ==
    /\ entries[p] # None
    /\ IF snapshot[p] # None
       THEN /\ Older(p, entries[p], snapshot[p])
            /\ snapshot[p].mode <= edits /\ snapshot[p].data <= edits
            /\ source[p] # None => /\ snapshot[p].mode <= source[p].mode
                                   /\ snapshot[p].data <= source[p].data
       ELSE source[p] # None =>
                /\ entries[p].mode < source[p].mode
                /\ \A i \in 1 .. Len(entries[p].data) : entries[p].data[i] < source[p].data
Second == {"check", "rehash", "add"}
Output == {"compress", "place", "manifest", "replace", "verify"}
SnapInv == pc \in Second \cup Output => \A p \in listed : Between(p)

(* The second pass confirms the entries one by one.                        *)
Confirmed(p) ==
    /\ snapshot[p] # None
    /\ entries[p] = [mode |-> snapshot[p].mode, data |-> Whole(p, snapshot[p].data)]
PassInv ==
    /\ pc \in {"collect", "hash"} => \A p \in listed : p < at => entries[p] # None
    /\ pc \in Second => \A p \in listed : p < at => Confirmed(p)
    /\ pc = "rehash" => /\ at \in listed /\ at \in Files /\ snapshot[at] # None
                        /\ entries[at].mode = snapshot[at].mode
                        /\ \A i \in 1 .. Len(buf) : snapshot[at].data <= buf[i]
    /\ pc = "add" => /\ at \in listed /\ at \in Files /\ Confirmed(at)
                     /\ Len(buf) <= Len(entries[at].data)
    /\ pc \in Output => \A p \in listed : Confirmed(p)
    /\ outcome = "ok" => /\ pc = "idle"
                         /\ \A p \in listed : Confirmed(p) /\ members[p] = entries[p].data

(* The archive is placed before its manifest.                              *)
OutputInv ==
    /\ pc \in {"manifest", "replace", "verify"} => members \in archives
    /\ ManifestHasArchive

IInv == TypeOK /\ SourceInv /\ EntryInv /\ HashInv /\ SnapInv /\ PassInv /\ OutputInv
-----------------------------------------------------------------------------
USE DEF run, output, env, Second, Output, PC, Goto, Nothing

LEMMA Numbers ==
    /\ MaxEdits \in Nat /\ Edits = 0 .. MaxEdits /\ Last \in Nat
    /\ Paths = 1 .. Last /\ None \notin Node /\ None \notin Entry
    /\ \A e \in Edits : SizeOf[e] \in Nat \ {0}
<1>1. MaxEdits \in Nat /\ Last \in Nat /\ Paths = 1 .. Last
  BY ExportAssumption
<1>2. \A e \in Edits : SizeOf[e] \in Nat \ {0}
  BY ExportAssumption
<1>3. QED
  BY <1>1, <1>2, NoneAssumption DEF Edits

LEMMA NodeFacts ==
    ASSUME IInv, NEW p \in Paths, source[p] # None
    PROVE  /\ source[p] \in Node /\ source[p].mode \in Edits /\ source[p].data \in Edits
           /\ SizeOf[source[p].data] \in Nat \ {0}
  BY Numbers DEF IInv, TypeOK, Node

LEMMA EntryFacts ==
    ASSUME IInv, NEW p \in Paths, entries[p] # None
    PROVE  entries[p] \in Entry /\ entries[p].mode \in Edits /\ entries[p].data \in Seq(Edits)
  BY DEF IInv, TypeOK, Entries, Entry, Data

LEMMA InitInv == Init => IInv
<1>1. SUFFICES ASSUME Init PROVE IInv
  OBVIOUS
<1>2. TypeOK
  <2>1. source \in [Paths -> Node \cup {None}]
    BY <1>1, Numbers DEF Init, Node
  <2>2. at \in 1 .. Last + 1 /\ edits \in Edits /\ faults \in 0 .. MaxFaults
    BY <1>1, Numbers, ExportAssumption DEF Init
  <2>3. entries \in Entries /\ members \in Members /\ snapshot \in [Paths -> Node \cup {None}]
    BY <1>1 DEF Init, Entries, Members
  <2>4. buf \in Data
    BY <1>1 DEF Init, Data
  <2>5. QED
    BY <1>1, <2>1, <2>2, <2>3, <2>4 DEF Init, TypeOK
<1>3. SourceInv
  BY <1>1 DEF Init, SourceInv
<1>4. EntryInv /\ HashInv
  BY <1>1 DEF Init, EntryInv, HashInv
<1>5. SnapInv /\ PassInv /\ OutputInv
  BY <1>1 DEF Init, SnapInv, PassInv, OutputInv, ManifestHasArchive
<1>6. QED
  BY <1>2, <1>3, <1>4, <1>5 DEF IInv

(* The run ends without success, wherever it is.                           *)
LEMMA Ends ==
    ASSUME IInv, TypeOK', pc' = "idle", outcome' # "ok",
           UNCHANGED <<source, at, seen, buf, listed, entries, edits, archives, manifests>>
    PROVE  IInv'
<1>1. SourceInv' /\ EntryInv' /\ HashInv'
  BY DEF IInv, SourceInv, EntryInv, HashInv, Older
<1>2. SnapInv' /\ PassInv' /\ OutputInv'
  BY DEF IInv, SnapInv, PassInv, OutputInv, ManifestHasArchive
<1>3. QED
  BY <1>1, <1>2 DEF IInv

LEMMA Fails ==
    ASSUME IInv, Fail, UNCHANGED <<source, archives, manifests, edits>>,
           partials' \subseteq partials, faults' \in 0 .. MaxFaults
    PROVE  IInv'
<1>1. TypeOK'
  BY DEF Fail, IInv, TypeOK
<1>2. QED
  BY <1>1, Ends DEF Fail

LEMMA BeginInv == ASSUME IInv, Begin PROVE IInv'
<1>1. TypeOK'
  BY Numbers DEF Begin, IInv, TypeOK, Entries, Members, Data
<1>2. SourceInv' /\ EntryInv' /\ HashInv'
  BY DEF Begin, IInv, SourceInv, EntryInv, HashInv
<1>3. SnapInv' /\ PassInv' /\ OutputInv'
  BY Numbers DEF Begin, IInv, TypeOK, SnapInv, PassInv, OutputInv, ManifestHasArchive
<1>4. QED
  BY <1>1, <1>2, <1>3 DEF IInv

(* A step of a run that reads nothing of the tree and keeps its entries.   *)
LEMMA Keeps ==
    ASSUME IInv, TypeOK', HashInv', SnapInv', PassInv', OutputInv',
           UNCHANGED <<source, entries, edits>>
    PROVE  IInv'
  BY DEF IInv, SourceInv, EntryInv, Older

LEMMA SkipInv == ASSUME IInv, SkipPath PROVE IInv'
<1>1. at \in Nat /\ at <= Last /\ Last \in Nat /\ at \notin listed /\ at' = at + 1
  BY Numbers DEF SkipPath, Skip, IInv, TypeOK
<1>2. TypeOK'
  BY <1>1 DEF SkipPath, Skip, IInv, TypeOK
<1>3. HashInv' /\ SnapInv' /\ OutputInv'
  BY DEF SkipPath, Skip, IInv, HashInv, SnapInv, Between, Older, OutputInv, ManifestHasArchive
<1>4. PassInv'
  <2>1. \A p \in listed : p < at' => p < at
    BY <1>1, Numbers DEF IInv, TypeOK
  <2>2. QED
    BY <2>1 DEF SkipPath, Skip, IInv, PassInv, Confirmed
<1>5. QED
  BY <1>2, <1>3, <1>4, Keeps DEF SkipPath, Skip

LEMMA CollectionEndsInv == ASSUME IInv, CollectionEnds PROVE IInv'
<1>1. \A p \in listed : p \in Paths /\ p < at /\ entries[p] # None
  BY Numbers DEF CollectionEnds, IInv, TypeOK, PassInv
<1>2. TypeOK'
  BY Numbers DEF CollectionEnds, IInv, TypeOK
<1>3. HashInv' /\ OutputInv'
  BY DEF CollectionEnds, IInv, HashInv, OutputInv, ManifestHasArchive
<1>4. SnapInv'
  <2>1. ASSUME NEW p \in listed PROVE Between(p)'
    <3>1. p \in Paths /\ entries[p] # None /\ snapshot' = source /\ UNCHANGED <<source, entries>>
      BY <1>1 DEF CollectionEnds
    <3>2. CASE source[p] # None
      <4>1. /\ source[p].mode \in Nat /\ source[p].data \in Nat
            /\ source[p].mode <= edits /\ source[p].data <= edits /\ UNCHANGED edits
        BY <3>1, <3>2, NodeFacts, Numbers DEF CollectionEnds, IInv, SourceInv
      <4>2. Older(p, entries[p], source[p])
        BY <3>1, <3>2 DEF IInv, EntryInv
      <4>3. QED
        BY <3>1, <3>2, <4>1, <4>2 DEF Between
    <3>3. CASE source[p] = None
      BY <3>1, <3>3 DEF Between
    <3>4. QED
      BY <3>2, <3>3
  <2>2. QED
    BY <2>1 DEF CollectionEnds, SnapInv
<1>5. PassInv'
  BY Numbers DEF CollectionEnds, IInv, TypeOK, PassInv
<1>6. QED
  BY <1>2, <1>3, <1>4, <1>5, Keeps DEF CollectionEnds

LEMMA TarEndsInv == ASSUME IInv, TarEnds PROVE IInv'
<1>1. \A p \in listed : p < at
  BY Numbers DEF TarEnds, IInv, TypeOK
<1>2. TypeOK' /\ HashInv' /\ OutputInv'
  BY DEF TarEnds, IInv, TypeOK, HashInv, OutputInv, ManifestHasArchive
<1>3. SnapInv' /\ PassInv'
  BY <1>1 DEF TarEnds, IInv, SnapInv, Between, Older, PassInv, Confirmed
<1>4. QED
  BY <1>2, <1>3, Keeps DEF TarEnds

(* An entry is recorded that is older than its node.                       *)
LEMMA Records ==
    ASSUME IInv, pc \in {"collect", "hash"}, at \in listed,
           NEW mode \in Edits, NEW data \in Data, Collected(at, mode, data),
           Len(data) # 0, mode <= edits, \A i \in 1 .. Len(data) : data[i] <= edits,
           source[at] # None => Older(at, [mode |-> mode, data |-> data], source[at]),
           UNCHANGED <<source, output, env>>
    PROVE  IInv'
<1>1. at \in Paths /\ at \in Nat /\ at <= Last /\ at' = at + 1
  BY Numbers DEF Collected, IInv, TypeOK
<1>2. [mode |-> mode, data |-> data] \in Entry /\ [mode |-> mode, data |-> data] # None
  BY Numbers DEF Entry
<1>3. entries' \in Entries
  BY <1>1, <1>2 DEF Collected, IInv, TypeOK, Entries
<1>4. TypeOK'
  BY <1>1, <1>3, Numbers DEF Collected, IInv, TypeOK, Data
<1>5. entries'[at] = [mode |-> mode, data |-> data]
      /\ \A p \in Paths \ {at} : entries'[p] = entries[p]
  BY <1>1 DEF Collected, IInv, TypeOK, Entries
<1>6. EntryInv'
  BY <1>5 DEF IInv, EntryInv, Older
<1>7. SourceInv' /\ HashInv' /\ SnapInv' /\ OutputInv'
  BY DEF Collected, IInv, SourceInv, HashInv, SnapInv, OutputInv, ManifestHasArchive
<1>8. PassInv'
  <2>1. \A p \in listed : p < at' => p < at \/ p = at
    BY <1>1, Numbers DEF IInv, TypeOK
  <2>2. QED
    BY <1>2, <1>5, <2>1 DEF Collected, IInv, TypeOK, PassInv
<1>9. QED
  BY <1>4, <1>6, <1>7, <1>8 DEF IInv

LEMMA CollectInv == ASSUME IInv, Collect PROVE IInv'
<1>1. /\ pc = "collect" /\ at \in listed /\ at \in Paths /\ buf = <<>>
      /\ UNCHANGED <<source, output, env>>
  BY DEF Collect, Visiting, IInv, TypeOK, HashInv
<1>2. CASE source[at] = None
  <2>1. Fail
    BY <1>2 DEF Collect
  <2>2. QED
    BY <1>1, <2>1, Fails DEF IInv, TypeOK
<1>3. CASE source[at] # None /\ at \in Links
  <2>1. Collected(at, source[at].mode, <<source[at].data>>)
    BY <1>3 DEF Collect
  <2>2. /\ source[at].mode \in Edits /\ source[at].data \in Edits
        /\ source[at].mode <= edits /\ source[at].data <= edits
    BY <1>1, <1>3, NodeFacts DEF IInv, SourceInv
  <2>3. /\ <<source[at].data>> \in Data /\ Len(<<source[at].data>>) = 1
        /\ <<source[at].data>>[1] = source[at].data
    BY <2>2 DEF Data
  <2>4. Older(at, [mode |-> source[at].mode, data |-> <<source[at].data>>], source[at])
    BY <1>3, <2>2, <2>3, Numbers DEF Older, Whole
  <2>5. QED
    BY <1>1, <2>1, <2>2, <2>3, <2>4, Records
<1>4. CASE source[at] # None /\ at \notin Links
  <2>1. /\ seen' = [mode |-> source[at].mode, size |-> SizeOf[source[at].data]]
        /\ pc' = "hash" /\ UNCHANGED outcome
        /\ UNCHANGED <<at, buf, listed, entries, members, snapshot>>
    BY <1>4 DEF Collect
  <2>2. /\ source[at].mode \in Edits /\ source[at].data \in Edits
        /\ source[at].mode <= edits /\ SizeOf[source[at].data] \in Nat
    BY <1>1, <1>4, NodeFacts DEF IInv, SourceInv
  <2>3. seen' \in [mode : Edits, size : Nat] /\ seen'.mode = source[at].mode
    BY <2>1, <2>2
  <2>4. TypeOK'
    BY <1>1, <2>1, <2>3 DEF IInv, TypeOK
  <2>5. HashInv'
    BY <1>1, <1>4, <2>1, <2>2, <2>3, Numbers DEF HashInv, Paths
  <2>6. SnapInv' /\ PassInv' /\ OutputInv'
    BY <1>1, <2>1 DEF IInv, SnapInv, PassInv, OutputInv, ManifestHasArchive
  <2>7. QED
    BY <1>1, <2>1, <2>4, <2>5, <2>6, Keeps
<1>5. QED
  BY <1>2, <1>3, <1>4

(* A path is looked at in the second pass: what it shows then cannot be    *)
(* newer than the snapshot if it is the same as before it.                 *)
LEMMA SameMode ==
    ASSUME IInv, pc \in Second, NEW p \in listed, source[p] # None,
           source[p].mode = entries[p].mode
    PROVE  /\ p \in Paths /\ entries[p] \in Entry /\ Len(entries[p].data) # 0
           /\ snapshot[p] # None /\ snapshot[p] \in Node
           /\ entries[p].mode = snapshot[p].mode
           /\ Older(p, entries[p], snapshot[p]) /\ snapshot[p].data <= source[p].data
<1>1. p \in Paths /\ Between(p) /\ entries[p] # None
  BY DEF IInv, TypeOK, SnapInv, Between
<1>2. /\ source[p].mode \in Nat /\ entries[p] \in Entry /\ entries[p].mode \in Nat
      /\ Len(entries[p].data) # 0
  BY <1>1, NodeFacts, EntryFacts, Numbers DEF IInv, EntryInv
<1>3. snapshot[p] # None
  BY <1>1, <1>2 DEF Between
<1>4. snapshot[p] \in Node /\ snapshot[p].mode \in Nat
  BY <1>1, <1>3, Numbers DEF IInv, TypeOK, Node
<1>5. QED
  BY <1>1, <1>2, <1>3, <1>4 DEF Between, Older

LEMMA Confirms ==
    ASSUME NEW p \in Paths, entries[p] \in Entry, snapshot[p] # None, snapshot[p] \in Node,
           entries[p].mode = snapshot[p].mode, Older(p, entries[p], snapshot[p]),
           Len(entries[p].data) # 0, snapshot[p].data <= entries[p].data[1]
    PROVE  Confirmed(p)
<1>1. /\ Len(entries[p].data) \in Nat \ {0} /\ entries[p].data[1] \in Nat
      /\ snapshot[p].data \in Nat
  BY Numbers DEF Entry, Data, Node
<1>2. entries[p].data[1] <= snapshot[p].data
  BY <1>1 DEF Older
<1>3. entries[p].data = Whole(p, snapshot[p].data)
  BY <1>1, <1>2 DEF Older
<1>4. entries[p] = [mode |-> entries[p].mode, data |-> entries[p].data]
  BY DEF Entry
<1>5. QED
  BY <1>3, <1>4 DEF Confirmed

(* A member is written: its path is confirmed.                             *)
LEMMA Packs ==
    ASSUME IInv, pc \in {"check", "add"}, at \in listed, Confirmed(at),
           NEW data \in Data, Packed(at, data), UNCHANGED <<source, output, env>>
    PROVE  IInv'
<1>1. at \in Paths /\ at \in Nat /\ at <= Last /\ at' = at + 1
  BY Numbers DEF Packed, IInv, TypeOK
<1>2. members' \in Members
  BY <1>1 DEF Packed, IInv, TypeOK, Members
<1>3. TypeOK'
  BY <1>1, <1>2, Numbers DEF Packed, IInv, TypeOK, Data
<1>4. HashInv' /\ SnapInv' /\ OutputInv'
  BY DEF Packed, IInv, HashInv, SnapInv, Between, Older, OutputInv, ManifestHasArchive
<1>5. PassInv'
  <2>1. \A p \in listed : p < at' => p < at \/ p = at
    BY <1>1, Numbers DEF IInv, TypeOK
  <2>2. QED
    BY <2>1 DEF Packed, IInv, PassInv, Confirmed
<1>6. QED
  BY <1>3, <1>4, <1>5, Keeps DEF Packed

LEMMA CheckPathInv == ASSUME IInv, CheckPath PROVE IInv'
<1>1. /\ pc = "check" /\ at \in listed /\ at \in Paths /\ buf = <<>>
      /\ UNCHANGED <<source, output, env>>
  BY DEF CheckPath, Check, Visiting, IInv, TypeOK, HashInv
<1>2. CASE Fail
  BY <1>1, <1>2, Fails DEF IInv, TypeOK
<1>3. ASSUME ~Fail
      PROVE  /\ source[at] # None /\ source[at].mode = entries[at].mode
             /\ \/ /\ at \in Links /\ <<source[at].data>> = entries[at].data
                   /\ Packed(at, entries[at].data)
                \/ at \notin Links /\ pc' = "rehash" /\ UNCHANGED <<outcome, run, snapshot>>
  BY <1>3 DEF CheckPath, Check
<1>4. CASE ~Fail /\ at \in Links
  <2>1. entries[at].data[1] = source[at].data
    BY <1>3, <1>4
  <2>2. Confirmed(at)
    BY <1>1, <1>3, <1>4, <2>1, SameMode, Confirms
  <2>3. entries[at].data \in Data
    BY <1>1, <1>3, <1>4, SameMode DEF Entry
  <2>4. QED
    BY <1>1, <1>3, <1>4, <2>2, <2>3, Packs
<1>5. CASE ~Fail /\ at \notin Links
  <2>1. TypeOK' /\ HashInv' /\ OutputInv'
    BY <1>1, <1>3, <1>5 DEF IInv, TypeOK, HashInv, OutputInv, ManifestHasArchive
  <2>2. SnapInv'
    BY <1>1, <1>3, <1>5 DEF IInv, SnapInv, Between, Older
  <2>3. PassInv'
    <3>1. snapshot[at] # None /\ entries[at].mode = snapshot[at].mode /\ at \in Files
      BY <1>1, <1>3, <1>5, SameMode DEF Paths
    <3>2. QED
      BY <1>1, <1>3, <1>5, <3>1 DEF IInv, PassInv, Confirmed
  <2>4. QED
    BY <1>1, <1>3, <1>5, <2>1, <2>2, <2>3, Keeps
<1>6. QED
  BY <1>2, <1>4, <1>5

(* A block that is read is as new as the tree, in either pass.             *)
LEMMA ReadBlockInv == ASSUME IInv, ReadBlock PROVE IInv'
<1>1. /\ pc \in {"hash", "rehash"} /\ at \in listed /\ at \in Paths /\ at \in Files
      /\ UNCHANGED <<source, output, env>>
  BY DEF ReadBlock, IInv, TypeOK, HashInv, PassInv
<1>2. CASE source[at] = None
  <2>1. Fail
    BY <1>2 DEF ReadBlock
  <2>2. QED
    BY <1>1, <2>1, Fails DEF IInv, TypeOK
<1>3. CASE source[at] # None
  <2>1. /\ source[at].data \in Edits /\ source[at].data \in Nat /\ source[at].data <= edits
        /\ SizeOf[source[at].data] \in Nat
    BY <1>1, <1>3, NodeFacts, Numbers DEF IInv, SourceInv
  <2>2. /\ buf' = Append(buf, source[at].data)
        /\ UNCHANGED <<pc, at, seen, listed, entries, members, outcome, snapshot>>
        /\ Len(buf) < SizeOf[source[at].data]
    <3>1. buf \in Seq(Edits)
      BY DEF IInv, TypeOK, Data
    <3>2. QED
      BY <1>3, <2>1, <3>1 DEF ReadBlock, AtEnd
  <2>3. /\ buf \in Seq(Edits) /\ Len(buf) \in Nat
        /\ buf' \in Seq(Edits) /\ Len(buf') = Len(buf) + 1
        /\ buf'[Len(buf) + 1] = source[at].data
        /\ \A i \in 1 .. Len(buf) : buf'[i] = buf[i]
    BY <2>1, <2>2 DEF IInv, TypeOK, Data
  <2>4. TypeOK'
    BY <1>1, <2>2, <2>3 DEF IInv, TypeOK, Data
  <2>5. HashInv'
    <3>1. CASE pc = "hash"
      <4>1. \A i \in 1 .. Len(buf') : buf'[i] <= edits /\ buf'[i] <= source[at].data
        BY <1>3, <2>1, <2>3, <3>1 DEF IInv, HashInv
      <4>2. ASSUME buf'[1] = source[at].data
            PROVE  /\ \A i \in 1 .. Len(buf') : buf'[i] = source[at].data
                   /\ Len(buf') <= SizeOf[source[at].data]
        BY <1>3, <2>1, <2>2, <2>3, <3>1, <4>2 DEF IInv, HashInv
      <4>3. QED
        BY <1>1, <1>3, <2>2, <3>1, <4>1, <4>2 DEF IInv, HashInv
    <3>2. CASE pc = "rehash"
      BY <2>2, <3>2 DEF HashInv
    <3>3. QED
      BY <1>1, <3>1, <3>2
  <2>6. SnapInv' /\ OutputInv'
    BY <1>1, <2>2 DEF IInv, SnapInv, Between, Older, OutputInv, ManifestHasArchive
  <2>7. PassInv'
    <3>1. ASSUME pc = "rehash" PROVE \A i \in 1 .. Len(buf') : snapshot[at].data <= buf'[i]
      <4>1. snapshot[at].data <= source[at].data
        BY <1>1, <1>3, <3>1 DEF IInv, SnapInv, PassInv, Between
      <4>2. QED
        BY <2>3, <3>1, <4>1 DEF IInv, PassInv
    <3>2. QED
      BY <1>1, <2>2, <3>1 DEF IInv, PassInv, Confirmed
  <2>8. QED
    BY <1>1, <2>2, <2>4, <2>5, <2>6, <2>7, Keeps
<1>4. QED
  BY <1>2, <1>3

(* A file is hashed when it has as many blocks as it had at first and as   *)
(* it has now: if it begins like the file it is the file.                  *)
LEMMA HashEndsInv == ASSUME IInv, HashEnds PROVE IInv'
<1>1. /\ pc = "hash" /\ at \in listed /\ at \in Paths /\ at \in Files /\ at \notin Links
      /\ source[at] # None /\ SizeOf[source[at].data] <= Len(buf)
      /\ UNCHANGED <<source, output, env>>
  BY ExportAssumption DEF HashEnds, AtEnd, IInv, TypeOK, HashInv
<1>2. CASE Len(buf) = seen.size
  <2>1. Collected(at, seen.mode, buf)
    BY <1>2 DEF HashEnds
  <2>2. /\ seen.mode \in Edits /\ seen.mode <= edits /\ buf \in Data
        /\ \A i \in 1 .. Len(buf) : buf[i] <= edits
    BY <1>1 DEF IInv, TypeOK, HashInv
  <2>3. SizeOf[source[at].data] \in Nat \ {0} /\ buf \in Seq(Edits) /\ Len(buf) \in Nat
    BY <1>1, <2>2, NodeFacts DEF Data
  <2>4. Len(buf) # 0
    BY <1>1, <2>3
  <2>5. ASSUME buf[1] = source[at].data PROVE buf = Whole(at, source[at].data)
    <3>1. /\ \A i \in 1 .. Len(buf) : buf[i] = source[at].data
          /\ Len(buf) = SizeOf[source[at].data]
      BY <1>1, <2>3, <2>4, <2>5 DEF IInv, HashInv
    <3>2. buf = [i \in 1 .. Len(buf) |-> buf[i]]
      BY <2>3
    <3>3. QED
      BY <1>1, <3>1, <3>2 DEF Whole
  <2>6. Older(at, [mode |-> seen.mode, data |-> buf], source[at])
    BY <1>1, <2>5 DEF Older, IInv, HashInv
  <2>7. QED
    BY <1>1, <2>1, <2>2, <2>4, <2>6, Records
<1>3. CASE Len(buf) # seen.size
  <2>1. Fail
    BY <1>3 DEF HashEnds
  <2>2. QED
    BY <1>1, <2>1, Fails DEF IInv, TypeOK
<1>4. QED
  BY <1>2, <1>3

LEMMA RehashEndsInv == ASSUME IInv, RehashEnds PROVE IInv'
<1>1. /\ pc = "rehash" /\ at \in listed /\ at \in Paths /\ at \in Files
      /\ source[at] # None /\ SizeOf[source[at].data] <= Len(buf)
      /\ UNCHANGED <<source, output, env>>
  BY DEF RehashEnds, AtEnd, IInv, TypeOK, PassInv
<1>2. CASE buf = entries[at].data
  <2>1. /\ pc' = "add" /\ buf' = <<>>
        /\ UNCHANGED <<outcome, at, seen, listed, entries, members, snapshot>>
    BY <1>2 DEF RehashEnds
  <2>2. Confirmed(at)
    <3>1. /\ entries[at] # None /\ snapshot[at] # None /\ snapshot[at] \in Node
          /\ Older(at, entries[at], snapshot[at])
      BY <1>1 DEF IInv, TypeOK, SnapInv, PassInv, Between
    <3>2. entries[at] \in Entry /\ Len(entries[at].data) \in Nat \ {0}
      BY <1>1, <3>1, EntryFacts DEF IInv, EntryInv
    <3>3. snapshot[at].data <= entries[at].data[1] /\ entries[at].mode = snapshot[at].mode
      BY <1>1, <1>2, <3>2 DEF IInv, PassInv
    <3>4. QED
      BY <1>1, <3>1, <3>2, <3>3, Confirms
  <2>3. TypeOK'
    BY <1>1, <2>1 DEF IInv, TypeOK, Data
  <2>4. HashInv' /\ SnapInv' /\ OutputInv'
    BY <1>1, <2>1 DEF IInv, HashInv, SnapInv, Between, Older, OutputInv, ManifestHasArchive
  <2>5. PassInv'
    <3>1. Len(buf') <= Len(entries[at].data)
      BY <1>1, <1>2, <2>1 DEF IInv, TypeOK, Data
    <3>2. QED
      BY <1>1, <2>1, <2>2, <3>1 DEF IInv, PassInv, Confirmed
  <2>6. QED
    BY <1>1, <2>1, <2>3, <2>4, <2>5, Keeps
<1>3. CASE buf # entries[at].data
  <2>1. Fail
    BY <1>3 DEF RehashEnds
  <2>2. QED
    BY <1>1, <2>1, Fails DEF IInv, TypeOK
<1>4. QED
  BY <1>2, <1>3

LEMMA AddFileInv == ASSUME IInv, AddFile PROVE IInv'
<1>1. /\ pc = "add" /\ at \in listed /\ at \in Paths /\ Confirmed(at) /\ buf \in Data
      /\ Len(buf) <= Len(entries[at].data)
      /\ UNCHANGED <<source, output, env>>
  BY DEF AddFile, IInv, TypeOK, PassInv
<1>2. Len(buf) \in Nat /\ Len(entries[at].data) \in Nat
  <2>1. entries[at] # None
    BY <1>1 DEF IInv, SnapInv, Between
  <2>2. QED
    BY <1>1, <2>1, EntryFacts DEF Data
<1>3. CASE Len(buf) = Len(entries[at].data)
  <2>1. Packed(at, buf)
    BY <1>3 DEF AddFile
  <2>2. QED
    BY <1>1, <2>1, Packs
<1>4. CASE Len(buf) < Len(entries[at].data) /\ (source[at] = None \/ AtEnd(at))
  <2>1. Fail
    BY <1>2, <1>4 DEF AddFile
  <2>2. QED
    BY <1>1, <2>1, Fails DEF IInv, TypeOK
<1>5. CASE Len(buf) < Len(entries[at].data) /\ source[at] # None /\ ~AtEnd(at)
  <2>1. /\ buf' = Append(buf, source[at].data)
        /\ UNCHANGED <<pc, at, seen, listed, entries, members, outcome, snapshot>>
    BY <1>2, <1>5 DEF AddFile
  <2>2. buf' \in Data /\ Len(buf') = Len(buf) + 1
    BY <1>1, <1>5, <2>1, NodeFacts DEF Data
  <2>3. TypeOK'
    BY <1>1, <2>1, <2>2 DEF IInv, TypeOK
  <2>4. HashInv' /\ SnapInv' /\ OutputInv'
    BY <1>1, <2>1 DEF IInv, HashInv, SnapInv, Between, Older, OutputInv, ManifestHasArchive
  <2>5. PassInv'
    <3>1. Len(buf') <= Len(entries[at].data)
      BY <1>2, <1>5, <2>2
    <3>2. QED
      BY <1>1, <2>1, <3>1 DEF IInv, PassInv, Confirmed
  <2>6. QED
    BY <1>1, <2>1, <2>3, <2>4, <2>5, Keeps
<1>6. QED
  BY <1>1, <1>2, <1>3, <1>4, <1>5

(* The steps on the output directory leave the packed run as it is.        *)
LEMMA Writes ==
    ASSUME IInv, TypeOK', OutputInv', pc \in Output, pc' \in Output,
           UNCHANGED <<source, run, outcome, snapshot, edits>>
    PROVE  IInv'
<1>1. HashInv' /\ SnapInv' /\ PassInv'
  BY DEF IInv, HashInv, SnapInv, Between, Older, PassInv, Confirmed
<1>2. QED
  BY <1>1, Keeps

LEMMA CompressInv == ASSUME IInv, Compress PROVE IInv'
<1>1. TypeOK' /\ OutputInv'
  BY DEF Compress, IInv, TypeOK, OutputInv, ManifestHasArchive
<1>2. QED
  BY <1>1, Writes DEF Compress

LEMMA PlaceArchiveInv == ASSUME IInv, PlaceArchive PROVE IInv'
<1>1. TypeOK' /\ OutputInv'
  BY DEF PlaceArchive, IInv, TypeOK, OutputInv, ManifestHasArchive
<1>2. QED
  BY <1>1, Writes DEF PlaceArchive

LEMMA WriteManifestInv == ASSUME IInv, WriteManifest PROVE IInv'
<1>1. Manifest.entries \in Entries /\ Manifest.archive \in Members
  BY DEF Manifest, IInv, TypeOK
<1>2. TypeOK' /\ OutputInv'
  BY <1>1 DEF WriteManifest, IInv, TypeOK, OutputInv, ManifestHasArchive
<1>3. QED
  BY <1>2, Writes DEF WriteManifest

LEMMA ReplaceManifestInv == ASSUME IInv, ReplaceManifest PROVE IInv'
<1>1. Manifest.entries \in Entries /\ Manifest.archive \in Members /\ Manifest.archive = members
  BY DEF Manifest, IInv, TypeOK
<1>2. TypeOK' /\ OutputInv'
  BY <1>1 DEF ReplaceManifest, IInv, TypeOK, OutputInv, ManifestHasArchive
<1>3. QED
  BY <1>2, Writes DEF ReplaceManifest

(* What verifies has every confirmed entry as a member.                    *)
LEMMA VerifyExportInv == ASSUME IInv, VerifyExport PROVE IInv'
<1>1. /\ pc = "verify" /\ pc' = "idle" /\ UNCHANGED <<source, run, output, snapshot, env>>
      /\ outcome' = IF Describes(Manifest) THEN "ok" ELSE "error"
  BY DEF VerifyExport
<1>2. TypeOK'
  BY <1>1 DEF IInv, TypeOK
<1>3. HashInv' /\ SnapInv' /\ OutputInv'
  BY <1>1 DEF IInv, HashInv, SnapInv, OutputInv, ManifestHasArchive
<1>4. ASSUME outcome' = "ok", NEW p \in listed
      PROVE  Confirmed(p) /\ members[p] = entries[p].data
  <2>1. p \in Paths /\ Confirmed(p) /\ entries[p] # None
    BY <1>1 DEF IInv, TypeOK, PassInv, SnapInv, Between
  <2>2. Describes(Manifest)
    BY <1>1, <1>4
  <2>3. QED
    BY <2>1, <2>2 DEF Describes, Manifest
<1>5. PassInv'
  BY <1>1, <1>4 DEF PassInv, Confirmed
<1>6. QED
  BY <1>1, <1>2, <1>3, <1>5, Keeps

LEMMA RaiseInv == ASSUME IInv, Raise PROVE IInv'
<1>1. faults' \in 0 .. MaxFaults
  BY ExportAssumption DEF Raise, Fault, IInv, TypeOK
<1>2. QED
  BY <1>1, Fails DEF Raise, Fault

LEMMA KillInv == ASSUME IInv, Kill PROVE IInv'
<1>1. faults' \in 0 .. MaxFaults
  BY ExportAssumption DEF Kill, Fault, IInv, TypeOK
<1>2. TypeOK'
  BY <1>1 DEF Kill, Fault, IInv, TypeOK
<1>3. QED
  BY <1>2, Ends DEF Kill, Fault

(* An edit has a number that nothing recorded has.                         *)
LEMMA ChangeInv == ASSUME IInv, NEW p \in Paths, Change(p) PROVE IInv'
<1>1. /\ edits \in Nat /\ edits' = edits + 1 /\ edits' \in Edits /\ edits' \notin 0 .. edits
      /\ UNCHANGED <<pc, run, output, outcome, snapshot, faults>>
  BY Numbers DEF Change, IInv, TypeOK
<1>2. /\ \A q \in Paths \ {p} : source'[q] = source[q]
      /\ source'[p] # None =>
            /\ source'[p] \in Node
            /\ \/ source[p] = None /\ source'[p] = [mode |-> edits', data |-> edits']
               \/ /\ source[p] # None
                  /\ \/ source'[p].mode = edits' /\ source'[p].data = source[p].data
                     \/ source'[p].mode = source[p].mode /\ source'[p].data = edits'
  <2>1. source \in [Paths -> Node \cup {None}]
    BY DEF IInv, TypeOK
  <2>2. CASE source[p] # None
    <3>1. source[p] \in Node
      BY <2>1, <2>2
    <3>2. CASE source' = [source EXCEPT ![p].data = edits + 1]
      <4>1. source'[p] = [source[p] EXCEPT !.data = edits']
            /\ \A q \in Paths \ {p} : source'[q] = source[q]
        BY <1>1, <2>1, <3>2
      <4>2. QED
        BY <1>1, <2>2, <3>1, <4>1 DEF Node
    <3>3. CASE source' = [source EXCEPT ![p].mode = edits + 1]
      <4>1. source'[p] = [source[p] EXCEPT !.mode = edits']
            /\ \A q \in Paths \ {p} : source'[q] = source[q]
        BY <1>1, <2>1, <3>3
      <4>2. QED
        BY <1>1, <2>2, <3>1, <4>1 DEF Node
    <3>4. CASE source' = [source EXCEPT ![p] = None]
      BY <2>1, <3>4
    <3>5. QED
      BY <2>2, <3>2, <3>3, <3>4 DEF Change
  <2>3. CASE source[p] = None
    <3>1. source' = [source EXCEPT ![p] = [mode |-> edits', data |-> edits']]
      BY <1>1, <2>3 DEF Change
    <3>2. [mode |-> edits', data |-> edits'] \in Node
      BY <1>1 DEF Node
    <3>3. QED
      BY <2>1, <2>3, <3>1, <3>2
  <2>4. QED
    BY <2>2, <2>3
<1>3. \A q \in Paths : source'[q] # None =>
        /\ source'[q] \in Node
        /\ source[q] # None =>
              /\ source'[q].mode = source[q].mode \/ source'[q].mode = edits'
              /\ source'[q].data = source[q].data \/ source'[q].data = edits'
        /\ source[q] = None => source'[q].mode = edits' /\ source'[q].data = edits'
  BY <1>2, NodeFacts
<1>4. TypeOK'
  <2>1. source' \in [Paths -> Node \cup {None}]
    <3>1. source' = [q \in Paths |-> source'[q]]
      BY DEF Change, IInv, TypeOK
    <3>2. QED
      BY <1>3, <3>1
  <2>2. QED
    BY <1>1, <2>1 DEF IInv, TypeOK
<1>5. SourceInv'
  BY <1>1, <1>3, NodeFacts, Numbers DEF IInv, SourceInv
<1>6. EntryInv'
  <2>1. SUFFICES ASSUME NEW q \in Paths, entries[q] # None
                 PROVE  /\ Len(entries[q].data) # 0
                        /\ entries[q].mode <= edits'
                        /\ \A i \in 1 .. Len(entries[q].data) : entries[q].data[i] <= edits'
                        /\ source'[q] # None => Older(q, entries[q], source'[q])
    BY <1>1 DEF EntryInv, Older, Whole
  <2>2. /\ entries[q].mode \in Nat /\ entries[q].mode <= edits
        /\ Len(entries[q].data) \in Nat \ {0}
        /\ \A i \in 1 .. Len(entries[q].data) :
              entries[q].data[i] \in Nat /\ entries[q].data[i] <= edits
    <3>1. q \in Paths /\ entries[q].mode \in Edits /\ entries[q].data \in Seq(Edits)
      BY <2>1, EntryFacts
    <3>2. Len(entries[q].data) \in Nat
          /\ \A i \in 1 .. Len(entries[q].data) : entries[q].data[i] \in Edits
      BY <3>1
    <3>3. Len(entries[q].data) # 0 /\ entries[q].mode <= edits
          /\ \A i \in 1 .. Len(entries[q].data) : entries[q].data[i] <= edits
      BY <2>1, <3>1 DEF IInv, EntryInv
    <3>4. QED
      BY <3>1, <3>2, <3>3, Numbers
  <2>3. ASSUME source'[q] # None PROVE Older(q, entries[q], source'[q])
    <3>1. CASE source[q] = None
      BY <1>1, <1>3, <2>2, <2>3, <3>1 DEF Older
    <3>2. CASE source[q] # None
      <4>1. Older(q, entries[q], source[q])
        BY <2>1, <3>2 DEF IInv, EntryInv
      <4>2. QED
        BY <1>1, <1>3, <2>2, <2>3, <3>2, <4>1 DEF Older
    <3>3. QED
      BY <3>1, <3>2
  <2>4. QED
    BY <1>1, <2>2, <2>3
<1>7. HashInv'
  <2>1. CASE pc = "hash"
    <3>1. /\ at \in Paths /\ seen.mode \in Nat /\ seen.mode <= edits /\ Len(buf) \in Nat
          /\ \A i \in 1 .. Len(buf) : buf[i] \in Nat /\ buf[i] <= edits
      <4>1. /\ at \in Paths /\ seen.mode \in Edits /\ seen.mode <= edits /\ buf \in Seq(Edits)
            /\ \A i \in 1 .. Len(buf) : buf[i] <= edits
        BY <2>1 DEF IInv, TypeOK, HashInv, Data
      <4>2. QED
        BY <4>1, Numbers
    <3>2. ASSUME source'[at] # None
          PROVE  /\ seen.mode <= source'[at].mode
                 /\ \A i \in 1 .. Len(buf) : buf[i] <= source'[at].data
      BY <1>1, <1>3, <2>1, <3>1, <3>2 DEF IInv, HashInv
    <3>3. ASSUME source'[at] # None, Len(buf) # 0, buf[1] = source'[at].data
          PROVE  /\ \A i \in 1 .. Len(buf) : buf[i] = source'[at].data
                 /\ Len(buf) <= SizeOf[source'[at].data]
      <4>1. source'[at].data # edits'
        BY <1>1, <3>1, <3>3
      <4>2. source[at] # None /\ source'[at].data = source[at].data
        BY <1>3, <3>1, <3>3, <4>1
      <4>3. QED
        BY <2>1, <3>3, <4>2 DEF IInv, HashInv
    <3>4. QED
      BY <1>1, <2>1, <3>1, <3>2, <3>3 DEF IInv, HashInv
  <2>2. CASE pc # "hash"
    BY <1>1, <2>2 DEF IInv, HashInv
  <2>3. QED
    BY <2>1, <2>2
<1>8. SnapInv'
  <2>1. SUFFICES ASSUME pc \in Second \cup Output, NEW q \in listed PROVE Between(q)'
    BY <1>1 DEF SnapInv
  <2>2. q \in Paths /\ Between(q) /\ entries[q] # None
    BY <2>1 DEF IInv, TypeOK, SnapInv, Between
  <2>3. /\ entries[q].mode \in Nat /\ entries[q].mode <= edits
        /\ Len(entries[q].data) \in Nat
        /\ \A i \in 1 .. Len(entries[q].data) :
              entries[q].data[i] \in Nat /\ entries[q].data[i] <= edits
    <3>1. q \in Paths /\ entries[q].mode \in Edits /\ entries[q].data \in Seq(Edits)
      BY <2>2, EntryFacts
    <3>2. Len(entries[q].data) \in Nat
          /\ \A i \in 1 .. Len(entries[q].data) : entries[q].data[i] \in Edits
      BY <3>1
    <3>3. Len(entries[q].data) # 0 /\ entries[q].mode <= edits
          /\ \A i \in 1 .. Len(entries[q].data) : entries[q].data[i] <= edits
      BY <2>2, <3>1 DEF IInv, EntryInv
    <3>4. QED
      BY <3>1, <3>2, <3>3, Numbers
  <2>4. CASE snapshot[q] # None
    <3>1. /\ snapshot[q].mode \in Nat /\ snapshot[q].data \in Nat
          /\ snapshot[q].mode <= edits /\ snapshot[q].data <= edits
      BY <2>2, <2>4, Numbers DEF Between, IInv, TypeOK, Node
    <3>2. Older(q, entries[q], snapshot[q])' = Older(q, entries[q], snapshot[q])
      BY <1>1 DEF Older
    <3>3. ASSUME source'[q] # None
          PROVE  snapshot[q].mode <= source'[q].mode /\ snapshot[q].data <= source'[q].data
      BY <1>1, <1>3, <2>2, <2>4, <3>1, <3>3 DEF Between
    <3>4. QED
      BY <1>1, <2>2, <2>4, <3>1, <3>2, <3>3 DEF Between
  <2>5. CASE snapshot[q] = None
    BY <1>1, <1>3, <2>2, <2>3, <2>5 DEF Between
  <2>6. QED
    BY <2>4, <2>5
<1>9. PassInv' /\ OutputInv'
  BY <1>1 DEF IInv, PassInv, Confirmed, OutputInv, ManifestHasArchive
<1>10. QED
  BY <1>4, <1>5, <1>6, <1>7, <1>8, <1>9 DEF IInv

LEMMA StutterInv == ASSUME IInv, UNCHANGED vars PROVE IInv'
  BY DEF vars, IInv, TypeOK, SourceInv, EntryInv, HashInv, SnapInv, Between, Older, PassInv,
         Confirmed, OutputInv, ManifestHasArchive

LEMMA NextInv == IInv /\ [Next]_vars => IInv'
<1>1. SUFFICES ASSUME IInv, [Next]_vars PROVE IInv'
  OBVIOUS
<1>2. CASE Begin
  BY <1>1, <1>2, BeginInv
<1>3. CASE Step
  BY <1>1, <1>3, SkipInv, CollectInv, ReadBlockInv, HashEndsInv, CollectionEndsInv,
     CheckPathInv, RehashEndsInv, AddFileInv, TarEndsInv, CompressInv, PlaceArchiveInv,
     WriteManifestInv, ReplaceManifestInv, VerifyExportInv DEF Step
<1>4. CASE Raise \/ Kill
  BY <1>1, <1>4, RaiseInv, KillInv
<1>5. CASE \E p \in Paths : Change(p)
  BY <1>1, <1>5, ChangeInv
<1>6. CASE UNCHANGED vars
  BY <1>1, <1>6, StutterInv
<1>7. QED
  BY <1>1, <1>2, <1>3, <1>4, <1>5, <1>6 DEF Next

LEMMA Inductive == Spec => []IInv
  BY InitInv, NextInv, PTL DEF Spec
-----------------------------------------------------------------------------
(* Every reachable state has the declared types.                           *)
THEOREM TypeCorrect == Spec => []TypeOK
<1>1. IInv => TypeOK
  BY DEF IInv
<1>2. QED
  BY <1>1, Inductive, PTL

(* scripts/export_runtime.py never reports success for an archive that     *)
(* mixes states of the tree: manifest and archive are the tree at one      *)
(* instant, however it was edited meanwhile.                               *)
THEOREM Snapshot == Spec => []SuccessIsSnapshot
<1>1. IInv => SuccessIsSnapshot
  BY DEF IInv, PassInv, Confirmed, SuccessIsSnapshot
<1>2. QED
  BY <1>1, Inductive, PTL

(* The manifest is replaced after its archive is in place: nobody finds    *)
(* one without the other, wherever a run failed or was killed.             *)
THEOREM ManifestsHaveArchives == Spec => []ManifestHasArchive
<1>1. IInv => ManifestHasArchive
  BY DEF IInv, OutputInv
<1>2. QED
  BY <1>1, Inductive, PTL
=============================================================================
