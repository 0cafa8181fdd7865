------------------------- MODULE RuntimeDownloadProofs -------------------------
(***************************************************************************)
(* Theorems about RuntimeDownload for any number of calls, runtimes,       *)
(* ranges, faults and edits.                                               *)
(***************************************************************************)
EXTENDS RuntimeDownload, TLAPS

(* What is durable is complete, and a volume that durably has a current    *)
(* runtime does not lose it from memory.                                   *)
StoreInv == safe \subseteq complete /\ (recorded # None => exposed # None)

(* How far the store is when a call has reached a step of the publication. *)
StageInv ==
    \A c \in Calls :
        /\ pc[c] = "persist" => want[c] \in complete
        /\ pc[c] = "expose" => want[c] \in safe
        /\ pc[c] = "confirm" => want[c] \in safe /\ exposed # None
        /\ pc[c] = "post" => want[c] \in safe /\ recorded # None

IInv == TypeOK /\ StoreInv /\ StageInv /\ OkMeansDurable
-----------------------------------------------------------------------------
USE DEF PC, Locked, Contents, config, outcome, store, env

(* Nothing that a report relies on is taken back.                          *)
Grows == /\ complete \subseteq complete' /\ safe \subseteq safe'
         /\ exposed # None => exposed' # None
         /\ recorded # None => recorded' # None
(* The other calls stay where they are.                                    *)
Alone(c) == \A d \in Calls \ {c} : /\ pc'[d] = pc[d] /\ want'[d] = want[d]
                                   /\ told'[d] = told[d] /\ exit'[d] = exit[d]

(* A call moves and reports success at most after the last barrier.        *)
LEMMA Moves ==
    ASSUME IInv, TypeOK', StoreInv', Grows, NEW c \in Calls, Alone(c),
           pc'[c] = "persist" => want'[c] \in complete',
           pc'[c] = "expose" => want'[c] \in safe',
           pc'[c] = "confirm" => want'[c] \in safe' /\ exposed' # None,
           pc'[c] = "post" => want'[c] \in safe' /\ recorded' # None,
           told'[c] = "ok" \/ exit'[c] = "ok" =>
               /\ want'[c] = want[c]
               /\ \/ told[c] = "ok" \/ exit[c] = "ok"
                  \/ want[c] \in safe' /\ recorded' # None
    PROVE  IInv'
<1>1. StageInv'
  BY DEF IInv, StageInv, Grows, Alone
<1>2. OkMeansDurable'
  BY DEF IInv, OkMeansDurable, Grows, Alone
<1>3. QED
  BY <1>1, <1>2 DEF IInv

(* ... and one that leaves the store alone and does not reach a later      *)
(* stage of the publication.                                               *)
LEMMA Stays ==
    ASSUME IInv, NEW c \in Calls, Alone(c), UNCHANGED <<config, staged, store>>,
           pc' \in [Calls -> PC], pc'[c] \notin {"persist", "expose", "confirm", "post"},
           got' \in [Calls -> Seq(0 .. Ranges)], \A d \in Calls : Len(got'[d]) <= Ranges,
           told' \in [Calls -> {"nothing", "ok", "error"}],
           exit' \in [Calls -> {"none", "ok", "error", "killed"}],
           lock' \in Calls \cup {None}, faults' \in Nat, edits' \in Nat,
           told'[c] = "ok" => told[c] = "ok" \/ pc[c] = "post",
           exit'[c] = "ok" => exit[c] = "ok" \/ pc[c] = "post"
    PROVE  IInv'
<1>1. TypeOK'
  BY DEF IInv, TypeOK
<1>2. StoreInv' /\ Grows
  BY DEF IInv, StoreInv, Grows
<1>3. pc[c] = "post" => want[c] \in safe' /\ recorded' # None
  BY DEF IInv, StageInv
<1>4. QED
  BY <1>1, <1>2, <1>3, Moves

(* The fields of a call that Goto, Discard and Fail set.                   *)
LEMMA Fields ==
    ASSUME IInv, NEW c \in Calls
    PROVE  /\ \A next \in PC : Goto(c, next) =>
                 /\ pc' \in [Calls -> PC] /\ pc'[c] = next
                 /\ \A d \in Calls \ {c} : pc'[d] = pc[d]
                 /\ UNCHANGED <<got, told, exit>>
           /\ Discard(c) => /\ got' \in [Calls -> Seq(0 .. Ranges)]
                           /\ \A d \in Calls : Len(got'[d]) <= Ranges
<1>1. ASSUME NEW next \in PC, Goto(c, next)
      PROVE  /\ pc' \in [Calls -> PC] /\ pc'[c] = next
             /\ \A d \in Calls \ {c} : pc'[d] = pc[d]
             /\ UNCHANGED <<got, told, exit>>
  BY <1>1 DEF Goto, IInv, TypeOK
<1>2. ASSUME Discard(c)
      PROVE  /\ got' \in [Calls -> Seq(0 .. Ranges)]
             /\ \A d \in Calls : Len(got'[d]) <= Ranges
  <2>1. <<>> \in Seq(0 .. Ranges) /\ Len(<<>>) <= Ranges
    BY DownloadAssumption
  <2>2. \A d \in Calls : got'[d] = IF d = c THEN <<>> ELSE got[d]
    BY <1>2 DEF Discard, IInv, TypeOK
  <2>3. got' = [d \in Calls |-> got'[d]]
    BY <1>2 DEF Discard, IInv, TypeOK
  <2>4. \A d \in Calls : got[d] \in Seq(0 .. Ranges) /\ Len(got[d]) <= Ranges
    BY DEF IInv, TypeOK
  <2>5. \A d \in Calls : got'[d] \in Seq(0 .. Ranges) /\ Len(got'[d]) <= Ranges
    BY <2>1, <2>2, <2>4
  <2>6. QED
    BY <2>3, <2>5
<1>3. QED
  BY <1>1, <1>2

LEMMA Fails ==
    ASSUME IInv, NEW c \in Calls, Fail(c), UNCHANGED <<config, staged, store>>,
           lock' \in Calls \cup {None}, faults' \in Nat, edits' \in Nat
    PROVE  IInv'
<1>1. got' \in [Calls -> Seq(0 .. Ranges)] /\ \A d \in Calls : Len(got'[d]) <= Ranges
  BY Fields DEF Fail
<1>2. /\ pc' \in [Calls -> PC] /\ pc'[c] \in {"postError", "idle"}
      /\ \A d \in Calls \ {c} : pc'[d] = pc[d]
  BY DEF Fail, IInv, TypeOK
<1>3. /\ exit' \in [Calls -> {"none", "ok", "error", "killed"}] /\ told' = told
      /\ exit'[c] = "ok" => exit[c] = "ok"
      /\ \A d \in Calls \ {c} : exit'[d] = exit[d]
  BY DEF Fail, IInv, TypeOK
<1>4. Alone(c) /\ told' \in [Calls -> {"nothing", "ok", "error"}]
  BY <1>2, <1>3 DEF Alone, IInv, TypeOK
<1>5. QED
  BY <1>1, <1>2, <1>3, <1>4, Stays

LEMMA Faults == IInv /\ Fault => faults' \in Nat /\ edits' \in Nat /\ faults \in Nat
  BY DEF Fault, IInv, TypeOK

(* A step from one stage to the next one before the store changes.         *)
LEMMA Goes ==
    ASSUME IInv, NEW c \in Calls, NEW next \in PC \ {"persist", "expose", "confirm", "post"},
           Goto(c, next), UNCHANGED <<config, staged, store, env>>, lock' \in Calls \cup {None}
    PROVE  IInv'
<1>1. /\ pc' \in [Calls -> PC] /\ pc'[c] = next /\ UNCHANGED <<got, told, exit>>
      /\ \A d \in Calls \ {c} : pc'[d] = pc[d]
  BY Fields
<1>2. Alone(c)
  BY <1>1 DEF Alone
<1>3. QED
  BY <1>1, <1>2, Stays DEF IInv, TypeOK
-----------------------------------------------------------------------------
LEMMA InitInv == Init => IInv
<1>1. SUFFICES ASSUME Init PROVE IInv
  OBVIOUS
<1>2. got \in [Calls -> Seq(0 .. Ranges)] /\ \A c \in Calls : Len(got[c]) <= Ranges
  BY <1>1, DownloadAssumption DEF Init
<1>3. TypeOK
  BY <1>1, <1>2 DEF Init, TypeOK, Store!StoreInit
<1>4. StoreInv /\ StageInv /\ OkMeansDurable
  BY <1>1 DEF Init, Store!StoreInit, StoreInv, StageInv, OkMeansDurable
<1>5. QED
  BY <1>3, <1>4 DEF IInv

LEMMA StartInv ==
    ASSUME IInv, NEW c \in Calls, NEW d \in Runtimes, NEW src \in {"staged", "url"},
           NEW cb \in BOOLEAN, Start(c, d, src, cb)
    PROVE  IInv'
<1>1. /\ want' \in [Calls -> Runtimes] /\ source' \in [Calls -> {"staged", "url"}]
      /\ callback' \in [Calls -> BOOLEAN] /\ told' \in [Calls -> {"nothing", "ok", "error"}]
      /\ told'[c] = "nothing" /\ UNCHANGED <<got, lock, staged, store>>
      /\ \A e \in Calls \ {c} : want'[e] = want[e] /\ told'[e] = told[e]
  BY DEF Start, IInv, TypeOK
<1>2. /\ pc' \in [Calls -> PC] /\ pc'[c] \in {"prepare", "idle"}
      /\ exit' \in [Calls -> {"none", "ok", "error", "killed"}] /\ exit'[c] # "ok"
      /\ \A e \in Calls \ {c} : pc'[e] = pc[e] /\ exit'[e] = exit[e]
      /\ faults' \in Nat /\ edits' \in Nat
  BY Faults DEF Start, IInv, TypeOK
<1>3. TypeOK'
  BY <1>1, <1>2 DEF IInv, TypeOK
<1>4. StoreInv' /\ Grows /\ Alone(c)
  BY <1>1, <1>2 DEF IInv, StoreInv, Grows, Alone
<1>5. QED
  BY <1>1, <1>2, <1>3, <1>4, Moves

LEMMA PrepareInv == ASSUME IInv, NEW c \in Calls, Prepare(c) PROVE IInv'
<1>1. CASE Fail(c)
  BY <1>1, Fails, Faults DEF Prepare, IInv, TypeOK
<1>2. CASE ~Fail(c)
  BY <1>2, Goes DEF Prepare, IInv, TypeOK
<1>3. QED
  BY <1>1, <1>2

LEMMA NextRangeInv == ASSUME IInv, NEW c \in Calls, NextRange(c) PROVE IInv'
<1>1. CASE Fail(c)
  BY <1>1, Fails, Faults DEF NextRange, FetchWhile, IInv, TypeOK
<1>2. ASSUME NEW x \in 0 .. Ranges, got' = [got EXCEPT ![c] = Append(@, x)],
             UNCHANGED <<pc, outcome>>
      PROVE  IInv'
  <2>1. /\ got[c] \in Seq(0 .. Ranges) /\ Len(got[c]) < Ranges /\ Ranges \in Nat
        /\ UNCHANGED <<config, lock, staged, store>>
    BY DownloadAssumption DEF NextRange, FetchWhile, IInv, TypeOK
  <2>2. Append(got[c], x) \in Seq(0 .. Ranges) /\ Len(Append(got[c], x)) <= Ranges
    BY <2>1
  <2>3. got'[c] = Append(got[c], x) /\ \A d \in Calls \ {c} : got'[d] = got[d]
    BY <1>2 DEF IInv, TypeOK
  <2>4. got' = [d \in Calls |-> got'[d]]
    BY <1>2 DEF IInv, TypeOK
  <2>5. \A d \in Calls : got[d] \in Seq(0 .. Ranges) /\ Len(got[d]) <= Ranges
    BY DEF IInv, TypeOK
  <2>6. \A d \in Calls : got'[d] \in Seq(0 .. Ranges) /\ Len(got'[d]) <= Ranges
    BY <2>2, <2>3, <2>5
  <2>7. got' \in [Calls -> Seq(0 .. Ranges)]
    BY <2>4, <2>6
  <2>8. faults' \in Nat /\ edits' \in Nat
    BY Faults DEF NextRange, FetchWhile, IInv, TypeOK
  <2>9. pc'[c] = "range" /\ Alone(c)
    BY <1>2 DEF NextRange, FetchWhile, Alone
  <2>10. QED
    BY <1>2, <2>1, <2>6, <2>7, <2>8, <2>9, Stays DEF IInv, TypeOK
<1>3. CASE ~Fail(c)
  <2>1. got[c] \in Seq(0 .. Ranges) /\ Len(got[c]) < Ranges /\ Ranges \in Nat
    BY DownloadAssumption DEF NextRange, FetchWhile, IInv, TypeOK
  <2>2. 0 \in 0 .. Ranges /\ Len(got[c]) + 1 \in 0 .. Ranges
    BY <2>1
  <2>3. \E x \in 0 .. Ranges : got' = [got EXCEPT ![c] = Append(@, x)] /\ UNCHANGED <<pc, outcome>>
    BY <1>3, <2>2 DEF NextRange, FetchWhile
  <2>4. QED
    BY <1>2, <2>3
<1>4. QED
  BY <1>1, <1>3

LEMMA DownloadEndsInv == ASSUME IInv, NEW c \in Calls, DownloadEnds(c) PROVE IInv'
<1>1. CASE Fail(c)
  BY <1>1, Fails DEF DownloadEnds, IInv, TypeOK
<1>2. CASE ~Fail(c)
  BY <1>2, Goes DEF DownloadEnds, IInv, TypeOK
<1>3. QED
  BY <1>1, <1>2

LEMMA HashArchiveInv == ASSUME IInv, NEW c \in Calls, HashArchive(c) PROVE IInv'
<1>1. CASE Fail(c)
  BY <1>1, Fails, Faults DEF HashArchive, IInv, TypeOK
<1>2. CASE ~Fail(c)
  BY <1>2, Goes DEF HashArchive, IInv, TypeOK
<1>3. QED
  BY <1>1, <1>2

LEMMA WinLockInv == ASSUME IInv, NEW c \in Calls, WinLock(c) PROVE IInv'
  BY Goes DEF WinLock

LEMMA ExtractInv == ASSUME IInv, NEW c \in Calls, Extract(c) PROVE IInv'
<1>1. CASE Fail(c)
  BY <1>1, Fails DEF Extract, Unpack, IInv, TypeOK
<1>2. CASE ~Fail(c)
  BY <1>2, Goes DEF Extract, Unpack, IInv, TypeOK
<1>3. QED
  BY <1>1, <1>2

(* The steps of the publication: each one has established what the next    *)
(* one relies on.                                                          *)
LEMMA Publishes ==
    ASSUME IInv, NEW c \in Calls, NEW next \in PC, Goto(c, next), Grows, StoreInv',
           complete' \subseteq Runtimes, safe' \subseteq Runtimes,
           exposed' \in Runtimes \cup {None}, recorded' \in Runtimes \cup {None},
           UNCHANGED <<config, staged, env>>, lock' \in Calls \cup {None},
           next = "persist" => want[c] \in complete',
           next = "expose" => want[c] \in safe',
           next = "confirm" => want[c] \in safe' /\ exposed' # None,
           next = "post" => want[c] \in safe' /\ recorded' # None
    PROVE  IInv'
<1>1. /\ pc' \in [Calls -> PC] /\ pc'[c] = next /\ UNCHANGED <<got, told, exit>>
      /\ \A d \in Calls \ {c} : pc'[d] = pc[d]
  BY Fields
<1>2. TypeOK' /\ Alone(c)
  BY <1>1 DEF Alone, IInv, TypeOK
<1>3. QED
  BY <1>1, <1>2, Moves

LEMMA InstallInv == ASSUME IInv, NEW c \in Calls, Install(c) PROVE IInv'
<1>1. /\ complete' = complete \cup {want[c]} /\ want[c] \in Runtimes
      /\ UNCHANGED <<safe, exposed, recorded>>
  BY DEF Install, Store!Install, IInv, TypeOK
<1>2. Grows /\ StoreInv' /\ complete' \subseteq Runtimes
  BY <1>1 DEF Grows, IInv, TypeOK, StoreInv
<1>3. QED
  BY <1>1, <1>2, Publishes DEF Install, IInv, TypeOK

LEMMA PersistInv == ASSUME IInv, NEW c \in Calls, Persist(c) PROVE IInv'
<1>1. safe' = complete /\ recorded' = exposed /\ UNCHANGED <<complete, exposed>>
  BY DEF Persist, Store!Persist
<1>2. Grows /\ StoreInv' /\ want[c] \in safe'
  BY <1>1 DEF Persist, Grows, IInv, StoreInv, StageInv
<1>3. QED
  BY <1>1, <1>2, Publishes DEF Persist, IInv, TypeOK

LEMMA ExposeInv == ASSUME IInv, NEW c \in Calls, Expose(c) PROVE IInv'
<1>1. /\ want[c] \in safe /\ exposed' = want[c] /\ exposed' # None
      /\ UNCHANGED <<complete, safe, recorded>>
  BY DownloadAssumption DEF Expose, Store!Expose, IInv, TypeOK
<1>2. Grows /\ StoreInv'
  BY <1>1 DEF Grows, IInv, StoreInv
<1>3. QED
  BY <1>1, <1>2, Publishes DEF Expose, IInv, TypeOK

LEMMA ConfirmInv == ASSUME IInv, NEW c \in Calls, Confirm(c) PROVE IInv'
<1>1. /\ pc[c] = "confirm" /\ safe' = complete /\ recorded' = exposed
      /\ UNCHANGED <<complete, exposed, config, staged, env, told, exit>> /\ lock' = None
      /\ pc' = [pc EXCEPT ![c] = "post"] /\ Discard(c)
  BY DEF Confirm, Store!Persist
<1>2. Grows /\ StoreInv' /\ want[c] \in safe' /\ recorded' # None
  BY <1>1 DEF Grows, IInv, StoreInv, StageInv
<1>3. /\ pc' \in [Calls -> PC] /\ pc'[c] = "post"
      /\ \A d \in Calls \ {c} : pc'[d] = pc[d]
  BY <1>1 DEF IInv, TypeOK
<1>4. got' \in [Calls -> Seq(0 .. Ranges)] /\ \A d \in Calls : Len(got'[d]) <= Ranges
  BY <1>1, Fields
<1>5. TypeOK' /\ Alone(c)
  BY <1>1, <1>3, <1>4 DEF Alone, IInv, TypeOK
<1>6. QED
  BY <1>1, <1>2, <1>3, <1>5, Moves

LEMMA RaiseInv == ASSUME IInv, NEW c \in Calls, Raise(c) PROVE IInv'
  BY Fails, Faults DEF Raise

(* A call exits: a success is reported from "post" alone.                  *)
LEMMA Exits ==
    ASSUME IInv, NEW c \in Calls, NEW code \in {"ok", "error", "killed"}, Exit(c, code),
           NEW v \in {"nothing", "ok", "error"}, told' = [told EXCEPT ![c] = v],
           code = "ok" => pc[c] = "post", v = "ok" => told[c] = "ok" \/ pc[c] = "post",
           UNCHANGED <<config, staged, store>>, lock' \in Calls \cup {None},
           faults' \in Nat, edits' \in Nat,
           got' \in [Calls -> Seq(0 .. Ranges)], \A d \in Calls : Len(got'[d]) <= Ranges
    PROVE  IInv'
<1>1. /\ pc' \in [Calls -> PC] /\ pc'[c] = "idle"
      /\ \A d \in Calls \ {c} : pc'[d] = pc[d]
  BY DEF Exit, IInv, TypeOK
<1>2. /\ exit' \in [Calls -> {"none", "ok", "error", "killed"}] /\ exit'[c] = code
      /\ \A d \in Calls \ {c} : exit'[d] = exit[d]
  BY DEF Exit, IInv, TypeOK
<1>3. /\ told' \in [Calls -> {"nothing", "ok", "error"}] /\ told'[c] = v
      /\ \A d \in Calls \ {c} : told'[d] = told[d]
  BY DEF IInv, TypeOK
<1>4. Alone(c)
  BY <1>1, <1>2, <1>3 DEF Alone
<1>5. QED
  BY <1>1, <1>2, <1>3, <1>4, Stays

LEMMA PostResultInv == ASSUME IInv, NEW c \in Calls, PostResult(c) PROVE IInv'
<1>1. /\ pc[c] = "post" /\ told = [told EXCEPT ![c] = told[c]]
      /\ told[c] \in {"nothing", "ok", "error"}
      /\ faults' \in Nat /\ edits' \in Nat /\ UNCHANGED <<config, got, lock, staged, store>>
  BY Faults DEF PostResult, IInv, TypeOK
<1>2. PICK code \in {"ok", "error", "killed"}, v \in {"nothing", "ok", "error"} :
          Exit(c, code) /\ told' = [told EXCEPT ![c] = v]
  BY <1>1 DEF PostResult
<1>3. /\ got' \in [Calls -> Seq(0 .. Ranges)] /\ lock' \in Calls \cup {None}
      /\ \A d \in Calls : Len(got'[d]) <= Ranges
  BY <1>1 DEF IInv, TypeOK
<1>4. QED
  BY <1>1, <1>2, <1>3, Exits

LEMMA PostErrorInv == ASSUME IInv, NEW c \in Calls, PostError(c) PROVE IInv'
<1>1. /\ told = [told EXCEPT ![c] = told[c]]
      /\ told[c] \in {"nothing", "ok", "error"} /\ Exit(c, "error")
      /\ faults' \in Nat /\ edits' \in Nat /\ UNCHANGED <<config, got, lock, staged, store>>
  BY Faults DEF PostError, IInv, TypeOK
<1>2. PICK v \in {told[c], "error"} : told' = [told EXCEPT ![c] = v]
  BY <1>1 DEF PostError
<1>3. QED
  BY <1>1, <1>2, Exits DEF IInv, TypeOK

LEMMA KillInv == ASSUME IInv, NEW c \in Calls, Kill(c) PROVE IInv'
<1>1. /\ Exit(c, "killed") /\ told[c] \in {"nothing", "ok", "error"} /\ Discard(c)
      /\ faults' \in Nat /\ edits' \in Nat /\ UNCHANGED <<config, staged, store>>
      /\ lock' \in Calls \cup {None}
  BY Faults DEF Kill, IInv, TypeOK
<1>2. PICK v \in {"nothing", "ok", "error"} :
          /\ told' = [told EXCEPT ![c] = v]
          /\ v = "ok" => told[c] = "ok" \/ pc[c] = "post"
  BY <1>1 DEF Kill, Delivered
<1>3. got' \in [Calls -> Seq(0 .. Ranges)] /\ \A d \in Calls : Len(got'[d]) <= Ranges
  BY <1>1, Fields
<1>4. QED
  BY <1>1, <1>2, <1>3, Exits

LEMMA HostCrashInv == ASSUME IInv, HostCrash PROVE IInv'
<1>1. /\ complete' \subseteq complete /\ safe \subseteq complete' /\ safe' = complete'
      /\ exposed' \in {exposed, recorded} /\ recorded' = exposed'
      /\ UNCHANGED <<config, told, staged>> /\ lock' = None
      /\ faults' \in Nat /\ edits' \in Nat
  BY Faults DEF HostCrash, Store!Crash
<1>2. /\ pc' = [c \in Calls |-> "idle"] /\ got' = [c \in Calls |-> <<>>]
      /\ exit' = [c \in Calls |-> IF pc[c] = "idle" THEN exit[c] ELSE "killed"]
  BY DEF HostCrash
<1>3. got' \in [Calls -> Seq(0 .. Ranges)] /\ \A d \in Calls : Len(got'[d]) <= Ranges
  BY <1>2, DownloadAssumption
<1>4. TypeOK'
  BY <1>1, <1>2, <1>3 DEF IInv, TypeOK
<1>5. StoreInv' /\ StageInv'
  BY <1>1, <1>2 DEF StoreInv, StageInv
<1>6. OkMeansDurable'
  BY <1>1, <1>2 DEF IInv, StoreInv, OkMeansDurable
<1>7. QED
  BY <1>4, <1>5, <1>6 DEF IInv

LEMMA RestageInv ==
    ASSUME IInv, NEW d \in Runtimes, NEW content \in Contents, Restage(d, content)
    PROVE  IInv'
<1>1. TypeOK'
  BY DEF Restage, IInv, TypeOK
<1>2. StoreInv' /\ StageInv' /\ OkMeansDurable'
  BY DEF Restage, IInv, StoreInv, StageInv, OkMeansDurable
<1>3. QED
  BY <1>1, <1>2 DEF IInv

LEMMA NextInv == IInv /\ [Next]_vars => IInv'
<1>1. SUFFICES ASSUME IInv, [Next]_vars PROVE IInv'
  OBVIOUS
<1>2. ASSUME NEW c \in Calls, Step(c) \/ WinLock(c) \/ Raise(c) \/ Kill(c) PROVE IInv'
  BY <1>1, <1>2, PrepareInv, NextRangeInv, DownloadEndsInv, HashArchiveInv, WinLockInv,
     ExtractInv, InstallInv, PersistInv, ExposeInv, ConfirmInv, RaiseInv, PostResultInv,
     PostErrorInv, KillInv DEF Step
<1>3. CASE UNCHANGED vars
  BY <1>1, <1>3 DEF vars, IInv, TypeOK, StoreInv, StageInv, OkMeansDurable
<1>4. QED
  BY <1>1, <1>2, <1>3, StartInv, HostCrashInv, RestageInv DEF Next

LEMMA Inductive == Spec => []IInv
  BY InitInv, NextInv, PTL DEF Spec
-----------------------------------------------------------------------------
(* Every reachable state has the declared types.                           *)
THEOREM TypeCorrect == Spec => []TypeOK
<1>1. IInv => TypeOK
  BY DEF IInv
<1>2. QED
  BY <1>1, Inductive, PTL

(* Whoever has been told that a runtime is there, by the report or by the  *)
(* exit code of scripts/download_materialize_runtime.py, finds it after    *)
(* every crash, and the volume with a current runtime.                     *)
THEOREM SuccessIsDurable == Spec => []OkMeansDurable
<1>1. IInv => OkMeansDurable
  BY DEF IInv
<1>2. QED
  BY <1>1, Inductive, PTL
=============================================================================
