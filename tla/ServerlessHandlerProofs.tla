----------------------- MODULE ServerlessHandlerProofs -----------------------
(***************************************************************************)
(* Theorems about ServerlessHandler for any files, jobs, limits and number *)
(* of faults.                                                              *)
(***************************************************************************)
EXTENDS ServerlessHandler, TLAPS

BeforePrompt == {"validate", "server", "upload", "connect", "queue"}
Collecting   == {"outputs", "persist", "emit"}
Resulting    == stage \in Collecting \/ chunks = <<"result">>
Over         == prompt \in {"succeeded", "failed"}

(* Attempts are counted below their limits, and a job that goes on or      *)
(* raised has said nothing.                                                *)
CountInv == /\ stage = "validate" => attempt = 0
            /\ stage = "server" => attempt < MaxPolls
            /\ stage = "reconnect" => attempt < MaxAttempts
ChunkInv == chunks \in IF stage = "ended" THEN {<<"error">>, <<"result">>} ELSE {<<>>}
RaiseInv == stage = "raised" => MayRaise

(* As long as no connection was dropped, a ComfyUI that is up has the one  *)
(* it was given: the handler has to reconnect only to a dead one.          *)
LinkInv ==
    /\ stage \in BeforePrompt => prompt = "none"
    /\ stage \in {"queue", "listen"} /\ comfy = "up" /\ ~dropped => link
    /\ stage \notin {"validate", "server", "ended", "raised"} => comfy # "starting"
    /\ stage = "reconnect" /\ ~dropped => comfy = "down"

(* Events are about what has happened, and none overtakes the error of a   *)
(* failed run.                                                             *)
EventInv ==
    \A i \in 1 .. Len(wire) :
        /\ wire[i] = "execution_success" => prompt = "succeeded"
        /\ wire[i] = "executing_none" => Over
ErrorUnderWay == \E i \in 1 .. Len(wire) : wire[i] = "execution_error"
ErrorFirst ==
    \A i \in 1 .. Len(wire) :
        wire[i] = "executing_none" => \E j \in 1 .. i - 1 : wire[j] = "execution_error"
ErrorInv ==
    stage = "listen" /\ ~dropped /\ prompt = "failed" =>
        "execution" \in errors \/ (ErrorUnderWay /\ ErrorFirst)

(* From the history on: what the result will rest on.                      *)
HistoryInv ==
    /\ recorded => Over
    /\ Resulting => recorded
    /\ stage = "history" \/ Resulting => dropped \/ prompt = "succeeded" \/ errors # {}
OutputInv ==
    /\ stage \in {"persist", "emit"} \/ chunks = <<"result">> => todo = {}
    /\ stage \notin Collecting \cup {"ended", "raised"} => todo = {} /\ images = {}
    /\ ~recorded => todo = {} /\ images = {}
    /\ stage = "outputs" => todo \subseteq made
    /\ Resulting =>
          \/ "file" \in errors
          \/ \A f \in made \ todo : Entry[f] # "unhandled" => \E k \in Kinds : <<f, k>> \in images

(* Every file that is in the result by its key is in the store, or another *)
(* one of the run is there under the same key; and the copy of the result  *)
(* is the result.                                                          *)
ObjectInv ==
    \A i \in images : i[2] = "r2_key" =>
        objects[<<FileType[i[1]], NameOf[i[1]]>>] = i[1] \/ Shadowed(i[1])
CopyInv ==
    /\ manifest # None => /\ stage \in {"emit", "ended"} /\ manifest = Result /\ Compact
    /\ delivery # "none" => stage = "ended"
    /\ delivery = "lost" => faults # 0
    /\ (stage = "emit" \/ chunks = <<"result">>) /\ Persistable
       /\ faults = (IF delivery = "lost" THEN 1 ELSE 0) => manifest = Result

IInv == /\ TypeOK /\ CountInv /\ ChunkInv /\ RaiseInv /\ LinkInv /\ EventInv /\ ErrorInv
        /\ HistoryInv /\ OutputInv /\ ObjectInv /\ CopyInv
-----------------------------------------------------------------------------
USE DEF result, server, socket, outside, env, handlerVars, Goto, Stages, Events,
        BeforePrompt, Collecting, Resulting, Over

LEMMA InitInv == Init => IInv
<1>1. SUFFICES ASSUME Init PROVE IInv
  OBVIOUS
<1>2. TypeOK
  <2>1. chunks \in Seq({"error", "result"}) /\ wire \in Seq(Events)
    BY <1>1 DEF Init
  <2>2. attempt \in 0 .. MaxPolls + MaxAttempts
    BY <1>1, HandlerAssumption DEF Init
  <2>3. objects \in [Keys -> Files \cup {None}]
    BY <1>1 DEF Init
  <2>4. QED
    BY <1>1, <2>1, <2>2, <2>3 DEF Init, TypeOK
<1>3. CountInv /\ ChunkInv /\ RaiseInv /\ LinkInv
  BY <1>1, HandlerAssumption DEF Init, CountInv, ChunkInv, RaiseInv, LinkInv
<1>4. EventInv /\ ErrorInv
  BY <1>1 DEF Init, EventInv, ErrorInv
<1>5. HistoryInv /\ OutputInv
  BY <1>1 DEF Init, HistoryInv, OutputInv
<1>6. ObjectInv /\ CopyInv
  BY <1>1 DEF Init, ObjectInv, CopyInv
<1>7. QED
  BY <1>2, <1>3, <1>4, <1>5, <1>6 DEF IInv

(* A job that ends with an error, wherever it was.                         *)
LEMMA EndsWithError ==
    ASSUME IInv, EndWithError, stage \notin {"persist", "emit", "ended"},
           UNCHANGED <<job, result, comfy, made, recorded, outside, dropped>>,
           attempt' \in 0 .. MaxPolls + MaxAttempts, faults' \in Nat,
           prompt' = prompt \/ (prompt = "none" /\ prompt' = "queued")
    PROVE  IInv'
<1>0. stage' = "ended" /\ chunks' = <<"error">> /\ link' = FALSE /\ wire' = <<>>
  <2>1. chunks = <<>>
    BY DEF IInv, ChunkInv
  <2>2. Append(<<>>, "error") = <<"error">>
    OBVIOUS
  <2>3. QED
    BY <2>1, <2>2, Zenon DEF EndWithError
<1>1. TypeOK'
  <2>1. prompt' \in {"none", "queued", "running", "succeeded", "failed"}
    BY DEF IInv, TypeOK
  <2>2. chunks' \in Seq({"error", "result"}) /\ wire' \in Seq(Events)
    BY <1>0
  <2>3. link' \in BOOLEAN
    BY <1>0
  <2>4. stage' \in Stages /\ dropped' \in BOOLEAN
    BY <1>0 DEF IInv, TypeOK
  <2>5. UNCHANGED <<job, errors, todo, images, inline, comfy, made, recorded,
                   objects, manifest, delivery>>
    OBVIOUS
  <2>6. QED
    BY <2>1, <2>2, <2>3, <2>4, <2>5 DEF IInv, TypeOK
<1>2. CountInv' /\ ChunkInv' /\ RaiseInv' /\ LinkInv'
  BY <1>0 DEF CountInv, ChunkInv, RaiseInv, LinkInv
<1>3. EventInv' /\ ErrorInv'
  BY <1>0 DEF EventInv, ErrorInv
<1>4. HistoryInv' /\ OutputInv'
  BY <1>0 DEF IInv, HistoryInv, OutputInv
<1>5. ObjectInv' /\ CopyInv'
  BY <1>0 DEF IInv, ObjectInv, CopyInv, Shadowed
<1>6. QED
  BY <1>1, <1>2, <1>3, <1>4, <1>5 DEF IInv

(* A step of the handler that ends nothing and collects nothing.           *)
LEMMA GoesOn ==
    ASSUME IInv, NEW next \in {"server", "upload", "connect", "queue"}, Goto(next),
           stage \in BeforePrompt, next = "queue" => link',
           next # "server" => comfy = "up",
           next = "server" => attempt' < MaxPolls,
           attempt' \in 0 .. MaxPolls + MaxAttempts, link' \in BOOLEAN, faults' \in Nat,
           UNCHANGED <<job, result, server, wire, outside, dropped>>
    PROVE  IInv'
<1>1. TypeOK'
  BY HandlerAssumption DEF Goto, IInv, TypeOK
<1>2. CountInv' /\ ChunkInv' /\ RaiseInv' /\ LinkInv'
  BY HandlerAssumption DEF Goto, IInv, TypeOK, CountInv, ChunkInv, RaiseInv, LinkInv
<1>3. EventInv' /\ ErrorInv'
  BY HandlerAssumption DEF Goto, IInv, TypeOK, LinkInv, EventInv, ErrorInv
<1>4. HistoryInv' /\ OutputInv'
  BY HandlerAssumption DEF Goto, IInv, TypeOK, ChunkInv, LinkInv, HistoryInv, OutputInv
<1>5. ObjectInv' /\ CopyInv'
  <2>1. manifest = None /\ delivery = "none" /\ chunks = <<>>
    BY DEF IInv, ChunkInv, CopyInv
  <2>2. CopyInv'
    BY <2>1 DEF CopyInv
  <2>3. ObjectInv'
    BY DEF IInv, ObjectInv, Shadowed
  <2>4. QED
    BY <2>2, <2>3
<1>6. QED
  BY <1>1, <1>2, <1>3, <1>4, <1>5 DEF IInv

(* A job that raises says nothing and leaves no copy.                      *)
LEMMA Raises ==
    ASSUME IInv, Raise, stage \notin {"emit", "ended", "raised"}, MayRaise,
           UNCHANGED <<job, attempt, result, server, outside, env>>
    PROVE  IInv'
<1>0. stage' = "raised" /\ UNCHANGED chunks /\ UNCHANGED <<link, wire>>
  BY DEF Raise
<1>1. TypeOK'
  BY <1>0 DEF IInv, TypeOK
<1>2. CountInv' /\ ChunkInv' /\ RaiseInv' /\ LinkInv'
  BY <1>0 DEF IInv, CountInv, ChunkInv, RaiseInv, MayRaise, Encoded, Compact, LinkInv
<1>3. EventInv' /\ ErrorInv'
  BY <1>0 DEF IInv, EventInv, ErrorInv
<1>4. HistoryInv' /\ OutputInv'
  BY <1>0 DEF IInv, ChunkInv, HistoryInv, OutputInv
<1>5. ObjectInv' /\ CopyInv'
  BY <1>0 DEF IInv, ChunkInv, ObjectInv, CopyInv, Shadowed
<1>6. QED
  BY <1>1, <1>2, <1>3, <1>4, <1>5 DEF IInv

LEMMA ValidateInv == ASSUME IInv, Validate PROVE IInv'
<1>1. CASE EndWithError
  BY <1>1, EndsWithError DEF Validate, IInv, TypeOK
<1>2. CASE Goto("server") /\ UNCHANGED socket
  BY <1>2, GoesOn, HandlerAssumption DEF Validate, IInv, TypeOK, CountInv
<1>3. CASE job.input = "shapeless" /\ Raise
  BY <1>3, Raises DEF Validate, MayRaise
<1>4. QED
  BY <1>1, <1>2, <1>3 DEF Validate

LEMMA CheckServerInv == ASSUME IInv, CheckServer PROVE IInv'
<1>1. attempt + 1 \in 0 .. MaxPolls /\ attempt \in 0 .. MaxPolls
  BY HandlerAssumption DEF CheckServer, IInv, TypeOK, CountInv
<1>2. attempt' \in 0 .. MaxPolls /\ attempt' \in 0 .. MaxPolls + MaxAttempts
  BY <1>1, HandlerAssumption DEF CheckServer
<1>3. faults' \in Nat /\ UNCHANGED dropped
  BY DEF CheckServer, Fault, IInv, TypeOK
<1>4. CASE EndWithError
  BY <1>2, <1>3, <1>4, EndsWithError DEF CheckServer
<1>5. CASE comfy = "up" /\ Goto("upload") /\ UNCHANGED <<attempt, socket>>
  BY <1>2, <1>3, <1>5, GoesOn DEF CheckServer, IInv, TypeOK
<1>6. CASE comfy = "up" /\ Goto("connect") /\ UNCHANGED <<attempt, socket>>
  BY <1>2, <1>3, <1>6, GoesOn DEF CheckServer, IInv, TypeOK
<1>7. CASE attempt' = attempt + 1 /\ attempt + 1 # MaxPolls /\ UNCHANGED <<stage, chunks, socket>>
  BY <1>1, <1>2, <1>3, <1>7, GoesOn, HandlerAssumption DEF CheckServer, IInv, TypeOK
<1>8. QED
  BY <1>4, <1>5, <1>6, <1>7 DEF CheckServer

LEMMA RequestFailed == ASSUME IInv, RequestFails PROVE faults' \in Nat /\ UNCHANGED dropped
  BY DEF RequestFails, Fault, IInv, TypeOK

LEMMA UploadImagesInv == ASSUME IInv, UploadImages PROVE IInv'
<1>1. CASE RequestFails /\ EndWithError
  BY <1>1, RequestFailed, EndsWithError DEF UploadImages, IInv, TypeOK
<1>2. CASE comfy = "up" /\ Goto("connect") /\ UNCHANGED <<socket, env>>
  BY <1>2, GoesOn DEF UploadImages, IInv, TypeOK
<1>3. CASE job.input = "texts" /\ Raise /\ UNCHANGED env
  BY <1>3, Raises DEF UploadImages, MayRaise
<1>4. QED
  BY <1>1, <1>2, <1>3 DEF UploadImages

LEMMA ConnectInv == ASSUME IInv, Connect PROVE IInv'
<1>1. CASE RequestFails /\ EndWithError
  BY <1>1, RequestFailed, EndsWithError DEF Connect, IInv, TypeOK
<1>2. CASE comfy = "up" /\ Goto("queue") /\ link' = TRUE /\ UNCHANGED <<wire, env>>
  BY <1>2, GoesOn DEF Connect, IInv, TypeOK
<1>3. QED
  BY <1>1, <1>2 DEF Connect

LEMMA QueueWorkflowInv == ASSUME IInv, QueueWorkflow PROVE IInv'
<1>1. CASE RequestFails /\ EndWithError
  BY <1>1, RequestFailed, EndsWithError DEF QueueWorkflow, IInv, TypeOK, LinkInv
<1>2. CASE /\ comfy = "up" /\ prompt' = "queued" /\ Goto("listen")
           /\ UNCHANGED <<socket, env>>
  <2>1. TypeOK'
    BY HandlerAssumption, <1>2 DEF QueueWorkflow, IInv, TypeOK
  <2>2. CountInv' /\ ChunkInv' /\ RaiseInv' /\ LinkInv'
    BY HandlerAssumption, <1>2 DEF QueueWorkflow, IInv, TypeOK, CountInv, ChunkInv, RaiseInv, LinkInv
  <2>3. EventInv' /\ ErrorInv'
    BY HandlerAssumption, <1>2 DEF QueueWorkflow, IInv, TypeOK, LinkInv, EventInv, ErrorInv
  <2>4. HistoryInv' /\ OutputInv'
    BY HandlerAssumption, <1>2 DEF QueueWorkflow, IInv, TypeOK, ChunkInv, LinkInv, HistoryInv, OutputInv
  <2>5. ObjectInv' /\ CopyInv'
    BY HandlerAssumption, <1>2 DEF QueueWorkflow, IInv, TypeOK, ChunkInv, LinkInv, ObjectInv, CopyInv, Shadowed
  <2>6. QED
    BY   <2>1,   <2>2,   <2>3,   <2>4,   <2>5 DEF IInv
<1>3. QED
  BY <1>1, <1>2 DEF QueueWorkflow

(* The error of a failed run is received before anything else that could   *)
(* end the loop.                                                           *)
LEMMA ReceiveInv == ASSUME IInv, Receive PROVE IInv'
<1>1. /\ Len(wire) \in Nat \ {0} /\ Head(wire) = wire[1] /\ wire[1] \in Events
      /\ wire' \in Seq(Events) /\ Len(wire') = Len(wire) - 1
      /\ \A k \in 1 .. Len(wire') : wire'[k] = wire[k + 1]
  BY DEF Receive, IInv, TypeOK
<1>2. /\ errors \subseteq errors'
      /\ errors' \subseteq {"execution", "no_outputs", "file"}
      /\ wire[1] = "execution_error" => "execution" \in errors'
  BY <1>1 DEF Receive, ErrorsOf, IInv, TypeOK
<1>3. TypeOK'
  BY <1>1, <1>2 DEF Receive, IInv, TypeOK
<1>4. CountInv' /\ ChunkInv' /\ RaiseInv' /\ LinkInv'
  BY DEF Receive, IInv, CountInv, ChunkInv, RaiseInv, LinkInv
<1>5. EventInv'
  BY <1>1 DEF Receive, IInv, EventInv
<1>6. ErrorInv'
  <2>1. SUFFICES ASSUME stage' = "listen", ~dropped, prompt = "failed", "execution" \notin errors'
        PROVE  ErrorUnderWay' /\ ErrorFirst'
    BY DEF Receive, ErrorInv
  <2>2. ErrorUnderWay /\ ErrorFirst /\ wire[1] # "execution_error"
    BY <1>2, <2>1 DEF Receive, IInv, ErrorInv
  <2>3. ErrorUnderWay'
    <3>1. PICK j \in 1 .. Len(wire) : wire[j] = "execution_error"
      BY <2>2 DEF ErrorUnderWay
    <3>2. j - 1 \in 1 .. Len(wire') /\ wire'[j - 1] = "execution_error"
      BY <1>1, <2>2, <3>1
    <3>3. QED
      BY <3>2 DEF ErrorUnderWay
  <2>4. ASSUME NEW k \in 1 .. Len(wire'), wire'[k] = "executing_none"
        PROVE  \E j \in 1 .. k - 1 : wire'[j] = "execution_error"
    <3>1. PICK j \in 1 .. k : wire[j] = "execution_error"
      BY <1>1, <2>2, <2>4 DEF ErrorFirst
    <3>2. j - 1 \in 1 .. k - 1 /\ wire'[j - 1] = "execution_error"
      BY <1>1, <2>2, <2>4, <3>1
    <3>3. QED
      BY <3>2
  <2>5. QED
    BY <2>3, <2>4 DEF ErrorFirst
<1>7. HistoryInv' /\ OutputInv'
  <2>1. stage' = "history" => dropped \/ prompt = "succeeded" \/ errors' # {}
    BY <1>1, <1>2 DEF Receive, IInv, TypeOK, EventInv, ErrorInv, ErrorFirst
  <2>2. QED
    BY <1>2, <2>1 DEF Receive, IInv, ChunkInv, HistoryInv, OutputInv
<1>8. ObjectInv' /\ CopyInv'
  BY DEF Receive, IInv, ChunkInv, ObjectInv, CopyInv, Shadowed
<1>9. QED
  BY <1>3, <1>4, <1>5, <1>6, <1>7, <1>8 DEF IInv

(* A step of the handler between the queue and the outputs that receives   *)
(* nothing: it turns to its connection, or comes back with a new one.      *)
LEMMA TurnsTo ==
    ASSUME IInv, NEW next \in {"listen", "reconnect"}, Goto(next),
           stage \in {"listen", "reconnect"},
           attempt' \in 0 .. MaxPolls + MaxAttempts,
           next = "reconnect" => attempt' < MaxAttempts,
           next = "reconnect" => dropped \/ comfy = "down",
           next = "listen" => stage = "reconnect" /\ comfy = "up" /\ link' = TRUE,
           wire' \in {wire, <<>>}, link' \in BOOLEAN, faults' \in Nat,
           UNCHANGED <<job, result, server, outside, dropped>>
    PROVE  IInv'
<1>1. TypeOK'
  <2>1. wire' \in Seq(Events) /\ stage' \in Stages
    <3>1. wire \in Seq(Events) /\ <<>> \in Seq(Events)
      BY DEF IInv, TypeOK
    <3>2. QED
      BY <3>1, Zenon
  <2>2. dropped' \in BOOLEAN /\ recorded' \in BOOLEAN
    BY DEF IInv, TypeOK
  <2>3. QED
    BY <2>1, <2>2 DEF IInv, TypeOK
<1>2. CountInv' /\ ChunkInv' /\ RaiseInv' /\ LinkInv'
  BY DEF IInv, TypeOK, CountInv, ChunkInv, RaiseInv, LinkInv
<1>3. EventInv' /\ ErrorInv'
  BY DEF IInv, TypeOK, LinkInv, EventInv, ErrorInv
<1>4. HistoryInv' /\ OutputInv'
  BY DEF IInv, ChunkInv, HistoryInv, OutputInv
<1>5. ObjectInv' /\ CopyInv'
  BY DEF IInv, ChunkInv, ObjectInv, CopyInv, Shadowed
<1>6. QED
  BY <1>1, <1>2, <1>3, <1>4, <1>5 DEF IInv

LEMMA ConnectionClosedInv == ASSUME IInv, ConnectionClosed PROVE IInv'
<1>1. faults' \in Nat /\ UNCHANGED dropped /\ MaxAttempts \in Nat /\ MaxPolls \in Nat
  BY HandlerAssumption DEF ConnectionClosed, IInv, TypeOK
<1>2. attempt' \in 0 .. MaxPolls + MaxAttempts
  BY <1>1 DEF ConnectionClosed
<1>3. dropped \/ comfy = "down"
  BY DEF ConnectionClosed, IInv, TypeOK, LinkInv
<1>4. CASE EndWithError
  BY <1>1, <1>2, <1>4, EndsWithError DEF ConnectionClosed
<1>5. CASE MaxAttempts # 0 /\ Goto("reconnect") /\ UNCHANGED socket
  <2>1. link' \in BOOLEAN
    BY <1>5 DEF IInv, TypeOK
  <2>2. QED
    BY <1>1, <1>2, <1>3, <1>5, <2>1, TurnsTo DEF ConnectionClosed
<1>6. QED
  BY <1>4, <1>5 DEF ConnectionClosed

LEMMA ReconnectInv == ASSUME IInv, Reconnect PROVE IInv'
<1>1. attempt < MaxAttempts /\ attempt \in Nat /\ MaxAttempts \in Nat /\ MaxPolls \in Nat
  BY HandlerAssumption DEF Reconnect, IInv, TypeOK, CountInv
<1>2. attempt' \in 0 .. MaxPolls + MaxAttempts
  BY <1>1 DEF Reconnect
<1>3. faults' \in Nat /\ UNCHANGED dropped
  BY RequestFailed DEF Reconnect, Fault, IInv, TypeOK
<1>4. CASE EndWithError
  BY <1>2, <1>3, <1>4, EndsWithError DEF Reconnect
<1>5. CASE comfy = "up" /\ link' = TRUE /\ wire' = <<>> /\ Goto("listen")
  <2>1. link' \in BOOLEAN
    BY <1>5
  <2>2. QED
    BY <1>2, <1>3, <1>5, <2>1, TurnsTo DEF Reconnect
<1>6. CASE /\ comfy = "up" /\ attempt' = attempt + 1 /\ attempt + 1 # MaxAttempts
           /\ UNCHANGED <<stage, chunks, socket>>
  <2>1. link' \in BOOLEAN
    BY <1>6 DEF IInv, TypeOK
  <2>2. dropped
    BY <1>6 DEF Reconnect, IInv, LinkInv
  <2>3. QED
    BY <1>1, <1>2, <1>3, <1>6, <2>1, <2>2, TurnsTo DEF Reconnect
<1>7. QED
  BY <1>4, <1>5, <1>6 DEF Reconnect

LEMMA GetHistoryInv == ASSUME IInv, GetHistory PROVE IInv'
<1>1. faults' \in Nat /\ UNCHANGED dropped
  BY RequestFailed DEF GetHistory, IInv, TypeOK
<1>2. CASE EndWithError /\ UNCHANGED result
  BY <1>1, <1>2, EndsWithError DEF GetHistory, IInv, TypeOK
<1>3. CASE /\ recorded /\ todo' = made /\ Goto("outputs")
           /\ errors' \in {errors, {"no_outputs"}} /\ (errors # {} => errors' = errors)
           /\ UNCHANGED <<images, inline, socket, env>>
  <2>1. TypeOK'
    BY <1>3 DEF GetHistory, IInv, TypeOK
  <2>2. CountInv' /\ ChunkInv' /\ RaiseInv' /\ LinkInv'
    BY <1>3 DEF GetHistory, IInv, CountInv, ChunkInv, RaiseInv, LinkInv
  <2>3. EventInv' /\ ErrorInv'
    BY <1>3 DEF GetHistory, IInv, EventInv, ErrorInv
  <2>4. HistoryInv' /\ OutputInv'
    BY <1>3 DEF GetHistory, IInv, ChunkInv, HistoryInv, OutputInv
  <2>5. ObjectInv' /\ CopyInv'
    BY <1>3 DEF GetHistory, IInv, ChunkInv, ObjectInv, CopyInv, Shadowed
  <2>6. QED
    BY <2>1, <2>2, <2>3, <2>4, <2>5 DEF IInv
<1>4. QED
  BY <1>2, <1>3 DEF GetHistory

(* A file is stored under its key, and another one of the run that was     *)
(* there is shadowed from now on.                                          *)
LEMMA StoredObject ==
    ASSUME IInv, NEW f \in made, objects' \in {objects, Stored(f)},
           UNCHANGED made, images' \subseteq images \cup {<<f, "r2_key">>} \cup {<<f, "base64">>},
           <<f, "r2_key">> \in images' /\ <<f, "r2_key">> \notin images => objects' = Stored(f)
    PROVE  ObjectInv' /\ objects' \in [Keys -> Files \cup {None}]
<1>1. f \in Files /\ Key(f) \in Keys
  BY HandlerAssumption DEF IInv, TypeOK, Key, Keys
<1>2. objects' \in [Keys -> Files \cup {None}]
  BY <1>1 DEF IInv, TypeOK, Stored
<1>3. ASSUME NEW i \in images', i[2] = "r2_key"
      PROVE  objects'[<<FileType[i[1]], NameOf[i[1]]>>] = i[1] \/ Shadowed(i[1])'
  <2>1. CASE objects' = Stored(f) /\ <<FileType[i[1]], NameOf[i[1]]>> = Key(f)
    <3>1. objects'[Key(f)] = f
      BY <1>1, <2>1 DEF IInv, TypeOK, Stored
    <3>2. QED
      BY <2>1, <3>1 DEF Key, Shadowed
  <2>2. CASE i \in images /\ objects' = Stored(f) /\ <<FileType[i[1]], NameOf[i[1]]>> # Key(f)
    <3>1. i[1] \in Files /\ <<FileType[i[1]], NameOf[i[1]]>> \in Keys
      BY <2>2, HandlerAssumption DEF IInv, TypeOK, Keys
    <3>2. objects'[<<FileType[i[1]], NameOf[i[1]]>>] = objects[<<FileType[i[1]], NameOf[i[1]]>>]
      BY <1>1, <2>2, <3>1 DEF IInv, TypeOK, Stored
    <3>3. QED
      BY <1>3, <2>2, <3>2 DEF IInv, ObjectInv, Shadowed
  <2>3. CASE i \in images /\ objects' = objects
    BY <1>3, <2>3 DEF IInv, ObjectInv, Shadowed
  <2>4. CASE i \notin images
    <3>1. i = <<f, "r2_key">>
      BY <1>3, <2>4
    <3>2. QED
      BY <2>1, <2>4, <3>1 DEF Key
  <2>5. QED
    BY <2>1, <2>2, <2>3, <2>4
<1>4. QED
  BY <1>2, <1>3 DEF ObjectInv

LEMMA CollectOutputInv == ASSUME IInv, NEW f \in Files, CollectOutput(f) PROVE IInv'
<1>1. f \in made /\ stage = "outputs" /\ chunks = <<>> /\ manifest = None /\ delivery = "none"
  BY DEF CollectOutput, IInv, ChunkInv, OutputInv, CopyInv
<1>2. faults' \in Nat /\ UNCHANGED dropped
  BY RequestFailed DEF CollectOutput, Fault, IInv, TypeOK
<1>3. /\ errors \subseteq errors' /\ errors' \subseteq errors \cup {"file"}
      /\ images \subseteq images'
      /\ "file" \in errors' \/ \E k \in Kinds : <<f, k>> \in images'
  BY DEF CollectOutput, FileError, StoreObject, AddInline, Kinds
<1>4. images' \subseteq Files \X Kinds
  BY DEF CollectOutput, FileError, StoreObject, AddInline, Kinds, IInv, TypeOK
<1>5. inline' \in Nat
  <2>1. Inlined[f] \in Nat /\ inline \in Nat
    BY HandlerAssumption DEF IInv, TypeOK
  <2>2. QED
    BY <2>1 DEF CollectOutput, FileError, StoreObject, AddInline
<1>6. ObjectInv' /\ objects' \in [Keys -> Files \cup {None}]
  <2>1. CASE StoreObject(f)
    BY <1>1, <2>1, StoredObject DEF StoreObject, CollectOutput
  <2>2. CASE AddInline(f) /\ objects' \in {objects, Stored(f)}
    BY <1>1, <2>2, StoredObject DEF AddInline, CollectOutput
  <2>3. CASE UNCHANGED objects /\ images' \subseteq images \cup {<<f, "s3_url">>}
    <3>1. ObjectInv'
      BY <2>3 DEF CollectOutput, IInv, ObjectInv, Shadowed
    <3>2. QED
      BY <2>3, <3>1 DEF IInv, TypeOK
  <2>4. QED
    BY <2>1, <2>2, <2>3 DEF CollectOutput, FileError, AddInline
<1>7. TypeOK'
  BY <1>2, <1>3, <1>4, <1>5, <1>6 DEF CollectOutput, IInv, TypeOK
<1>8. CountInv' /\ ChunkInv' /\ RaiseInv' /\ LinkInv'
  BY <1>2 DEF CollectOutput, IInv, CountInv, ChunkInv, RaiseInv, LinkInv
<1>9. EventInv' /\ ErrorInv'
  BY <1>1 DEF CollectOutput, IInv, EventInv, ErrorInv
<1>10. HistoryInv' /\ OutputInv' /\ CopyInv'
  BY <1>1, <1>2, <1>3 DEF CollectOutput, IInv, HistoryInv, OutputInv, CopyInv
<1>11. QED
  BY <1>6, <1>7, <1>8, <1>9, <1>10 DEF IInv

LEMMA SkipOutputInv == ASSUME IInv, NEW f \in Files, SkipOutput(f) PROVE IInv'
<1>1. stage = "outputs" /\ Entry[f] = "unhandled" /\ todo' = todo \ {f}
  BY DEF SkipOutput
<1>2. /\ UNCHANGED <<stage, job, attempt, errors, images, inline, chunks, server, socket>>
      /\ UNCHANGED <<outside, env>>
  BY DEF SkipOutput
<1>3. TypeOK'
  BY <1>1, <1>2 DEF IInv, TypeOK
<1>4. CountInv' /\ ChunkInv' /\ RaiseInv' /\ LinkInv'
  BY <1>1, <1>2 DEF IInv, CountInv, ChunkInv, RaiseInv, LinkInv
<1>5. EventInv' /\ ErrorInv'
  BY <1>1, <1>2 DEF IInv, EventInv, ErrorInv
<1>6. HistoryInv' /\ OutputInv'
  BY <1>1, <1>2 DEF IInv, ChunkInv, HistoryInv, OutputInv
<1>7. ObjectInv' /\ CopyInv'
  BY <1>1, <1>2 DEF IInv, ChunkInv, ObjectInv, CopyInv, Shadowed
<1>8. QED
  BY <1>3, <1>4, <1>5, <1>6, <1>7 DEF IInv

LEMMA MeetTextInv == ASSUME IInv, NEW f \in Files, MeetText(f) PROVE IInv'
  BY EndsWithError DEF MeetText, IInv, TypeOK

LEMMA FinishOutputsInv == ASSUME IInv, FinishOutputs PROVE IInv'
<1>1. CASE EndWithError
  BY <1>1, EndsWithError DEF FinishOutputs, IInv, TypeOK
<1>2. CASE Goto("persist") /\ link' = FALSE /\ wire' = <<>>
  <2>1. TypeOK'
    <3>1. wire' \in Seq(Events)
      BY <1>2
    <3>2. link' \in BOOLEAN /\ UNCHANGED <<recorded, dropped>>
      BY <1>2 DEF FinishOutputs
    <3>3. QED
      BY <1>2, <3>1, <3>2 DEF FinishOutputs, IInv, TypeOK
  <2>2. CountInv' /\ ChunkInv' /\ RaiseInv' /\ LinkInv'
    BY <1>2 DEF FinishOutputs, IInv, CountInv, ChunkInv, RaiseInv, LinkInv
  <2>3. EventInv' /\ ErrorInv'
    BY <1>2 DEF FinishOutputs, IInv, EventInv, ErrorInv
  <2>4. HistoryInv' /\ OutputInv'
    BY <1>2 DEF FinishOutputs, IInv, ChunkInv, HistoryInv, OutputInv
  <2>5. ObjectInv' /\ CopyInv'
    BY <1>2 DEF FinishOutputs, IInv, ChunkInv, ObjectInv, CopyInv, Shadowed
  <2>6. QED
    BY <2>1, <2>2, <2>3, <2>4, <2>5 DEF IInv
<1>3. QED
  BY <1>1, <1>2 DEF FinishOutputs

(* The copy is the result, and only a fault keeps it from being made.      *)
LEMMA PersistTerminalResultInv == ASSUME IInv, PersistTerminalResult PROVE IInv'
<1>0. CASE Encoded /\ "execution" \in errors /\ Raise /\ UNCHANGED <<manifest, env>>
  BY <1>0, Raises DEF PersistTerminalResult, MayRaise
<1>a. SUFFICES ASSUME Goto("emit") PROVE IInv'
  BY <1>0 DEF PersistTerminalResult
<1>1. /\ stage = "persist" /\ chunks = <<>> /\ manifest = None /\ delivery = "none"
      /\ UNCHANGED <<job, images, errors, chunks, dropped>> /\ stage' = "emit"
  BY <1>a DEF PersistTerminalResult, Raise, Fault, IInv, ChunkInv, CopyInv
<1>2. \/ manifest' = None /\ ~Persistable /\ UNCHANGED faults
      \/ manifest' = Result /\ Persistable /\ faults' \in {faults, faults + 1}
      \/ manifest' = None /\ Persistable /\ faults' = faults + 1
  BY <1>1, <1>a DEF PersistTerminalResult, Raise, Fault
<1>3. Result \in Results
  BY DEF Result, Results, IInv, TypeOK
<1>4. TypeOK'
  BY <1>1, <1>2, <1>3 DEF PersistTerminalResult, IInv, TypeOK
<1>5. CountInv' /\ ChunkInv' /\ RaiseInv' /\ LinkInv'
  BY <1>1 DEF PersistTerminalResult, IInv, CountInv, ChunkInv, RaiseInv, LinkInv
<1>6. EventInv' /\ ErrorInv'
  BY <1>1 DEF PersistTerminalResult, IInv, EventInv, ErrorInv
<1>7. HistoryInv' /\ OutputInv'
  BY <1>1 DEF PersistTerminalResult, IInv, HistoryInv, OutputInv
<1>8. ObjectInv'
  BY DEF PersistTerminalResult, IInv, ObjectInv, Shadowed
<1>9. CopyInv'
  <2>1. UNCHANGED <<Result, Persistable, Compact, delivery>>
    BY <1>1 DEF PersistTerminalResult, Result, Persistable, Encoded, Compact
  <2>2. Persistable => Compact
    BY DEF Persistable, Encoded
  <2>3. faults + 1 # 0
    BY DEF IInv, TypeOK
  <2>4. QED
    BY <1>1, <1>2, <2>1, <2>2, <2>3 DEF CopyInv
<1>10. QED
  BY <1>4, <1>5, <1>6, <1>7, <1>8, <1>9 DEF IInv

LEMMA YieldResultInv == ASSUME IInv, YieldResult PROVE IInv'
<1>1. stage = "emit" /\ chunks = <<>> /\ stage' = "ended" /\ chunks' = <<"result">>
  <2>1. chunks = <<>> /\ Append(<<>>, "result") = <<"result">>
    BY DEF YieldResult, IInv, ChunkInv
  <2>2. QED
    BY <2>1 DEF YieldResult
<1>2. UNCHANGED <<Result, Persistable, Compact>>
  BY DEF YieldResult, Result, Persistable, Encoded, Compact
<1>3. TypeOK'
  <2>1. chunks' \in Seq({"error", "result"}) /\ stage' \in Stages
    BY <1>1
  <2>2. QED
    BY <2>1 DEF YieldResult, IInv, TypeOK
<1>4. CountInv' /\ ChunkInv' /\ RaiseInv' /\ LinkInv'
  BY <1>1 DEF YieldResult, IInv, CountInv, ChunkInv, RaiseInv, LinkInv
<1>5. EventInv' /\ ErrorInv'
  BY <1>1 DEF YieldResult, IInv, EventInv, ErrorInv
<1>6. HistoryInv' /\ OutputInv'
  BY <1>1 DEF YieldResult, IInv, HistoryInv, OutputInv
<1>7. ObjectInv' /\ CopyInv'
  BY <1>1, <1>2 DEF YieldResult, IInv, ObjectInv, CopyInv, Shadowed
<1>8. QED
  BY <1>3, <1>4, <1>5, <1>6, <1>7 DEF IInv

LEMMA DeliverInv == ASSUME IInv, Deliver PROVE IInv'
<1>1. UNCHANGED <<Result, Persistable, Compact, dropped>>
  BY DEF Deliver, Fault, Result, Persistable, Encoded, Compact
<1>2. TypeOK'
  BY DEF Deliver, Fault, IInv, TypeOK
<1>3. CountInv' /\ ChunkInv' /\ RaiseInv' /\ LinkInv'
  BY <1>1 DEF Deliver, IInv, CountInv, ChunkInv, RaiseInv, LinkInv
<1>4. EventInv' /\ ErrorInv'
  BY <1>1 DEF Deliver, IInv, EventInv, ErrorInv
<1>5. HistoryInv' /\ OutputInv'
  BY <1>1 DEF Deliver, IInv, HistoryInv, OutputInv
<1>6. ObjectInv'
  BY DEF Deliver, IInv, ObjectInv, Shadowed
<1>7. CopyInv'
  BY <1>1 DEF Deliver, Fault, IInv, TypeOK, CopyInv
<1>8. QED
  BY <1>2, <1>3, <1>4, <1>5, <1>6, <1>7 DEF IInv

-----------------------------------------------------------------------------
(* ComfyUI and the connection change neither the handler nor its result.   *)
LEMMA ServerStep ==
    ASSUME IInv, TypeOK', LinkInv', EventInv', ErrorInv', HistoryInv',
           UNCHANGED <<stage, job, attempt, errors, todo, images, inline, chunks,
                       objects, manifest, delivery>>,
           made' = made \/ ~recorded, recorded => recorded',
           faults' \in {faults, faults + 1}
    PROVE  IInv'
<1>1. CountInv' /\ ChunkInv' /\ RaiseInv'
  BY DEF IInv, CountInv, ChunkInv, RaiseInv, MayRaise, Encoded, Compact
<1>2. OutputInv' /\ ObjectInv'
  <2>1. CASE made' = made
    <3>1. OutputInv'
      <4>1. UNCHANGED <<todo, images, errors, stage, chunks, made>>
        BY <2>1
      <4>2. QED
        BY <4>1 DEF IInv, OutputInv
    <3>2. ObjectInv'
      BY <2>1 DEF IInv, ObjectInv, Shadowed
    <3>3. QED
      BY <3>1, <3>2
  <2>2. CASE ~recorded
    <3>1. ~Resulting /\ todo = {} /\ images = {}
      BY <2>2 DEF IInv, HistoryInv, OutputInv
    <3>2. QED
      BY <3>1 DEF IInv, OutputInv, ObjectInv
  <2>3. QED
    BY <2>1, <2>2
<1>3. CopyInv'
  <2>1. UNCHANGED <<Result, Persistable, Compact>>
    BY DEF Result, Persistable, Encoded, Compact
  <2>2. QED
    BY <2>1 DEF IInv, TypeOK, CopyInv
<1>4. QED
  BY <1>1, <1>2, <1>3 DEF IInv

LEMMA BootInv == ASSUME IInv, Boot PROVE IInv'
<1>1. faults' \in {faults, faults + 1} /\ UNCHANGED dropped
  BY DEF Boot, Fault
<1>2. TypeOK'
  BY <1>1 DEF Boot, IInv, TypeOK
<1>3. LinkInv'
  BY <1>1 DEF Boot, IInv, LinkInv
<1>4. EventInv' /\ ErrorInv' /\ HistoryInv'
  BY <1>1 DEF Boot, IInv, EventInv, ErrorInv, ErrorUnderWay, ErrorFirst, HistoryInv
<1>5. QED
  BY <1>1, <1>2, <1>3, <1>4, ServerStep DEF Boot

LEMMA ComfyDiesInv == ASSUME IInv, ComfyDies PROVE IInv'
<1>1. faults' \in {faults, faults + 1} /\ UNCHANGED dropped
  BY DEF ComfyDies, Fault
<1>2. TypeOK'
  <2>1. link' \in BOOLEAN
    BY DEF ComfyDies
  <2>2. QED
    BY <1>1, <2>1 DEF ComfyDies, IInv, TypeOK
<1>3. LinkInv'
  BY <1>1 DEF ComfyDies, IInv, LinkInv
<1>4. EventInv' /\ ErrorInv' /\ HistoryInv'
  BY <1>1 DEF ComfyDies, IInv, EventInv, ErrorInv, ErrorUnderWay, ErrorFirst, HistoryInv
<1>5. QED
  BY <1>1, <1>2, <1>3, <1>4, ServerStep DEF ComfyDies

LEMMA DropConnectionInv == ASSUME IInv, DropConnection PROVE IInv'
<1>1. PICK n \in 0 .. Len(wire) : wire' = SubSeq(wire, 1, n)
  BY DEF DropConnection
<1>2. wire' \in Seq(Events) /\ Len(wire') = n /\ \A k \in 1 .. n : wire'[k] = wire[k]
  BY <1>1 DEF IInv, TypeOK
<1>3. dropped' = TRUE /\ link' = FALSE
  BY DEF DropConnection
<1>4. TypeOK'
  <2>1. link' \in BOOLEAN /\ dropped' \in BOOLEAN
    BY <1>3
  <2>2. QED
    BY <1>2, <2>1 DEF DropConnection, IInv, TypeOK
<1>5. LinkInv'
  BY <1>3 DEF DropConnection, IInv, LinkInv
<1>6. EventInv'
  BY <1>1, <1>2 DEF DropConnection, IInv, TypeOK, EventInv
<1>7. ErrorInv' /\ HistoryInv'
  BY <1>3 DEF DropConnection, IInv, ErrorInv, HistoryInv
<1>8. QED
  BY <1>4, <1>5, <1>6, <1>7, ServerStep DEF DropConnection

(* What is sent comes after all that is under way, or is lost.             *)
LEMMA SendOne ==
    ASSUME IInv, NEW e \in Events, Send(<<e>>)
    PROVE  /\ wire' \in Seq(Events)
           /\ ~link => wire' = wire
           /\ link => /\ Len(wire') = Len(wire) + 1 /\ wire'[Len(wire) + 1] = e
                      /\ \A k \in 1 .. Len(wire) : wire'[k] = wire[k]
<1>1. wire \in Seq(Events)
  BY DEF IInv, TypeOK
<1>2. CASE link
  <2>1. wire' = wire \o <<e>>
    BY <1>2 DEF Send
  <2>2. wire' \in Seq(Events) /\ Len(wire') = Len(wire) + 1 /\ wire'[Len(wire) + 1] = e
    BY <1>1, <2>1
  <2>3. \A k \in 1 .. Len(wire) : wire'[k] = wire[k]
    BY <1>1, <2>1
  <2>4. QED
    BY <1>2, <2>2, <2>3
<1>3. CASE ~link
  BY <1>1, <1>3 DEF Send
<1>4. QED
  BY <1>2, <1>3

LEMMA ExecuteInv == ASSUME IInv, Execute PROVE IInv'
<1>1. TypeOK'
  BY SendOne DEF Execute, IInv, TypeOK
<1>2. LinkInv'
  BY DEF Execute, IInv, LinkInv
<1>3. EventInv'
  BY SendOne DEF Execute, IInv, TypeOK, EventInv
<1>4. ErrorInv' /\ HistoryInv'
  BY DEF Execute, IInv, ErrorInv, HistoryInv
<1>5. QED
  BY <1>1, <1>2, <1>3, <1>4, ServerStep DEF Execute

LEMMA RunEndsInv == ASSUME IInv, RunEnds PROVE IInv'
<1>1. ~recorded /\ prompt = "running"
  BY DEF RunEnds, IInv, HistoryInv
<1>2. PICK e \in {"execution_success", "execution_error"} :
          /\ Send(<<e>>)
          /\ prompt' = IF e = "execution_success" THEN "succeeded" ELSE "failed"
  BY DEF RunEnds
<1>3. TypeOK'
  BY <1>2, SendOne DEF RunEnds, IInv, TypeOK
<1>4. LinkInv'
  BY <1>1, <1>2 DEF RunEnds, IInv, LinkInv
<1>5. EventInv'
  BY <1>1, <1>2, SendOne DEF RunEnds, IInv, TypeOK, EventInv
<1>6. ErrorInv'
  <2>1. SUFFICES ASSUME stage = "listen", ~dropped, prompt' = "failed"
        PROVE  ErrorUnderWay' /\ ErrorFirst'
    BY DEF RunEnds, ErrorInv
  <2>2. link /\ e = "execution_error"
    BY <1>2, <2>1 DEF RunEnds, IInv, LinkInv
  <2>3. /\ Len(wire') = Len(wire) + 1 /\ wire'[Len(wire) + 1] = "execution_error"
        /\ \A k \in 1 .. Len(wire) : wire'[k] = wire[k]
    BY <1>2, <2>2, SendOne
  <2>4. Len(wire) \in Nat /\ \A k \in 1 .. Len(wire) : wire[k] # "executing_none"
    BY <1>1 DEF IInv, TypeOK, EventInv
  <2>5. QED
    BY <2>3, <2>4 DEF ErrorUnderWay, ErrorFirst
<1>7. HistoryInv'
  BY <1>1, <1>2 DEF RunEnds, IInv, HistoryInv
<1>8. QED
  BY <1>1, <1>3, <1>4, <1>5, <1>6, <1>7, ServerStep DEF RunEnds

LEMMA RecordInv == ASSUME IInv, Record PROVE IInv'
<1>1. TypeOK'
  <2>1. recorded' \in BOOLEAN /\ wire' \in Seq(Events)
    BY SendOne DEF Record
  <2>2. QED
    BY <2>1 DEF Record, IInv, TypeOK
<1>2. LinkInv'
  BY DEF Record, IInv, LinkInv
<1>3. EventInv'
  BY SendOne DEF Record, IInv, TypeOK, EventInv
<1>4. ErrorInv'
  <2>1. SUFFICES ASSUME stage = "listen", ~dropped, prompt = "failed", "execution" \notin errors
        PROVE  ErrorUnderWay' /\ ErrorFirst'
    BY DEF Record, ErrorInv
  <2>2. link /\ ErrorUnderWay /\ ErrorFirst
    BY <2>1 DEF Record, IInv, LinkInv, ErrorInv
  <2>3. /\ Len(wire') = Len(wire) + 1 /\ wire'[Len(wire) + 1] = "executing_none"
        /\ \A k \in 1 .. Len(wire) : wire'[k] = wire[k]
    BY <2>2, SendOne DEF Record
  <2>4. Len(wire) \in Nat
    BY DEF IInv, TypeOK
  <2>5. QED
    BY <2>2, <2>3, <2>4 DEF ErrorUnderWay, ErrorFirst
<1>5. HistoryInv'
  BY DEF Record, IInv, HistoryInv
<1>6. QED
  BY <1>1, <1>2, <1>3, <1>4, <1>5, ServerStep DEF Record

LEMMA NextInv == ASSUME IInv, [Next]_vars PROVE IInv'
<1>1. CASE UNCHANGED vars
  <2>1. TypeOK' /\ LinkInv' /\ EventInv' /\ ErrorInv' /\ HistoryInv'
    BY <1>1 DEF vars, IInv, TypeOK, LinkInv, EventInv, ErrorInv, ErrorUnderWay, ErrorFirst, HistoryInv
  <2>2. QED
    BY <1>1, <2>1, ServerStep DEF vars
<1>2. CASE HandlerStep
  BY <1>2, ValidateInv, CheckServerInv, UploadImagesInv, ConnectInv, QueueWorkflowInv,
     ReceiveInv, ConnectionClosedInv, ReconnectInv, GetHistoryInv, CollectOutputInv,
     SkipOutputInv, MeetTextInv, FinishOutputsInv, PersistTerminalResultInv, YieldResultInv
  DEF HandlerStep
<1>3. CASE ComfyStep
  BY <1>3, BootInv, ExecuteInv, RunEndsInv, RecordInv DEF ComfyStep
<1>4. QED
  BY <1>1, <1>2, <1>3, DeliverInv, ComfyDiesInv, DropConnectionInv DEF Next

LEMMA Inductive == Spec => []IInv
  BY InitInv, NextInv, PTL DEF Spec
-----------------------------------------------------------------------------
(* The variables of handler, ComfyUI, websocket and store keep their types.*)
THEOREM TypeCorrect == Spec => []TypeOK
<1>1. IInv => TypeOK
  BY DEF IInv
<1>2. QED
  BY <1>1, Inductive, PTL

(* Wherever a job ends and whatever request failed, it yields one last     *)
(* chunk, and none before its end; and it ends without one only where the  *)
(* input, or the error of its run in the copy of the result, raises.       *)
THEOREM LastChunk == Spec => []OneLastChunk
<1>1. IInv => OneLastChunk
  BY DEF IInv, ChunkInv, RaiseInv, OneLastChunk
<1>2. QED
  BY <1>1, Inductive, PTL

(* A clean result is that of a run that succeeded, but for a dropped       *)
(* connection, in any order of events, deaths and reconnections.           *)
THEOREM CleanIsSuccess == Spec => []CleanResultIsSuccess
<1>1. IInv => CleanResultIsSuccess
  BY DEF IInv, HistoryInv, CleanResultIsSuccess
<1>2. QED
  BY <1>1, Inductive, PTL

(* No file of a category the handler knows is missing from the result of   *)
(* its run without an error that says so, for any files, sizes, limits and *)
(* stores.                                                                 *)
THEOREM NoFileDropped == Spec => []NothingDropped
<1>1. IInv => NothingDropped
  BY DEF IInv, HistoryInv, OutputInv, NothingDropped
<1>2. QED
  BY <1>1, Inductive, PTL

(* The stored copy of a result can be acted upon, and it is there when the *)
(* last chunk is lost, unless a second fault took it.                      *)
THEOREM ResultIsRecovered == Spec => []ResultRecovered
<1>1. ASSUME IInv PROVE ManifestComplete
  <2>1. SUFFICES ASSUME manifest # None, NEW i \in manifest.images
        PROVE  /\ i[2] = "r2_key"
               /\ objects[<<FileType[i[1]], NameOf[i[1]]>>] = i[1] \/ Shadowed(i[1])
    BY DEF ManifestComplete
  <2>2. manifest.images = images /\ Compact
    BY <1>1, <2>1 DEF IInv, CopyInv, Result
  <2>3. QED
    BY <1>1, <2>2 DEF IInv, ObjectInv, Compact
<1>2. ASSUME IInv, delivery = "lost", chunks = <<"result">>, Recoverable, faults = 1
      PROVE  manifest = Result
  BY <1>2 DEF IInv, CopyInv, Recoverable, Persistable, Encoded, Compact
<1>3. IInv => ResultRecovered
  BY <1>1, <1>2 DEF ResultRecovered
<1>4. QED
  BY <1>3, Inductive, PTL
=============================================================================
