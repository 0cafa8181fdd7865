--------------------------- MODULE ServerlessHandler ---------------------------
(***************************************************************************)
(* docker/runpod/handler.py: one job of a serverless worker.  The handler  *)
(* queues a workflow with the ComfyUI process next to it, follows the run  *)
(* over a websocket, collects the outputs and yields one last chunk, which *)
(* the RunPod SDK may fail to deliver.                                     *)
(*                                                                         *)
(*   comfy, prompt, made, recorded   ComfyUI: the process, the run of this *)
(*                                   job, its files, its history entry     *)
(*   link, wire                      the websocket, the events under way   *)
(*   objects                         the object store, by key              *)
(*   manifest                        the stored copy of the last chunk     *)
(***************************************************************************)
EXTENDS Naturals, Sequences, FiniteSets

CONSTANTS Files,        \* the files a workflow may produce
          Entry,        \* what the history says of each
          FileType,     \* "output" or "temp"
          NameOf,       \* the name of a file, without its subfolder
          Inlined,      \* its size once base64-encoded
          Threshold,    \* TEMP_R2_FALLBACK_THRESHOLD
          MaxAttempts,  \* WEBSOCKET_RECONNECT_ATTEMPTS
          MaxListed,    \* the files a stored copy can list (TERMINAL_MANIFEST_MAX_BYTES)
          MaxPolls,     \* checks of the server when there is no PID file
          Jobs,         \* what the jobs and their workers' environments say
          MaxFaults,    \* failed requests, dropped sockets, a dead ComfyUI
          None

(* What the job and the worker's environment say.  An input is refused by  *)
(* validate_input, or breaks it, being no object or with pictures that have*)
(* no members; or its pictures are texts that pass for objects.            *)
Inputs == {"good", "refused", "shapeless", "texts"}
Job == [store : {"disabled", "configured", "invalid"}, input : Inputs,
        pictures : BOOLEAN, ids : {"absent", "plain", "other"},
        bucket : BOOLEAN, pid : BOOLEAN]

(* An entry of the history: a file, one without a name or bytes, a text in *)
(* place of the description of a file, or one of a category that is not    *)
(* among FILE_OUTPUT_CATEGORIES.                                           *)
Entries == {"file", "void", "text", "unhandled"}

ASSUME HandlerAssumption ==
    /\ Entry \in [Files -> Entries]
    /\ FileType \in [Files -> {"output", "temp"}]
    /\ Inlined \in [Files -> Nat]
    /\ {Threshold, MaxAttempts, MaxListed, MaxFaults} \subseteq Nat
    /\ MaxPolls \in Nat \ {0}
    /\ None \notin Files
    /\ Jobs \subseteq Job

VARIABLES stage, job, attempt, errors, todo, images, inline, chunks,  \* handler
          comfy, prompt, made, recorded,                              \* ComfyUI
          link, wire,                                                 \* websocket
          objects, manifest, delivery,                                \* outside
          faults, dropped

result  == <<errors, todo, images, inline>>
server  == <<comfy, prompt, made, recorded>>
socket  == <<link, wire>>
outside == <<objects, manifest, delivery>>
env     == <<faults, dropped>>
vars    == <<stage, job, attempt, result, chunks, server, socket, outside, env>>

Keys == {"output", "temp"} \X {NameOf[f] : f \in Files}

Init == /\ stage = "validate" /\ job \in Jobs /\ attempt = 0
        /\ errors = {} /\ todo = {} /\ images = {} /\ inline = 0 /\ chunks = <<>>
        /\ comfy = "starting" /\ prompt = "none" /\ made = {} /\ recorded = FALSE
        /\ link = FALSE /\ wire = <<>>
        /\ objects = [k \in Keys |-> None] /\ manifest = None /\ delivery = "none"
        /\ faults = 0 /\ dropped = FALSE

Fault == faults < MaxFaults /\ faults' = faults + 1 /\ UNCHANGED dropped

Goto(next) == stage' = next /\ UNCHANGED chunks

(* yield error_chunk(...), the finally block, return.  (Mutant: the return *)
(* is missing.)                                                            *)
ErrorWithoutReturn == /\ chunks' = Append(chunks, "error")
                      /\ stage' = "outputs"
                      /\ UNCHANGED socket
EndWithError == /\ chunks' = Append(chunks, "error")
                /\ stage' = "ended"
                /\ link' = FALSE /\ wire' = <<>>

(* An exception outside the try leaves the generator: no last chunk.       *)
Raise == Goto("raised") /\ UNCHANGED socket
-----------------------------------------------------------------------------
(* object_store_config, validate_input.                                    *)
Validate ==
    /\ stage = "validate"
    /\ \/ job.store = "invalid" /\ EndWithError
       \/ job.store # "invalid" /\ job.input = "refused" /\ EndWithError
       \/ job.store # "invalid" /\ job.input = "shapeless" /\ Raise
       \/ /\ job.store # "invalid" /\ job.input \in {"good", "texts"}
          /\ Goto("server") /\ UNCHANGED socket
    /\ UNCHANGED <<job, attempt, result, server, outside, env>>

(* check_server: with a PID file it polls while the process lives, without *)
(* one a number of times.                                                  *)
CheckServer ==
    /\ stage = "server"
    /\ \/ /\ comfy = "up" /\ UNCHANGED <<attempt, socket>>
          /\ Goto(IF job.pictures THEN "upload" ELSE "connect")
          /\ UNCHANGED env
       \/ comfy = "down" /\ job.pid /\ EndWithError /\ UNCHANGED <<attempt, env>>
       \/ /\ ~job.pid /\ attempt' = attempt + 1
          /\ IF comfy = "up" THEN Fault ELSE UNCHANGED env
          /\ IF attempt + 1 = MaxPolls
             THEN EndWithError
             ELSE UNCHANGED <<stage, chunks, socket>>
    /\ UNCHANGED <<job, result, server, outside>>

(* A request to ComfyUI that fails, or that nobody answers.                *)
RequestFails == IF comfy = "down" THEN UNCHANGED env ELSE Fault

(* The handler of an error in a picture fails itself when that is a text.  *)
UploadImages ==
    /\ stage = "upload"
    /\ \/ job.input = "texts" /\ Raise /\ UNCHANGED env
       \/ /\ job.input # "texts" /\ comfy = "up"
          /\ Goto("connect") /\ UNCHANGED <<socket, env>>
       \/ job.input # "texts" /\ RequestFails /\ EndWithError
    /\ UNCHANGED <<job, attempt, result, server, outside>>

Connect ==
    /\ stage = "connect"
    /\ \/ comfy = "up" /\ Goto("queue") /\ link' = TRUE /\ UNCHANGED <<wire, env>>
       \/ RequestFails /\ EndWithError
    /\ UNCHANGED <<job, attempt, result, server, outside>>

(* queue_workflow; a request that failed may have queued the prompt.       *)
QueueWorkflow ==
    /\ stage = "queue"
    /\ \/ /\ comfy = "up" /\ prompt' = "queued" /\ Goto("listen")
          /\ UNCHANGED <<socket, env>>
       \/ /\ RequestFails /\ EndWithError
          /\ prompt' \in IF comfy = "up" THEN {"none", "queued"} ELSE {"none"}
    /\ UNCHANGED <<job, attempt, result, comfy, made, recorded, outside>>

(* (Mutant: an execution_error is an end like the others.)                 *)
EveryEndIsSuccess(event) == {}
ErrorsOf(event) == IF event = "execution_error" THEN {"execution"} ELSE {}

(* The receive loop: three events of this prompt end it.  A receive that   *)
(* times out is tried again.                                               *)
Receive ==
    /\ stage = "listen" /\ wire # <<>>
    /\ wire' = Tail(wire)
    /\ errors' = errors \cup ErrorsOf(Head(wire))
    /\ Goto(IF Head(wire) = "progress" THEN "listen" ELSE "history")
    /\ UNCHANGED <<job, attempt, todo, images, inline, server, link, outside, env>>

(* (Mutant: a closed connection is handled like a receive that timed out.) *)
KeepListening == stage = "listen" /\ wire = <<>> /\ ~link /\ UNCHANGED vars
ConnectionClosed ==
    /\ stage = "listen" /\ wire = <<>> /\ ~link
    /\ attempt' = 0
    /\ IF MaxAttempts = 0
       THEN EndWithError
       ELSE Goto("reconnect") /\ UNCHANGED socket
    /\ UNCHANGED <<job, result, server, outside, env>>

(* _attempt_websocket_reconnect: an unreachable ComfyUI ends it at once.   *)
Reconnect ==
    /\ stage = "reconnect"
    /\ \/ /\ comfy = "up" /\ link' = TRUE /\ wire' = <<>> /\ Goto("listen")
          /\ UNCHANGED <<attempt, env>>
       \/ RequestFails /\ EndWithError /\ UNCHANGED attempt
       \/ /\ comfy = "up" /\ Fault /\ attempt' = attempt + 1
          /\ IF attempt + 1 = MaxAttempts
             THEN EndWithError
             ELSE UNCHANGED <<stage, chunks, socket>>
    /\ UNCHANGED <<job, result, server, outside>>

(* get_history: a run that is not in it ends the job.                      *)
GetHistory ==
    /\ stage = "history"
    /\ \/ comfy = "up" /\ ~recorded /\ EndWithError /\ UNCHANGED <<result, env>>
       \/ /\ comfy = "up" /\ recorded /\ todo' = made
          /\ \/ UNCHANGED errors
             \/ made = {} /\ errors = {} /\ errors' = {"no_outputs"}
          /\ Goto("outputs") /\ UNCHANGED <<images, inline, socket, env>>
       \/ RequestFails /\ EndWithError /\ UNCHANGED result
    /\ UNCHANGED <<job, attempt, server, outside>>
-----------------------------------------------------------------------------
(* The key of a file: its type, the user and the prompt, and its name.     *)
Key(f) == <<FileType[f], NameOf[f]>>

(* What the result would carry inline, the files before it included.       *)
Projected(f) == inline + Inlined[f]

ToObjectStore(f) ==
    /\ job.store = "configured" /\ job.ids # "absent"
    /\ FileType[f] = "output" \/ Projected(f) > Threshold

(* (Mutant: an upload that fails leaves an entry without bytes.)           *)
AddEmpty(f) == images' = images \cup {<<f, "none">>} /\ UNCHANGED inline
AddInline(f) ==
    /\ images' = images \cup {<<f, "base64">>}
    /\ inline' = IF FileType[f] = "temp" THEN inline + Inlined[f] ELSE inline

Stored(f) == [objects EXCEPT ![Key(f)] = f]

StoreObject(f) == /\ images' = images \cup {<<f, "r2_key">>}
                  /\ objects' = Stored(f)
                  /\ UNCHANGED inline

FileError == errors' = errors \cup {"file"} /\ UNCHANGED <<images, inline, objects>>

(* get_output_data and one of the three ways to return a file.  A put that *)
(* is reported as failed may have been done.                               *)
CollectOutput(f) ==
    /\ stage = "outputs" /\ f \in todo /\ Entry[f] \in {"file", "void"}
    /\ todo' = todo \ {f}
    /\ \/ Entry[f] = "void" /\ FileError /\ UNCHANGED env
       \/ RequestFails /\ FileError
       \/ /\ Entry[f] = "file" /\ comfy = "up"
          /\ \/ /\ ToObjectStore(f)
                /\ \/ StoreObject(f) /\ UNCHANGED <<errors, env>>
                   \/ /\ Fault /\ AddInline(f) /\ UNCHANGED errors
                      /\ objects' \in {objects, Stored(f)}
             \/ /\ ~ToObjectStore(f) /\ job.bucket
                /\ \/ /\ images' = images \cup {<<f, "s3_url">>}
                      /\ UNCHANGED <<errors, inline, objects, env>>
                   \/ Fault /\ FileError
             \/ /\ ~ToObjectStore(f) /\ ~job.bucket
                /\ AddInline(f) /\ UNCHANGED <<errors, objects, env>>
    /\ UNCHANGED <<stage, job, attempt, chunks, server, socket, manifest, delivery>>

(* An output of another category is only printed.                          *)
SkipOutput(f) ==
    /\ stage = "outputs" /\ f \in todo /\ Entry[f] = "unhandled"
    /\ todo' = todo \ {f}
    /\ UNCHANGED <<stage, job, attempt, errors, images, inline, chunks, server,
                   socket, outside, env>>

(* A text has no file_info.get: the job ends.                              *)
MeetText(f) ==
    /\ stage = "outputs" /\ f \in todo /\ Entry[f] = "text"
    /\ EndWithError
    /\ UNCHANGED <<job, attempt, result, server, outside, env>>

FinishOutputs ==
    /\ stage = "outputs" /\ todo = {}
    /\ IF images = {} /\ errors # {}
       THEN EndWithError
       ELSE Goto("persist") /\ link' = FALSE /\ wire' = <<>>
    /\ UNCHANGED <<job, attempt, result, server, outside, env>>

Result == [images |-> images, errors |-> errors]

(* persist_terminal_result keeps a copy of a small result without inline   *)
(* bytes, for ids that are plain enough for terminal_manifest_key.         *)
Compact == \A i \in images : i[2] = "r2_key"
Encoded == job.ids = "plain" /\ Compact
Persistable == /\ Encoded /\ job.store = "configured"
               /\ Cardinality(images) <= MaxListed

(* (Mutant: no copy of a result that has errors.)                          *)
PersistClean ==
    /\ stage = "persist"
    /\ Goto("emit")
    /\ IF Persistable /\ errors = {}
       THEN \/ manifest' = Result /\ UNCHANGED env
            \/ Fault /\ manifest' \in {None, Result}
       ELSE UNCHANGED <<manifest, env>>
    /\ UNCHANGED <<job, attempt, result, server, socket, objects, delivery>>

(* The error of a run may be a text that UTF-8 does not encode.            *)
PersistTerminalResult ==
    /\ stage = "persist"
    /\ \/ Persistable /\ Goto("emit") /\ manifest' = Result /\ UNCHANGED env
       \/ Persistable /\ Goto("emit") /\ Fault /\ manifest' \in {None, Result}
       \/ ~Persistable /\ Goto("emit") /\ UNCHANGED <<manifest, env>>
       \/ Encoded /\ "execution" \in errors /\ Raise /\ UNCHANGED <<manifest, env>>
    /\ UNCHANGED <<job, attempt, result, server, socket, objects, delivery>>

YieldResult ==
    /\ stage = "emit"
    /\ chunks' = Append(chunks, "result") /\ stage' = "ended"
    /\ UNCHANGED <<job, attempt, result, server, socket, outside, env>>

(* The SDK's stream webhook; a chunk it cannot deliver is dropped and the  *)
(* job is reported as completed.                                           *)
Deliver ==
    /\ stage = "ended" /\ delivery = "none"
    /\ \/ delivery' = "received" /\ UNCHANGED env
       \/ delivery' = "lost" /\ Fault
    /\ UNCHANGED <<stage, job, attempt, result, chunks, server, socket,
                   objects, manifest>>
-----------------------------------------------------------------------------
(* ComfyUI and the connection to it.                                       *)
Send(events) == wire' = IF link THEN wire \o events ELSE wire
handlerVars == <<stage, job, attempt, result, chunks, outside>>

Boot == /\ comfy = "starting"
        /\ \/ comfy' = "up" /\ UNCHANGED env
           \/ comfy' = "down" /\ Fault
        /\ UNCHANGED <<handlerVars, prompt, made, recorded, socket>>

Execute ==
    /\ comfy = "up" /\ prompt = "queued" /\ prompt' = "running"
    /\ Send(<<"progress">>)
    /\ UNCHANGED <<handlerVars, comfy, made, recorded, link, env>>

RunEnds ==
    /\ comfy = "up" /\ prompt = "running"
    /\ made' \in SUBSET Files
    /\ \/ prompt' = "succeeded" /\ Send(<<"execution_success">>)
       \/ prompt' = "failed" /\ Send(<<"execution_error">>)
    /\ UNCHANGED <<handlerVars, comfy, recorded, link, env>>

Record ==
    /\ comfy = "up" /\ prompt \in {"succeeded", "failed"} /\ ~recorded
    /\ recorded' = TRUE
    /\ Send(<<"executing_none">>)
    /\ UNCHANGED <<handlerVars, comfy, prompt, made, link, env>>

ComfyDies ==
    /\ comfy = "up" /\ Fault
    /\ comfy' = "down" /\ link' = FALSE
    /\ UNCHANGED <<handlerVars, prompt, made, recorded, wire>>

DropConnection ==
    /\ link
    /\ faults < MaxFaults /\ faults' = faults + 1 /\ dropped' = TRUE
    /\ link' = FALSE
    /\ \E n \in 0 .. Len(wire) : wire' = SubSeq(wire, 1, n)
    /\ UNCHANGED <<handlerVars, server>>

HandlerStep ==
    \/ Validate \/ CheckServer \/ UploadImages \/ Connect \/ QueueWorkflow
    \/ Receive \/ ConnectionClosed \/ Reconnect \/ GetHistory
    \/ (\E f \in Files : CollectOutput(f) \/ SkipOutput(f) \/ MeetText(f))
    \/ FinishOutputs
    \/ PersistTerminalResult \/ YieldResult

ComfyStep == Boot \/ Execute \/ RunEnds \/ Record

Next == HandlerStep \/ Deliver \/ ComfyStep \/ ComfyDies \/ DropConnection

Spec == Init /\ [][Next]_vars
(* The handler's requests have timeouts, and ComfyUI's runs end.           *)
FairSpec == Spec /\ WF_vars(HandlerStep) /\ WF_vars(ComfyStep)
-----------------------------------------------------------------------------
Stages == {"validate", "server", "upload", "connect", "queue", "listen",
           "reconnect", "history", "outputs", "persist", "emit", "ended", "raised"}
Kinds == {"r2_key", "base64", "s3_url"}
Events == {"progress", "execution_success", "execution_error", "executing_none"}
Results == [images : SUBSET (Files \X Kinds),
            errors : SUBSET {"execution", "no_outputs", "file"}]

TypeOK ==
    /\ stage \in Stages /\ job \in Jobs /\ attempt \in 0 .. MaxPolls + MaxAttempts
    /\ errors \subseteq {"execution", "no_outputs", "file"}
    /\ todo \subseteq Files /\ images \subseteq Files \X Kinds /\ inline \in Nat
    /\ chunks \in Seq({"error", "result"})
    /\ comfy \in {"starting", "up", "down"}
    /\ prompt \in {"none", "queued", "running", "succeeded", "failed"}
    /\ made \subseteq Files /\ recorded \in BOOLEAN
    /\ link \in BOOLEAN /\ wire \in Seq(Events)
    /\ objects \in [Keys -> Files \cup {None}]
    /\ manifest \in Results \cup {None}
    /\ delivery \in {"none", "received", "lost"}
    /\ faults \in Nat /\ dropped \in BOOLEAN

(* Whatever request or connection fails, and wherever, the consumer of the *)
(* stream is sent exactly one last chunk, and nothing follows it.  A job   *)
(* that raises sends none, and only two things raise: the input, where its *)
(* checks or their error handling meet a shape they do not expect, and the *)
(* encoding of the stored copy of a result that quotes an error of the run.*)
MayRaise == \/ job.input \in {"shapeless", "texts"}
            \/ Encoded /\ "execution" \in errors
OneLastChunk ==
    /\ Len(chunks) = IF stage = "ended" THEN 1 ELSE 0
    /\ stage = "raised" => MayRaise

(* A result without errors is the result of a run that succeeded, unless a *)
(* dropped connection took the event that said otherwise with it: neither  *)
(* the end of the run nor its history is asked for its status.             *)
CleanResultIsSuccess ==
    chunks = <<"result">> /\ errors = {} => prompt = "succeeded" \/ dropped

(* Every file of the run is in the result or its errors say that one is    *)
(* missing, through all the ways a file can be returned and fail to be;    *)
(* but for the files of a category the handler does not know, of which     *)
(* neither says a word.                                                    *)
NothingDropped ==
    chunks = <<"result">> =>
        \/ "file" \in errors
        \/ \A f \in made : Entry[f] # "unhandled" =>
               \E k \in Kinds : <<f, k>> \in images

(* A stored copy can be acted upon for as long as it exists: it holds no   *)
(* inline bytes and the store holds every file it lists, but for a file    *)
(* whose name and type another file of the run shares.  And it is there    *)
(* when the last chunk was lost, unless a file had to be returned inline,  *)
(* the result is too large or a second fault took the copy too: no error   *)
(* of the run keeps it from being made once the last chunk is sent.        *)
Shadowed(f) == \E g \in made \ {f} : /\ NameOf[g] = NameOf[f]
                                     /\ FileType[g] = FileType[f]
ManifestComplete ==
    manifest # None =>
        \A i \in manifest.images :
            /\ i[2] = "r2_key"
            /\ objects[<<FileType[i[1]], NameOf[i[1]]>>] = i[1] \/ Shadowed(i[1])
Recoverable ==
    /\ job.store = "configured" /\ job.ids = "plain"
    /\ \A i \in images : i[2] = "r2_key"
    /\ Cardinality(images) <= MaxListed
ResultRecovered ==
    /\ ManifestComplete
    /\ delivery = "lost" /\ chunks = <<"result">> /\ Recoverable /\ faults = 1
          => manifest = Result

(* The job ends unless the events that end the run were all lost with a    *)
(* connection: nothing is sent again, and the handler does not ask.        *)
Missed == /\ stage = "listen" /\ link /\ wire = <<>>
          /\ recorded /\ dropped
Finished == stage \in {"ended", "raised"}
JobEndsUnlessMissed == <>(Finished \/ Missed)

(* A dropped connection is resumed: the job ends.                          *)
JobEnds == <>Finished
=============================================================================
