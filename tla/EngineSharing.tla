--------------------------- MODULE EngineSharing ---------------------------
(***************************************************************************)
(* Who shares the Whisper engine of meetily-core, and under which rules:   *)
(*   - a recording session (audio/recording_service.rs), whose start()     *)
(*     validates the model (whisper_engine/models.rs) and whose stop()     *)
(*     drains the workers and may unload the model;                        *)
(*   - the two live consumers of a session, the final worker               *)
(*     (audio/transcription/worker.rs with engine.rs) and the partial one  *)
(*     (partial_worker.rs), each holding the lease while it runs;          *)
(*   - the batch jobs, import (audio/import.rs) and retranscription or     *)
(*     auto-refine (audio/retranscription.rs), over audio/common.rs.       *)
(*                                                                         *)
(* Every one of them is a task of the tokio runtime, and a step is the     *)
(* code between two awaits or inside one lock.  EngineLease and            *)
(* WhisperEngine hold the shared state; RecordingLifecycle models the rest *)
(* of start() and stop().                                                  *)
(***************************************************************************)
EXTENDS Naturals, FiniteSets, EngineLease, WhisperEngine

CONSTANTS
    Sessions,     \* recording sessions (bound: recordings made)
    Imports,      \* calls of start_import_with
    Retrans,      \* calls of start_retranscription_with, for one meeting
    Configured,   \* the model of the saved transcript config
    BatchModels,  \* models a batch job may ask for
    Segments,     \* bound: speech segments VAD finds in one batch
    Previews,     \* sessions with streaming partials
    Silent,       \* sessions in which nothing is said
    Scenarios     \* bound: which sessions, jobs and cancellations may meet

Jobs == Imports \cup Retrans
Live == Sessions \X Purposes
Processes == Sessions \cup Jobs \cup Live

Kinds == {"import", "retranscription"}

ASSUME SharingAssumption ==
    /\ Waiters = Jobs
    /\ Imports \cap Retrans = {}
    /\ IsFiniteSet(Sessions)
    /\ Sessions \cap Jobs = {} /\ Live \cap (Sessions \cup Jobs) = {}
    /\ NONE \notin Jobs /\ "skipped" \notin Models
    /\ Configured \in Models
    /\ BatchModels \subseteq Models
    /\ Segments \in Nat
    /\ Previews \subseteq Sessions /\ Silent \subseteq Sessions
    /\ Scenarios \subseteq SUBSET (Sessions \cup Jobs \cup Kinds)

Kind(j) == IF j \in Imports THEN "import" ELSE "retranscription"
Final(s) == <<s, "Final">>
Partial(s) == <<s, "Partial">>

ChangeLabels == {"loadCheck", "evict", "clear", "read", "setCtx", "setName"}
DecodeLabels == {"decode", "insert"}
SessionLabels == {"idle", "look", "lookName", "store", "spawn", "recording",
                  "drain", "awaitPartial", "unloadPref", "done"}
LiveLabels == {"idle", "lease", "look", "lookName", "ready", "drop",
               "notify", "done"}
JobLabels == {"idle", "reset", "prepare", "copy", "cut", "engine", "leased",
              "enrol", "recheck", "asleep", "batch", "save", "finish",
              "release", "done"}

VARIABLES
    made,        \* the scenario: calls that are never made stay out of it
    pc,          \* where each process is
    goal,        \* whether it is loading its model or unloading the engine
    snap,        \* its snapshot of ctx in get_or_create_state
    wants,       \* the model a job asks for
    seen,        \* current_model as a job's get_or_init_whisper read it
    recording,   \* sessions for which is_recording() answers true
    inProgress,  \* IMPORT_IN_PROGRESS and RETRANSCRIPTION_IN_PROGRESS
    cancelled,   \* IMPORT_CANCELLED and RETRANSCRIPTION_CANCELLED
    seg, text,   \* segments a job is through with, and whether any gave text
    folder,      \* imports whose meeting folder exists
    rows,        \* imports whose meeting and transcripts are in the database
    transcript,  \* whose text the retranscribed meeting has: NONE is the old
    result,      \* of a job
    \* ---- history, for the properties
    heard,       \* what a live worker did with the chunk it was given
    clash,       \* two processes were changing the model at once
    straddled,   \* a state was pooled for a context already replaced
    asked        \* kinds whose running job was cancelled before its last check

procVars == <<pc, goal, snap>>
jobVars == <<wants, seen, seg, text, result>>
flagVars == <<inProgress, cancelled, asked>>
dataVars == <<folder, rows, transcript>>
histVars == <<heard, clash, straddled, made>>
vars == <<leaseVars, engineVars, procVars, jobVars, flagVars, dataVars,
          histVars, recording>>

TypeOK ==
    /\ LeaseTypeOK
    /\ EngineTypeOK
    /\ pc \in [Processes -> SessionLabels \cup LiveLabels \cup JobLabels
                             \cup ChangeLabels \cup DecodeLabels]
    /\ goal \in [Processes -> {"load", "unload"}]
    /\ snap \in [Processes -> Models \cup {NONE}]
    /\ wants \in [Jobs -> Models \cup {NONE}]
    /\ seen \in [Jobs -> Models \cup {NONE}]
    /\ seg \in [Jobs -> 0..Segments]
    /\ text \in [Jobs -> BOOLEAN]
    /\ result \in [Jobs -> {"none", "ok", "err", "refused"}]
    /\ inProgress \subseteq Kinds /\ cancelled \subseteq Kinds
    /\ asked \subseteq Kinds
    /\ folder \subseteq Imports /\ rows \subseteq Imports
    /\ transcript \in Retrans \cup {NONE}
    /\ heard \in [Live -> Models \cup {NONE, "skipped"}]
    /\ clash \in BOOLEAN /\ straddled \in BOOLEAN
    /\ recording \subseteq Sessions
    /\ made \in Scenarios

Init ==
    /\ LeaseInit /\ EngineInit
    /\ made \in Scenarios
    /\ pc = [p \in Processes |-> IF p \in made \cup Live THEN "idle" ELSE "done"]
    /\ goal = [p \in Processes |-> "load"]
    /\ snap = [p \in Processes |-> NONE]
    /\ wants = [j \in Jobs |-> NONE] /\ seen = [j \in Jobs |-> NONE]
    /\ seg = [j \in Jobs |-> 0] /\ text = [j \in Jobs |-> FALSE]
    /\ result = [j \in Jobs |-> "none"]
    /\ inProgress = {} /\ cancelled = {} /\ asked = {}
    /\ folder = {} /\ rows = {} /\ transcript = NONE
    /\ heard = [w \in Live |-> NONE]
    /\ clash = FALSE /\ straddled = FALSE
    /\ recording = {}

Goto(p, label) == pc' = [pc EXCEPT ![p] = label]

(* Processes between the decision to change the model and its last write. *)
Changing == {p \in Processes : pc[p] \in ChangeLabels}

(* A process decides to change the model, or to rely on it. *)
NoteClash(p) == clash' = (clash \/ Changing \ {p} # {})

(***************************************************************************)
(* load_model and unload_model, as any process runs them.                  *)
(***************************************************************************)
Target(p) == IF p \in Jobs THEN wants[p] ELSE Configured

AfterLoad(p) ==
    IF p \in Sessions THEN "store" ELSE IF p \in Jobs THEN "batch" ELSE "ready"
AfterUnload(p) == IF p \in Sessions THEN "done" ELSE "release"

(* A start is refused; a worker returns; get_or_init_whisper's ? ends a job. *)
LoadFails(p) ==
    /\ Goto(p, IF p \in Sessions THEN "done"
               ELSE IF p \in Jobs THEN "finish" ELSE "drop")
    /\ result' = IF p \in Jobs THEN [result EXCEPT ![p] = "err"] ELSE result
    /\ UNCHANGED <<wants, seen, seg, text>>

LoadCheck(p) ==
    /\ pc[p] = "loadCheck"
    /\ Goto(p, IF name = Target(p) THEN AfterLoad(p)
               ELSE IF name = NONE THEN "read" ELSE "evict")
    /\ UNCHANGED <<leaseVars, engineVars, goal, snap, jobVars, flagVars,
                   dataVars, histVars, recording>>

EvictStep(p) ==
    /\ pc[p] = "evict"
    /\ Evict
    /\ Goto(p, "clear")
    /\ UNCHANGED <<leaseVars, goal, snap, jobVars, flagVars, dataVars,
                   histVars, recording>>

ClearStep(p) ==
    /\ pc[p] = "clear"
    /\ Clear
    /\ Goto(p, IF goal[p] = "load" THEN "read" ELSE AfterUnload(p))
    /\ UNCHANGED <<leaseVars, goal, snap, jobVars, flagVars, dataVars,
                   histVars, recording>>

(* The weights are read on a blocking thread; the model already evicted    *)
(* stays evicted when that fails.                                          *)
ReadWeights(p) ==
    /\ pc[p] = "read"
    /\ \/ Goto(p, "setCtx") /\ UNCHANGED jobVars
       \/ LoadFails(p)
    /\ UNCHANGED <<leaseVars, engineVars, goal, snap, flagVars, dataVars,
                   histVars, recording>>

SetContextStep(p) ==
    /\ pc[p] = "setCtx"
    /\ SetContext(Target(p))
    /\ Goto(p, "setName")
    /\ UNCHANGED <<leaseVars, goal, snap, jobVars, flagVars, dataVars,
                   histVars, recording>>

SetNameStep(p) ==
    /\ pc[p] = "setName"
    /\ SetName(Target(p))
    /\ Goto(p, AfterLoad(p))
    /\ UNCHANGED <<leaseVars, goal, snap, jobVars, flagVars, dataVars,
                   histVars, recording>>

ChangeModel(p) ==
    \/ LoadCheck(p) \/ EvictStep(p) \/ ClearStep(p)
    \/ ReadWeights(p) \/ SetContextStep(p) \/ SetNameStep(p)

(***************************************************************************)
(* Which model is loaded, as validate (a session) and get_or_init_whisper  *)
(* (a final worker) look: the context first, then the name.                *)
(***************************************************************************)
Look(p) ==
    /\ pc[p] = "look" /\ ~locked
    /\ IF IsModelLoaded
       THEN Goto(p, "lookName") /\ UNCHANGED clash
       ELSE Goto(p, "loadCheck") /\ NoteClash(p)
    /\ UNCHANGED <<leaseVars, engineVars, goal, snap, jobVars, flagVars,
                   dataVars, heard, straddled, made, recording>>

(* validate takes any loaded model, a worker only the configured one. *)
LookName(p) ==
    /\ pc[p] = "lookName"
    /\ IF name = Configured \/ (p \in Sessions /\ name # NONE)
       THEN Goto(p, AfterLoad(p)) /\ UNCHANGED clash
       ELSE Goto(p, "loadCheck") /\ NoteClash(p)
    /\ UNCHANGED <<leaseVars, engineVars, goal, snap, jobVars, flagVars,
                   dataVars, heard, straddled, made, recording>>

(***************************************************************************)
(* A recording session: the parts of start() and stop() that touch the     *)
(* engine.  A start is refused while another session is not over.          *)
(***************************************************************************)
StartRecording(s) ==
    /\ pc[s] = "idle"
    /\ \A t \in Sessions \ {s} : pc[t] \in {"idle", "done"}
    /\ Goto(s, "look")
    /\ UNCHANGED <<leaseVars, engineVars, goal, snap, jobVars, flagVars,
                   dataVars, histVars, recording>>

(* The streams open and the manager is stored, or the start fails. *)
StoreManager(s) ==
    /\ pc[s] = "store"
    /\ \/ Goto(s, "spawn") /\ recording' = recording \cup {s}
       \/ Goto(s, "done") /\ UNCHANGED recording
    /\ UNCHANGED <<leaseVars, engineVars, goal, snap, jobVars, flagVars,
                   dataVars, histVars>>

SpawnWorkers(s) ==
    /\ pc[s] = "spawn"
    /\ pc' = [pc EXCEPT ![s] = "recording", ![Final(s)] = "lease",
                        ![Partial(s)] = IF s \in Previews THEN "lease" ELSE @]
    /\ UNCHANGED <<leaseVars, engineVars, goal, snap, jobVars, flagVars,
                   dataVars, histVars, recording>>

(* stop(): the streams stop, and with them the channels to the workers. *)
StopRecording(s) ==
    /\ pc[s] = "recording"
    /\ recording' = recording \ {s}
    /\ Goto(s, "drain")
    /\ UNCHANGED <<leaseVars, engineVars, goal, snap, jobVars, flagVars,
                   dataVars, histVars>>

Drained(s) ==
    /\ pc[s] = "drain" /\ pc[Final(s)] = "done"
    /\ Goto(s, "awaitPartial")
    /\ UNCHANGED <<leaseVars, engineVars, goal, snap, jobVars, flagVars,
                   dataVars, histVars, recording>>

(* Mutant: only a worker that has already dequeued a chunk can stall. *)
AbortBusyWorker(s) ==
    LET w == Final(s) IN
    /\ pc[s] = "drain" /\ heard[w] # NONE
    /\ pc[w] \notin {"drop", "notify", "done"}
    /\ pc' = [pc EXCEPT ![s] = "awaitPartial", ![w] = "drop"]
    /\ UNCHANGED <<leaseVars, engineVars, goal, snap, jobVars, flagVars,
                   dataVars, histVars, recording>>

(* No progress for STALL_LIMIT: the worker is aborted wherever it awaits,  *)
(* which drops the locks and the lease it holds, and stop() goes on.       *)
AbortWorker(s) ==
    LET w == Final(s) IN
    /\ pc[s] = "drain" /\ pc[w] \notin {"drop", "notify", "done"}
    /\ pc' = [pc EXCEPT ![s] = "awaitPartial",
                        ![w] = IF pc[w] = "lease" THEN "done" ELSE "drop"]
    /\ IF pc[w] = "clear" THEN Unlock ELSE UNCHANGED engineVars
    /\ clash' = (clash \/ w \in Changing)
    /\ UNCHANGED <<leaseVars, goal, snap, jobVars, flagVars, dataVars, heard,
                   straddled, made, recording>>

(* Five seconds at most for the partial worker: the timeout only drops its *)
(* JoinHandle, so a worker still decoding goes on, lease and all.          *)
AwaitPartial(s) ==
    /\ pc[s] = "awaitPartial"
    /\ Goto(s, "unloadPref")
    /\ UNCHANGED <<leaseVars, engineVars, goal, snap, jobVars, flagVars,
                   dataVars, histVars, recording>>

(* unload_model_after_recording: neither the lease nor a job is consulted. *)
UnloadAfterStop(s) ==
    /\ pc[s] = "unloadPref"
    /\ \/ Goto(s, "done") /\ UNCHANGED <<goal, clash>>
       \/ /\ Goto(s, "evict")
          /\ goal' = [goal EXCEPT ![s] = "unload"]
          /\ NoteClash(s)
    /\ UNCHANGED <<leaseVars, engineVars, snap, jobVars, flagVars, dataVars,
                   heard, straddled, made, recording>>

SessionStep(s) ==
    \/ StoreManager(s) \/ SpawnWorkers(s) \/ Drained(s) \/ AbortWorker(s)
    \/ AwaitPartial(s) \/ UnloadAfterStop(s) \/ Look(s) \/ LookName(s)
    \/ ChangeModel(s)

(***************************************************************************)
(* The live consumers of a session.  Each is given one chunk at most.      *)
(***************************************************************************)
TakeLease(w) ==
    /\ pc[w] = "lease"
    /\ AcquireLive
    /\ IF w[2] = "Final"
       THEN Goto(w, "look") /\ NoteClash(w)
       ELSE Goto(w, "ready") /\ UNCHANGED clash
    /\ UNCHANGED <<engineVars, goal, snap, jobVars, flagVars, dataVars,
                   heard, straddled, made, recording>>

(* process_chunk and decode_and_emit skip a chunk when no model is loaded. *)
NextChunk(w) ==
    /\ pc[w] = "ready" /\ w[1] \notin Silent /\ heard[w] = NONE /\ ~locked
    /\ IF IsModelLoaded
       THEN Goto(w, "decode") /\ UNCHANGED heard
       ELSE heard' = [heard EXCEPT ![w] = "skipped"] /\ UNCHANGED pc
    /\ UNCHANGED <<leaseVars, engineVars, goal, snap, jobVars, flagVars,
                   dataVars, clash, straddled, made, recording>>

(* The channel is closed and drained: the task returns, its guard drops. *)
ChannelClosed(w) ==
    /\ pc[w] = "ready" /\ w[1] \notin recording
    /\ Goto(w, "drop")
    /\ UNCHANGED <<leaseVars, engineVars, goal, snap, jobVars, flagVars,
                   dataVars, histVars, recording>>

DropLease(w) ==
    /\ pc[w] = "drop"
    /\ DropGuard
    /\ Goto(w, IF LastGuard THEN "notify" ELSE "done")
    /\ UNCHANGED <<engineVars, goal, snap, jobVars, flagVars, dataVars,
                   histVars, recording>>

Notify(w) ==
    /\ pc[w] = "notify"
    /\ NotifyWaiters
    /\ Goto(w, "done")
    /\ UNCHANGED <<engineVars, goal, snap, jobVars, flagVars, dataVars,
                   histVars, recording>>

(***************************************************************************)
(* transcribe_audio..., by a live worker or by a batch.                    *)
(***************************************************************************)
Purpose(p) == IF p \in Live THEN p[2] ELSE "Final"

JobFails(j) ==
    /\ Goto(j, "finish")
    /\ result' = [result EXCEPT ![j] = "err"]
    /\ UNCHANGED <<wants, seen, seg, text>>

(* The batch itself failed or was cancelled: an import removes its folder. *)
BatchFails(j) == JobFails(j) /\ folder' = folder \ {j}

(* A worker emits what it decoded with m; a batch keeps the text, drops it *)
(* as empty or hallucinated, or fails on the engine's error.               *)
Decoded(p, m) ==
    IF p \in Live
    THEN /\ heard' = [heard EXCEPT ![p] = m]
         /\ Goto(p, "ready")
         /\ UNCHANGED <<jobVars, folder>>
    ELSE /\ \/ /\ seg' = [seg EXCEPT ![p] = @ + 1]
               /\ \E t \in BOOLEAN : text' = [text EXCEPT ![p] = @ \/ t]
               /\ Goto(p, "batch")
               /\ UNCHANGED <<wants, seen, result, folder>>
            \/ BatchFails(p)
         /\ UNCHANGED heard

NoModelLoaded(p) ==
    IF p \in Live
    THEN /\ heard' = [heard EXCEPT ![p] = "skipped"]
         /\ Goto(p, "ready")
         /\ UNCHANGED <<jobVars, folder>>
    ELSE BatchFails(p) /\ UNCHANGED heard

(* The pooled state if there is one, else a snapshot of the context. *)
LookUpState(p) ==
    /\ pc[p] = "decode"
    /\ \/ /\ pool[Purpose(p)] # NONE
          /\ Decoded(p, pool[Purpose(p)])
          /\ UNCHANGED snap
       \/ /\ pool[Purpose(p)] = NONE /\ ~locked /\ ctx = NONE
          /\ NoModelLoaded(p)
          /\ UNCHANGED snap
       \/ /\ pool[Purpose(p)] = NONE /\ ~locked /\ ctx # NONE
          /\ snap' = [snap EXCEPT ![p] = ctx]
          /\ Goto(p, "insert")
          /\ UNCHANGED <<jobVars, folder, heard>>
    /\ UNCHANGED <<leaseVars, engineVars, goal, flagVars, rows, transcript,
                   clash, straddled, made, recording>>

(* Under the pool's own lock: by now the context may be another one. *)
InsertState(p) ==
    /\ pc[p] = "insert"
    /\ PoolInsert(Purpose(p), snap[p])
    /\ straddled' = (straddled \/ snap[p] # ctx)
    /\ Decoded(p, StateFor(Purpose(p), snap[p]))
    /\ snap' = [snap EXCEPT ![p] = NONE]
    /\ UNCHANGED <<leaseVars, goal, flagVars, rows, transcript, clash,
                   made, recording>>

Decode(p) == LookUpState(p) \/ InsertState(p)

LiveStep(w) ==
    \/ TakeLease(w) \/ NextChunk(w) \/ ChannelClosed(w) \/ DropLease(w)
    \/ Notify(w) \/ Look(w) \/ LookName(w) \/ ChangeModel(w) \/ Decode(w)

(***************************************************************************)
(* A batch job: start_import_with or start_retranscription_with.           *)
(***************************************************************************)
(* Mutant: the flag is reset before the guard is asked for. *)
StartJobResetsFirst(j) ==
    /\ pc[j] = "idle"
    /\ cancelled' = cancelled \ {Kind(j)}
    /\ IF Kind(j) \in inProgress
       THEN /\ Goto(j, "done")
            /\ result' = [result EXCEPT ![j] = "refused"]
            /\ UNCHANGED <<wants, inProgress>>
       ELSE /\ Goto(j, "reset")
            /\ inProgress' = inProgress \cup {Kind(j)}
            /\ \E m \in BatchModels : wants' = [wants EXCEPT ![j] = m]
            /\ UNCHANGED result
    /\ UNCHANGED <<leaseVars, engineVars, goal, snap, seen, seg, text,
                   asked, dataVars, histVars, recording>>

(* The guard comes first, so only the job that runs resets the flag. *)
StartJob(j) ==
    /\ pc[j] = "idle"
    /\ IF Kind(j) \in inProgress
       THEN /\ Goto(j, "done")
            /\ result' = [result EXCEPT ![j] = "refused"]
            /\ UNCHANGED <<wants, inProgress>>
       ELSE /\ Goto(j, "reset")
            /\ inProgress' = inProgress \cup {Kind(j)}
            /\ \E m \in BatchModels : wants' = [wants EXCEPT ![j] = m]
            /\ UNCHANGED result
    /\ UNCHANGED <<leaseVars, engineVars, goal, snap, seen, seg, text,
                   cancelled, asked, dataVars, histVars, recording>>

ResetCancelled(j) ==
    /\ pc[j] = "reset"
    /\ cancelled' = cancelled \ {Kind(j)}
    /\ asked' = asked \ {Kind(j)}
    /\ Goto(j, "prepare")
    /\ UNCHANGED <<leaseVars, engineVars, goal, snap, jobVars, inProgress,
                   dataVars, histVars, recording>>

(* Until here a cancellation can still stop the job. *)
Cancellable(j) ==
    /\ pc[j] \in {"prepare", "copy", "cut", "engine", "leased", "enrol",
                  "recheck", "asleep", "batch"} \cup ChangeLabels \cup DecodeLabels
    /\ goal[j] = "load"

(* cancel_import and cancel_retranscription, from the shell: with no job   *)
(* in progress the next start resets the flag, so that case is left out.   *)
Cancel(k) ==
    /\ k \in made \cap inProgress
    /\ cancelled' = cancelled \cup {k}
    /\ asked' = IF \E j \in Jobs : Kind(j) = k /\ Cancellable(j)
                THEN asked \cup {k} ELSE asked
    /\ UNCHANGED <<leaseVars, engineVars, procVars, jobVars, inProgress,
                   dataVars, histVars, recording>>

(* The source is missing, or the first check finds a cancellation. *)
Prepare(j) ==
    /\ pc[j] = "prepare"
    /\ \/ JobFails(j)
       \/ /\ Kind(j) \notin cancelled
          /\ Goto(j, IF j \in Imports THEN "copy" ELSE "cut")
          /\ UNCHANGED jobVars
    /\ UNCHANGED <<leaseVars, engineVars, goal, snap, flagVars, dataVars,
                   histVars, recording>>

(* Mutant: a folder that cannot be created is only logged. *)
CopyAudioAnyway(j) ==
    /\ pc[j] = "copy" /\ j \in Imports
    /\ \/ folder' = folder \cup {j} \/ UNCHANGED folder
    /\ Goto(j, "cut") /\ UNCHANGED jobVars
    /\ UNCHANGED <<leaseVars, engineVars, goal, snap, flagVars, rows,
                   transcript, histVars, recording>>

(* An import's folder, then the copy: a failed copy leaves the folder. *)
CopyAudio(j) ==
    /\ pc[j] = "copy" /\ j \in Imports
    /\ folder' = folder \cup {j}
    /\ \/ Goto(j, "cut") /\ UNCHANGED jobVars
       \/ JobFails(j)
    /\ UNCHANGED <<leaseVars, engineVars, goal, snap, flagVars, rows,
                   transcript, histVars, recording>>

(* Decode, resample and VAD on blocking threads.  Cancelled or failing     *)
(* inside a stage an import leaves its folder, cancelled at the check      *)
(* between two stages it removes it.  Without speech an import goes on     *)
(* with no segment and a retranscription fails.                            *)
CutSpeech(j) ==
    /\ pc[j] = "cut"
    /\ \/ JobFails(j) /\ UNCHANGED folder
       \/ Kind(j) \in cancelled /\ BatchFails(j)
       \/ /\ Kind(j) \notin cancelled
          /\ Goto(j, "engine")
          /\ UNCHANGED <<jobVars, folder>>
       \/ /\ Kind(j) \notin cancelled /\ j \in Imports
          /\ Goto(j, "save")
          /\ UNCHANGED <<jobVars, folder>>
    /\ UNCHANGED <<leaseVars, engineVars, goal, snap, flagVars, rows,
                   transcript, histVars, recording>>

(* get_or_init_whisper: is another model wanted than the one loaded? *)
CheckModel(j) ==
    /\ pc[j] = "engine"
    /\ seen' = [seen EXCEPT ![j] = name]
    /\ Goto(j, IF name = wants[j] THEN "batch" ELSE "leased")
    /\ UNCHANGED <<leaseVars, engineVars, goal, snap, wants, seg, text, result,
                   flagVars, dataVars, histVars, recording>>

(* The lease was found free: what the job goes on with. *)
Granted(j) ==
    /\ Goto(j, IF goal[j] = "load" THEN "loadCheck" ELSE "evict")
    /\ NoteClash(j)

(* is_live_leased: go on, reuse the live model (import only), or wait. *)
CheckLease(j) ==
    /\ pc[j] = "leased"
    /\ IF ~IsLiveLeased
       THEN Granted(j)
       ELSE /\ Goto(j, IF goal[j] = "load" /\ j \in Imports /\ seen[j] # NONE
                       THEN "batch" ELSE "enrol")
            /\ UNCHANGED clash
    /\ UNCHANGED <<leaseVars, engineVars, goal, snap, jobVars, flagVars,
                   dataVars, heard, straddled, made, recording>>

MakeNotified(j) ==
    /\ pc[j] = "enrol"
    /\ Enrol(j)
    /\ Goto(j, "recheck")
    /\ UNCHANGED <<engineVars, goal, snap, jobVars, flagVars, dataVars,
                   histVars, recording>>

RecheckLease(j) ==
    /\ pc[j] = "recheck"
    /\ IF IsLiveLeased
       THEN Goto(j, "asleep") /\ UNCHANGED <<leaseVars, clash>>
       ELSE Unenrol(j) /\ Granted(j)
    /\ UNCHANGED <<engineVars, goal, snap, jobVars, flagVars, dataVars, heard,
                   straddled, made, recording>>

Wake(j) ==
    /\ pc[j] = "asleep" /\ j \in notified
    /\ Unenrol(j)
    /\ IF IsLiveLeased
       THEN Goto(j, "enrol") /\ UNCHANGED clash
       ELSE Granted(j)
    /\ UNCHANGED <<engineVars, goal, snap, jobVars, flagVars, dataVars, heard,
                   straddled, made, recording>>

(* Mutant: the wait before the unload has no deadline. *)
LoadTimeoutOnly(j) ==
    /\ pc[j] = "asleep" /\ goal[j] = "load"
    /\ Unenrol(j)
    /\ JobFails(j)
    /\ UNCHANGED <<engineVars, goal, snap, flagVars, dataVars, histVars,
                   recording>>

(* Thirty minutes: a job gives up, an unload is skipped. *)
LeaseTimeout(j) ==
    /\ pc[j] = "asleep"
    /\ Unenrol(j)
    /\ \/ goal[j] = "load" /\ JobFails(j)
       \/ goal[j] = "unload" /\ Goto(j, "release") /\ UNCHANGED jobVars
    /\ UNCHANGED <<engineVars, goal, snap, flagVars, dataVars, histVars,
                   recording>>

(* run_batch_transcription: one turn of its loop, or the check after it. *)
BatchTurn(j) ==
    /\ pc[j] = "batch"
    /\ \/ Kind(j) \in cancelled /\ BatchFails(j)
       \/ /\ Kind(j) \notin cancelled /\ seg[j] < Segments
          /\ \/ Goto(j, "decode") /\ UNCHANGED jobVars
             \/ /\ seg' = [seg EXCEPT ![j] = @ + 1]
                /\ UNCHANGED <<pc, wants, seen, text, result>>
          /\ UNCHANGED folder
       \/ /\ Kind(j) \notin cancelled /\ seg[j] = Segments
          /\ Goto(j, "save")
          /\ UNCHANGED <<jobVars, folder>>
    /\ UNCHANGED <<leaseVars, engineVars, goal, snap, flagVars, rows,
                   transcript, histVars, recording>>

JobSucceeds(j) ==
    /\ Goto(j, "finish")
    /\ result' = [result EXCEPT ![j] = "ok"]
    /\ UNCHANGED <<wants, seen, seg, text>>

(* save_transcript: the meeting and its transcripts in one transaction. *)
SaveImport(j) ==
    /\ pc[j] = "save" /\ j \in Imports
    /\ \/ JobSucceeds(j) /\ rows' = rows \cup {j}
       \/ JobFails(j) /\ UNCHANGED rows
    /\ UNCHANGED <<leaseVars, engineVars, goal, snap, flagVars, folder,
                   transcript, histVars, recording>>

(* Mutant: a batch that gave no text replaces the transcript as well. *)
SaveRetransAlways(j) ==
    /\ pc[j] = "save" /\ j \in Retrans
    /\ \/ JobSucceeds(j) /\ transcript' = j
       \/ JobFails(j) /\ UNCHANGED transcript
    /\ UNCHANGED <<leaseVars, engineVars, goal, snap, flagVars, folder, rows,
                   histVars, recording>>

(* Never replaced by nothing; the replacement is one transaction. *)
SaveRetrans(j) ==
    /\ pc[j] = "save" /\ j \in Retrans
    /\ \/ text[j] /\ JobSucceeds(j) /\ transcript' = j
       \/ JobFails(j) /\ UNCHANGED transcript
    /\ UNCHANGED <<leaseVars, engineVars, goal, snap, flagVars, folder, rows,
                   histVars, recording>>

(* unload_engine_after_batch: not while a recording is in progress. *)
FinishJob(j) ==
    /\ pc[j] = "finish"
    /\ goal' = [goal EXCEPT ![j] = "unload"]
    /\ Goto(j, IF recording # {} THEN "release" ELSE "leased")
    /\ UNCHANGED <<leaseVars, engineVars, snap, jobVars, flagVars, dataVars,
                   histVars, recording>>

ReleaseJob(j) ==
    /\ pc[j] = "release"
    /\ inProgress' = inProgress \ {Kind(j)}
    /\ Goto(j, "done")
    /\ UNCHANGED <<leaseVars, engineVars, goal, snap, jobVars, cancelled, asked,
                   dataVars, histVars, recording>>

JobStep(j) ==
    \/ ResetCancelled(j) \/ Prepare(j) \/ CopyAudio(j) \/ CutSpeech(j)
    \/ CheckModel(j) \/ CheckLease(j) \/ MakeNotified(j) \/ RecheckLease(j)
    \/ Wake(j) \/ LeaseTimeout(j) \/ BatchTurn(j) \/ SaveImport(j)
    \/ SaveRetrans(j) \/ FinishJob(j) \/ ReleaseJob(j)
    \/ ChangeModel(j) \/ Decode(j)

Finished == \A p \in Sessions \cup Jobs : pc[p] = "done"
Terminating == Finished /\ UNCHANGED vars

Next ==
    \/ \E s \in Sessions : StartRecording(s) \/ StopRecording(s) \/ SessionStep(s)
    \/ \E w \in Live : LiveStep(w)
    \/ \E j \in Jobs : StartJob(j) \/ JobStep(j)
    \/ \E k \in Kinds : Cancel(k)
    \/ Terminating

Spec == Init /\ [][Next]_vars

(* stop() and the jobs run to their end; of the workers only the drop of a *)
(* guard or of a lock is sure to happen: a decode may hang.  Every call    *)
(* takes finitely many steps, so fairness of all of them together is       *)
(* fairness of each.                                                       *)
Fairness ==
    /\ WF_vars(\E s \in Sessions : SessionStep(s))
    /\ WF_vars(\E j \in Jobs : JobStep(j))
    /\ WF_vars(\E w \in Live : DropLease(w) \/ Notify(w) \/ ClearStep(w))

FairSpec == Spec /\ Fairness

(***************************************************************************)
(* Properties.                                                             *)
(***************************************************************************)
(* No lost wakeup in wait_until_free: a job asleep while nobody holds the  *)
(* lease has been notified, or the drop that freed it is about to notify.  *)
NoSleepOnFreeLease ==
    \A j \in Jobs : pc[j] = "asleep" /\ count = 0 =>
        \/ j \in notified
        \/ j \in enrolled /\ \E w \in Live : pc[w] = "notify"

(* What the lease is for (lease.rs:10-24): a live chunk is neither skipped *)
(* nor decoded on a batch job's model, unless a change of the model was    *)
(* already under way when the worker took the lease, or a state outlived   *)
(* its context.                                                            *)
LiveIsTranscribed ==
    ~clash /\ ~straddled =>
        \A s \in Sessions : heard[Final(s)] \in {NONE, Configured}

(* get_current_model tells what is_model_loaded tells: with nobody         *)
(* changing the model, the name is the context's.  load_model and the jobs *)
(* go by the name, the workers by the context.                             *)
NameIsTheContext ==
    ~clash /\ Changing = {} => name = ctx

(* The pool's comment (whisper_engine.rs:114-118): its states are dropped  *)
(* whenever the model changes.                                             *)
PoolIsOfTheContext ==
    ~clash /\ ~straddled /\ ~locked =>
        \A p \in Purposes : pool[p] \in {NONE, ctx}

(* cancel_import / cancel_retranscription: a job cancelled while it can    *)
(* still stop does not save, whatever another start does to the flag.      *)
CancelTakesEffect ==
    \A j \in Jobs : pc[j] = "save" => Kind(j) \notin asked

(* retranscription.rs:812-816: a retranscription that fails leaves the     *)
(* meeting exactly as it was, and what replaces it has some text.          *)
FailureKeepsTranscript ==
    \A j \in Retrans :
        transcript = j => result[j] = "ok" /\ text[j] /\ seg[j] = Segments

(* An imported meeting's folder_path exists: no cleanup after the row. *)
ImportedRowHasFolder == rows \subseteq folder

(* Every job that starts ends and lets the next one of its kind run, with  *)
(* a live worker hung on the lease too: its wait times out.                *)
JobsEnd == inProgress # {} ~> inProgress = {}

(* stop() returns, with a hung worker too: the stalled drain is aborted. *)
StopEnds ==
    (\E s \in Sessions : pc[s] = "drain")
        ~> (\A s \in Sessions : pc[s] \in {"idle", "done"})
============================================================================
