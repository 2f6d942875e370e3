------------------------- MODULE RecordingLifecycle -------------------------
(***************************************************************************)
(* The recording life cycle of meetily-core: audio/recording_service.rs    *)
(* over audio/recording_phase.rs, recording_manager.rs, recording_state.rs *)
(* and transcript_bus.rs, with the meetings row of the database.           *)
(*                                                                         *)
(* Every start, stop, pause and resume is a call that the shell spawns on  *)
(* the tokio runtime, so calls overlap freely; a step of the model is the  *)
(* code between two points where another task can run (an await, or the    *)
(* scope of one mutex).  The globals of the file are the variables: the    *)
(* two PhaseGuard flags, RECORDING_MANAGER, TRANSCRIPTION_TASK, the bus    *)
(* subscriber, TRANSCRIPT_DB_WRITER and PENDING_SEGMENT_BUFFER.            *)
(*                                                                         *)
(* A recording manager is named by the meeting id minted for it.           *)
(***************************************************************************)
EXTENDS Naturals, FiniteSets

CONSTANTS
    Meetings,     \* meeting ids start() can mint (bound: recordings made)
    StartCalls,   \* calls of start() that may overlap
    StopCalls,    \* calls of stop() from the shell's Stop buttons
    FatalCalls,   \* calls of stop() spawned by spawn_fatal_error_stop
    QuitCalls,    \* calls of finish_recording_for_exit
    PauseCalls,   \* calls of pause_recording / resume_recording
    MaxChunks,    \* bound: speech segments cut from one recording
    DbFaults,     \* whether statements on the meetings row may fail
    NONE          \* Rust's Option::None

ASSUME CallsAssumption ==
    /\ StartCalls \cap (StopCalls \cup FatalCalls \cup QuitCalls \cup PauseCalls) = {}
    /\ StopCalls \cap (FatalCalls \cup QuitCalls \cup PauseCalls) = {}
    /\ FatalCalls \cap (QuitCalls \cup PauseCalls) = {}
    /\ QuitCalls \cap PauseCalls = {}
    /\ NONE \notin Meetings
    /\ MaxChunks \in Nat
    /\ DbFaults \in BOOLEAN

StopLike == StopCalls \cup FatalCalls \cup QuitCalls
Calls == StartCalls \cup StopLike \cup PauseCalls

Segments == Meetings \X (1..MaxChunks)

Phases == {"Idle", "Starting", "Recording", "Paused", "Stopping",
           "Finalising", "Error"}

RowStatus == {"none", "recording", "completed", "interrupted"}

WorkerStatus == {"none", "running", "storing", "ended", "aborted", "failed"}

(* Where a call is: the label of the code it runs next. *)
StartLabels == {"claim", "checkStop", "checkActive", "announceStarting",
                "validate", "startFailed", "open", "meetingInfo", "row",
                "store", "spawnWorker", "subscribe", "announceRecording",
                "releaseStart"}
StopLabels == {"check", "claimStop", "readPhase", "readMeeting",
               "announceStopping", "take", "flush", "replay", "putBack",
               "announceFinalising", "takeTask", "drain", "unsubscribe",
               "closeWriter", "takeForSave", "save", "finaliseRow",
               "announceIdle", "releaseStop", "exit"}
PauseLabels == {"checkPause", "pause", "announcePaused",
                "checkResume", "resume", "announceResumed"}
Labels == {"idle"} \cup StartLabels \cup StopLabels \cup PauseLabels

VARIABLES
    \* ---- audio/recording_phase.rs: PHASE_STATE
    phase,        \* the canonical phase
    info,         \* PHASE_STATE.meeting_id
    \* ---- audio/recording_service.rs: the globals
    startFlag,    \* START_IN_PROGRESS
    stopFlag,     \* STOP_IN_PROGRESS
    slot,         \* RECORDING_MANAGER
    task,         \* TRANSCRIPTION_TASK: whose worker the handle is of
    subscriber,   \* transcript_bus::SUBSCRIBER: the meeting_id it captured
    writer,       \* TRANSCRIPT_DB_WRITER: whose session opened it
    pending,      \* PENDING_SEGMENT_BUFFER
    \* ---- recording_manager.rs / recording_state.rs, per manager
    recording,    \* managers whose is_recording atomic is set
    paused,       \* managers whose is_paused atomic is set
    clocked,      \* managers whose recording_start is Some
    capturing,    \* managers with open streams and a running pipeline
    errored,      \* managers whose errored atomic is set
    saved,        \* saved[m]: segments in the RecordingSaver of manager m
    \* ---- the transcription worker of each recording
    worker, spoken, decoded,
    delivered,    \* segments whose publish on the bus found a subscriber
    \* ---- the database
    db,           \* <<meeting_id, segment>> handed to the SQLite writer
    rows,         \* rows[m]: status of the meetings row
    \* ---- the calls: where each one is, and its locals
    pc,
    mine,         \* the call's meeting_id (meeting_id_for_stop in stop())
    held,         \* the manager a stop() has taken out of the slot
    joining,      \* the worker whose handle a stop() awaits
    sawError,     \* was_fatal_error of a stop()
    minted        \* meetings whose recording was opened

phaseVars == <<phase, info>>
globals   == <<startFlag, stopFlag, slot, task, subscriber, writer, pending>>
managers  == <<recording, paused, clocked, capturing, errored, saved>>
workers   == <<worker, spoken, decoded, delivered>>
database  == <<db, rows>>
locals    == <<mine, held, joining, sawError>>
vars == <<phaseVars, globals, managers, workers, database, pc, locals, minted>>

-----------------------------------------------------------------------------
(* Helpers *)

OnlyPc == UNCHANGED <<phaseVars, globals, managers, workers, database, locals, minted>>

Goto(c, l) == pc' = [pc EXCEPT ![c] = l]

(* recording_phase::apply, by way of emit_phase: the transition table only *)
(* warns, so any phase may follow any other; Idle clears the meeting info. *)
EmitPhase(p) ==
    /\ phase' = p
    /\ info' = IF p = "Idle" THEN NONE ELSE info

(* is_recording(): read through the manager in the slot. *)
IsRecording == slot # NONE /\ slot \in recording

(* The managers that exist: still owned by their start(), in the slot, or  *)
(* taken out of it by a stop().                                            *)
OwnedByStart(c) ==
    /\ c \in StartCalls
    /\ pc[c] \in {"meetingInfo", "row", "store"}
Live ==
    {mine[c] : c \in {d \in StartCalls : OwnedByStart(d)}}
        \cup (({slot} \cup {held[c] : c \in StopLike}) \ {NONE})

Init ==
    /\ phase = "Idle" /\ info = NONE
    /\ startFlag = FALSE /\ stopFlag = FALSE
    /\ slot = NONE /\ task = NONE /\ subscriber = NONE /\ writer = NONE
    /\ pending = {}
    /\ recording = {} /\ paused = {} /\ clocked = {} /\ capturing = {}
    /\ errored = {}
    /\ saved = [m \in Meetings |-> {}]
    /\ worker = [m \in Meetings |-> "none"]
    /\ spoken = [m \in Meetings |-> 0]
    /\ decoded = [m \in Meetings |-> 0]
    /\ delivered = {}
    /\ pc = [c \in Calls |-> "idle"]
    /\ mine = [c \in Calls |-> NONE]
    /\ held = [c \in StopLike |-> NONE]
    /\ joining = [c \in StopLike |-> NONE]
    /\ sawError = [c \in StopLike |-> FALSE]
    /\ db = {}
    /\ rows = [m \in Meetings |-> "none"]
    /\ minted = {}

-----------------------------------------------------------------------------
(* The shell spawns calls.  A button is enabled by the phase the shell last *)
(* saw, and the spawned call may run at any later time.                     *)

ClickStart(c) ==
    /\ pc[c] = "idle"
    /\ phase \in {"Idle", "Error"}
    /\ minted # Meetings                         \* bound on recordings
    /\ Goto(c, "claim")
    /\ OnlyPc

ClickStop(c) ==
    /\ pc[c] = "idle"
    /\ phase \in {"Recording", "Paused"}
    /\ Goto(c, "check")
    /\ OnlyPc

ClickPause(c) ==
    /\ pc[c] = "idle"
    /\ \/ phase = "Recording" /\ Goto(c, "checkPause")
       \/ phase = "Paused" /\ Goto(c, "checkResume")
    /\ OnlyPc

(* request_quit, once (QUIT_STARTED): finish_recording_for_exit runs stop() *)
(* only if a recording is active or a stop is in progress, and the process  *)
(* exits afterwards.                                                        *)
ClickQuit(c) ==
    /\ \A d \in QuitCalls : pc[d] = "idle"
    /\ Goto(c, IF IsRecording \/ stopFlag THEN "check" ELSE "exit")
    /\ OnlyPc

(* report_error reaches a fatal error on a stream thread: errored.swap, the *)
(* phase goes to Error and the callback spawns stop().  report_error itself *)
(* is modelled: the PipeWire streams that call it today give up after two   *)
(* recoverable reports, short of its thresholds.                            *)
FatalError(m, c) ==
    /\ m \in capturing \ errored
    /\ pc[c] = "idle"
    /\ errored' = errored \cup {m}
    /\ EmitPhase("Error")
    /\ Goto(c, "check")
    /\ UNCHANGED <<globals, recording, paused, clocked, capturing, saved,
                   workers, database, locals, minted>>

-----------------------------------------------------------------------------
(* start() *)

(* begin_start_phase: PhaseGuard::try_acquire on START_IN_PROGRESS. *)
StartClaim(c) ==
    /\ pc[c] = "claim"
    /\ IF startFlag
       THEN Goto(c, "idle") /\ UNCHANGED startFlag
       ELSE Goto(c, "checkStop") /\ startFlag' = TRUE
    /\ UNCHANGED <<phaseVars, stopFlag, slot, task, subscriber, writer, pending,
                   managers, workers, database, locals, minted>>

StartCheckStop(c) ==
    /\ pc[c] = "checkStop"
    /\ Goto(c, IF stopFlag THEN "releaseStart" ELSE "checkActive")
    /\ OnlyPc

StartCheckActive(c) ==
    /\ pc[c] = "checkActive"
    /\ Goto(c, IF IsRecording THEN "releaseStart" ELSE "announceStarting")
    /\ OnlyPc

StartAnnounceStarting(c) ==
    /\ pc[c] = "announceStarting"
    /\ EmitPhase("Starting")
    /\ Goto(c, "validate")
    /\ UNCHANGED <<globals, managers, workers, database, locals, minted>>

(* validate_transcription_model *)
StartValidate(c) ==
    /\ pc[c] = "validate"
    /\ \/ Goto(c, "open")
       \/ Goto(c, "startFailed")
    /\ OnlyPc

StartFailed(c) ==
    /\ pc[c] = "startFailed"
    /\ EmitPhase("Idle")
    /\ Goto(c, "releaseStart")
    /\ UNCHANGED <<globals, managers, workers, database, locals, minted>>

(* A new manager with a fresh meeting id; RecordingManager::start_recording *)
(* opens the streams, or abort_failed_start() closes everything again (the  *)
(* id of a failed start is never seen, so it is not counted).               *)
StartOpen(c) ==
    /\ pc[c] = "open"
    /\ \/ \E m \in Meetings \ minted :
            /\ minted' = minted \cup {m}
            /\ recording' = recording \cup {m}
            /\ clocked' = clocked \cup {m}
            /\ capturing' = capturing \cup {m}
            /\ mine' = [mine EXCEPT ![c] = m]
            /\ Goto(c, "meetingInfo")
       \/ /\ Goto(c, "startFailed")
          /\ UNCHANGED <<minted, recording, clocked, capturing, mine>>
    /\ UNCHANGED <<phaseVars, globals, paused, errored, saved, workers, database,
                   held, joining, sawError>>

StartMeetingInfo(c) ==
    /\ pc[c] = "meetingInfo"
    /\ info' = mine[c]
    /\ Goto(c, "row")
    /\ UNCHANGED <<phase, globals, managers, workers, database, locals, minted>>

(* create_recording_meeting and TranscriptDbWriter::start; the insert is    *)
(* best effort, and without a pool there is neither row nor writer.         *)
StartRow(c) ==
    /\ pc[c] = "row"
    /\ \/ rows' = [rows EXCEPT ![mine[c]] = "recording"] /\ writer' = mine[c]
       \/ DbFaults /\ UNCHANGED rows /\ writer' = mine[c]
       \/ DbFaults /\ UNCHANGED <<rows, writer>>
    /\ Goto(c, "store")
    /\ UNCHANGED <<phaseVars, startFlag, stopFlag, slot, task, subscriber, pending,
                   managers, workers, db, locals, minted>>

(* Assigning the slot drops whatever manager it held, and its streams. *)
StartStore(c) ==
    /\ pc[c] = "store"
    /\ slot' = mine[c]
    /\ capturing' = capturing \ {slot}
    /\ Goto(c, "spawnWorker")
    /\ UNCHANGED <<phaseVars, startFlag, stopFlag, task, subscriber, writer, pending,
                   recording, paused, clocked, errored, saved,
                   workers, database, locals, minted>>

(* After the await of init_speaker_diarizer. *)
StartSpawnWorker(c) ==
    /\ pc[c] = "spawnWorker"
    /\ worker' = [worker EXCEPT ![mine[c]] = "running"]
    /\ task' = mine[c]
    /\ Goto(c, "subscribe")
    /\ UNCHANGED <<phaseVars, startFlag, stopFlag, slot, subscriber, writer, pending,
                   managers, spoken, decoded, delivered, database, locals, minted>>

StartSubscribe(c) ==
    /\ pc[c] = "subscribe"
    /\ subscriber' = mine[c]
    /\ Goto(c, "announceRecording")
    /\ UNCHANGED <<phaseVars, startFlag, stopFlag, slot, task, writer, pending,
                   managers, workers, database, locals, minted>>

StartAnnounceRecording(c) ==
    /\ pc[c] = "announceRecording"
    /\ EmitPhase("Recording")
    /\ Goto(c, "releaseStart")
    /\ UNCHANGED <<globals, managers, workers, database, locals, minted>>

(* Drop of the guard: start() returns, with or without an error. *)
StartRelease(c) ==
    /\ pc[c] = "releaseStart"
    /\ startFlag' = FALSE
    /\ mine' = [mine EXCEPT ![c] = NONE]
    /\ Goto(c, "idle")
    /\ UNCHANGED <<phaseVars, stopFlag, slot, task, subscriber, writer, pending,
                   managers, workers, database, held, joining, sawError, minted>>

StartStep(c) ==
    \/ StartClaim(c) \/ StartCheckStop(c) \/ StartCheckActive(c)
    \/ StartAnnounceStarting(c) \/ StartValidate(c) \/ StartFailed(c)
    \/ StartOpen(c) \/ StartMeetingInfo(c) \/ StartRow(c) \/ StartStore(c)
    \/ StartSpawnWorker(c) \/ StartSubscribe(c) \/ StartAnnounceRecording(c)
    \/ StartRelease(c)

-----------------------------------------------------------------------------
(* stop() *)

(* What the caller does when stop() returns: a quit exits the process. *)
Returned(c) == IF c \in QuitCalls THEN "exit" ELSE "idle"

StopCheck(c) ==
    /\ pc[c] = "check"
    /\ Goto(c, IF slot = NONE /\ ~stopFlag THEN Returned(c) ELSE "claimStop")
    /\ OnlyPc

(* Mutant: the flag is set without comparing it first. *)
StopClaimUnchecked(c) ==
    /\ pc[c] = "claimStop"
    /\ stopFlag' = TRUE
    /\ Goto(c, "readPhase")
    /\ UNCHANGED <<phaseVars, startFlag, slot, task, subscriber, writer, pending,
                   managers, workers, database, locals, minted>>

(* PhaseGuard::try_acquire on STOP_IN_PROGRESS. *)
StopClaim(c) ==
    /\ pc[c] = "claimStop"
    /\ IF stopFlag
       THEN Goto(c, Returned(c)) /\ UNCHANGED stopFlag
       ELSE Goto(c, "readPhase") /\ stopFlag' = TRUE
    /\ UNCHANGED <<phaseVars, startFlag, slot, task, subscriber, writer, pending,
                   managers, workers, database, locals, minted>>

StopReadPhase(c) ==
    /\ pc[c] = "readPhase"
    /\ sawError' = [sawError EXCEPT ![c] = phase = "Error"]
    /\ Goto(c, "readMeeting")
    /\ UNCHANGED <<phaseVars, globals, managers, workers, database,
                   mine, held, joining, minted>>

StopReadMeeting(c) ==
    /\ pc[c] = "readMeeting"
    /\ mine' = [mine EXCEPT ![c] = slot]
    /\ Goto(c, "announceStopping")
    /\ UNCHANGED <<phaseVars, globals, managers, workers, database,
                   held, joining, sawError, minted>>

(* Mutant: stop() does not announce Stopping. *)
StopAnnounceNothing(c) ==
    /\ pc[c] = "announceStopping"
    /\ Goto(c, "take")
    /\ OnlyPc

StopAnnounceStopping(c) ==
    /\ pc[c] = "announceStopping"
    /\ EmitPhase("Stopping")
    /\ Goto(c, "take")
    /\ UNCHANGED <<globals, managers, workers, database, locals, minted>>

StopTake(c) ==
    /\ pc[c] = "take"
    /\ held' = [held EXCEPT ![c] = slot]
    /\ slot' = NONE
    /\ Goto(c, IF slot = NONE THEN "announceFinalising" ELSE "flush")
    /\ UNCHANGED <<phaseVars, startFlag, stopFlag, task, subscriber, writer, pending,
                   managers, workers, database, mine, joining, sawError, minted>>

(* Mutant: the worker is awaited while the streams still feed it. *)
StopFlushJoinsWorker(c) ==
    /\ pc[c] = "flush"
    /\ worker[held[c]] \notin {"running", "storing"}
    /\ LET m == held[c] IN
        /\ recording' = recording \ {m}
        /\ paused' = paused \ {m}
        /\ capturing' = capturing \ {m}
        /\ clocked' = clocked \ {m}
        /\ errored' = errored \ {m}
        /\ \E tail \in 0..1 :
            /\ spoken[m] + tail <= MaxChunks
            /\ spoken' = [spoken EXCEPT ![m] = @ + tail]
    /\ Goto(c, "replay")
    /\ UNCHANGED <<phaseVars, globals, saved, worker, decoded, delivered,
                   database, locals, minted>>

(* stop_streams_and_force_flush: stop_recording, the streams and pipeline   *)
(* stop with whatever speech they still held, then RecordingState::cleanup. *)
StopFlush(c) ==
    /\ pc[c] = "flush"
    /\ LET m == held[c] IN
        /\ recording' = recording \ {m}
        /\ paused' = paused \ {m}
        /\ capturing' = capturing \ {m}
        /\ clocked' = clocked \ {m}
        /\ errored' = errored \ {m}
        /\ \E tail \in 0..1 :
            /\ spoken[m] + tail <= MaxChunks
            /\ spoken' = [spoken EXCEPT ![m] = @ + tail]
    /\ Goto(c, "replay")
    /\ UNCHANGED <<phaseVars, globals, saved, worker, decoded, delivered,
                   database, locals, minted>>

(* replay_buffered_segments, under the lock of PENDING_SEGMENT_BUFFER. *)
StopReplay(c) ==
    /\ pc[c] = "replay"
    /\ saved' = [saved EXCEPT ![held[c]] = @ \cup pending]
    /\ pending' = {}
    /\ Goto(c, "putBack")
    /\ UNCHANGED <<phaseVars, startFlag, stopFlag, slot, task, subscriber, writer,
                   recording, paused, clocked, capturing, errored,
                   workers, database, locals, minted>>

StopPutBack(c) ==
    /\ pc[c] = "putBack"
    /\ slot' = held[c]
    /\ capturing' = capturing \ {slot}
    /\ held' = [held EXCEPT ![c] = NONE]
    /\ Goto(c, "announceFinalising")
    /\ UNCHANGED <<phaseVars, startFlag, stopFlag, task, subscriber, writer, pending,
                   recording, paused, clocked, errored, saved,
                   workers, database, mine, joining, sawError, minted>>

(* Mutant: stop() does not announce Finalising. *)
StopSkipsFinalising(c) ==
    /\ pc[c] = "announceFinalising"
    /\ Goto(c, "takeTask")
    /\ OnlyPc

StopAnnounceFinalising(c) ==
    /\ pc[c] = "announceFinalising"
    /\ EmitPhase("Finalising")
    /\ Goto(c, "takeTask")
    /\ UNCHANGED <<globals, managers, workers, database, locals, minted>>

(* Mutant: the SQLite writer is shut down before the drain. *)
StopTakeTaskAndWriter(c) ==
    /\ pc[c] = "takeTask"
    /\ joining' = [joining EXCEPT ![c] = task]
    /\ task' = NONE
    /\ writer' = NONE
    /\ Goto(c, "drain")
    /\ UNCHANGED <<phaseVars, startFlag, stopFlag, slot, subscriber, pending,
                   managers, workers, database, mine, held, sawError, minted>>

StopTakeTask(c) ==
    /\ pc[c] = "takeTask"
    /\ joining' = [joining EXCEPT ![c] = task]
    /\ task' = NONE
    /\ Goto(c, "drain")
    /\ UNCHANGED <<phaseVars, startFlag, stopFlag, slot, subscriber, writer, pending,
                   managers, workers, database, mine, held, sawError, minted>>

(* Mutant: the worker is not awaited. *)
StopDoesNotDrain(c) ==
    /\ pc[c] = "drain"
    /\ joining' = [joining EXCEPT ![c] = NONE]
    /\ Goto(c, "unsubscribe")
    /\ UNCHANGED <<phaseVars, globals, managers, workers, database,
                   mine, held, sawError, minted>>

(* The awaited worker is done (or there was none to wait for). *)
StopDrained(c) ==
    /\ pc[c] = "drain"
    /\ joining[c] # NONE => worker[joining[c]] \in {"ended", "failed"}
    /\ joining' = [joining EXCEPT ![c] = NONE]
    /\ Goto(c, "unsubscribe")
    /\ UNCHANGED <<phaseVars, globals, managers, workers, database,
                   mine, held, sawError, minted>>

(* The queue has not shrunk for STALL_LIMIT: abort() the worker, which ends *)
(* at its next await.                                                       *)
StopDrainStalled(c) ==
    /\ pc[c] = "drain"
    /\ joining[c] # NONE
    /\ worker[joining[c]] = "running"
    /\ worker' = [worker EXCEPT ![joining[c]] = "aborted"]
    /\ joining' = [joining EXCEPT ![c] = NONE]
    /\ Goto(c, "unsubscribe")
    /\ UNCHANGED <<phaseVars, globals, managers, spoken, decoded, delivered,
                   database, mine, held, sawError, minted>>

(* Mutant: the bus subscriber is left behind. *)
StopKeepsSubscriber(c) ==
    /\ pc[c] = "unsubscribe"
    /\ Goto(c, "closeWriter")
    /\ OnlyPc

StopUnsubscribe(c) ==
    /\ pc[c] = "unsubscribe"
    /\ subscriber' = NONE
    /\ Goto(c, "closeWriter")
    /\ UNCHANGED <<phaseVars, startFlag, stopFlag, slot, task, writer, pending,
                   managers, workers, database, locals, minted>>

StopCloseWriter(c) ==
    /\ pc[c] = "closeWriter"
    /\ writer' = NONE
    /\ Goto(c, "takeForSave")
    /\ UNCHANGED <<phaseVars, startFlag, stopFlag, slot, task, subscriber, pending,
                   managers, workers, database, locals, minted>>

StopTakeForSave(c) ==
    /\ pc[c] = "takeForSave"
    /\ held' = [held EXCEPT ![c] = slot]
    /\ slot' = NONE
    /\ Goto(c, "save")
    /\ UNCHANGED <<phaseVars, startFlag, stopFlag, task, subscriber, writer, pending,
                   managers, workers, database, mine, joining, sawError, minted>>

(* save_recording_only; the manager is dropped at the end of the block. *)
StopSave(c) ==
    /\ pc[c] = "save"
    /\ held' = [held EXCEPT ![c] = NONE]
    /\ recording' = recording \ {held[c]}
    /\ capturing' = capturing \ {held[c]}
    /\ Goto(c, "finaliseRow")
    /\ UNCHANGED <<phaseVars, globals, paused, clocked, errored, saved, workers,
                   database, mine, joining, sawError, minted>>

(* An UPDATE of a row that was never inserted changes nothing. *)
StopFinaliseRow(c) ==
    /\ pc[c] = "finaliseRow"
    /\ \/ /\ mine[c] # NONE
          /\ rows[mine[c]] # "none"
          /\ rows' = [rows EXCEPT ![mine[c]] =
                         IF sawError[c] THEN "interrupted" ELSE "completed"]
       \/ /\ mine[c] # NONE /\ rows[mine[c]] # "none" => DbFaults
          /\ UNCHANGED rows
    /\ Goto(c, "announceIdle")
    /\ UNCHANGED <<phaseVars, globals, managers, workers, db, locals, minted>>

StopAnnounceIdle(c) ==
    /\ pc[c] = "announceIdle"
    /\ EmitPhase("Idle")
    /\ Goto(c, "releaseStop")
    /\ UNCHANGED <<globals, managers, workers, database, locals, minted>>

StopRelease(c) ==
    /\ pc[c] = "releaseStop"
    /\ stopFlag' = FALSE
    /\ mine' = [mine EXCEPT ![c] = NONE]
    /\ sawError' = [sawError EXCEPT ![c] = FALSE]
    /\ Goto(c, Returned(c))
    /\ UNCHANGED <<phaseVars, startFlag, slot, task, subscriber, writer, pending,
                   managers, workers, database, held, joining, minted>>

StopStep(c) ==
    \/ StopCheck(c) \/ StopClaim(c) \/ StopReadPhase(c) \/ StopReadMeeting(c)
    \/ StopAnnounceStopping(c) \/ StopTake(c) \/ StopFlush(c) \/ StopReplay(c)
    \/ StopPutBack(c) \/ StopAnnounceFinalising(c) \/ StopTakeTask(c)
    \/ StopDrained(c) \/ StopDrainStalled(c) \/ StopUnsubscribe(c)
    \/ StopCloseWriter(c) \/ StopTakeForSave(c) \/ StopSave(c)
    \/ StopFinaliseRow(c) \/ StopAnnounceIdle(c) \/ StopRelease(c)

-----------------------------------------------------------------------------
(* pause_recording() and resume_recording() *)

PauseCheck(c) ==
    /\ \/ /\ pc[c] = "checkPause"
          /\ Goto(c, IF IsRecording THEN "pause" ELSE "idle")
       \/ /\ pc[c] = "checkResume"
          /\ Goto(c, IF IsRecording THEN "resume" ELSE "idle")
    /\ OnlyPc

(* RecordingState::pause_recording under the lock of the slot. *)
Pause(c) ==
    /\ pc[c] = "pause"
    /\ IF IsRecording /\ slot \notin paused
       THEN Goto(c, "announcePaused") /\ paused' = paused \cup {slot}
       ELSE Goto(c, "idle") /\ UNCHANGED paused
    /\ UNCHANGED <<phaseVars, globals, recording, clocked, capturing, errored, saved,
                   workers, database, locals, minted>>

Resume(c) ==
    /\ pc[c] = "resume"
    /\ IF IsRecording /\ slot \in paused
       THEN Goto(c, "announceResumed") /\ paused' = paused \ {slot}
       ELSE Goto(c, "idle") /\ UNCHANGED paused
    /\ UNCHANGED <<phaseVars, globals, recording, clocked, capturing, errored, saved,
                   workers, database, locals, minted>>

(* The phase is moved after the lock of the slot is released. *)
PauseAnnounce(c) ==
    /\ \/ pc[c] = "announcePaused" /\ EmitPhase("Paused")
       \/ pc[c] = "announceResumed" /\ EmitPhase("Recording")
    /\ Goto(c, "idle")
    /\ UNCHANGED <<globals, managers, workers, database, locals, minted>>

PauseStep(c) == PauseCheck(c) \/ Pause(c) \/ Resume(c) \/ PauseAnnounce(c)

-----------------------------------------------------------------------------
(* The pipeline and the transcription worker of manager m *)

(* The VAD closes a speech segment and queues it for transcription. *)
Speak(m) ==
    /\ m \in (capturing \cap recording) \ paused
    /\ spoken[m] < MaxChunks
    /\ spoken' = [spoken EXCEPT ![m] = @ + 1]
    /\ UNCHANGED <<phaseVars, globals, managers, worker, decoded, delivered,
                   database, pc, locals, minted>>

NextSegment(m) == <<m, decoded[m] + 1>>

(* The engine cannot be initialised: the worker returns, and the segments   *)
(* queued for it are never transcribed.                                     *)
WorkerInitFails(m) ==
    /\ worker[m] = "running"
    /\ decoded[m] = 0
    /\ worker' = [worker EXCEPT ![m] = "failed"]
    /\ UNCHANGED <<phaseVars, globals, managers, spoken, decoded, delivered,
                   database, pc, locals, minted>>

(* Mutant: the worker does not notice that the queue is empty. *)
WorkerFiltersNothing(m) ==
    /\ worker[m] = "running"
    /\ decoded[m] < MaxChunks
    /\ decoded' = [decoded EXCEPT ![m] = @ + 1]
    /\ UNCHANGED <<phaseVars, globals, managers, worker, spoken, delivered,
                   database, pc, locals, minted>>

(* process_chunk drops it: too short, low confidence, hallucination, echo,  *)
(* or no model loaded.                                                      *)
WorkerFilters(m) ==
    /\ worker[m] = "running"
    /\ decoded[m] < spoken[m]
    /\ decoded' = [decoded EXCEPT ![m] = @ + 1]
    /\ UNCHANGED <<phaseVars, globals, managers, worker, spoken, delivered,
                   database, pc, locals, minted>>

(* transcript_bus::publish calls the subscriber it found, which first hands *)
(* the segment to the SQLite writer under the meeting_id it captured ...    *)
WorkerPublishes(m) ==
    /\ worker[m] = "running"
    /\ decoded[m] < spoken[m]
    /\ decoded' = [decoded EXCEPT ![m] = @ + 1]
    /\ delivered' = IF subscriber = NONE THEN delivered
                    ELSE delivered \cup {NextSegment(m)}
    /\ db' = IF subscriber # NONE /\ writer # NONE
             THEN db \cup {<<subscriber, NextSegment(m)>>}
             ELSE db
    /\ worker' = [worker EXCEPT ![m] = IF subscriber = NONE THEN @ ELSE "storing"]
    /\ UNCHANGED <<phaseVars, globals, managers, spoken, rows, pc, locals, minted>>

(* Mutant: a segment that finds the manager out of the slot is dropped.     *)
WorkerStoresInSlotOnly(m) ==
    /\ worker[m] = "storing"
    /\ worker' = [worker EXCEPT ![m] = "running"]
    /\ saved' = IF slot = NONE THEN saved
                ELSE [saved EXCEPT ![slot] = @ \cup {<<m, decoded[m]>>}]
    /\ UNCHANGED <<phaseVars, globals, recording, paused, clocked, capturing, errored,
                   spoken, decoded, delivered, database, pc, locals, minted>>

(* ... and then to the manager in the slot, or to the buffer if it is out.  *)
WorkerStores(m) ==
    /\ worker[m] = "storing"
    /\ worker' = [worker EXCEPT ![m] = "running"]
    /\ IF slot # NONE
       THEN /\ saved' = [saved EXCEPT ![slot] = @ \cup {<<m, decoded[m]>>}]
            /\ UNCHANGED pending
       ELSE /\ pending' = pending \cup {<<m, decoded[m]>>}
            /\ UNCHANGED saved
    /\ UNCHANGED <<phaseVars, startFlag, stopFlag, slot, task, subscriber, writer,
                   recording, paused, clocked, capturing, errored,
                   spoken, decoded, delivered, database, pc, locals, minted>>

(* The pipeline dropped its sender and the queue is empty. *)
WorkerEnds(m) ==
    /\ worker[m] = "running"
    /\ m \notin capturing
    /\ decoded[m] = spoken[m]
    /\ worker' = [worker EXCEPT ![m] = "ended"]
    /\ UNCHANGED <<phaseVars, globals, managers, spoken, decoded, delivered,
                   database, pc, locals, minted>>

WorkerStep(m) ==
    \/ WorkerInitFails(m) \/ WorkerFilters(m) \/ WorkerPublishes(m)
    \/ WorkerStores(m) \/ WorkerEnds(m)

-----------------------------------------------------------------------------
(* mark_stale_recording_meetings_interrupted *)
SweptWhateverStatus == [m \in Meetings |->
    IF rows[m] = "none" THEN "none" ELSE "interrupted"]   \* mutant: no WHERE

Swept == [m \in Meetings |->
    IF rows[m] = "recording" THEN "interrupted" ELSE rows[m]]

(* The process ends and the application is started again: every static is   *)
(* back at its initial value, and prepare_database_on_startup sweeps the    *)
(* rows that are still "recording".                                         *)
Restart ==
    /\ phase' = "Idle" /\ info' = NONE
    /\ startFlag' = FALSE /\ stopFlag' = FALSE
    /\ slot' = NONE /\ task' = NONE /\ subscriber' = NONE /\ writer' = NONE
    /\ pending' = {}
    /\ recording' = {} /\ paused' = {} /\ clocked' = {} /\ capturing' = {}
    /\ errored' = {}
    /\ saved' = [m \in Meetings |-> {}]
    /\ worker' = [m \in Meetings |-> "none"]
    /\ spoken' = [m \in Meetings |-> 0]
    /\ decoded' = [m \in Meetings |-> 0]
    /\ delivered' = {}
    /\ pc' = [c \in Calls |-> "idle"]
    /\ mine' = [c \in Calls |-> NONE]
    /\ held' = [c \in StopLike |-> NONE]
    /\ joining' = [c \in StopLike |-> NONE]
    /\ sawError' = [c \in StopLike |-> FALSE]
    /\ rows' = Swept
    /\ UNCHANGED <<db, minted>>

Crash == Restart

Quit(c) == pc[c] = "exit" /\ Restart

-----------------------------------------------------------------------------

Clicks ==
    \/ \E c \in StartCalls : ClickStart(c)
    \/ \E c \in StopCalls : ClickStop(c)
    \/ \E c \in PauseCalls : ClickPause(c)
    \/ \E c \in QuitCalls : ClickQuit(c)
    \/ \E m \in Meetings, c \in FatalCalls : FatalError(m, c)

Next ==
    \/ Clicks
    \/ \E c \in StartCalls : StartStep(c)
    \/ \E c \in StopLike : StopStep(c)
    \/ \E c \in PauseCalls : PauseStep(c)
    \/ \E m \in Meetings : Speak(m) \/ WorkerStep(m)
    \/ \E c \in QuitCalls : Quit(c)
    \/ Crash

(* The tokio runtime polls every spawned task again, and every await of     *)
(* start() and stop() ends: device opening and file I/O have timeouts, and  *)
(* the drain is ended by its stall limit even if the worker never moves.    *)
(* Nothing is assumed of the worker, of the user or of crashes.             *)
Fairness ==
    /\ \A c \in StartCalls : WF_vars(StartStep(c))
    /\ \A c \in StopLike : WF_vars(StopStep(c))
    /\ \A c \in PauseCalls : WF_vars(PauseStep(c))
    /\ \A m \in Meetings : WF_vars(WorkerStores(m))

Spec == Init /\ [][Next]_vars
FairSpec == Spec /\ Fairness

-----------------------------------------------------------------------------
(* Properties of every overlap of calls *)

(* The states the variables range over; a worker never takes more segments  *)
(* off its channel than the pipeline queued.                                *)
TypeOK ==
    /\ phase \in Phases /\ info \in Meetings \cup {NONE}
    /\ startFlag \in BOOLEAN /\ stopFlag \in BOOLEAN
    /\ slot \in Meetings \cup {NONE} /\ task \in Meetings \cup {NONE}
    /\ subscriber \in Meetings \cup {NONE} /\ writer \in Meetings \cup {NONE}
    /\ pending \subseteq Segments
    /\ recording \subseteq Meetings /\ paused \subseteq Meetings
    /\ clocked \subseteq Meetings /\ capturing \subseteq Meetings
    /\ errored \subseteq Meetings
    /\ saved \in [Meetings -> SUBSET Segments]
    /\ worker \in [Meetings -> WorkerStatus]
    /\ spoken \in [Meetings -> 0..MaxChunks]
    /\ decoded \in [Meetings -> 0..MaxChunks]
    /\ \A m \in Meetings : decoded[m] <= spoken[m]
    /\ delivered \subseteq Segments
    /\ db \subseteq Meetings \X Segments
    /\ rows \in [Meetings -> RowStatus]
    /\ pc \in [Calls -> Labels]
    /\ mine \in [Calls -> Meetings \cup {NONE}]
    /\ held \in [StopLike -> Meetings \cup {NONE}]
    /\ joining \in [StopLike -> Meetings \cup {NONE}]
    /\ sawError \in [StopLike -> BOOLEAN]
    /\ minted \subseteq Meetings

(* The PhaseGuard flags are held by exactly one call, and by the call that  *)
(* is inside the section they guard: two stops never drain and save at the  *)
(* same time, and neither flag is left set after its call has returned.     *)
StartHolds(c) == pc[c] \in StartLabels \ {"claim"}
StopHolds(c) == pc[c] \in StopLabels \ {"check", "claimStop", "exit"}

GuardsExclusive ==
    /\ startFlag <=> \E c \in StartCalls : StartHolds(c)
    /\ stopFlag <=> \E c \in StopLike : StopHolds(c)
    /\ \A c, d \in StartCalls : StartHolds(c) /\ StartHolds(d) => c = d
    /\ \A c, d \in StopLike : StopHolds(c) /\ StopHolds(d) => c = d

(* mark_meeting_completed and mark_meeting_interrupted update a row          *)
(* whatever its status, yet whichever stops, quits, crashes and sweeps      *)
(* follow, the status a row is finalised with is the one it keeps.          *)
RowsAreFinal ==
    [][\A m \in Meetings :
          rows[m] \in {"completed", "interrupted"} => rows'[m] = rows[m]]_vars

(* A stop that has begun gets back to Idle, so that a new recording can be  *)
(* started: even if the transcription worker never makes progress again,    *)
(* and whatever quits, pauses and fatal errors do meanwhile.  The guards    *)
(* are refused rather than waited for, and the drain has its stall limit.   *)
StopReachesIdle == phase = "Stopping" ~> phase = "Idle"

(* Why RowsAreFinal holds: a meeting that a start, the slot or a stop still  *)
(* has in hand has no final row yet, and every manager is in one hand only. *)
StopsMeeting(c) ==
    StopHolds(c) /\ pc[c] \notin {"readPhase", "readMeeting", "announceIdle", "releaseStop"}

MintedFirst ==
    /\ slot \in minted \cup {NONE}
    /\ \A c \in Calls : mine[c] \in minted \cup {NONE}
    /\ \A c \in StopLike : held[c] \in minted \cup {NONE}
    /\ \A m \in Meetings \ minted : rows[m] = "none"

StartOwnsFresh ==
    \A c \in StartCalls : OwnedByStart(c) =>
        /\ mine[c] \in minted
        /\ rows[mine[c]] \in (IF pc[c] = "store" THEN {"none", "recording"} ELSE {"none"})
        /\ slot # mine[c]
        /\ \A d \in StopLike : held[d] # mine[c] /\ mine[d] # mine[c]

StopOwnsHeld ==
    \A c \in StopLike :
        /\ held[c] # NONE => pc[c] \in {"flush", "replay", "putBack", "save"}
        /\ mine[c] # NONE => StopHolds(c)

OpenRows ==
    /\ slot # NONE => rows[slot] \in {"none", "recording"}
    /\ \A c \in StopLike :
        /\ held[c] # NONE => rows[held[c]] \in {"none", "recording"}
        /\ StopsMeeting(c) /\ mine[c] # NONE =>
               /\ rows[mine[c]] \in {"none", "recording"}
               /\ pc[c] \in {"save", "finaliseRow"} => slot # mine[c]

OneHand == MintedFirst /\ StartOwnsFresh /\ StopOwnsHeld /\ OpenRows

-----------------------------------------------------------------------------
(* Properties of a shell that runs one start() and one stop() at a time *)

(* One start() and one stop() at a time, from the buttons: no fatal error   *)
(* or quit that stops on its own account, no pause whose announcement comes *)
(* late.  With a second call of any of these kinds some of the properties   *)
(* below fail.                                                              *)
SerialShell ==
    /\ \A c, d \in StartCalls : c = d
    /\ \A c, d \in StopCalls : c = d
    /\ FatalCalls = {} /\ QuitCalls = {} /\ PauseCalls = {}

(* A segment the worker publishes after its session subscribed is heard by  *)
(* that session's own subscriber: stop() unsubscribes only when the worker  *)
(* has drained, and no later session's subscriber gets a late segment.      *)
HeardByOwnSession ==
    [][\A m \in Meetings :
          WorkerPublishes(m) =>
              \/ subscriber = m
              \/ \E c \in StartCalls : pc[c] = "subscribe" /\ mine[c] = m]_vars

(* When the row of a meeting says "completed" and its worker drained, every *)
(* segment the bus delivered was handed to SQLite under that meeting.       *)
CompletedIsWhole ==
    \A m \in Meetings :
        rows[m] = "completed" /\ worker[m] = "ended" =>
            \A s \in delivered : s[1] = m => <<m, s>> \in db

(* The transition table in the documentation of next_phase: apply() never   *)
(* refuses a transition, so it is the order of the calls' steps that makes  *)
(* the phase follow it.                                                     *)
Table ==
    {<<"Idle", "Starting">>, <<"Starting", "Recording">>, <<"Starting", "Idle">>,
     <<"Recording", "Paused">>, <<"Recording", "Stopping">>,
     <<"Paused", "Recording">>, <<"Paused", "Stopping">>,
     <<"Stopping", "Finalising">>, <<"Finalising", "Idle">>,
     <<"Error", "Stopping">>, <<"Error", "Idle">>}
        \cup {<<p, "Error">> : p \in Phases}

TableFollowed ==
    [][phase' = phase \/ <<phase, phase'>> \in Table \/ Restart]_vars

(* While the shell shows a recording (and so enables Stop), there is a       *)
(* manager for stop() to find: its "was not active" return is never taken   *)
(* by the user's Stop.                                                      *)
RecordingHasManager == phase \in {"Recording", "Paused"} => slot # NONE

(* Idle means everything was released: no manager, no open microphone, no   *)
(* worker, no subscriber and no SQLite writer is left behind.               *)
IdleIsQuiet ==
    phase = "Idle" =>
        /\ Live = {} /\ capturing = {}
        /\ task = NONE /\ subscriber = NONE /\ writer = NONE
        /\ \A m \in Meetings : worker[m] \notin {"running", "storing"}

(* PENDING_SEGMENT_BUFFER is there so that no segment is "silently dropped" *)
(* while stop() has the manager out of the slot: until the manager is gone, *)
(* a segment the bus delivered for its meeting is in its saver or in the    *)
(* buffer, but for the one segment its worker is storing at the moment.     *)
SaverOrBuffer ==
    \A m \in Live : \A s \in delivered :
        s[1] = m => \/ s \in saved[m] \cup pending
                    \/ worker[m] = "storing" /\ s[2] = decoded[m]

(* The service implements serial recordings: a recording begins only when   *)
(* no other one is live, and what is kept for a meeting is written while    *)
(* its recording is live and comes from that recording.                     *)
Session == INSTANCE RecordingSession WITH
    live <- Live,
    past <- minted \ Live,
    book <- [m \in Meetings |-> {s \in Segments : <<m, s>> \in db}]

SerialSessions == Session!Spec

-----------------------------------------------------------------------------
(* What the documentation says and the code does not do *)

(* STOP_IN_PROGRESS is held so that "a start that sneaks in" cannot take    *)
(* over the manager slot: a start that is about to store its manager is the *)
(* only owner of one.                                                       *)
StartKeepsManager ==
    \A c \in StartCalls : pc[c] = "store" => Live = {mine[c]}

(* PENDING_SEGMENT_BUFFER: what arrives while the manager is out of the     *)
(* slot is replayed into it as soon as it is back, so the manager that is   *)
(* saved has every segment its drained worker delivered.                    *)
SaverIsWhole ==
    \A c \in StopLike :
        pc[c] = "save" /\ held[c] # NONE /\ worker[held[c]] = "ended" =>
            \A s \in delivered : s[1] = held[c] => s \in saved[held[c]]

(* request_quit finishes any active recording with the full stop flow       *)
(* before the process exits: when the stop() it called returns and no       *)
(* start() is under way, no row is still "recording".                       *)
QuitFinishesRecording ==
    [][\A c \in QuitCalls :
          /\ pc[c] \notin {"idle", "exit"}
          /\ pc'[c] = "exit"
          /\ ~startFlag
          => \A m \in Meetings : rows[m] # "recording"]_vars

=============================================================================
