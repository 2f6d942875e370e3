# Meetily: models, checks and proofs

TLA+ models of the parts of Meetily in which several tasks, processes or windows
share state: the recording life cycle of `src/meetily-core` with what it leaves on
disk and in SQLite, the Whisper engine that live transcription and batch jobs
share, and the summaries with the helper process and the model files they run on.
TLC checks them on small instances; the TLA+ proof system proves the invariants
that matter most for every value of the constants.

| module | what it is |
| --- | --- |
| `RecordingSession` | abstract: recordings are serial and keep their own segments |
| `RecordingLifecycle` | start, stop, pause, resume, fatal error, quit and crash as overlapping calls over the globals of `recording_service.rs` |
| `MCRecordingLifecycle` | TLC instance of it (symmetry) |
| `RecordingLifecycle_proofs` | proofs about it, for any calls |
| `SerialRecording_proofs` | proofs about it, for one start and one stop at a time |
| `MeetingPersistence` | the checkpoints, `audio.mp4`, the journal, `transcripts.json`, the rows; stop's save, crashes, the recovery |
| `MeetingPersistence_proofs` | proofs about it |
| `EngineLease`, `WhisperEngine` | the live lease of `lease.rs` with its waiters; the loaded model, its name and the pool of decode states |
| `EngineSharing` | their users: sessions, live workers, import, retranscription, cancellations |
| `EngineSharing_proofs` | proofs about it |
| `BuiltinCatalog`, `LlamaHelper` | the built-in models; the helper process and its two pipes |
| `Sidecar` | the manager of the helper: `sidecar.rs` with `client.rs` |
| `Sidecar_proofs`, `SidecarFailures_proofs` | lemmas about it: types and answers; why a call fails on a pipe |
| `ModelDownloads` | downloads, cancellations, deletions and scans of model files |
| `ModelDownloads_proofs` | lemmas about it |
| `Assistant` | summary runs, extractions of action items, the summary row and the view, over `Sidecar` and `ModelDownloads` |
| `Assistant_proofs` | proofs about the composition |

## 1. The system

Meetily records meetings locally, transcribes them while they run and summarises
them afterwards. `meetily-core` holds the logic, `meetily-gpui` is the desktop
shell, `whisper-helper` and `llama-helper` are child processes for inference,
`meetily-mcp` serves the database to an agent, read-only but for
`update_summary`.

| component | state | operations | hard behaviour | what makes it correct |
| --- | --- | --- | --- | --- |
| Recording life cycle (`recording_service.rs`, `recording_phase.rs`, `recording_manager.rs`, `recording_state.rs`) | nine process globals: phase snapshot, `START_IN_PROGRESS`, `STOP_IN_PROGRESS`, `RECORDING_MANAGER`, `TRANSCRIPTION_TASK`, the bus subscriber, the SQLite writer, `PENDING_SEGMENT_BUFFER`; per manager the atomics of `RecordingState` | start, stop, pause, resume, `report_error`, quit | every call is a spawned task; a stop is triggered by a button, a fatal error or a quit; the manager is taken out of its slot and put back | one stop at a time, rows finalised once, back to Idle, nothing left behind |
| Transcript delivery (`transcription/worker.rs`, `transcript_bus.rs`) | queue, worker, subscriber | decode, publish, store | the worker outlives the capture; the manager may be out of the slot | each segment reaches its own session's saver and rows |
| Meeting folder (`recording_saver.rs`, `incremental_saver.rs`, `encode.rs`, `common.rs`) | checkpoint buffer and files, `audio.mp4`, journal, `transcripts.json`, `metadata.json` | accumulate, checkpoint, append, rebuild, finalise | three tasks beside the caller, bounded waits, ffmpeg | audio that was checkpointed and segments that were appended are never lost |
| Transcript database writer (`transcript_db_writer.rs`) | channel, batch | enqueue, flush | a failing batch is dropped | a lost batch is still in the files |
| Meeting rows, startup sweep (`repositories/meeting.rs`, `setup.rs`) | `meetings.status`, `audio_path` | create, complete, interrupt, sweep, delete | unconditional UPDATEs | a final status is kept |
| Recovery dialog (`recovery.rs`) | one offered meeting | recover, delete | may crash and be repeated | no audio is lost by recovering |
| Shell controls (`view.rs`, `tray.rs`, `main.rs`, `bootstrap.rs`) | the phase it shows | click | acts on a phase that may be old | the buttons match the state |
| Whisper engine (`whisper_engine.rs`, `lease.rs`, `models.rs`) | context, model name, state pool; lease count and waiters | load, unload, decode, acquire, wait | two fields under two locks that change one after the other; a lost wake-up | the name is the context's; a live chunk is decoded with the configured model |
| Import, retranscription (`import.rs`, `retranscription.rs`, `common.rs`) | in-progress and cancel flags, folder, rows | run, cancel | cancellation between stages, failures half way, a recording that starts meanwhile | a cancel is not lost; a failure leaves the meeting as it was; jobs end |
| Summary sidecar (`sidecar.rs`, `client.rs`, `llama-helper`) | child, stdin, stdout, model, health, shutdown flag, generation, each under its own lock | generate, time out, cancel, spawn, shut down, two loops per spawn | `spawn` and `shutdown` overlap; an answer is matched to its request by order alone | each call is given its own text; a helper does not outlive its use |
| Summary service (`service.rs`, `processor.rs`, `transcript_action_items.rs`) | cancellation registry, the row of `summary_processes` | run, cancel, store, extract | two runs on a meeting, a cancel late in a run, other writers of the row | a cancelled run does not replace a summary; the newest run can be cancelled |
| Model downloads (`download.rs`, `whisper_engine.rs`, `model_manager.rs`) | guard, cancel flag, status map, file | download, cancel, delete, scan | a retry beside a loop that has not seen the cancel; two managers, one file; a part that passes the size check | "available" means whole, but for a tolerated end; "downloading" means a download runs |
| Capture streams | error counters, thresholds | `report_error` | a stream that dies | not modelled |
| Signal processing, diarization, dedup, calendar, export, settings, views | – | – | numeric, textual or single-step | not modelled |

How they interact: the shell spawns `start`/`stop` on tokio. `start` opens a
manager (pipeline, saver, accumulation task, journal writer), inserts the row,
stores the manager in the slot, spawns the worker and installs the bus
subscriber. The worker publishes each segment on the bus; the subscriber hands it
to the SQLite writer and to the saver of the manager in the slot, or to
`PENDING_SEGMENT_BUFFER` while a stop holds the manager. `stop` flushes the
pipeline, replays the buffer, drains the worker, closes subscriber and writer,
saves, finalises the row. A process that ends in between leaves a row that the
next start sweeps to `interrupted` and the dialog offers for recovery.

A start validates the model, its workers take the lease and decode. A batch job asks
for its own model, waits for the lease when a recording holds it, and unloads the
engine at its end. A summary run registers its token, asks its provider pass by
pass, writes the row and spawns an extraction; with the built-in provider both are
calls of the one sidecar manager, on a model file the settings or the onboarding
window has downloaded. An agent at the MCP server and an edit in the shell write the
same row.

`PROJECT.json` lists all components and, under `hazards`, each place where this
code can go wrong in a way a test would hardly reach.

## 2. `RecordingLifecycle`

One action per stretch of code between two points at which another task can run
(an `.await`, or the scope of one mutex); `pc[c]` says which stretch call `c`
runs next and the label names it. `mine`, `held`, `joining`, `sawError` are the
call's locals. A manager is named by the meeting id minted for it, a segment by
its recording and its number.

* `StartClaim` … `StartRelease` is `start()`, `StopCheck` … `StopRelease` is
  `stop()` (`spawn_fatal_error_stop` and `finish_recording_for_exit` run the same
  steps with calls of their own), `PauseCheck` … `PauseAnnounce` are pause and
  resume.
* `ClickStart`/`ClickStop`/`ClickPause`/`ClickQuit` are the controls, enabled by
  the phase the shell shows.
* `FatalError` is `report_error` beyond its thresholds (fatal count, recoverable
  count). How often a stream reports is not modelled; with PipeWire streams the
  thresholds are in fact hardly reached, which the hazards record.
* `WorkerInitFails`, `WorkerFilters`, `WorkerPublishes`, `WorkerStores`,
  `WorkerEnds` are the worker; that it may store a segment while a stop holds the
  manager is why the bus callback is two steps.
* `Crash` ends the process between any two steps and starts it again with the
  sweep; `Quit` is the exit after a quit's own stop.

`stop()`'s `Err` branch (`recording_service.rs:879-886`) is unreachable:
`stop_streams_and_force_flush` logs the failures of its parts and returns `Ok`.
It is not modelled.

`RecordingSession` is the promise: `Begin` only when nothing is live, `Keep` only
that recording's segments, `End`. `Session` in `RecordingLifecycle` maps the
managers that exist to `live` and SQLite's rows to `book`.

### Runs

| run | instance | shows |
| --- | --- | --- |
| `lifecycle_session` | 2 meetings, 1 start, 1 stop, 2 segments, failing statements, crashes | types; rows that are completed are whole; the phase table; the shell's Stop finds a manager; Idle holds nothing; a segment is heard by its own session; what the bus delivered is in the saver or in the buffer; implements `RecordingSession` |
| `lifecycle_overlap` | 1 meeting, 1 segment, a start, a stop, a fatal-error stop, a quit, a pause | the guards exclude; one hand per manager; final rows stay; a stop gets back to Idle |
| `lifecycle_buffer_gap` (violation) | `SaverIsWhole` | a segment that arrives between replay and put-back misses the saved manager |
| `lifecycle_sneaking_start` (violation) | `StartKeepsManager` | a start that passed the flag check takes over the slot under a stop |
| `lifecycle_quit` (violation) | `QuitFinishesRecording` | a quit beside a running stop exits before the row is finalised |

Bounds. Two meetings make a second session after the first one, which is all that
`HeardByOwnSession`, `SerialSessions` and the left-over checks compare; two
segments give one being stored while another is decoded. One call of each kind is
enough for every pair of kinds to overlap, and each call can be used again after it
returned; with two starts the takeover of `lifecycle_sneaking_start` appears.
`lifecycle_overlap` has one meeting, and one segment so that a stop can meet a worker
in every state, also one that is just storing. Statements do not fail there; its mutual
exclusion and row results are proved for any number of calls, meetings and segments,
with failing statements.
With overlapping calls neither `TableFollowed` nor `RecordingHasManager` nor
`IdleIsQuiet` is claimed: pause moves the phase after it released the slot, a
fatal error can overwrite `Starting`, and the sneaking start exists. They are
claimed where the shell runs one start and one stop at a time.

`RowsAreFinal` is about starts, stops, quits, crashes and the sweep. The recovery
dialog turns an interrupted row into a completed one by design; that is in
`MeetingPersistence`.

Fairness: weak fairness of each call's next step, because tokio polls a spawned
task again and every await of these functions ends (device opening and file I/O
have timeouts, the drain has `STALL_LIMIT`), and of the synchronous callback
`WorkerStores`. Nothing is assumed of the worker's decoding, of the user, or of
crashes, so `StopReachesIdle` holds with a worker that is stuck for ever. `lifecycle_session`
checks safety only and assumes no fairness.

## 3. `MeetingPersistence`

One meeting with `auto_save` on whose row was inserted. Audio is counted in
chunks and the transcript in segments; a checkpoint file is the set of its
chunks; a channel to a task is the pair (sent, taken): `captured`/`taken`,
`delivered`/`appended`, `delivered`/`flushed`. `stage` is the next step of
`stop()` (`closeWriter` … `finaliseRow`, then `stopped`) or of the dialog
(`offered` … `closed`).

* `Accumulate` is the accumulation task with `add_chunk`; a checkpoint that cannot
  be written stays in the buffer. It is shut out while `finalize()` holds the lock
  of the saver.
* `JournalAppends`, `RebuildBegins`, `RebuildEnds` are the journal writer with its
  debounced rebuild, `Flush` the SQLite writer.
* `StopClosesWriter`, `StopAwaitsAudio`, `StopAwaitsJournal` wait; a wait may end
  by its timeout at any moment (time is abstracted), and `late` remembers it.
* `EncoderStarts`/`EncoderEnds` are ffmpeg with `-y`: `audio.mp4` is torn between
  the two. `StopGivesUp` is the 5 minutes; the blocking thread goes on.
* `Cleanup` is `remove_dir_all`, one file at a time.
* `Crash` is any end of the process, also a normal exit that does not wait. An
  orphaned ffmpeg sees the end of its input and may complete what it was fed.
* `Boot`, `Recover…` are the sweep and the dialog. Delete removes rows only;
  the folder is the user's.

`kept`, `partial`, `unappended` and `late` are history variables: no action reads them in a
guard. With `IoFaults`/`DbFaults` every disk operation/statement may fail.

### Runs

| run | shows |
| --- | --- |
| `persistence` | 3 chunks, 2 per checkpoint, 2 segments, all faults: what follows, through failures, timeouts, crashes and repeated recoveries |
| `persistence_torn_removal` (violation) | `AudioKept`: the process ends while the checkpoints are removed; the recovery encodes the rest over the whole `audio.mp4` |
| `persistence_journal` (violation) | `RecoveredHasJournal`: the recovery completes a meeting without replaying the journal |

* `CheckpointsKept`: checkpointed audio is in the files or in a playable
  `audio.mp4`, until an encode starts over a half-removed directory (`partial`),
  which is the defect `persistence_torn_removal` shows.
* `SavedAudioIsWhole`: a path returned by the save names all captured audio, if the
  task was drained.
* `RowAudioIsPlayable`: a row with a path names a playable file that holds it.
* `LostOnlyIfBothFailed`: a segment is lost only if SQLite refused its batch and
  its append failed too, and the waits did not time out.
* `TranscriptFilesKeep`: what the journal and `transcripts.json` hold together
  never shrinks, unless the wait for the journal writer timed out.
* `StopFinishes`: under weak fairness of stop's own steps alone; the tasks and
  ffmpeg may be stuck, since each wait has a timeout.

Bounds. Three chunks with two per checkpoint give a full checkpoint, a rest for
the last one, two files to remove one after the other, and a chunk that is written
with the next checkpoint after a failure. Two segments give a rebuild with a stale
snapshot, and a batch of one or of two. Crashes are unbounded.

## 4. `EngineSharing`

A process is a session, one of its two live workers (`Final(s)`, `Partial(s)`) or a
batch job; `pc` is the stretch of code it runs next, and a step ends at an `.await`
or at the end of a lock's scope. `WhisperEngine` keeps `ctx` (which model's weights
are loaded), `name` (`current_model`) and `pool`, with the lock that `unload_model`
keeps across its clearing; `EngineLease` keeps the count of live guards and who has
enrolled with the `Notify`.

* `LoadCheck` … `SetNameStep` is `load_model`, `EvictStep` and `ClearStep` also
  `unload_model`: run by `validate` of a start, by the final worker's own
  initialisation, by a job, by stop's `unload_model_after_recording`. `Look` and
  `LookName` are the two reads before it.
* `StartRecording` … `UnloadAfterStop` is the part of a session that touches the
  engine. `AbortWorker` is the stalled drain (the worker's task is aborted wherever
  it awaits; its guards drop), `AwaitPartial` the five seconds for the partial
  worker, whose task goes on.
* `TakeLease` … `Notify` is a live worker; `LookUpState` and `InsertState` are
  `get_or_create_state`, which reads the context before it takes the pool's lock.
* `StartJob` … `ReleaseJob` is `start_import_with` and `start_retranscription_with`,
  `MakeNotified`, `RecheckLease`, `Wake` and `LeaseTimeout` are `wait_until_free`.

Run `engine`. Scenarios: a session with an import, one with a retranscription, one
alone with previews, two imports with cancellations, an import and a retranscription
with cancellations; a live model and a batch model; one segment per batch. Each
scenario makes one pair of users meet; a third would only queue behind them, since
the lease, the flags and the engine are all that they share.

| property | what it says |
| --- | --- |
| `NoSleepOnFreeLease` | no wake-up of a waiting job is lost |
| `LiveIsTranscribed` | no live chunk is skipped or decoded with a batch job's model, but for `clash` and `straddled` |
| `NameIsTheContext`, `PoolIsOfTheContext` | name, context and pool agree whenever nobody is changing them |
| `CancelTakesEffect` | a cancel asked while a job could still stop is not lost to another start's reset of the flag |
| `FailureKeepsTranscript` | a retranscription replaces the text only when it succeeded, with text, after the last segment |
| `ImportedRowHasFolder` | a failing import never takes the folder of a meeting that has its row |
| `JobsEnd`, `StopEnds` | jobs and `stop()` end, with a hung decode too |

The exceptions are history variables and stand for what the code really does.
`clash`: two processes changed the model at once. A batch past its lease check, or the
unload at its end, can race a start's `validate`, because the check and the load are
separate steps and the worker takes the lease only later; the opt-in unload of
`stop()` asks neither the lease nor the batch; a live worker that finds another model
reloads under a running batch. The name can then be set while the context is empty:
`load_model` answers "already loaded", and every later chunk is skipped until an
unload. `straddled`: a state created from the old context was pooled after the swap,
so that later chunks decode on the old weights. Two more facts the model carries: a
failure inside a stage leaves an import's folder behind, and `recording_service.rs`
drops the handle of the partial task where its comment says it aborts it.

Fairness: `stop()`'s own steps and the jobs' steps, as tasks of the runtime; of the
workers only the drop of a guard or lock they are at. A decode may hang for ever, so
the properties rest on the stall limit and on the deadline of `wait_until_free`.
All calls are finite, so fairness of the disjunction is fairness of each.

## 5. `Sidecar`, `ModelDownloads`, `Assistant`

`Sidecar` is the manager, field by field. Each of its fields has a lock of its own;
a step ends only where something else than a short lock may be waited for: the lock of
`stdout` and of the child (both kept across an `.await`), `request_lock`, a pipe, the
exit of the process. `request_lock`, the active-request count and the two held locks
are read off from where the actors are.

* `EnsureRunning`, `TakeChild` … `EndShutdown` (`shutdown`), `SpawnHelper` …
  `PutLoops` (`spawn`), `StartRequest` … `CancelRequest` (`generate_with_builtin`,
  `send_request`, `read_response`), `HealthTick` … `PingFailed`, `IdleTick`. A
  generation retires the loops of earlier spawns.
* `LlamaHelper` reads a line, answers it, breaks on a closed pipe, ends at EOF; one
  helper per behaviour crashes or gets stuck. A `Child` that is overwritten or dropped
  is not killed: the process ends when its stdin does.
* `CancelRequest` drops the future wherever it is, with its locks, before the helper
  is stopped.

`ModelDownloads` has three managers: the engine, and the `ModelManager`s that the
settings and the onboarding window each make over the same directory. A file is the
sequence of its chunks, so that a hole, a mix of two writers and a resumed part can be
told from the whole file. The code does not compare sizes exactly: from nine tenths of
the catalogue's size on a file counts as the model, for a `ModelManager` (`RightSize`,
which looks at nothing else) up to eleven tenths, for the engine's scan
(`EngineFinds`, which also reads the magic number) without an upper limit. `Least` and
`Most` are these two sizes in chunks. `Begin` … `EndFailed` are `download_model` with
`download_file`, `CancelDownload`/`RemoveCancelled`, `DeleteModel`, and
`ScanFiles`/`StoreScan` the rest. `begin()` clears the one cancel flag of its manager
whatever name it holds; a retry is let in before the cancelled loop has ended; a scan
replaces the whole map with what it read before.

`Assistant` composes them. A run goes `Register`, `Resolve`, its passes
(`AskBuiltin`/`BuiltinAnswers`, `AskRemote`/`RemoteAnswers`), `Cleanup`, `Store`;
`Long` runs have map passes before the last one. Errors of a map pass are counted;
with none useful the run fails. The reduce rounds are part of the last pass: an error
of one ends the run in the same way. `Store` spawns an extraction, `Reextract` is the
button. `AgentWrites`, `SaveEdit` and `RefreshView` are the other writers and the
reader of the row. As in the code, every write of the service is an `UPDATE`: without
the row that only `update_summary` of the MCP server inserts, outcomes go nowhere and
the view reads "idle", so that a second run can be started beside the first. The backup that
a failure would restore is never made, hence the earlier text stays. An extraction all
of whose windows failed still replaces the earlier items by none.

The three runs are of the composition, each over its own scenarios: sets of calls,
windows and faults that may meet (a provider, which model is there, cancellations,
loops, an ailing helper, deletions, scans).

| run | shows |
| --- | --- |
| `assistant` | fourteen scenarios: summary runs and extractions, remote and built-in, with an agent, an edit, the idle and health loops, an ailing helper, and a summary whose model is being downloaded and deleted; downloads by the engine beside a window, by one window and by two, with cancellations, deletions and scans. Everything in the next table |
| `sidecar_crosstalk` (violation) | `AnswerIsOwn`, the promise of the comment on `request_lock`: a call is given the text of a cancelled one |
| `downloads_partial` (violation) | `AvailableIsWhole`, which holds if, as the doc of `download_file` says, an error removes the partial file and a later call resumes the one a cancellation leaves: a download breaks off past nine tenths, the file stays, and the next call takes it for the model |

| property | what it says |
| --- | --- |
| `OwnAnswer` | a call is given its own text, unless its helper was left with an answer (`stale`) |
| `BrokenHasCause` | no call fails on the manager's pipes unless calls met or a helper ailed |
| `HelperStops` | with the idle loop on, no helper but the current child and stuck ones stays alive |
| `RunsEnd` | every registered run ends |
| `NewestRunCancellable` | an earlier run's cleanup leaves the newest run's token alone |
| `CancelledRunKeepsSummary` | a run cancelled before its last pass was asked never writes its text |
| `AvailableIsIntact` | "available" names the whole file, or one that has passed a size check and lacks its end only, of a download that was `interrupted` or still runs; but for `meddled` files, `outdated` maps and a download about to say that it failed |
| `OneDownload` | two downloads of one manager on one model only after a cancellation (`dropped`) |
| `NoPhantomDownload` | "downloading" has a download, but for the engine after a cancellation, and late scans |
| `DownloadsEnd` | a stalled download of a built-in model is given up |

What the exceptions stand for: `stale`, a helper that still owes an answer to a call
or ping that gave up (a request's timeout and a cancellation both release their claim
on the pipe before the helper is stopped); `met`, a call that overlapped another user
of the manager (two spawns, or a spawn and a shutdown, can leave it marked healthy
without a stdin until the next health tick); `meddled`, a file on which two downloads,
two managers or a late removal met; `outdated`, a scan stored after the files had
changed; `interrupted`, a file that a cancellation, a timeout or a broken stream left
in part, until a download of it ends well: past nine tenths it is shown as available
by the next scan or by the next `download_model`, and a `ModelManager` never resumes
it (the finding of `downloads_partial`). The same sizes pass while a download still
writes, for the engine's own scan and for another window. When that download then
ends short, it removes the file before it sets the status, hence the last exception.
TLC violates the property without any one of these exceptions. `dropped`, a cancelled
download: `WhisperEngine`'s last chunk on its way sets "downloading" again and its end
does not reset it, though the comment there says the status is already reset.
Validation looks at the magic number only, and `resolve_model_path` only at the file's
existence.

Bounds: two spawns give a helper and its replacement; two runs and one extraction are
three users of one manager in the pairs that can meet; two map passes give a pass that
fails beside one that does not; three chunks of which two pass (`Size` 3, `Least` 2,
`Most` 4) give a first one with the magic number, a part that is resumed, a part that
passes, and a whole; two downloads meet on one name, of one or of two managers. The
file of more than `Most` that two which append can make is removed by a third, which is
left to the proofs. One cancellation per download behaviour and one ailing helper keep
the state space small: neither is ever undone, so that a second one meets the same
states. Two calls that overlap at the manager are checked without loops; the idle and
health loops are run with calls that follow one another only, and `HelperStops` speaks
of their overlaps with each other and with one call. For overlapping calls beside the
health loop `RunsEnd` would need more than weak fairness: a loop that pings again and
again must not overtake a call that waits for `stdout`, which tokio's first-come locks
guarantee. And since the exception `met` voids `BrokenHasCause` for every overlap,
that property says that a failed helper is not reused by a later call, and nothing of
the overlaps themselves.

Fairness: tasks are scheduled, timers fire, a helper that is not stuck gets through
its lines. Servers and users owe nothing. An LLM request has a timeout of 300 s, a
download of a built-in model 30 s per chunk and an hour in all; `WhisperEngine` sets
no timeout, and nothing is claimed of the end of its downloads.

Left out of these modules: partial writes to a full pipe, streamed chunk lines,
`force_shutdown` and `shutdown_gracefully` at exit, the live action items (same
client, no token), `summary.md` and titles, failing statements in `Store`, early
returns of `create_dir_all` and of the HTTP client's builder that leave a name in the
guard, a `try_write` of the progress callback that fails, servers without a
`Content-Length`, Ollama pulls, the diarization model. `cancel_summary` is a public
operation of the service that no control of the shell calls yet.

## 6. Proofs

`RecordingLifecycle_proofs`, from `CallsAssumption` (the kinds of calls are
disjoint, `NONE` is no meeting):

* `TypeCorrect`: `TypeOK`, strengthened by "a worker that stores has taken a
  segment".
* `GuardsCorrect`: each flag is set exactly while one call is in its section. It
  is inductive with the types; the compare-and-swap of `PhaseGuard` is where a
  second call is refused.
* `OneHandCorrect`: a meeting in the hands of a start, of the slot or of a stop has
  no final row, each manager is in one hand. Needs the guards: only the one stop
  has locals that matter.
* `RowsStayFinal`: `[]`-action property from the three. The code's UPDATEs do not
  look at the status, so this is true only because of `OneHand`.
* `LoneQuitFinishes`: `lifecycle_quit` shows a quit that exits under a user's stop with
  the row still "recording". The theorem says that this takes the other stop: with no
  `StopCalls` and no `FatalCalls`, at most one `StartCall` and no failing statements,
  `QuitFinishesRecording` holds for any number of quits, pauses, recordings and segments.
  Its invariant `QuitInv` follows the one stop there is: it finds the recording in the
  slot, has it in hand, or has saved it, and meanwhile no start gets to its slot, since
  the shell does not show Idle before the stop announces it and the flag is set after
  that; a row that says "recording" is the one of the recording at hand. A quit clicked
  before the first manager is stored exits at once, as in the code; the property, like
  the doc it quotes, is about quits that call `stop()`. TLC checked `QuitInv` with two
  quits, two recordings and a pause (243 thousand states) before it was proved.

`SerialRecording_proofs` proves the properties of the run `lifecycle_session` for any
number of recordings and segments, with failing statements, crashes and restarts. The
one hypothesis is `SerialShell`, on the constants: at most one `StartCall`
and one `StopCall` (each may be used again when it has returned), no fatal errors,
quits or pauses. TLC shows that every clause is needed: a second start, a second stop
or a quit each violate all six of the run's properties besides types and
`SaverOrBuffer`, a fatal error and a pause at least five of them. `SaverOrBuffer` falls
with a second start or a fatal error; with a second stop, a quit or a pause, and two
recordings, TLC finds no violation, which is not claimed for more. The inductive invariant `SerialInv` adds three layers to the three
invariants above, with one lemma per group of actions each:

* `StageInv`: where the two calls are determines the phase and what the slot, the
  handle of the worker, the subscriber, the writer and the streams hold. Between the
  calls nothing is left, or one whole recording runs. That no start gets past its
  checks while a stop is under way is part of it, and rests on the phase the button
  saw: the check of `STOP_IN_PROGRESS` alone would not do.
* `HandleInv`: a worker runs only while its handle is in `TRANSCRIPTION_TASK` or
  awaited by the stop.
* `WholeSoFar`: what was delivered for a row that says "recording" or "completed" was
  handed to SQLite.

`RecordingFindsManager`, `IdleReleasesAll`, `CompletedRowsAreWhole`,
`SegmentsAreHeard` and `PhaseFollowsTable` follow. `StartOwnsTheSlot` says that the
takeover `lifecycle_sneaking_start` shows needs its second start.
`ImplementsSession` is the refinement of `RecordingSession`: `Init` maps to `Init`;
opening a manager is `Begin`, storing a segment `Keep`, the stop's drop of the manager
and a crash `End`, and every other step leaves `live` and `book` alone. TLC checked
`SerialInv` on 2 recordings with 2 segments and failing statements before it was
proved (1.05 million states).

`NoSegmentIsDropped` proves `SaverOrBuffer` on top of `SerialInv`, from three facts: while
`stop()` replays the buffer the manager in its hand is the only one; a worker that stores
finds its own manager in the slot or none; `start()` makes a manager of which nothing was
delivered yet. It bounds the finding of `lifecycle_buffer_gap`: the segment that is missing
from the saved transcript was not dropped, it is still in the buffer, from where the next
stop puts it into another recording's saver. `SavesWithoutDuration` says that the
clock of every manager that is saved has been cleared: `save_recording_only`, whose doc
says that it returns "the active recording duration used to save it"
(`recording_manager.rs:259-263`), reads it after `cleanup()` (line 253) and returns `None`
from every `stop()`.

`MeetingPersistence_proofs`, from `BoundsAssumption` (the bounds are numbers):

* `TypeCorrect`: inductive as it stands, one lemma for each part of `TypeOK`.
* `CheckpointsAreKept`, by `CheckpointInv`: `CheckpointsKept` alone is not
  inductive, since a removal needs to know that `audio.mp4` is whole and an encode
  that its input is still there. The invariant adds: while an ffmpeg runs, every
  file it was given is there; while it is waited for, it was given all that is
  kept; files are removed only when `audio.mp4` plays and no ffmpeg runs; after a
  restart there is no audio in memory.
* The transcript and the saved audio of one meeting, from two more inductive
  invariants. `JournalInv`: past the wait for a writer that did not time out nothing is
  queued; a rebuild in progress is never older than the `transcripts.json` it replaces;
  what a writer took is written or refused. It gives `LostOnlyIfBothFailed` and
  `TranscriptFilesKeep`. `AudioInv`: a chunk taken is in the buffer or in a file; no
  file goes before stop()'s encode, which is given all of them; nothing has the path
  before a whole save or a whole recovery; once the row has it, nothing writes
  `audio.mp4` any more and the meeting is never offered again. It gives
  `SavedAudioIsWhole` and `RowAudioIsPlayable`.

`EngineSharing_proofs`, from `SharingAssumption` and `ModelsAssumption` (kinds of
processes are disjoint, the configured and the batch models are models). The invariant
has three layers, each inductive over the ones before it: labels and the lease (who
may be at which label; the count is the number of workers that hold a guard); the
jobs (one job of a kind in progress, its flag, its folder, its segments); the engine
(without a clash at most one process changes the model, and the fields are in the
state its label says). `Invariance` proves it for any number of sessions, jobs, models
and segments; the type invariant and the seven safety properties of the run follow.

`ModelDownloads_proofs` proves an inductive invariant of the downloads under
`DownloadsAssumption`: a running download is registered with its manager or was
cancelled; the flag and the label of a cancelled one go with a cancellation; the file
of a model nobody meddled with is a prefix of the model, and the one download that
writes it is exactly at its end. `AvailableIsIntact` needs the prefixes: a file that
passed a check of its size lacks its end only because no hole and no second writer
got into it. Three more parts follow what explains a missing end. `LetGo` and
`BrokenOff`: a download that its manager has let go of, or that failed while it wrote,
has left its model in `interrupted`. `PartHasCause`: a file that is not whole is there
or is being written. `AvailableIsLarge`: what is shown as available has at least
`Least` chunks, up to the same exceptions. The theorem holds for every `Least` and
`Most` around `Size`, so for the code's tenth.

`Sidecar_proofs` proves, under `SidecarAssumption`, that in the two pipes of a helper
that is not stale there is at most one line that belongs to a generation, that it is
of a call that waits on this helper, and that `request_lock` lets one call wait.

`SidecarFailures_proofs` is the argument for `BrokenHasCause`, which says nothing about
how it comes to hold: its inductive strengthening `FailureInv` follows a manager at
which nobody has met and no helper has failed, from step to step. A call at work is
the only actor there (`WorksAlone`). What it finds at each of its labels was left by
itself or by the last actor (`Prepared`): no `stdout` and no health before the spawn, a
running helper with empty pipes after it, its own request or its own answer in them
while it waits. Between two calls (`Rested`) the manager does not believe in its helper,
or a loop is about to disbelieve it, or it has both ends of a running one whose pipes
hold nothing but the exchange of a ping. Two facts hold whoever meets: one loop pings
at a time, and a helper that was not spawned yet has no lines.

`Assistant_proofs` shows that each step of the composition is a step of the downloads
or leaves them alone, and likewise for the manager (`ImplementsParts`), so that their
invariants carry over; and it adds that of the service (a run in the registry has registered; a success
is past its passes; a doomed run stays cancelled, is stopped before its next pass and
has a pass to go when it is in one). From `Invariance`: the types and the seven safety
properties named under `theorems` in `PROJECT.json`, for any number of runs,
extractions, helpers, models, chunks and downloads.

Every invariant, action property and refinement that a passing run checks is stated by
a theorem. Model-checked only: liveness (`StopReachesIdle`, `StopFinishes`, `JobsEnd`,
`StopEnds`, `HelperStops`, `RunsEnd`, `DownloadsEnd`), since fairness and ENABLED are
out of the prover's reach.

## 7. Not modelled, and why

* Numeric and textual code (mixing, VAD, echo cancellation, diarization,
  hallucination filter, dedup, prompts, export): one nondeterministic outcome where
  it meets the models, or left out.
* `auto_save` off: no audio is kept, the saver only discards.
* `discard_empty_session` after a start that failed: removes a folder without
  content.
* Order of checkpoint files: the model's files are sets; the code sorts names, which
  agrees below 1000 checkpoints.
* Event payloads, notifications, device selection, titles, search.
* Capture streams: with PipeWire the error thresholds are hardly reached; the effect of
  reaching one is `FatalError` in `RecordingLifecycle`.
* The whisper helper process, the level monitor, playback, the calendar: small
  sequential loops over external processes and services, without state that another
  part of the program relies on.
* The views beyond the phases they show, settings, export and onboarding: rendering,
  and single statements or files.

These are most of the lines of the repository: 12 thousand of them are views, 3
thousand diarization, and much of `audio/` is signal processing.

## 8. Plan

Done, in this order: the recording life cycle and what it leaves on disk, because
losing a recording is the worst this program can do; the engine lease with the batch
jobs; the summary sidecar with the summary service and the downloads.

1. `StreamErrors` (`recording_state.rs`, `stream.rs`, `pw/mod.rs`): what a dead stream
   reports, against the thresholds, and when a recording ends by itself.
2. Checkpoint names: `list_checkpoint_files` against numeric order, over bounded
   inputs.
3. The live action items beside a summary, on the same sidecar, and the health loop
   beside calls that overlap, with the fairness of the locks.
4. Proofs: what still holds of a recording when a second start, a fatal error or a
   pause overlaps (weaker forms of `IdleIsQuiet` and `CompletedIsWhole`; `SaverOrBuffer`
   with pauses); the condition under which a recovery misses nothing of the journal.
