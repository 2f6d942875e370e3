------------------------- MODULE MeetingPersistence -------------------------
(***************************************************************************)
(* What is kept of one recorded meeting, and where: the audio checkpoints  *)
(* and audio.mp4 (audio/incremental_saver.rs), the transcript journal and  *)
(* transcripts.json (audio/recording_saver.rs over audio/common.rs), the   *)
(* transcript rows (audio/transcript_db_writer.rs) and the meetings row,   *)
(* through a recording, stop()'s save, a crash between any two steps, the  *)
(* startup sweep and the shell's recovery dialog, which may crash too.     *)
(*                                                                         *)
(* auto_save is on (without it there is no audio to keep).  Audio is       *)
(* counted in chunks, the transcript in segments, both numbered from 1.    *)
(* Three tasks run beside the caller: the accumulation task, the journal   *)
(* writer and the SQLite writer; stop() waits for each of them, but only   *)
(* for a while.                                                            *)
(***************************************************************************)
EXTENDS Naturals, FiniteSets

CONSTANTS
    MaxAudio,      \* bound: audio chunks captured
    Interval,      \* chunks that fill a checkpoint (30 s of audio)
    MaxSegments,   \* bound: transcript segments delivered
    IoFaults,      \* whether writing, encoding or removing a file may fail
    DbFaults       \* whether a statement on the database may fail

ASSUME BoundsAssumption ==
    /\ MaxAudio \in Nat
    /\ Interval \in Nat \ {0}
    /\ MaxSegments \in Nat
    /\ IoFaults \in BOOLEAN
    /\ DbFaults \in BOOLEAN

Chunks == 1..MaxAudio
Segments == 1..MaxSegments

(* The step of stop(), or of the recovery dialog, that comes next. *)
StopStages == {"closeWriter", "awaitAudio", "awaitJournal", "writeTranscripts",
               "dropJournal", "lastCheckpoint", "encode", "encoding", "cleanup",
               "metadata", "finaliseRow"}
RecoveryStages == {"offered", "recoverEncode", "recoverEncoding",
                   "recoverCleanup", "recoverMark"}
Stages == {"recording", "stopped", "down", "closed"} \cup StopStages \cup RecoveryStages

VARIABLES
    stage,
    \* ---- audio
    captured,     \* chunks the pipeline has sent to the accumulation task
    taken,        \* chunks that task has received
    buffer,       \* IncrementalAudioSaver.checkpoint_buffer
    dir,          \* whether .checkpoints/ exists
    files,        \* the checkpoint files, each the set of its chunks
    kept,         \* history: chunks that were ever in a checkpoint file
    partial,      \* history: an encode was started after some, not all, of
                  \* the files had been removed
    mp4,          \* audio.mp4: "none", "torn" (being written) or "playable"
    mp4Audio,     \* the chunks in a playable audio.mp4
    encoder,      \* whether an ffmpeg is writing audio.mp4
    encoding,     \* the chunks it was given
    \* ---- transcript
    delivered,    \* segments delivered to the saver and the SQLite writer
    appended,     \* segments the journal writer has taken off its channel
    dirty,        \* its dirty flag
    rebuilding,   \* whether it is in rebuild_transcripts_json
    snapshot,     \* the segments 1..snapshot that rebuild copied
    ndjson,       \* the segments in transcripts.ndjson
    unappended,   \* history: segments whose append to it failed
    json,         \* transcripts.json holds the segments 1..json
    flushed,      \* segments the SQLite writer has taken off its channel
    dbRows,       \* the meeting's rows in the transcripts table
    refused,      \* segments of batches that SQLite refused
    \* ---- the meetings row
    row,          \* status
    path,         \* whether audio_path is set
    \* ---- locals of stop() and of the recovery
    fatal,        \* was_fatal_error
    result,       \* final_audio_path / audio_path is Some
    late          \* history: waits of stop() that timed out

audio      == <<captured, taken, buffer, dir, files, kept, partial>>
mixdown    == <<mp4, mp4Audio, encoder, encoding>>
journal    == <<appended, dirty, rebuilding, snapshot, ndjson, unappended, json>>
sqlite     == <<flushed, dbRows, refused>>
meeting    == <<row, path>>
locals     == <<fatal, result, late>>
vars == <<stage, audio, mixdown, delivered, journal, sqlite, meeting, locals>>

Up == stage # "down"

Init ==
    /\ stage = "recording"
    /\ captured = 0 /\ taken = 0 /\ buffer = {} /\ dir = TRUE /\ files = {}
    /\ kept = {} /\ partial = FALSE
    /\ mp4 = "none" /\ mp4Audio = {} /\ encoder = FALSE /\ encoding = {}
    /\ delivered = 0
    /\ appended = 0 /\ dirty = FALSE /\ rebuilding = FALSE /\ snapshot = 0
    /\ ndjson = {} /\ unappended = {} /\ json = 0
    /\ flushed = 0 /\ dbRows = {} /\ refused = {}
    /\ row = "recording" /\ path = FALSE
    /\ fatal = FALSE /\ result = FALSE /\ late = {}

-----------------------------------------------------------------------------
(* Audio while recording *)

Capture ==
    /\ stage = "recording"
    /\ captured < MaxAudio
    /\ captured' = captured + 1
    /\ UNCHANGED <<stage, taken, buffer, dir, files, kept, partial, mixdown,
                   delivered, journal, sqlite, meeting, locals>>

(* finalize() holds the lock of the saver from its last checkpoint to the   *)
(* removal of the directory.                                                *)
SaverLocked == stage \in {"encode", "encoding", "cleanup"}

(* save_checkpoint: a .part file renamed into place, so it is there whole   *)
(* or not at all.                                                           *)
SaveCheckpoint(b) ==
    /\ dir
    /\ files' = files \cup {b}
    /\ kept' = kept \cup b

(* Mutant: one more chunk is taken off a channel that is drained. *)
AccumulateUndrained ==
    /\ Up /\ ~SaverLocked
    /\ taken' = taken + 1
    /\ buffer' = buffer \cup {taken + 1}
    /\ UNCHANGED <<stage, captured, dir, files, kept, partial, mixdown, delivered, journal,
                   sqlite, meeting, locals>>

(* Mutant: the buffer is cleared even if the checkpoint was not written. *)
AccumulateClearsAlways ==
    /\ Up /\ ~SaverLocked
    /\ taken < captured
    /\ taken' = taken + 1
    /\ LET b == buffer \cup {taken + 1} IN
        \/ /\ Cardinality(b) < Interval
           /\ buffer' = b
           /\ UNCHANGED <<files, kept>>
        \/ /\ Cardinality(b) >= Interval
           /\ buffer' = {}
           /\ SaveCheckpoint(b) \/ (IoFaults /\ UNCHANGED <<files, kept>>)
    /\ UNCHANGED <<stage, captured, dir, partial, mixdown, delivered, journal,
                   sqlite, meeting, locals>>

(* The accumulation task receives a chunk: add_chunk.  A checkpoint that    *)
(* could not be written stays in the buffer and goes into the next one.     *)
Accumulate ==
    /\ Up /\ ~SaverLocked
    /\ taken < captured
    /\ taken' = taken + 1
    /\ LET b == buffer \cup {taken + 1} IN
        \/ /\ Cardinality(b) < Interval
           /\ buffer' = b
           /\ UNCHANGED <<files, kept>>
        \/ /\ Cardinality(b) >= Interval
           /\ SaveCheckpoint(b)
           /\ buffer' = {}
        \/ /\ Cardinality(b) >= Interval
           /\ IoFaults \/ ~dir
           /\ buffer' = b
           /\ UNCHANGED <<files, kept>>
    /\ UNCHANGED <<stage, captured, dir, partial, mixdown, delivered, journal,
                   sqlite, meeting, locals>>

-----------------------------------------------------------------------------
(* The transcript while recording *)

(* The bus subscriber: TranscriptDbWriter::enqueue, then                    *)
(* RecordingSaver::add_transcript_segment.                                  *)
Deliver ==
    /\ stage = "recording"
    /\ delivered < MaxSegments
    /\ delivered' = delivered + 1
    /\ UNCHANGED <<stage, audio, mixdown, journal, sqlite, meeting, locals>>

JournalAppends ==
    /\ Up /\ ~rebuilding
    /\ appended < delivered
    /\ appended' = appended + 1
    /\ dirty' = TRUE
    /\ \/ ndjson' = ndjson \cup {appended + 1} /\ UNCHANGED unappended
       \/ IoFaults /\ unappended' = unappended \cup {appended + 1} /\ UNCHANGED ndjson
    /\ UNCHANGED <<stage, audio, mixdown, delivered, rebuilding, snapshot, json,
                   sqlite, meeting, locals>>

(* The debounce timer fires on an empty channel that is still open (select! *)
(* is biased towards the channel): rebuild_transcripts_json copies the      *)
(* segments under their lock ...                                            *)
RebuildBegins ==
    /\ stage \in {"recording", "closeWriter", "awaitAudio"}
    /\ dirty /\ ~rebuilding
    /\ appended = delivered
    /\ rebuilding' = TRUE
    /\ snapshot' = delivered
    /\ UNCHANGED <<stage, audio, mixdown, delivered, appended, dirty, ndjson, unappended,
                   json, sqlite, meeting, locals>>

(* ... and a blocking thread renames the new transcripts.json into place.   *)
RebuildEnds ==
    /\ Up /\ rebuilding
    /\ rebuilding' = FALSE /\ snapshot' = 0
    /\ dirty' = FALSE
    /\ \/ json' = snapshot
       \/ IoFaults /\ UNCHANGED json
    /\ UNCHANGED <<stage, audio, mixdown, delivered, appended, ndjson, unappended,
                   sqlite, meeting, locals>>

(* flush: a batch is written in one transaction, or dropped. *)
Flush ==
    /\ Up
    /\ flushed < delivered
    /\ \E n \in (flushed + 1)..delivered :
        /\ flushed' = n
        /\ \/ dbRows' = dbRows \cup (flushed + 1)..n /\ UNCHANGED refused
           \/ DbFaults /\ refused' = refused \cup (flushed + 1)..n /\ UNCHANGED dbRows
    /\ UNCHANGED <<stage, audio, mixdown, delivered, journal, meeting, locals>>

-----------------------------------------------------------------------------
(* stop(): every wait is bounded by a timeout, and whatever fails, the row   *)
(* is finalised in the end.                                                  *)

(* The streams are down, the worker is drained and the bus subscriber gone. *)
StopBegins ==
    /\ stage = "recording"
    /\ stage' = "closeWriter"
    /\ fatal' \in BOOLEAN
    /\ UNCHANGED <<audio, mixdown, delivered, journal, sqlite, meeting, result, late>>

(* A wait for a task: it ends when the task is done, or after 5 s. *)
Await(who, done) ==
    \/ done /\ UNCHANGED late
    \/ ~done /\ late' = late \cup {who}

StopClosesWriter ==
    /\ stage = "closeWriter"
    /\ Await("writer", flushed = delivered)
    /\ stage' = "awaitAudio"
    /\ UNCHANGED <<audio, mixdown, delivered, journal, sqlite, meeting, fatal, result>>

(* Mutant: the accumulation task is joined without a timeout. *)
StopJoinsAudio ==
    /\ stage = "awaitAudio"
    /\ taken = captured
    /\ stage' = "awaitJournal"
    /\ UNCHANGED <<audio, mixdown, delivered, journal, sqlite, meeting, locals>>

StopAwaitsAudio ==
    /\ stage = "awaitAudio"
    /\ Await("audio", taken = captured)
    /\ stage' = "awaitJournal"
    /\ UNCHANGED <<audio, mixdown, delivered, journal, sqlite, meeting, fatal, result>>

(* Mutant: the journal writer is told to stop but not waited for. *)
StopLeavesJournal ==
    /\ stage = "awaitJournal"
    /\ stage' = "writeTranscripts"
    /\ UNCHANGED <<audio, mixdown, delivered, journal, sqlite, meeting, locals>>

(* stop_journal_writer drops the sender and joins the task. *)
StopAwaitsJournal ==
    /\ stage = "awaitJournal"
    /\ Await("journal", appended = delivered /\ ~rebuilding)
    /\ stage' = "writeTranscripts"
    /\ UNCHANGED <<audio, mixdown, delivered, journal, sqlite, meeting, fatal, result>>

(* Mutant: a transcripts.json that could not be written is only logged. *)
StopWritesTranscriptsOrNot ==
    /\ stage = "writeTranscripts"
    /\ stage' = "dropJournal"
    /\ \/ json' = delivered
       \/ IoFaults /\ UNCHANGED json
    /\ UNCHANGED <<audio, mixdown, delivered, appended, dirty, rebuilding, snapshot,
                   ndjson, unappended, sqlite, meeting, locals>>

(* write_transcripts_json; its failure ends stop_and_save, audio included. *)
StopWritesTranscripts ==
    /\ stage = "writeTranscripts"
    /\ \/ json' = delivered /\ stage' = "dropJournal"
       \/ IoFaults /\ stage' = "finaliseRow" /\ UNCHANGED json
    /\ UNCHANGED <<audio, mixdown, delivered, appended, dirty, rebuilding, snapshot,
                   ndjson, unappended, sqlite, meeting, locals>>

(* The journal is removed once transcripts.json supersedes it. *)
StopDropsJournal ==
    /\ stage = "dropJournal"
    /\ stage' = "lastCheckpoint"
    /\ \/ ndjson' = {}
       \/ IoFaults /\ UNCHANGED ndjson
    /\ UNCHANGED <<audio, mixdown, delivered, appended, dirty, rebuilding, snapshot,
                   unappended, json, sqlite, meeting, locals>>

(* finalize: the rest of the buffer becomes the last checkpoint. *)
StopSavesLastCheckpoint ==
    /\ stage = "lastCheckpoint"
    /\ \/ /\ buffer # {}
          /\ SaveCheckpoint(buffer)
          /\ buffer' = {}
          /\ stage' = "encode"
       \/ /\ buffer # {} /\ IoFaults
          /\ stage' = "finaliseRow"
          /\ UNCHANGED <<buffer, files, kept>>
       \/ /\ buffer = {}
          /\ stage' = IF files = {} THEN "finaliseRow" ELSE "encode"
          /\ UNCHANGED <<buffer, files, kept>>
    /\ UNCHANGED <<captured, taken, dir, partial, mixdown, delivered, journal, sqlite,
                   meeting, locals>>

(* encode_checkpoints, or recover_audio_from_checkpoints: ffmpeg -y starts  *)
(* audio.mp4 anew from all the files there are; without ffmpeg, nothing.    *)
EncoderStarts(next, failed) ==
    /\ \/ /\ encoder' = TRUE
          /\ encoding' = UNION files
          /\ mp4' = "torn" /\ mp4Audio' = {}
          /\ partial' = (partial \/ kept # UNION files)
          /\ stage' = next
       \/ /\ IoFaults
          /\ stage' = failed
          /\ UNCHANGED <<mixdown, partial>>
    /\ UNCHANGED <<captured, taken, buffer, dir, files, kept, delivered, journal, sqlite, meeting,
                   locals>>

StopStartsEncoder == stage = "encode" /\ EncoderStarts("encoding", "finaliseRow")

(* Mutant: ffmpeg's exit status is not looked at. *)
EncoderAlwaysSucceeds ==
    /\ encoder
    /\ encoder' = FALSE /\ encoding' = {}
    /\ \/ mp4' = "playable" /\ mp4Audio' = encoding
       \/ IoFaults /\ UNCHANGED <<mp4, mp4Audio>>
    /\ CASE stage = "encoding" -> stage' = "cleanup" /\ UNCHANGED result
         [] stage = "recoverEncoding" -> stage' = "recoverCleanup" /\ result' = TRUE
         [] OTHER -> UNCHANGED <<stage, result>>
    /\ UNCHANGED <<audio, delivered, journal, sqlite, meeting, fatal, late>>

(* ffmpeg exits.  stop() or the recovery goes on, unless stop() gave up on  *)
(* it: the blocking thread outlives the wait.                               *)
EncoderEnds ==
    /\ encoder
    /\ encoder' = FALSE /\ encoding' = {}
    /\ \/ /\ mp4' = "playable" /\ mp4Audio' = encoding
          /\ CASE stage = "encoding" -> stage' = "cleanup" /\ UNCHANGED result
               [] stage = "recoverEncoding" -> stage' = "recoverCleanup" /\ result' = TRUE
               [] OTHER -> UNCHANGED <<stage, result>>
       \/ /\ IoFaults
          /\ stage' = CASE stage = "encoding" -> "finaliseRow"
                        [] stage = "recoverEncoding" -> "recoverMark"
                        [] OTHER -> stage
          /\ UNCHANGED <<mp4, mp4Audio, result>>
    /\ UNCHANGED <<audio, delivered, journal, sqlite, meeting, fatal, late>>

(* The 5 minutes stop() gives to save_recording_only. *)
StopGivesUp ==
    /\ stage = "encoding"
    /\ stage' = "finaliseRow"
    /\ late' = late \cup {"encoder"}
    /\ UNCHANGED <<audio, mixdown, delivered, journal, sqlite, meeting, fatal, result>>

(* remove_dir_all(.checkpoints), by finalize or by cleanup_checkpoints: one *)
(* file at a time.  Its failure, before or after some file, is only logged. *)
Cleanup(next) ==
    /\ \/ files' = {} /\ dir' = FALSE /\ stage' = next
       \/ /\ \E f \in files : files' = files \ {f}
          /\ UNCHANGED <<dir, stage>>
       \/ IoFaults /\ stage' = next /\ UNCHANGED <<files, dir>>
    /\ UNCHANGED <<captured, taken, buffer, kept, partial, mixdown, delivered, journal,
                   sqlite, meeting, locals>>

StopCleansUp == stage = "cleanup" /\ Cleanup("metadata")

(* metadata.json; stop_and_save returns the audio path only if it is saved. *)
StopWritesMetadata ==
    /\ stage = "metadata"
    /\ stage' = "finaliseRow"
    /\ \/ result' = TRUE
       \/ IoFaults /\ UNCHANGED result
    /\ UNCHANGED <<audio, mixdown, delivered, journal, sqlite, meeting, fatal, late>>

StopFinalisesRow ==
    /\ stage = "finaliseRow"
    /\ stage' = "stopped"
    /\ \/ fatal /\ row' = "interrupted" /\ UNCHANGED path
       \/ ~fatal /\ row' = "completed" /\ path' = result
       \/ DbFaults /\ UNCHANGED <<row, path>>
    /\ UNCHANGED <<audio, mixdown, delivered, journal, sqlite, locals>>

StopStep ==
    \/ StopClosesWriter \/ StopAwaitsAudio \/ StopAwaitsJournal
    \/ StopWritesTranscripts \/ StopDropsJournal \/ StopSavesLastCheckpoint
    \/ StopStartsEncoder \/ StopGivesUp \/ StopCleansUp \/ StopWritesMetadata
    \/ StopFinalisesRow

-----------------------------------------------------------------------------
(* The process ends, by a crash, a kill or an exit, and is started again.    *)

(* Everything in memory is gone, queued or not.  An ffmpeg that is orphaned *)
(* sees the end of its input, and completes audio.mp4 with what it was fed. *)
Crash ==
    /\ Up
    /\ stage' = "down"
    /\ taken' = captured /\ buffer' = {}
    /\ encoder' = FALSE /\ encoding' = {}
    /\ \/ UNCHANGED <<mp4, mp4Audio>>
       \/ /\ encoder
          /\ mp4' = "playable"
          /\ \E n \in 0..MaxAudio : mp4Audio' = encoding \cap 1..n
    /\ appended' = delivered /\ dirty' = FALSE
    /\ rebuilding' = FALSE /\ snapshot' = 0
    /\ flushed' = delivered
    /\ fatal' = FALSE /\ result' = FALSE
    /\ UNCHANGED <<captured, dir, files, kept, partial, delivered, ndjson,
                   unappended, json, dbRows, refused, meeting, late>>

(* mark_stale_recording_meetings_interrupted, then check_on_startup lists   *)
(* the interrupted meetings.                                                *)
Boot ==
    /\ stage = "down"
    /\ \/ row' = IF row = "recording" THEN "interrupted" ELSE row
       \/ DbFaults /\ UNCHANGED row
    /\ stage' = IF row' = "interrupted" THEN "offered" ELSE "closed"
    /\ UNCHANGED <<audio, mixdown, delivered, journal, sqlite, path, locals>>

-----------------------------------------------------------------------------
(* The recovery dialog of the shell: one meeting, one button at a time       *)

(* The user chooses Recover: has_audio_checkpoints. *)
RecoverChecks ==
    /\ stage = "offered"
    /\ \/ files # {} /\ stage' = "recoverEncode"
       \/ (files = {} \/ IoFaults) /\ stage' = "recoverMark"
    /\ UNCHANGED <<audio, mixdown, delivered, journal, sqlite, meeting, locals>>

RecoverStartsEncoder ==
    stage = "recoverEncode" /\ EncoderStarts("recoverEncoding", "recoverMark")

(* Mutant: the checkpoints are cleaned up although the encode failed. *)
RecoverCleansUpAnyway ==
    /\ stage \in {"recoverCleanup", "recoverMark"}
    /\ Cleanup("recoverMark")

RecoverCleansUp == stage = "recoverCleanup" /\ Cleanup("recoverMark")

(* mark_meeting_completed, whether or not there was audio to recover. *)
RecoverMarks ==
    /\ stage = "recoverMark"
    /\ \/ /\ row' = "completed"
          /\ path' = result
          /\ stage' = "closed"
       \/ /\ DbFaults
          /\ stage' = "offered"
          /\ UNCHANGED meeting
    /\ result' = FALSE
    /\ UNCHANGED <<audio, mixdown, delivered, journal, sqlite, fatal, late>>

(* The user chooses Delete: delete_meeting, in one transaction. *)
RecoverDeletes ==
    /\ stage = "offered"
    /\ row' = "deleted" /\ path' = FALSE
    /\ dbRows' = {}
    /\ stage' = "closed"
    /\ UNCHANGED <<audio, mixdown, delivered, journal, flushed, refused, locals>>

-----------------------------------------------------------------------------
Recording == Capture \/ Deliver
Tasks == Accumulate \/ JournalAppends \/ RebuildBegins \/ RebuildEnds \/ Flush
Recovery == RecoverChecks \/ RecoverStartsEncoder \/ RecoverCleansUp
                \/ RecoverMarks \/ RecoverDeletes

Next == Recording \/ Tasks \/ StopBegins \/ StopStep \/ EncoderEnds
            \/ Crash \/ Boot \/ Recovery

Spec == Init /\ [][Next]_vars

(* stop() runs on: each of its waits ends, at the latest by its timeout.    *)
(* No task, no ffmpeg and no user is assumed to make progress.              *)
FairSpec == Spec /\ WF_vars(StopStep)

-----------------------------------------------------------------------------
(* Properties *)

Transcribed == ndjson \cup 1..json
Playable == IF mp4 = "playable" THEN mp4Audio ELSE {}

AudioTyped ==
    /\ captured \in 0..MaxAudio /\ taken \in 0..captured
    /\ buffer \subseteq Chunks /\ kept \subseteq Chunks
    /\ files \subseteq SUBSET Chunks
    /\ dir \in BOOLEAN /\ partial \in BOOLEAN

MixdownTyped ==
    /\ mp4 \in {"none", "torn", "playable"}
    /\ mp4Audio \subseteq Chunks /\ encoding \subseteq Chunks
    /\ encoder \in BOOLEAN

TranscriptTyped ==
    /\ delivered \in 0..MaxSegments
    /\ appended \in 0..delivered /\ flushed \in 0..delivered
    /\ snapshot \in 0..delivered /\ json \in 0..delivered
    /\ dirty \in BOOLEAN /\ rebuilding \in BOOLEAN
    /\ ndjson \subseteq Segments /\ unappended \subseteq Segments
    /\ dbRows \subseteq Segments /\ refused \subseteq Segments

LocalsTyped ==
    /\ stage \in Stages
    /\ row \in {"recording", "completed", "interrupted", "deleted"}
    /\ path \in BOOLEAN
    /\ fatal \in BOOLEAN /\ result \in BOOLEAN
    /\ late \subseteq {"writer", "audio", "journal", "encoder"}

(* The values the variables take. *)
TypeOK == AudioTyped /\ MixdownTyped /\ TranscriptTyped /\ LocalsTyped

(* Audio that reached a checkpoint file is kept: it is in the files, or in  *)
(* an audio.mp4 that plays, whatever fails or ends in between.              *)
AudioKept == kept \subseteq (UNION files) \cup Playable

(* So it is through every failure of a disk operation and every crash of    *)
(* the recording, of stop() and of the recovery, until a half-removed       *)
(* directory is encoded again over the whole audio.mp4.                     *)
CheckpointsKept == ~partial => AudioKept

(* When stop_and_save returns a path and the accumulation task was drained, *)
(* audio.mp4 plays every chunk captured, also those whose checkpoint failed *)
(* on the way.                                                              *)
SavedAudioIsWhole ==
    stage = "finaliseRow" /\ result /\ "audio" \notin late
        => Playable = 1..captured

(* A meetings row with an audio_path names a playable audio.mp4 that holds  *)
(* the audio of every checkpoint still there, and all there ever was unless *)
(* a half-removed directory was encoded again.                              *)
RowAudioIsPlayable ==
    path /\ "audio" \notin late =>
        /\ UNION files \subseteq Playable
        /\ ~partial => kept \subseteq Playable

(* When stop() returns with its writers drained, a segment is missing from  *)
(* the database and from the files only if SQLite refused its batch and its *)
(* journal append failed too.                                               *)
LostOnlyIfBothFailed ==
    stage = "stopped" /\ late \cap {"writer", "journal"} = {}
        => 1..delivered \subseteq dbRows \cup Transcribed \cup (refused \cap unappended)

(* What the transcript files hold never shrinks, from the append to the     *)
(* debounced rebuild to the final transcripts.json, unless stop() left the  *)
(* journal writer running behind its back.                                  *)
TranscriptFilesKeep ==
    [][ "journal" \notin late => Transcribed \subseteq Transcribed' ]_vars

(* stop() comes to its end, whatever fails and whatever does not answer. *)
StopFinishes == (stage \in StopStages) ~> (stage \in {"stopped", "down"})

(* The journal is a recovery aid: a meeting that the dialog marks completed *)
(* has in the database every segment its transcript files hold.             *)
RecoveredHasJournal ==
    [][ stage = "recoverMark" /\ row' = "completed" => Transcribed \subseteq dbRows' ]_vars
=============================================================================
