---------------------- MODULE MeetingPersistence_proofs ----------------------
(* Proofs about MeetingPersistence, for recordings, checkpoints and         *)
(* transcripts of any length, with or without faults: the types, that audio *)
(* which reached a checkpoint file is kept, that a segment is lost only if  *)
(* both of its writers failed, and that the audio a row names plays.        *)
EXTENDS MeetingPersistence, TLAPS

-----------------------------------------------------------------------------
(* Types: one lemma per part of TypeOK, with a step for each action that    *)
(* disturbs it and one for the actions that leave its variables alone.      *)

(* The state in which start() returns has its types.                        *)
LEMMA InitTyped == Init => TypeOK
  <1> SUFFICES ASSUME Init PROVE TypeOK
    OBVIOUS
  <1> USE BoundsAssumption DEF Init, Chunks, Segments
  <1>1. AudioTyped
    <2>1. captured \in 0..MaxAudio /\ taken \in 0..captured
      OBVIOUS
    <2>2. buffer \subseteq Chunks /\ kept \subseteq Chunks /\ files \subseteq SUBSET Chunks
      OBVIOUS
    <2> QED BY <2>1, <2>2 DEF AudioTyped
  <1>2. MixdownTyped
    BY DEF MixdownTyped
  <1>3. TranscriptTyped
    <2>1. /\ delivered \in 0..MaxSegments
          /\ appended \in 0..delivered /\ flushed \in 0..delivered
          /\ snapshot \in 0..delivered /\ json \in 0..delivered
      OBVIOUS
    <2>2. ndjson = {} /\ unappended = {} /\ dbRows = {} /\ refused = {}
      OBVIOUS
    <2> QED BY <2>1, <2>2 DEF TranscriptTyped
  <1>4. LocalsTyped
    BY DEF LocalsTyped, Stages
  <1> QED BY <1>1, <1>2, <1>3, <1>4 DEF TypeOK

(* The accumulation task never takes a chunk that was not captured, and     *)
(* nothing else is ever in a checkpoint.                                    *)
LEMMA AudioStaysTyped ==
  ASSUME TypeOK, Next
  PROVE  AudioTyped'
  <1> USE BoundsAssumption DEF TypeOK, AudioTyped, Chunks, audio
  <1>1. CASE Capture
    BY <1>1 DEF Capture
  <1>2. CASE Accumulate
    <2>1. taken + 1 \in Chunks /\ taken' \in 0..captured' /\ captured' \in 0..MaxAudio
      BY <1>2 DEF Accumulate
    <2>2. buffer' \subseteq Chunks /\ kept' \subseteq Chunks /\ files' \subseteq SUBSET Chunks
      BY <1>2, <2>1 DEF Accumulate, SaveCheckpoint
    <2> QED BY <1>2, <2>1, <2>2 DEF Accumulate
  <1>3. CASE StopSavesLastCheckpoint
    BY <1>3 DEF StopSavesLastCheckpoint, SaveCheckpoint
  <1>4. CASE StopStartsEncoder \/ RecoverStartsEncoder
    BY <1>4 DEF StopStartsEncoder, RecoverStartsEncoder, EncoderStarts
  <1>5. CASE StopCleansUp \/ RecoverCleansUp
    BY <1>5 DEF StopCleansUp, RecoverCleansUp, Cleanup
  <1>6. CASE Crash
    BY <1>6 DEF Crash
  <1>7. CASE Deliver \/ JournalAppends \/ RebuildBegins \/ RebuildEnds \/ Flush
    BY <1>7 DEF Deliver, JournalAppends, RebuildBegins, RebuildEnds, Flush
  <1>8. CASE StopBegins \/ StopClosesWriter \/ StopAwaitsAudio \/ StopAwaitsJournal
             \/ StopWritesTranscripts \/ StopDropsJournal
    BY <1>8 DEF StopBegins, StopClosesWriter, StopAwaitsAudio, StopAwaitsJournal,
                StopWritesTranscripts, StopDropsJournal
  <1>9. CASE StopGivesUp \/ StopWritesMetadata \/ StopFinalisesRow \/ EncoderEnds
    BY <1>9 DEF StopGivesUp, StopWritesMetadata, StopFinalisesRow, EncoderEnds
  <1>10. CASE Boot \/ RecoverChecks \/ RecoverMarks \/ RecoverDeletes
    BY <1>10 DEF Boot, RecoverChecks, RecoverMarks, RecoverDeletes
  <1> QED BY <1>1, <1>2, <1>3, <1>4, <1>5, <1>6, <1>7, <1>8, <1>9, <1>10
      DEF Next, Recording, Tasks, StopStep, Recovery

(* ffmpeg writes chunks that were captured, wherever it ends.               *)
LEMMA MixdownStaysTyped ==
  ASSUME TypeOK, Next
  PROVE  MixdownTyped'
  <1> USE DEF TypeOK, AudioTyped, MixdownTyped, mixdown
  <1>1. CASE StopStartsEncoder \/ RecoverStartsEncoder
    BY <1>1 DEF StopStartsEncoder, RecoverStartsEncoder, EncoderStarts
  <1>2. CASE EncoderEnds
    BY <1>2 DEF EncoderEnds
  <1>3. CASE Crash
    BY <1>3 DEF Crash
  <1>4. CASE Recording \/ Tasks
    BY <1>4 DEF Recording, Tasks, Capture, Deliver, Accumulate, JournalAppends,
       RebuildBegins,
                RebuildEnds, Flush
  <1>5. CASE StopBegins \/ StopClosesWriter \/ StopAwaitsAudio \/ StopAwaitsJournal
             \/ StopWritesTranscripts \/ StopDropsJournal \/ StopSavesLastCheckpoint
    BY <1>5 DEF StopBegins, StopClosesWriter, StopAwaitsAudio, StopAwaitsJournal,
                StopWritesTranscripts, StopDropsJournal, StopSavesLastCheckpoint
  <1>6. CASE StopGivesUp \/ StopCleansUp \/ StopWritesMetadata \/ StopFinalisesRow
    BY <1>6 DEF StopGivesUp, StopCleansUp, Cleanup, StopWritesMetadata, StopFinalisesRow
  <1>7. CASE Boot \/ RecoverChecks \/ RecoverCleansUp \/ RecoverMarks \/ RecoverDeletes
    BY <1>7 DEF Boot, RecoverChecks, RecoverCleansUp, Cleanup, RecoverMarks, RecoverDeletes
  <1> QED BY <1>1, <1>2, <1>3, <1>4, <1>5, <1>6, <1>7 DEF Next, StopStep, Recovery

(* The journal writer and the SQLite writer never take more than was        *)
(* delivered, and transcripts.json never claims more.                       *)
LEMMA TranscriptStaysTyped ==
  ASSUME TypeOK, Next
  PROVE  TranscriptTyped'
  <1> USE BoundsAssumption DEF TypeOK, TranscriptTyped, Segments, journal, sqlite
  <1>1. CASE Deliver
    BY <1>1 DEF Deliver
  <1>2. CASE JournalAppends
    <2>1. appended + 1 \in Segments /\ appended' \in 0..delivered
      BY <1>2 DEF JournalAppends
    <2>2. ndjson' \subseteq Segments /\ unappended' \subseteq Segments
      BY <1>2, <2>1 DEF JournalAppends
    <2> QED BY <1>2, <2>1, <2>2 DEF JournalAppends
  <1>3. CASE RebuildBegins
    BY <1>3 DEF RebuildBegins
  <1>4. CASE RebuildEnds
    <2>1. json' \in 0..delivered /\ snapshot' \in 0..delivered
      BY <1>4 DEF RebuildEnds
    <2> QED BY <1>4, <2>1 DEF RebuildEnds
  <1>5. CASE Flush
    <2>1. PICK n \in (flushed + 1)..delivered :
            /\ flushed' = n
            /\ \/ dbRows' = dbRows \cup (flushed + 1)..n /\ UNCHANGED refused
               \/ DbFaults /\ refused' = refused \cup (flushed + 1)..n /\ UNCHANGED dbRows
      BY <1>5 DEF Flush
    <2>2. (flushed + 1)..n \subseteq Segments /\ flushed' \in 0..delivered
      BY <2>1
    <2>3. dbRows' \subseteq Segments /\ refused' \subseteq Segments
      BY <2>1, <2>2
    <2> QED BY <1>5, <2>2, <2>3 DEF Flush
  <1>6. CASE StopWritesTranscripts
    BY <1>6 DEF StopWritesTranscripts
  <1>7. CASE StopDropsJournal
    BY <1>7 DEF StopDropsJournal
  <1>8. CASE Crash
    <2>1. /\ appended' \in 0..delivered' /\ flushed' \in 0..delivered'
          /\ snapshot' \in 0..delivered' /\ json' \in 0..delivered'
      BY <1>8 DEF Crash
    <2> QED BY <1>8, <2>1 DEF Crash
  <1>9. CASE RecoverDeletes
    BY <1>9 DEF RecoverDeletes
  <1>10. CASE Capture \/ Accumulate \/ StopBegins \/ StopClosesWriter \/ StopAwaitsAudio
              \/ StopAwaitsJournal \/ StopSavesLastCheckpoint
    BY <1>10 DEF Capture, Accumulate, StopBegins, StopClosesWriter, StopAwaitsAudio,
                 StopAwaitsJournal, StopSavesLastCheckpoint
  <1>11. CASE StopStartsEncoder \/ StopGivesUp \/ StopCleansUp \/ StopWritesMetadata
              \/ StopFinalisesRow \/ EncoderEnds
    BY <1>11 DEF StopStartsEncoder, EncoderStarts, StopGivesUp, StopCleansUp, Cleanup,
                 StopWritesMetadata, StopFinalisesRow, EncoderEnds
  <1>12. CASE Boot \/ RecoverChecks \/ RecoverStartsEncoder \/ RecoverCleansUp \/ RecoverMarks
    BY <1>12 DEF Boot, RecoverChecks, RecoverStartsEncoder, EncoderStarts, RecoverCleansUp,
                 Cleanup, RecoverMarks
  <1> QED BY <1>1, <1>2, <1>3, <1>4, <1>5, <1>6, <1>7, <1>8, <1>9, <1>10, <1>11, <1>12
      DEF Next, Recording, Tasks, StopStep, Recovery

(* The stage, the meetings row and the locals of stop() and the recovery.   *)
LEMMA LocalsStayTyped ==
  ASSUME TypeOK, Next
  PROVE  LocalsTyped'
  <1> USE DEF TypeOK, LocalsTyped, Stages, StopStages, RecoveryStages, meeting, locals
  <1>1. CASE Recording \/ Tasks
    BY <1>1 DEF Recording, Tasks, Capture, Deliver, Accumulate, JournalAppends,
       RebuildBegins,
                RebuildEnds, Flush
  <1>2. CASE StopBegins
    BY <1>2 DEF StopBegins
  <1>3. CASE StopClosesWriter \/ StopAwaitsAudio \/ StopAwaitsJournal
    BY <1>3 DEF StopClosesWriter, StopAwaitsAudio, StopAwaitsJournal, Await
  <1>4. CASE StopWritesTranscripts \/ StopDropsJournal \/ StopSavesLastCheckpoint
    BY <1>4 DEF StopWritesTranscripts, StopDropsJournal, StopSavesLastCheckpoint
  <1>5. CASE StopStartsEncoder \/ StopGivesUp \/ StopCleansUp
    BY <1>5 DEF StopStartsEncoder, EncoderStarts, StopGivesUp, StopCleansUp, Cleanup
  <1>6. CASE StopWritesMetadata \/ StopFinalisesRow
    BY <1>6 DEF StopWritesMetadata, StopFinalisesRow
  <1>7. CASE EncoderEnds
    BY <1>7 DEF EncoderEnds
  <1>8. CASE Crash
    BY <1>8 DEF Crash
  <1>9. CASE Boot \/ RecoverChecks
    BY <1>9 DEF Boot, RecoverChecks
  <1>10. CASE RecoverStartsEncoder \/ RecoverCleansUp
    BY <1>10 DEF RecoverStartsEncoder, EncoderStarts, RecoverCleansUp, Cleanup
  <1>11. CASE RecoverMarks \/ RecoverDeletes
    BY <1>11 DEF RecoverMarks, RecoverDeletes
  <1> QED BY <1>1, <1>2, <1>3, <1>4, <1>5, <1>6, <1>7, <1>8, <1>9, <1>10, <1>11
      DEF Next, StopStep, Recovery

(* A step that leaves every variable alone keeps the types.                 *)
LEMMA StutterTyped == TypeOK /\ UNCHANGED vars => TypeOK'
  BY DEF TypeOK, AudioTyped, MixdownTyped, TranscriptTyped, LocalsTyped, vars, audio,
     mixdown,
         journal, sqlite, meeting, locals

(* Every variable has its type: the accumulation task, the journal writer   *)
(* and the SQLite writer never take more than was sent to them, whatever    *)
(* the number of chunks and segments.                                       *)
THEOREM TypeCorrect == Spec => []TypeOK
  <1>1. TypeOK /\ [Next]_vars => TypeOK'
    BY AudioStaysTyped, MixdownStaysTyped, TranscriptStaysTyped, LocalsStayTyped,
       StutterTyped
       DEF TypeOK
  <1> QED BY InitTyped, <1>1, PTL DEF Spec

-----------------------------------------------------------------------------
(* Checkpointed audio                                                       *)

(* A chunk in a checkpoint file is, by definition, one that ever was.       *)
FilesAreKept == UNION files \subseteq kept

(* While ffmpeg writes, every file it was given is still there: only its    *)
(* success lets the files be removed, so audio.mp4 may be torn.             *)
EncoderHasFiles == encoder => partial \/ kept = UNION files

(* While stop() or the recovery waits for ffmpeg, it has been given all.    *)
EncodedIsKept ==
    stage \in {"encoding", "recoverEncoding"} => encoder /\ (partial \/ kept \subseteq encoding)

(* Files are removed only when audio.mp4 plays, whole, and none writes it.  *)
RemovalIsSafe ==
    stage \in {"cleanup", "recoverCleanup"} => ~encoder /\ (partial \/ kept \subseteq Playable)

(* After the process has ended the accumulation task has nothing to take.   *)
RestartedHasNoAudio == stage \in RecoveryStages \cup {"down", "closed"} => taken = captured

(* The inductive strengthening of CheckpointsKept.                          *)
CheckpointInv ==
    /\ FilesAreKept
    /\ CheckpointsKept
    /\ EncoderHasFiles
    /\ EncodedIsKept
    /\ RemovalIsSafe
    /\ RestartedHasNoAudio

(* Adding a checkpoint file adds its chunks to those in the files.          *)
LEMMA UnionAdd == ASSUME NEW S, NEW b PROVE UNION (S \cup {b}) = (UNION S) \cup b
  OBVIOUS

(* Removing a file adds nothing.                                            *)
LEMMA UnionRemove == ASSUME NEW S, NEW T, T \subseteq S PROVE UNION T \subseteq UNION S
  OBVIOUS

(* Nothing has been captured when a recording starts.                       *)
LEMMA InitCheckpoints == Init => CheckpointInv
  BY DEF Init, CheckpointInv, FilesAreKept, CheckpointsKept, AudioKept, EncoderHasFiles,
         EncodedIsKept, RemovalIsSafe, RestartedHasNoAudio, RecoveryStages

(* A step that leaves the files and audio.mp4 alone keeps the invariant,    *)
(* unless it enters a wait for ffmpeg, a removal or a restart.              *)
LEMMA CheckpointsUntouched ==
  ASSUME CheckpointInv,
         UNCHANGED <<files, kept, partial, mp4, mp4Audio, encoder, encoding>>,
         stage' \in {"encoding", "recoverEncoding", "cleanup", "recoverCleanup"} => stage' = stage,
         stage' \in RecoveryStages \cup {"down", "closed"} => taken' = captured'
  PROVE  CheckpointInv'
  <1> USE DEF CheckpointInv
  <1>1. FilesAreKept' /\ EncoderHasFiles'
    BY DEF FilesAreKept, EncoderHasFiles
  <1>2. CheckpointsKept'
    BY DEF CheckpointsKept, AudioKept, Playable
  <1>3. EncodedIsKept'
    BY DEF EncodedIsKept
  <1>4. RemovalIsSafe'
    BY DEF RemovalIsSafe, Playable
  <1>5. RestartedHasNoAudio'
    BY DEF RestartedHasNoAudio
  <1> QED BY <1>1, <1>2, <1>3, <1>4, <1>5

(* A new checkpoint file adds to what is kept, and never while ffmpeg is    *)
(* waited for: finalize() holds the lock of the saver.                      *)
LEMMA CheckpointAdded ==
  ASSUME CheckpointInv, NEW b, SaveCheckpoint(b),
         UNCHANGED <<partial, mp4, mp4Audio, encoder, encoding>>,
         stage' \notin {"encoding", "recoverEncoding", "cleanup", "recoverCleanup"},
         stage' \notin RecoveryStages \cup {"down", "closed"}
  PROVE  CheckpointInv'
  <1> USE DEF CheckpointInv
  <1>1. UNION files' = (UNION files) \cup b /\ kept' = kept \cup b
    BY UnionAdd DEF SaveCheckpoint
  <1>2. FilesAreKept' /\ EncoderHasFiles'
    BY <1>1 DEF FilesAreKept, EncoderHasFiles
  <1>3. CheckpointsKept'
    BY <1>1 DEF CheckpointsKept, AudioKept, Playable
  <1>4. EncodedIsKept' /\ RemovalIsSafe' /\ RestartedHasNoAudio'
    BY DEF EncodedIsKept, RemovalIsSafe, RestartedHasNoAudio
  <1> QED BY <1>2, <1>3, <1>4

(* ffmpeg truncates audio.mp4 while every checkpoint file is still there.   *)
LEMMA EncoderStartKeeps ==
  ASSUME CheckpointInv, NEW next, NEW failed, EncoderStarts(next, failed),
         next \in {"encoding", "recoverEncoding"},
         failed \in {"finaliseRow", "recoverMark"},
         failed = "recoverMark" \/ next = "recoverEncoding" => taken = captured
  PROVE  CheckpointInv'
  <1>1. UNCHANGED <<files, kept, taken, captured>>
    BY DEF EncoderStarts, audio
  <1>2. ASSUME encoder' = TRUE, encoding' = UNION files, mp4' = "torn",
               partial' = (partial \/ kept # UNION files), stage' = next
        PROVE  CheckpointInv'
    <2>1. FilesAreKept'
      BY <1>1 DEF CheckpointInv, FilesAreKept
    <2>2. CheckpointsKept' /\ EncoderHasFiles'
      BY <1>1, <1>2 DEF CheckpointsKept, AudioKept, EncoderHasFiles
    <2>3. EncodedIsKept' /\ RemovalIsSafe'
      BY <1>1, <1>2 DEF EncodedIsKept, RemovalIsSafe
    <2>4. RestartedHasNoAudio'
      BY <1>1, <1>2 DEF RestartedHasNoAudio, RecoveryStages
    <2> QED BY <2>1, <2>2, <2>3, <2>4 DEF CheckpointInv
  <1>3. ASSUME stage' = failed, UNCHANGED <<mixdown, partial>>
        PROVE  CheckpointInv'
    BY <1>1, <1>3, CheckpointsUntouched DEF mixdown, RecoveryStages
  <1> QED BY <1>2, <1>3 DEF EncoderStarts

(* ffmpeg succeeds over all the files it was given, which are all there     *)
(* were, or fails and leaves the files to the next attempt.                 *)
LEMMA EncoderEndKeeps ==
  ASSUME CheckpointInv, EncoderEnds
  PROVE  CheckpointInv'
  <1> USE DEF CheckpointInv
  <1>1. encoder /\ encoder' = FALSE /\ UNCHANGED <<files, kept, partial, taken, captured>>
    BY DEF EncoderEnds, audio
  <1>2. FilesAreKept' /\ EncoderHasFiles'
    BY <1>1 DEF FilesAreKept, EncoderHasFiles
  <1>3. CheckpointsKept'
    BY <1>1 DEF CheckpointsKept, AudioKept, EncoderHasFiles
  <1>4. stage' \notin {"encoding", "recoverEncoding"}
    BY DEF EncoderEnds
  <1>5. RemovalIsSafe'
    <2>1. ASSUME stage' \in {"cleanup", "recoverCleanup"}, ~partial
          PROVE  kept \subseteq Playable'
      <3>1. stage \in {"encoding", "recoverEncoding"}
        BY <1>1, <2>1 DEF EncoderEnds, RemovalIsSafe
      <3>2. mp4' = "playable" /\ mp4Audio' = encoding
        BY <2>1, <3>1 DEF EncoderEnds
      <3> QED BY <2>1, <3>1, <3>2 DEF EncodedIsKept, Playable
    <2> QED BY <1>1, <2>1 DEF RemovalIsSafe
  <1>6. RestartedHasNoAudio'
    <2>1. stage' \in RecoveryStages \cup {"down", "closed"}
            => stage \in RecoveryStages \cup {"down", "closed"}
      BY DEF EncoderEnds, RecoveryStages
    <2> QED BY <1>1, <2>1 DEF RestartedHasNoAudio
  <1> QED BY <1>2, <1>3, <1>4, <1>5, <1>6 DEF EncodedIsKept

(* Files are removed one at a time from behind a whole audio.mp4.           *)
LEMMA CleanupKeeps ==
  ASSUME CheckpointInv, NEW next, stage \in {"cleanup", "recoverCleanup"}, Cleanup(next),
         next \in {"metadata", "recoverMark"},
         next = "recoverMark" => stage = "recoverCleanup"
  PROVE  CheckpointInv'
  <1> USE DEF CheckpointInv
  <1>1. /\ UNCHANGED <<kept, partial, mp4, mp4Audio, encoder, encoding, taken, captured>>
        /\ files' \subseteq files
        /\ stage' \in {stage, next}
    BY DEF Cleanup, mixdown
  <1>2. ~encoder /\ (partial \/ kept \subseteq Playable) /\ Playable' = Playable
    BY <1>1 DEF RemovalIsSafe, Playable
  <1>3. FilesAreKept' /\ EncoderHasFiles'
    BY <1>1, <1>2, UnionRemove DEF FilesAreKept, EncoderHasFiles
  <1>4. CheckpointsKept'
    BY <1>1, <1>2 DEF CheckpointsKept, AudioKept
  <1>5. EncodedIsKept' /\ RemovalIsSafe'
    BY <1>1, <1>2 DEF EncodedIsKept, RemovalIsSafe
  <1>6. RestartedHasNoAudio'
    BY <1>1 DEF RestartedHasNoAudio, RecoveryStages
  <1> QED BY <1>3, <1>4, <1>5, <1>6

(* A crash orphans ffmpeg, which may complete an audio.mp4 that plays only  *)
(* a prefix: the files it was given are still there.                        *)
LEMMA CrashKeeps ==
  ASSUME CheckpointInv, Crash
  PROVE  CheckpointInv'
  <1> USE DEF CheckpointInv
  <1>1. /\ stage' = "down" /\ encoder' = FALSE
        /\ UNCHANGED <<files, kept, partial, captured>> /\ taken' = captured
    BY DEF Crash
  <1>2. CheckpointsKept'
    <2>1. CASE encoder
      BY <1>1, <2>1 DEF CheckpointsKept, AudioKept, EncoderHasFiles
    <2>2. CASE ~encoder
      <3>1. UNCHANGED <<mp4, mp4Audio>>
        BY <2>2 DEF Crash
      <3> QED BY <1>1, <3>1 DEF CheckpointsKept, AudioKept, Playable
    <2> QED BY <2>1, <2>2
  <1>3. FilesAreKept' /\ EncoderHasFiles' /\ EncodedIsKept' /\ RemovalIsSafe' /\ RestartedHasNoAudio'
    BY <1>1 DEF FilesAreKept, EncoderHasFiles, EncodedIsKept, RemovalIsSafe,
       RestartedHasNoAudio
  <1> QED BY <1>2, <1>3

(* The pipeline and the tasks: only a full checkpoint touches the files.    *)
LEMMA TasksKeep ==
  ASSUME TypeOK, CheckpointInv, Recording \/ Tasks
  PROVE  CheckpointInv'
  <1>1. CASE Capture
    BY <1>1, CheckpointsUntouched DEF Capture, mixdown, RecoveryStages
  <1>2. CASE Accumulate
    <2>1. /\ UNCHANGED <<stage, captured, partial, mp4, mp4Audio, encoder, encoding>>
          /\ stage \notin {"encoding", "cleanup"}
      BY <1>2 DEF Accumulate, SaverLocked, mixdown
    <2>2. stage \notin RecoveryStages \cup {"down", "closed"}
      BY <1>2 DEF Accumulate, CheckpointInv, RestartedHasNoAudio, TypeOK, AudioTyped
    <2>3. CASE UNCHANGED <<files, kept>>
      BY <2>1, <2>2, <2>3, CheckpointsUntouched
    <2>4. CASE SaveCheckpoint(buffer \cup {taken + 1})
      BY <2>1, <2>2, <2>4, CheckpointAdded DEF RecoveryStages
    <2> QED BY <1>2, <2>3, <2>4 DEF Accumulate
  <1>3. CASE Deliver \/ JournalAppends \/ RebuildBegins \/ RebuildEnds \/ Flush
    <2>1. UNCHANGED <<stage, captured, taken, files, kept, partial, mp4, mp4Audio, encoder, encoding>>
      BY <1>3 DEF Deliver, JournalAppends, RebuildBegins, RebuildEnds, Flush, audio, mixdown
    <2> QED BY <2>1, CheckpointsUntouched DEF CheckpointInv, RestartedHasNoAudio
  <1> QED BY <1>1, <1>2, <1>3 DEF Recording, Tasks

(* The steps of stop().                                                     *)
LEMMA StopKeeps ==
  ASSUME CheckpointInv, StopBegins \/ StopStep
  PROVE  CheckpointInv'
  <1>1. CASE StopBegins \/ StopClosesWriter \/ StopAwaitsAudio \/ StopAwaitsJournal
             \/ StopWritesTranscripts \/ StopDropsJournal
    <2>1. /\ UNCHANGED <<files, kept, partial, mp4, mp4Audio, encoder, encoding>>
          /\ stage' \in {"closeWriter", "awaitAudio", "awaitJournal", "writeTranscripts",
                         "dropJournal", "lastCheckpoint", "finaliseRow"}
      BY <1>1 DEF StopBegins, StopClosesWriter, StopAwaitsAudio, StopAwaitsJournal,
                  StopWritesTranscripts, StopDropsJournal, audio, mixdown
    <2> QED BY <2>1, CheckpointsUntouched DEF RecoveryStages
  <1>2. CASE StopSavesLastCheckpoint
    <2>1. /\ UNCHANGED <<partial, mp4, mp4Audio, encoder, encoding>>
          /\ stage' \in {"encode", "finaliseRow"}
      BY <1>2 DEF StopSavesLastCheckpoint, mixdown
    <2>2. CASE UNCHANGED <<files, kept>>
      BY <2>1, <2>2, CheckpointsUntouched DEF RecoveryStages
    <2>3. CASE SaveCheckpoint(buffer)
      BY <2>1, <2>3, CheckpointAdded DEF RecoveryStages
    <2> QED BY <1>2, <2>2, <2>3 DEF StopSavesLastCheckpoint
  <1>3. CASE StopStartsEncoder
    BY <1>3, EncoderStartKeeps DEF StopStartsEncoder
  <1>4. CASE StopCleansUp
    BY <1>4, CleanupKeeps DEF StopCleansUp
  <1>5. CASE StopGivesUp \/ StopWritesMetadata \/ StopFinalisesRow
    <2>1. /\ UNCHANGED <<files, kept, partial, mp4, mp4Audio, encoder, encoding>>
          /\ stage' \in {"finaliseRow", "stopped"}
      BY <1>5 DEF StopGivesUp, StopWritesMetadata, StopFinalisesRow, audio, mixdown
    <2> QED BY <2>1, CheckpointsUntouched DEF RecoveryStages
  <1> QED BY <1>1, <1>2, <1>3, <1>4, <1>5 DEF StopStep

(* The next start and the recovery dialog.                                  *)
LEMMA RecoveryKeeps ==
  ASSUME CheckpointInv, Boot \/ Recovery
  PROVE  CheckpointInv'
  <1>1. stage \in RecoveryStages \cup {"down"} /\ taken = captured
    BY DEF Recovery, Boot, RecoverChecks, RecoverStartsEncoder, RecoverCleansUp,
       RecoverMarks,
           RecoverDeletes, RecoveryStages, CheckpointInv, RestartedHasNoAudio
  <1>2. CASE Boot \/ RecoverChecks \/ RecoverMarks \/ RecoverDeletes
    <2>1. /\ UNCHANGED <<captured, taken, files, kept, partial, mp4, mp4Audio, encoder, encoding>>
          /\ stage' \in {"offered", "closed", "recoverEncode", "recoverMark"}
      BY <1>2 DEF Boot, RecoverChecks, RecoverMarks, RecoverDeletes, audio, mixdown
    <2> QED BY <1>1, <2>1, CheckpointsUntouched
  <1>3. CASE RecoverStartsEncoder
    BY <1>1, <1>3, EncoderStartKeeps DEF RecoverStartsEncoder
  <1>4. CASE RecoverCleansUp
    BY <1>4, CleanupKeeps DEF RecoverCleansUp
  <1> QED BY <1>2, <1>3, <1>4 DEF Recovery

(* The strengthened invariant, by the lemmas above.                         *)
LEMMA CheckpointsInductive == Spec => []CheckpointInv
  <1>1. TypeOK /\ CheckpointInv /\ Next => CheckpointInv'
    BY TasksKeep, StopKeeps, EncoderEndKeeps, CrashKeeps, RecoveryKeeps DEF Next
  <1>2. CheckpointInv /\ UNCHANGED vars => CheckpointInv'
    BY CheckpointsUntouched DEF vars, audio, mixdown, CheckpointInv, RestartedHasNoAudio
  <1> QED BY InitCheckpoints, TypeCorrect, <1>1, <1>2, PTL DEF Spec

(* Audio that reached a checkpoint file is in the checkpoint files or in an *)
(* audio.mp4 that plays, through any failures, crashes and recoveries, for  *)
(* as long as no encode was started over a half-removed directory.          *)
THEOREM CheckpointsAreKept == Spec => []CheckpointsKept
  <1>1. CheckpointInv => CheckpointsKept
    BY DEF CheckpointInv
  <1> QED BY CheckpointsInductive, <1>1, PTL

-----------------------------------------------------------------------------
(* The transcript                                                           *)

(* The stages of this run of the process: the recording and its stop().     *)
Live == {"recording", "stopped"} \cup StopStages

(* stop() is past its wait for the SQLite writer, the accumulation task,    *)
(* the journal writer.                                                      *)
PastWriter == (StopStages \ {"closeWriter"}) \cup {"stopped"}
PastAudio == PastWriter \ {"awaitAudio"}
PastJournal == PastAudio \ {"awaitJournal"}

(* A wait that ended in time leaves nothing queued.                         *)
WriterIsDrained ==
    /\ stage \in PastWriter /\ "writer" \notin late => flushed = delivered
    /\ stage \in PastJournal /\ "journal" \notin late => appended = delivered

(* A rebuild is never older than the transcripts.json it replaces, and is   *)
(* over when stop() writes its own.                                         *)
RebuildIsNewer ==
    "journal" \notin late =>
        /\ rebuilding => json <= snapshot /\ stage \in Live \ PastJournal
        /\ stage = "dropJournal" => json = delivered

JournalOfDelivered == ndjson \subseteq 1..delivered

(* What was taken off a channel was written, or its write failed.           *)
TakenIsWritten ==
    stage \in Live =>
        /\ 1..flushed \subseteq dbRows \cup refused
        /\ "journal" \notin late => 1..appended \subseteq Transcribed \cup unappended

(* The inductive strengthening of TranscriptFilesKeep and                   *)
(* LostOnlyIfBothFailed.                                                    *)
JournalInv ==
    WriterIsDrained /\ RebuildIsNewer /\ JournalOfDelivered /\ TakenIsWritten

(* The writers' channels, once stop() has waited for them.                  *)
LEMMA DrainedStep ==
  ASSUME TypeOK, WriterIsDrained, Next
  PROVE  WriterIsDrained'
  <1>1. CASE Capture
    BY <1>1 DEF Capture, mixdown, journal, sqlite, meeting, locals, PastWriter,
       PastAudio, PastJournal, StopStages, WriterIsDrained, TypeOK, TranscriptTyped,
       LocalsTyped
  <1>2. CASE Deliver
    BY <1>2 DEF Deliver, mixdown, journal, sqlite, meeting, locals, PastWriter,
       PastAudio, PastJournal, StopStages, WriterIsDrained, TypeOK, TranscriptTyped,
       LocalsTyped
  <1>3. CASE Accumulate
    BY <1>3 DEF Accumulate, SaveCheckpoint, SaverLocked, Up, mixdown, journal, sqlite,
       meeting, locals, PastWriter, PastAudio, PastJournal, StopStages, WriterIsDrained,
       TypeOK, TranscriptTyped, LocalsTyped
  <1>4. CASE JournalAppends
    BY <1>4 DEF JournalAppends, Up, mixdown, sqlite, meeting, locals, PastWriter,
       PastAudio, PastJournal, StopStages, WriterIsDrained, TypeOK, TranscriptTyped,
       LocalsTyped
  <1>5. CASE RebuildBegins
    BY <1>5 DEF RebuildBegins, mixdown, sqlite, meeting, locals, PastWriter, PastAudio,
       PastJournal, StopStages, WriterIsDrained, TypeOK, TranscriptTyped, LocalsTyped
  <1>6. CASE RebuildEnds
    BY <1>6 DEF RebuildEnds, Up, mixdown, sqlite, meeting, locals, PastWriter,
       PastAudio, PastJournal, StopStages, WriterIsDrained, TypeOK, TranscriptTyped,
       LocalsTyped
  <1>7. CASE Flush
    BY <1>7 DEF Flush, Up, mixdown, journal, meeting, locals, PastWriter, PastAudio,
       PastJournal, StopStages, WriterIsDrained, TypeOK, TranscriptTyped, LocalsTyped
  <1>8. CASE StopBegins
    BY <1>8 DEF StopBegins, mixdown, journal, sqlite, meeting, PastWriter, PastAudio,
       PastJournal, StopStages, WriterIsDrained, TypeOK, TranscriptTyped, LocalsTyped
  <1>9. CASE StopClosesWriter
    BY <1>9 DEF StopClosesWriter, Await, mixdown, journal, sqlite, meeting, PastWriter,
       PastAudio, PastJournal, StopStages, WriterIsDrained, TypeOK, TranscriptTyped,
       LocalsTyped
  <1>10. CASE StopAwaitsAudio
    BY <1>10 DEF StopAwaitsAudio, Await, mixdown, journal, sqlite, meeting, PastWriter,
       PastAudio, PastJournal, StopStages, WriterIsDrained, TypeOK, TranscriptTyped,
       LocalsTyped
  <1>11. CASE StopAwaitsJournal
    BY <1>11 DEF StopAwaitsJournal, Await, mixdown, journal, sqlite, meeting,
       PastWriter, PastAudio, PastJournal, StopStages, WriterIsDrained, TypeOK,
       TranscriptTyped, LocalsTyped
  <1>12. CASE StopWritesTranscripts
    BY <1>12 DEF StopWritesTranscripts, mixdown, sqlite, meeting, locals, PastWriter,
       PastAudio, PastJournal, StopStages, WriterIsDrained, TypeOK, TranscriptTyped,
       LocalsTyped
  <1>13. CASE StopDropsJournal
    BY <1>13 DEF StopDropsJournal, mixdown, sqlite, meeting, locals, PastWriter,
       PastAudio, PastJournal, StopStages, WriterIsDrained, TypeOK, TranscriptTyped,
       LocalsTyped
  <1>14. CASE StopSavesLastCheckpoint
    BY <1>14 DEF StopSavesLastCheckpoint, SaveCheckpoint, mixdown, journal, sqlite,
       meeting, locals, PastWriter, PastAudio, PastJournal, StopStages, WriterIsDrained,
       TypeOK, TranscriptTyped, LocalsTyped
  <1>15. CASE StopStartsEncoder \/ RecoverStartsEncoder
    BY <1>15 DEF StopStartsEncoder, EncoderStarts, mixdown, journal, sqlite, meeting,
       locals, RecoverStartsEncoder, PastWriter, PastAudio, PastJournal, StopStages,
       WriterIsDrained, TypeOK, TranscriptTyped, LocalsTyped
  <1>16. CASE StopGivesUp
    BY <1>16 DEF StopGivesUp, mixdown, journal, sqlite, meeting, PastWriter, PastAudio,
       PastJournal, StopStages, WriterIsDrained, TypeOK, TranscriptTyped, LocalsTyped
  <1>17. CASE StopCleansUp \/ RecoverCleansUp
    BY <1>17 DEF StopCleansUp, Cleanup, mixdown, journal, sqlite, meeting, locals,
       RecoverCleansUp, PastWriter, PastAudio, PastJournal, StopStages, WriterIsDrained,
       TypeOK, TranscriptTyped, LocalsTyped
  <1>18. CASE StopWritesMetadata
    BY <1>18 DEF StopWritesMetadata, mixdown, journal, sqlite, meeting, PastWriter,
       PastAudio, PastJournal, StopStages, WriterIsDrained, TypeOK, TranscriptTyped,
       LocalsTyped
  <1>19. CASE StopFinalisesRow
    BY <1>19 DEF StopFinalisesRow, mixdown, journal, sqlite, locals, PastWriter,
       PastAudio, PastJournal, StopStages, WriterIsDrained, TypeOK, TranscriptTyped,
       LocalsTyped
  <1>20. CASE EncoderEnds
    BY <1>20 DEF EncoderEnds, journal, sqlite, meeting, PastWriter, PastAudio,
       PastJournal, StopStages, WriterIsDrained, TypeOK, TranscriptTyped, LocalsTyped
  <1>21. CASE Crash
    BY <1>21 DEF Crash, Up, meeting, PastWriter, PastAudio, PastJournal, StopStages,
       WriterIsDrained, TypeOK, TranscriptTyped, LocalsTyped
  <1>22. CASE Boot
    BY <1>22 DEF Boot, mixdown, journal, sqlite, locals, PastWriter, PastAudio,
       PastJournal, StopStages, WriterIsDrained, TypeOK, TranscriptTyped, LocalsTyped
  <1>23. CASE RecoverChecks
    BY <1>23 DEF RecoverChecks, mixdown, journal, sqlite, meeting, locals, PastWriter,
       PastAudio, PastJournal, StopStages, WriterIsDrained, TypeOK, TranscriptTyped,
       LocalsTyped
  <1>24. CASE RecoverMarks
    BY <1>24 DEF RecoverMarks, mixdown, journal, sqlite, meeting, PastWriter, PastAudio,
       PastJournal, StopStages, WriterIsDrained, TypeOK, TranscriptTyped, LocalsTyped
  <1>25. CASE RecoverDeletes
    BY <1>25 DEF RecoverDeletes, mixdown, journal, locals, PastWriter, PastAudio,
       PastJournal, StopStages, WriterIsDrained, TypeOK, TranscriptTyped, LocalsTyped
  <1> QED BY <1>1, <1>2, <1>3, <1>4, <1>5, <1>6, <1>7, <1>8, <1>9, <1>10, <1>11, <1>12,
     <1>13, <1>14, <1>15, <1>16, <1>17, <1>18, <1>19, <1>20, <1>21, <1>22, <1>23, <1>24,
     <1>25 DEF Next, Recording, Tasks, StopStep, Recovery

(* The debounced rebuild against stop()'s own transcripts.json.             *)
LEMMA RebuildStep ==
  ASSUME TypeOK, RebuildIsNewer, Next
  PROVE  RebuildIsNewer'
  <1>1. CASE Capture
    BY <1>1 DEF Capture, mixdown, journal, sqlite, meeting, locals, Live, PastWriter,
       PastAudio, PastJournal, StopStages, RebuildIsNewer, TypeOK, TranscriptTyped,
       LocalsTyped
  <1>2. CASE Deliver
    BY <1>2 DEF Deliver, mixdown, journal, sqlite, meeting, locals, Live, PastWriter,
       PastAudio, PastJournal, StopStages, RebuildIsNewer, TypeOK, TranscriptTyped,
       LocalsTyped
  <1>3. CASE Accumulate
    BY <1>3 DEF Accumulate, SaveCheckpoint, SaverLocked, Up, mixdown, journal, sqlite,
       meeting, locals, Live, PastWriter, PastAudio, PastJournal, StopStages,
       RebuildIsNewer, TypeOK, TranscriptTyped, LocalsTyped
  <1>4. CASE JournalAppends
    BY <1>4 DEF JournalAppends, Up, mixdown, sqlite, meeting, locals, Live, PastWriter,
       PastAudio, PastJournal, StopStages, RebuildIsNewer, TypeOK, TranscriptTyped,
       LocalsTyped
  <1>5. CASE RebuildBegins
    BY <1>5 DEF RebuildBegins, mixdown, sqlite, meeting, locals, Live, PastWriter,
       PastAudio, PastJournal, StopStages, RebuildIsNewer, TypeOK, TranscriptTyped,
       LocalsTyped
  <1>6. CASE RebuildEnds
    BY <1>6 DEF RebuildEnds, Up, mixdown, sqlite, meeting, locals, Live, PastWriter,
       PastAudio, PastJournal, StopStages, RebuildIsNewer, TypeOK, TranscriptTyped,
       LocalsTyped
  <1>7. CASE Flush
    BY <1>7 DEF Flush, Up, mixdown, journal, meeting, locals, Live, PastWriter,
       PastAudio, PastJournal, StopStages, RebuildIsNewer, TypeOK, TranscriptTyped,
       LocalsTyped
  <1>8. CASE StopBegins
    BY <1>8 DEF StopBegins, mixdown, journal, sqlite, meeting, Live, PastWriter,
       PastAudio, PastJournal, StopStages, RebuildIsNewer, TypeOK, TranscriptTyped,
       LocalsTyped
  <1>9. CASE StopClosesWriter
    BY <1>9 DEF StopClosesWriter, Await, mixdown, journal, sqlite, meeting, Live,
       PastWriter, PastAudio, PastJournal, StopStages, RebuildIsNewer, TypeOK,
       TranscriptTyped, LocalsTyped
  <1>10. CASE StopAwaitsAudio
    BY <1>10 DEF StopAwaitsAudio, Await, mixdown, journal, sqlite, meeting, Live,
       PastWriter, PastAudio, PastJournal, StopStages, RebuildIsNewer, TypeOK,
       TranscriptTyped, LocalsTyped
  <1>11. CASE StopAwaitsJournal
    BY <1>11 DEF StopAwaitsJournal, Await, mixdown, journal, sqlite, meeting, Live,
       PastWriter, PastAudio, PastJournal, StopStages, RebuildIsNewer, TypeOK,
       TranscriptTyped, LocalsTyped
  <1>12. CASE StopWritesTranscripts
    BY <1>12 DEF StopWritesTranscripts, mixdown, sqlite, meeting, locals, Live,
       PastWriter, PastAudio, PastJournal, StopStages, RebuildIsNewer, TypeOK,
       TranscriptTyped, LocalsTyped
  <1>13. CASE StopDropsJournal
    BY <1>13 DEF StopDropsJournal, mixdown, sqlite, meeting, locals, Live, PastWriter,
       PastAudio, PastJournal, StopStages, RebuildIsNewer, TypeOK, TranscriptTyped,
       LocalsTyped
  <1>14. CASE StopSavesLastCheckpoint
    BY <1>14 DEF StopSavesLastCheckpoint, SaveCheckpoint, mixdown, journal, sqlite,
       meeting, locals, Live, PastWriter, PastAudio, PastJournal, StopStages,
       RebuildIsNewer, TypeOK, TranscriptTyped, LocalsTyped
  <1>15. CASE StopStartsEncoder \/ RecoverStartsEncoder
    BY <1>15 DEF StopStartsEncoder, EncoderStarts, mixdown, journal, sqlite, meeting,
       locals, RecoverStartsEncoder, Live, PastWriter, PastAudio, PastJournal,
       StopStages, RebuildIsNewer, TypeOK, TranscriptTyped, LocalsTyped
  <1>16. CASE StopGivesUp
    BY <1>16 DEF StopGivesUp, mixdown, journal, sqlite, meeting, Live, PastWriter,
       PastAudio, PastJournal, StopStages, RebuildIsNewer, TypeOK, TranscriptTyped,
       LocalsTyped
  <1>17. CASE StopCleansUp \/ RecoverCleansUp
    BY <1>17 DEF StopCleansUp, Cleanup, mixdown, journal, sqlite, meeting, locals,
       RecoverCleansUp, Live, PastWriter, PastAudio, PastJournal, StopStages,
       RebuildIsNewer, TypeOK, TranscriptTyped, LocalsTyped
  <1>18. CASE StopWritesMetadata
    BY <1>18 DEF StopWritesMetadata, mixdown, journal, sqlite, meeting, Live,
       PastWriter, PastAudio, PastJournal, StopStages, RebuildIsNewer, TypeOK,
       TranscriptTyped, LocalsTyped
  <1>19. CASE StopFinalisesRow
    BY <1>19 DEF StopFinalisesRow, mixdown, journal, sqlite, locals, Live, PastWriter,
       PastAudio, PastJournal, StopStages, RebuildIsNewer, TypeOK, TranscriptTyped,
       LocalsTyped
  <1>20. CASE EncoderEnds
    BY <1>20 DEF EncoderEnds, journal, sqlite, meeting, Live, PastWriter, PastAudio,
       PastJournal, StopStages, RebuildIsNewer, TypeOK, TranscriptTyped, LocalsTyped
  <1>21. CASE Crash
    BY <1>21 DEF Crash, Up, meeting, Live, PastWriter, PastAudio, PastJournal,
       StopStages, RebuildIsNewer, TypeOK, TranscriptTyped, LocalsTyped
  <1>22. CASE Boot
    BY <1>22 DEF Boot, mixdown, journal, sqlite, locals, Live, PastWriter, PastAudio,
       PastJournal, StopStages, RebuildIsNewer, TypeOK, TranscriptTyped, LocalsTyped
  <1>23. CASE RecoverChecks
    BY <1>23 DEF RecoverChecks, mixdown, journal, sqlite, meeting, locals, Live,
       PastWriter, PastAudio, PastJournal, StopStages, RebuildIsNewer, TypeOK,
       TranscriptTyped, LocalsTyped
  <1>24. CASE RecoverMarks
    BY <1>24 DEF RecoverMarks, mixdown, journal, sqlite, meeting, Live, PastWriter,
       PastAudio, PastJournal, StopStages, RebuildIsNewer, TypeOK, TranscriptTyped,
       LocalsTyped
  <1>25. CASE RecoverDeletes
    BY <1>25 DEF RecoverDeletes, mixdown, journal, locals, Live, PastWriter, PastAudio,
       PastJournal, StopStages, RebuildIsNewer, TypeOK, TranscriptTyped, LocalsTyped
  <1> QED BY <1>1, <1>2, <1>3, <1>4, <1>5, <1>6, <1>7, <1>8, <1>9, <1>10, <1>11, <1>12,
     <1>13, <1>14, <1>15, <1>16, <1>17, <1>18, <1>19, <1>20, <1>21, <1>22, <1>23, <1>24,
     <1>25 DEF Next, Recording, Tasks, StopStep, Recovery

(* Only delivered segments are in the journal.                              *)
LEMMA JournalStep ==
  ASSUME TypeOK, JournalOfDelivered, Next
  PROVE  JournalOfDelivered'
  <1>1. CASE Capture
    BY <1>1, BoundsAssumption DEF Capture, journal, sqlite, JournalOfDelivered, TypeOK,
       TranscriptTyped
  <1>2. CASE Deliver
    BY <1>2, BoundsAssumption DEF Deliver, journal, sqlite, JournalOfDelivered, TypeOK,
       TranscriptTyped
  <1>3. CASE Accumulate
    BY <1>3, BoundsAssumption DEF Accumulate, SaveCheckpoint, SaverLocked, Up, journal,
       sqlite, JournalOfDelivered, TypeOK, TranscriptTyped
  <1>4. CASE JournalAppends
    <2>1. appended + 1 \in 1..delivered /\ delivered' = delivered
      BY <1>4, BoundsAssumption DEF JournalAppends, TypeOK, TranscriptTyped
    <2> QED BY <1>4, <2>1 DEF JournalAppends, JournalOfDelivered
  <1>5. CASE RebuildBegins
    BY <1>5, BoundsAssumption DEF RebuildBegins, sqlite, JournalOfDelivered, TypeOK,
       TranscriptTyped
  <1>6. CASE RebuildEnds
    BY <1>6, BoundsAssumption DEF RebuildEnds, Up, sqlite, JournalOfDelivered, TypeOK,
       TranscriptTyped
  <1>7. CASE Flush
    BY <1>7, BoundsAssumption DEF Flush, Up, journal, JournalOfDelivered, TypeOK,
       TranscriptTyped
  <1>8. CASE StopBegins
    BY <1>8, BoundsAssumption DEF StopBegins, journal, sqlite, JournalOfDelivered,
       TypeOK, TranscriptTyped
  <1>9. CASE StopClosesWriter
    BY <1>9, BoundsAssumption DEF StopClosesWriter, Await, journal, sqlite,
       JournalOfDelivered, TypeOK, TranscriptTyped
  <1>10. CASE StopAwaitsAudio
    BY <1>10, BoundsAssumption DEF StopAwaitsAudio, Await, journal, sqlite,
       JournalOfDelivered, TypeOK, TranscriptTyped
  <1>11. CASE StopAwaitsJournal
    BY <1>11, BoundsAssumption DEF StopAwaitsJournal, Await, journal, sqlite,
       JournalOfDelivered, TypeOK, TranscriptTyped
  <1>12. CASE StopWritesTranscripts
    BY <1>12, BoundsAssumption DEF StopWritesTranscripts, sqlite, JournalOfDelivered,
       TypeOK, TranscriptTyped
  <1>13. CASE StopDropsJournal
    BY <1>13, BoundsAssumption DEF StopDropsJournal, sqlite, JournalOfDelivered, TypeOK,
       TranscriptTyped
  <1>14. CASE StopSavesLastCheckpoint
    BY <1>14, BoundsAssumption DEF StopSavesLastCheckpoint, SaveCheckpoint, journal,
       sqlite, JournalOfDelivered, TypeOK, TranscriptTyped
  <1>15. CASE StopStartsEncoder \/ RecoverStartsEncoder
    BY <1>15, BoundsAssumption DEF StopStartsEncoder, EncoderStarts, journal, sqlite,
       RecoverStartsEncoder, JournalOfDelivered, TypeOK, TranscriptTyped
  <1>16. CASE StopGivesUp
    BY <1>16, BoundsAssumption DEF StopGivesUp, journal, sqlite, JournalOfDelivered,
       TypeOK, TranscriptTyped
  <1>17. CASE StopCleansUp \/ RecoverCleansUp
    BY <1>17, BoundsAssumption DEF StopCleansUp, Cleanup, journal, sqlite,
       RecoverCleansUp, JournalOfDelivered, TypeOK, TranscriptTyped
  <1>18. CASE StopWritesMetadata
    BY <1>18, BoundsAssumption DEF StopWritesMetadata, journal, sqlite,
       JournalOfDelivered, TypeOK, TranscriptTyped
  <1>19. CASE StopFinalisesRow
    BY <1>19, BoundsAssumption DEF StopFinalisesRow, journal, sqlite,
       JournalOfDelivered, TypeOK, TranscriptTyped
  <1>20. CASE EncoderEnds
    BY <1>20, BoundsAssumption DEF EncoderEnds, journal, sqlite, JournalOfDelivered,
       TypeOK, TranscriptTyped
  <1>21. CASE Crash
    BY <1>21, BoundsAssumption DEF Crash, Up, JournalOfDelivered, TypeOK,
       TranscriptTyped
  <1>22. CASE Boot
    BY <1>22, BoundsAssumption DEF Boot, journal, sqlite, JournalOfDelivered, TypeOK,
       TranscriptTyped
  <1>23. CASE RecoverChecks
    BY <1>23, BoundsAssumption DEF RecoverChecks, journal, sqlite, JournalOfDelivered,
       TypeOK, TranscriptTyped
  <1>24. CASE RecoverMarks
    BY <1>24, BoundsAssumption DEF RecoverMarks, journal, sqlite, JournalOfDelivered,
       TypeOK, TranscriptTyped
  <1>25. CASE RecoverDeletes
    BY <1>25, BoundsAssumption DEF RecoverDeletes, journal, JournalOfDelivered, TypeOK,
       TranscriptTyped
  <1> QED BY <1>1, <1>2, <1>3, <1>4, <1>5, <1>6, <1>7, <1>8, <1>9, <1>10, <1>11, <1>12,
     <1>13, <1>14, <1>15, <1>16, <1>17, <1>18, <1>19, <1>20, <1>21, <1>22, <1>23, <1>24,
     <1>25 DEF Next, Recording, Tasks, StopStep, Recovery

(* What a writer takes is written or refused, and stays where it is.        *)
LEMMA WrittenStep ==
  ASSUME TypeOK, RebuildIsNewer, JournalOfDelivered, TakenIsWritten, Next
  PROVE  TakenIsWritten'
  <1>1. CASE Capture
    BY <1>1 DEF Capture, mixdown, journal, sqlite, locals, Live, PastWriter, PastAudio,
       PastJournal, StopStages, TakenIsWritten, Transcribed, TypeOK, TranscriptTyped
  <1>2. CASE Deliver
    BY <1>2 DEF Deliver, mixdown, journal, sqlite, locals, Live, PastWriter, PastAudio,
       PastJournal, StopStages, TakenIsWritten, Transcribed, TypeOK, TranscriptTyped
  <1>3. CASE Accumulate
    BY <1>3 DEF Accumulate, SaveCheckpoint, SaverLocked, Up, mixdown, journal, sqlite,
       locals, Live, PastWriter, PastAudio, PastJournal, StopStages, TakenIsWritten,
       Transcribed, TypeOK, TranscriptTyped
  <1>4. CASE JournalAppends
    <2>1. appended \in Nat /\ 1..appended' = 1..appended \cup {appended + 1}
      BY <1>4, BoundsAssumption DEF JournalAppends, TypeOK, TranscriptTyped
    <2> QED BY <1>4, <2>1 DEF JournalAppends, TakenIsWritten, Transcribed, sqlite, locals
  <1>5. CASE RebuildBegins
    BY <1>5 DEF RebuildBegins, mixdown, sqlite, locals, Live, PastWriter, PastAudio,
       PastJournal, StopStages, TakenIsWritten, Transcribed, TypeOK, TranscriptTyped
  <1>6. CASE RebuildEnds
    <2>1. stage' = stage /\ UNCHANGED <<flushed, dbRows, refused, appended, unappended, late>>
      BY <1>6 DEF RebuildEnds, sqlite, locals
    <2>2. ASSUME "journal" \notin late PROVE Transcribed \subseteq Transcribed'
      <3>1. json \in Nat /\ json' \in Nat /\ json <= json' /\ ndjson' = ndjson
        BY <1>6, <2>2, BoundsAssumption DEF RebuildEnds, RebuildIsNewer, TypeOK,
           TranscriptTyped
      <3> QED BY <3>1 DEF Transcribed
    <2> QED BY <2>1, <2>2 DEF TakenIsWritten
  <1>7. CASE Flush
    <2>1. PICK n \in (flushed + 1)..delivered :
            /\ flushed' = n
            /\ \/ dbRows' = dbRows \cup (flushed + 1)..n /\ UNCHANGED refused
               \/ refused' = refused \cup (flushed + 1)..n /\ UNCHANGED dbRows
      BY <1>7 DEF Flush
    <2>2. flushed \in Nat /\ n \in Nat /\ flushed < n
      BY <2>1, BoundsAssumption DEF TypeOK, TranscriptTyped
    <2>3. 1..n = 1..flushed \cup (flushed + 1)..n
      BY <2>2
    <2> QED BY <1>7, <2>1, <2>3 DEF Flush, TakenIsWritten, Transcribed, journal, locals
  <1>8. CASE StopBegins
    BY <1>8 DEF StopBegins, mixdown, journal, sqlite, Live, PastWriter, PastAudio,
       PastJournal, StopStages, TakenIsWritten, Transcribed, TypeOK, TranscriptTyped
  <1>9. CASE StopClosesWriter
    BY <1>9 DEF StopClosesWriter, Await, mixdown, journal, sqlite, Live, PastWriter,
       PastAudio, PastJournal, StopStages, TakenIsWritten, Transcribed, TypeOK,
       TranscriptTyped
  <1>10. CASE StopAwaitsAudio
    BY <1>10 DEF StopAwaitsAudio, Await, mixdown, journal, sqlite, Live, PastWriter,
       PastAudio, PastJournal, StopStages, TakenIsWritten, Transcribed, TypeOK,
       TranscriptTyped
  <1>11. CASE StopAwaitsJournal
    BY <1>11 DEF StopAwaitsJournal, Await, mixdown, journal, sqlite, Live, PastWriter,
       PastAudio, PastJournal, StopStages, TakenIsWritten, Transcribed, TypeOK,
       TranscriptTyped
  <1>12. CASE StopWritesTranscripts
    <2>1. /\ UNCHANGED <<flushed, dbRows, refused, appended, unappended, late>>
          /\ stage \in Live
      BY <1>12 DEF StopWritesTranscripts, sqlite, locals, Live, StopStages
    <2>2. json \in Nat /\ json' \in Nat /\ json <= json' /\ ndjson' = ndjson
      BY <1>12, BoundsAssumption DEF StopWritesTranscripts, TypeOK, TranscriptTyped
    <2>3. Transcribed \subseteq Transcribed'
      BY <2>2 DEF Transcribed
    <2> QED BY <2>1, <2>3 DEF TakenIsWritten
  <1>13. CASE StopDropsJournal
    <2>1. /\ UNCHANGED <<flushed, dbRows, refused, appended, unappended, late, json>>
          /\ stage \in Live
      BY <1>13 DEF StopDropsJournal, sqlite, locals, Live, StopStages
    <2>2. ASSUME "journal" \notin late PROVE Transcribed \subseteq Transcribed'
      BY <1>13, <2>1, <2>2 DEF StopDropsJournal, RebuildIsNewer, JournalOfDelivered,
         Transcribed
    <2> QED BY <2>1, <2>2 DEF TakenIsWritten
  <1>14. CASE StopSavesLastCheckpoint
    BY <1>14 DEF StopSavesLastCheckpoint, SaveCheckpoint, mixdown, journal, sqlite,
       locals, Live, PastWriter, PastAudio, PastJournal, StopStages, TakenIsWritten,
       Transcribed, TypeOK, TranscriptTyped
  <1>15. CASE StopStartsEncoder \/ RecoverStartsEncoder
    BY <1>15 DEF StopStartsEncoder, EncoderStarts, mixdown, journal, sqlite, locals,
       RecoverStartsEncoder, Live, PastWriter, PastAudio, PastJournal, StopStages,
       TakenIsWritten, Transcribed, TypeOK, TranscriptTyped
  <1>16. CASE StopGivesUp
    BY <1>16 DEF StopGivesUp, mixdown, journal, sqlite, Live, PastWriter, PastAudio,
       PastJournal, StopStages, TakenIsWritten, Transcribed, TypeOK, TranscriptTyped
  <1>17. CASE StopCleansUp \/ RecoverCleansUp
    BY <1>17 DEF StopCleansUp, Cleanup, mixdown, journal, sqlite, locals,
       RecoverCleansUp, Live, PastWriter, PastAudio, PastJournal, StopStages,
       TakenIsWritten, Transcribed, TypeOK, TranscriptTyped
  <1>18. CASE StopWritesMetadata
    BY <1>18 DEF StopWritesMetadata, mixdown, journal, sqlite, Live, PastWriter,
       PastAudio, PastJournal, StopStages, TakenIsWritten, Transcribed, TypeOK,
       TranscriptTyped
  <1>19. CASE StopFinalisesRow
    BY <1>19 DEF StopFinalisesRow, mixdown, journal, sqlite, locals, Live, PastWriter,
       PastAudio, PastJournal, StopStages, TakenIsWritten, Transcribed, TypeOK,
       TranscriptTyped
  <1>20. CASE EncoderEnds
    BY <1>20 DEF EncoderEnds, journal, sqlite, Live, PastWriter, PastAudio, PastJournal,
       StopStages, TakenIsWritten, Transcribed, TypeOK, TranscriptTyped
  <1>21. CASE Crash
    BY <1>21 DEF Crash, Up, Live, PastWriter, PastAudio, PastJournal, StopStages,
       TakenIsWritten, Transcribed, TypeOK, TranscriptTyped
  <1>22. CASE Boot
    BY <1>22 DEF Boot, mixdown, journal, sqlite, locals, Live, PastWriter, PastAudio,
       PastJournal, StopStages, TakenIsWritten, Transcribed, TypeOK, TranscriptTyped
  <1>23. CASE RecoverChecks
    BY <1>23 DEF RecoverChecks, mixdown, journal, sqlite, locals, Live, PastWriter,
       PastAudio, PastJournal, StopStages, TakenIsWritten, Transcribed, TypeOK,
       TranscriptTyped
  <1>24. CASE RecoverMarks
    BY <1>24 DEF RecoverMarks, mixdown, journal, sqlite, Live, PastWriter, PastAudio,
       PastJournal, StopStages, TakenIsWritten, Transcribed, TypeOK, TranscriptTyped
  <1>25. CASE RecoverDeletes
    BY <1>25 DEF RecoverDeletes, mixdown, journal, locals, Live, PastWriter, PastAudio,
       PastJournal, StopStages, TakenIsWritten, Transcribed, TypeOK, TranscriptTyped
  <1> QED BY <1>1, <1>2, <1>3, <1>4, <1>5, <1>6, <1>7, <1>8, <1>9, <1>10, <1>11, <1>12,
     <1>13, <1>14, <1>15, <1>16, <1>17, <1>18, <1>19, <1>20, <1>21, <1>22, <1>23, <1>24,
     <1>25 DEF Next, Recording, Tasks, StopStep, Recovery

(* No segment has been delivered when a recording starts.                   *)
LEMMA InitJournal == Init => JournalInv
  BY DEF Init, JournalInv, WriterIsDrained, RebuildIsNewer, JournalOfDelivered,
         TakenIsWritten, Transcribed, Live, PastWriter, PastAudio, PastJournal,
         StopStages

(* The strengthened invariant, by the lemmas above.                         *)
LEMMA JournalInductive == Spec => []JournalInv
  <1>1. TypeOK /\ JournalInv /\ Next => JournalInv'
    BY DrainedStep, RebuildStep, JournalStep, WrittenStep DEF JournalInv
  <1>2. JournalInv /\ UNCHANGED vars => JournalInv'
    BY DEF vars, journal, sqlite, locals, JournalInv, WriterIsDrained, RebuildIsNewer,
           JournalOfDelivered, TakenIsWritten, Transcribed
  <1> QED BY InitJournal, TypeCorrect, <1>1, <1>2, PTL DEF Spec

(* When stop() returns with its writers drained, a segment is lost only if  *)
(* SQLite refused its batch and its append to the journal failed too.       *)
THEOREM NothingLostUnlessBothFailed == Spec => []LostOnlyIfBothFailed
  <1>1. JournalInv => LostOnlyIfBothFailed
    <2> SUFFICES ASSUME JournalInv, stage = "stopped", late \cap {"writer", "journal"} = {}
                 PROVE  1..delivered \subseteq dbRows \cup Transcribed \cup (refused \cap unappended)
      BY DEF LostOnlyIfBothFailed
    <2>1. flushed = delivered /\ appended = delivered
      BY DEF JournalInv, WriterIsDrained, PastWriter, PastAudio, PastJournal
    <2>2. /\ 1..delivered \subseteq dbRows \cup refused
          /\ 1..delivered \subseteq Transcribed \cup unappended
      BY <2>1 DEF JournalInv, TakenIsWritten, Live
    <2> QED BY <2>2
  <1> QED BY JournalInductive, <1>1, PTL

(* No step shrinks what the transcript files hold: a rebuild is newer than  *)
(* what it replaces, and the journal goes only when transcripts.json has    *)
(* everything.                                                              *)
THEOREM TranscriptFilesAreKept == Spec => TranscriptFilesKeep
  <1>1. ASSUME TypeOK, JournalInv, [Next]_vars, "journal" \notin late
        PROVE  Transcribed \subseteq Transcribed'
    <2>1. CASE RebuildEnds \/ StopWritesTranscripts
      <3>1. json \in Nat /\ json' \in Nat /\ json <= json' /\ ndjson' = ndjson
        BY <1>1, <2>1, BoundsAssumption
           DEF RebuildEnds, StopWritesTranscripts, JournalInv, RebuildIsNewer, TypeOK,
               TranscriptTyped
      <3> QED BY <3>1 DEF Transcribed
    <2>2. CASE StopDropsJournal
      BY <1>1, <2>2 DEF StopDropsJournal, JournalInv, RebuildIsNewer, JournalOfDelivered,
                        Transcribed
    <2>3. CASE JournalAppends
      BY <2>3 DEF JournalAppends, Transcribed
    <2>4. CASE UNCHANGED <<ndjson, json>>
      BY <2>4 DEF Transcribed
    <2>5. RebuildEnds \/ StopWritesTranscripts \/ StopDropsJournal \/ JournalAppends
          \/ UNCHANGED <<ndjson, json>>
      BY <1>1 DEF Next, Recording, Tasks, StopStep, Recovery, Capture, Deliver, Accumulate,
                  RebuildBegins, Flush, StopBegins, StopClosesWriter, StopAwaitsAudio,
                  StopAwaitsJournal, StopSavesLastCheckpoint, StopStartsEncoder,
                  EncoderStarts, StopGivesUp, StopCleansUp, Cleanup, StopWritesMetadata,
                  StopFinalisesRow, EncoderEnds, Crash, Boot, RecoverChecks,
                  RecoverStartsEncoder, RecoverCleansUp, RecoverMarks, RecoverDeletes,
                  vars, journal
    <2> QED BY <2>1, <2>2, <2>3, <2>4, <2>5
  <1>2. TypeOK /\ JournalInv /\ [Next]_vars =>
            [ "journal" \notin late => Transcribed \subseteq Transcribed' ]_vars
    BY <1>1
  <1> QED BY TypeCorrect, JournalInductive, <1>2, PTL DEF Spec, TranscriptFilesKeep

-----------------------------------------------------------------------------
(* The saved audio and the path in the meetings row                         *)

(* Until its encode, all that stop() took from the channel is in the files  *)
(* or in the buffer, and no file has been removed.                          *)
PreEncode == {"recording", "closeWriter", "awaitAudio", "awaitJournal", "writeTranscripts",
              "dropJournal", "lastCheckpoint", "encode", "encoding"}

AudioAccounted ==
    /\ stage \in Live => kept \cup buffer = 1..taken /\ ~partial
    /\ stage \in PreEncode => kept = UNION files

(* A wait for the accumulation task that did not time out leaves it nothing *)
(* to take, and finalize() leaves nothing in the buffer.                    *)
AudioIsDrained ==
    "audio" \notin late =>
        /\ stage \in PastAudio => taken = captured
        /\ stage \in {"encode", "encoding", "cleanup", "metadata"} => buffer = {}

(* The ffmpeg that is waited for was given the files that are there.        *)
EncodesTheFiles ==
    stage \in {"encoding", "recoverEncoding"} => encoder /\ encoding = UNION files

(* After stop()'s encode audio.mp4 plays all that was ever checkpointed.    *)
MixdownIsWhole ==
    stage \in {"cleanup", "metadata"} =>
        ~encoder /\ ("audio" \notin late => Playable = kept)

(* The path is returned by a whole save and by a whole recovery only.       *)
NoResultYet ==
    stage \in (Live \ {"finaliseRow", "stopped"})
                \cup {"offered", "recoverEncode", "recoverEncoding", "down"} => ~result

SavedIsWhole ==
    stage = "finaliseRow" /\ result =>
        ~encoder /\ ("audio" \notin late => Playable = 1..captured)

PlaysTheFiles ==
    /\ UNION files \subseteq Playable
    /\ ~partial => kept \subseteq Playable

RecoveredIsWhole ==
    stage \in {"recoverCleanup", "recoverMark"} /\ result => ~encoder /\ PlaysTheFiles

(* The row has the path only once nothing writes audio.mp4 any more, and    *)
(* the meeting is never offered for recovery again.                         *)
RowIsFinal ==
    path => /\ row = "completed" /\ stage \in {"stopped", "down", "closed"} /\ ~encoder
            /\ "audio" \notin late => PlaysTheFiles

AudioInv ==
    /\ AudioAccounted
    /\ AudioIsDrained
    /\ EncodesTheFiles
    /\ MixdownIsWhole
    /\ NoResultYet
    /\ SavedIsWhole
    /\ RecoveredIsWhole
    /\ RowIsFinal

(* Nothing is captured, and no path is known, when a recording starts.      *)
LEMMA InitAudio == Init => AudioInv
  BY DEF Init, AudioInv, AudioAccounted, AudioIsDrained, EncodesTheFiles, MixdownIsWhole,
         NoResultYet, SavedIsWhole, RecoveredIsWhole, RowIsFinal, Live, PastWriter, PastAudio,
         StopStages, PreEncode

(* A step that leaves the stage, the audio and the row alone.               *)
LEMMA AudioUntouched ==
  ASSUME AudioInv, UNCHANGED <<stage, audio, mixdown, meeting, locals>>
  PROVE  AudioInv'
  BY DEF AudioInv, AudioAccounted, AudioIsDrained, EncodesTheFiles, MixdownIsWhole,
     NoResultYet,
         SavedIsWhole, RecoveredIsWhole, RowIsFinal, PlaysTheFiles, Playable, audio, mixdown,
         meeting, locals

(* Every chunk taken stays in the buffer or in a file, whatever fails.      *)
LEMMA AccountedStep ==
  ASSUME TypeOK, CheckpointInv, AudioInv, Next
  PROVE  AudioAccounted'
  <1>1. CASE Capture
    BY <1>1 DEF Capture, mixdown, AudioInv, AudioAccounted, CheckpointInv, FilesAreKept,
       Live, StopStages, PreEncode
  <1>2. CASE Deliver \/ JournalAppends \/ RebuildBegins \/ RebuildEnds \/ Flush
    BY <1>2, AudioUntouched DEF Deliver, JournalAppends, RebuildBegins, RebuildEnds,
       Flush, AudioInv
  <1>3. CASE Accumulate
    <2>1. taken' = taken + 1 /\ taken \in Nat /\ stage' = stage /\ partial' = partial
      BY <1>3 DEF Accumulate, TypeOK, AudioTyped
    <2>2. kept' \cup buffer' = (kept \cup buffer) \cup {taken + 1}
      BY <1>3 DEF Accumulate, SaveCheckpoint
    <2>3. \/ UNCHANGED <<files, kept>>
          \/ \E b : UNION files' = (UNION files) \cup b /\ kept' = kept \cup b
      BY <1>3, UnionAdd DEF Accumulate, SaveCheckpoint
    <2>4. 1..taken' = (1..taken) \cup {taken + 1}
      BY <2>1
    <2> QED BY <2>1, <2>2, <2>3, <2>4 DEF AudioInv, AudioAccounted
  <1>4. CASE StopBegins \/ StopClosesWriter \/ StopAwaitsAudio \/ StopAwaitsJournal \/
     StopWritesTranscripts \/ StopDropsJournal
    BY <1>4 DEF StopBegins, audio, mixdown, StopClosesWriter, Await, StopAwaitsAudio,
       StopAwaitsJournal, StopWritesTranscripts, StopDropsJournal, AudioInv,
       AudioAccounted, CheckpointInv, FilesAreKept, Live, StopStages, PreEncode
  <1>5. CASE StopSavesLastCheckpoint
    <2>1. stage = "lastCheckpoint" /\ partial' = partial /\ taken' = taken
      BY <1>5 DEF StopSavesLastCheckpoint
    <2>2. kept' \cup buffer' = kept \cup buffer
      BY <1>5 DEF StopSavesLastCheckpoint, SaveCheckpoint
    <2>3. \/ UNCHANGED <<files, kept>>
          \/ UNION files' = (UNION files) \cup buffer /\ kept' = kept \cup buffer
      BY <1>5, UnionAdd DEF StopSavesLastCheckpoint, SaveCheckpoint
    <2> QED BY <2>1, <2>2, <2>3 DEF AudioInv, AudioAccounted, Live, StopStages, PreEncode
  <1>6. CASE StopStartsEncoder
    <2>1. ~partial /\ kept = UNION files
      BY <1>6 DEF StopStartsEncoder, AudioInv, AudioAccounted, Live, StopStages, PreEncode
    <2>2. ~partial'
      BY <1>6, <2>1 DEF StopStartsEncoder, EncoderStarts
    <2>3. UNCHANGED <<taken, buffer, files, kept>> /\ stage' \in {"encoding", "finaliseRow"}
      BY <1>6 DEF StopStartsEncoder, EncoderStarts
    <2> QED BY <1>6, <2>1, <2>2, <2>3 DEF StopStartsEncoder, AudioInv, AudioAccounted, Live,
                                       StopStages, PreEncode
  <1>7. CASE StopGivesUp
    BY <1>7 DEF StopGivesUp, audio, mixdown, AudioInv, AudioAccounted, CheckpointInv,
       FilesAreKept, Live, StopStages, PreEncode
  <1>8. CASE StopCleansUp \/ StopWritesMetadata \/ StopFinalisesRow \/ EncoderEnds
    BY <1>8 DEF StopCleansUp, Cleanup, mixdown, StopWritesMetadata, audio,
       StopFinalisesRow, EncoderEnds, AudioInv, AudioAccounted, CheckpointInv,
       FilesAreKept, Live, StopStages, PreEncode
  <1>9. CASE Crash
    BY <1>9 DEF Crash, Up, AudioInv, AudioAccounted, CheckpointInv, FilesAreKept, Live,
       StopStages, PreEncode
  <1>10. CASE Boot \/ RecoverChecks \/ RecoverCleansUp \/ RecoverMarks \/ RecoverDeletes
    BY <1>10 DEF Boot, audio, mixdown, RecoverChecks, RecoverCleansUp, Cleanup,
       RecoverMarks, RecoverDeletes, AudioInv, AudioAccounted, CheckpointInv,
       FilesAreKept, Live, StopStages, PreEncode
  <1>11. CASE RecoverStartsEncoder
    BY <1>11 DEF RecoverStartsEncoder, EncoderStarts, mixdown, AudioInv, AudioAccounted,
       CheckpointInv, FilesAreKept, Live, StopStages, PreEncode
  <1> QED BY <1>1, <1>2, <1>3, <1>4, <1>5, <1>6, <1>7, <1>8, <1>9, <1>10, <1>11 DEF
     Next, Recording, Tasks, StopStep, Recovery

(* Once drained, the channel stays so: capture is over.                     *)
LEMMA DrainedAudioStep ==
  ASSUME TypeOK, CheckpointInv, AudioInv, Next
  PROVE  AudioIsDrained'
  <1>1. CASE Capture
    BY <1>1 DEF Capture, mixdown, locals, AudioInv, AudioIsDrained, TypeOK, AudioTyped,
       PastWriter, PastAudio, StopStages
  <1>2. CASE Deliver \/ JournalAppends \/ RebuildBegins \/ RebuildEnds \/ Flush
    BY <1>2, AudioUntouched DEF Deliver, JournalAppends, RebuildBegins, RebuildEnds,
       Flush, AudioInv
  <1>3. CASE Accumulate
    BY <1>3 DEF Accumulate, SaveCheckpoint, SaverLocked, Up, mixdown, locals, AudioInv,
       AudioIsDrained, TypeOK, AudioTyped, PastWriter, PastAudio, StopStages
  <1>4. CASE StopBegins \/ StopClosesWriter \/ StopAwaitsAudio \/ StopAwaitsJournal \/
     StopWritesTranscripts \/ StopDropsJournal
    BY <1>4 DEF StopBegins, audio, mixdown, StopClosesWriter, Await, StopAwaitsAudio,
       StopAwaitsJournal, StopWritesTranscripts, locals, StopDropsJournal, AudioInv,
       AudioIsDrained, TypeOK, AudioTyped, PastWriter, PastAudio, StopStages
  <1>5. CASE StopSavesLastCheckpoint
    BY <1>5 DEF StopSavesLastCheckpoint, SaveCheckpoint, mixdown, locals, AudioInv,
       AudioIsDrained, TypeOK, AudioTyped, PastWriter, PastAudio, StopStages
  <1>6. CASE StopStartsEncoder \/ RecoverStartsEncoder \/ StopGivesUp
    BY <1>6 DEF StopStartsEncoder, EncoderStarts, mixdown, locals, RecoverStartsEncoder,
       StopGivesUp, audio, AudioInv, AudioIsDrained, TypeOK, AudioTyped, PastWriter,
       PastAudio, StopStages
  <1>7. CASE StopCleansUp \/ StopWritesMetadata \/ StopFinalisesRow \/ EncoderEnds
    BY <1>7 DEF StopCleansUp, Cleanup, mixdown, locals, StopWritesMetadata, audio,
       StopFinalisesRow, EncoderEnds, AudioInv, AudioIsDrained, TypeOK, AudioTyped,
       PastWriter, PastAudio, StopStages
  <1>8. CASE Crash
    BY <1>8 DEF Crash, Up, AudioInv, AudioIsDrained, TypeOK, AudioTyped, PastWriter,
       PastAudio, StopStages
  <1>9. CASE Boot \/ RecoverChecks \/ RecoverCleansUp \/ RecoverMarks \/ RecoverDeletes
    BY <1>9 DEF Boot, audio, mixdown, locals, RecoverChecks, RecoverCleansUp, Cleanup,
       RecoverMarks, RecoverDeletes, AudioInv, AudioIsDrained, TypeOK, AudioTyped,
       PastWriter, PastAudio, StopStages
  <1> QED BY <1>1, <1>2, <1>3, <1>4, <1>5, <1>6, <1>7, <1>8, <1>9 DEF Next, Recording,
     Tasks, StopStep, Recovery

(* The files do not change while ffmpeg is waited for.                      *)
LEMMA EncodesStep ==
  ASSUME TypeOK, CheckpointInv, AudioInv, Next
  PROVE  EncodesTheFiles'
  <1>1. CASE Capture
    BY <1>1 DEF Capture, mixdown, AudioInv, EncodesTheFiles, CheckpointInv,
       RestartedHasNoAudio, TypeOK, AudioTyped, RecoveryStages
  <1>2. CASE Deliver \/ JournalAppends \/ RebuildBegins \/ RebuildEnds \/ Flush
    BY <1>2, AudioUntouched DEF Deliver, JournalAppends, RebuildBegins, RebuildEnds,
       Flush, AudioInv
  <1>3. CASE Accumulate
    BY <1>3 DEF Accumulate, SaveCheckpoint, SaverLocked, Up, mixdown, AudioInv,
       EncodesTheFiles, CheckpointInv, RestartedHasNoAudio, TypeOK, AudioTyped,
       RecoveryStages
  <1>4. CASE StopBegins \/ StopClosesWriter \/ StopAwaitsAudio \/ StopAwaitsJournal \/
     StopWritesTranscripts \/ StopDropsJournal
    BY <1>4 DEF StopBegins, audio, mixdown, StopClosesWriter, Await, StopAwaitsAudio,
       StopAwaitsJournal, StopWritesTranscripts, StopDropsJournal, AudioInv,
       EncodesTheFiles, CheckpointInv, RestartedHasNoAudio, TypeOK, AudioTyped,
       RecoveryStages
  <1>5. CASE StopSavesLastCheckpoint
    BY <1>5 DEF StopSavesLastCheckpoint, SaveCheckpoint, mixdown, AudioInv,
       EncodesTheFiles, CheckpointInv, RestartedHasNoAudio, TypeOK, AudioTyped,
       RecoveryStages
  <1>6. CASE StopStartsEncoder \/ RecoverStartsEncoder
    BY <1>6 DEF StopStartsEncoder, EncoderStarts, mixdown, RecoverStartsEncoder,
       AudioInv, EncodesTheFiles, CheckpointInv, RestartedHasNoAudio, TypeOK,
       AudioTyped, RecoveryStages
  <1>7. CASE StopGivesUp \/ StopWritesMetadata \/ StopFinalisesRow
    BY <1>7 DEF StopGivesUp, audio, mixdown, StopWritesMetadata, StopFinalisesRow,
       AudioInv, EncodesTheFiles, CheckpointInv, RestartedHasNoAudio, TypeOK,
       AudioTyped, RecoveryStages
  <1>8. CASE StopCleansUp
    BY <1>8 DEF StopCleansUp, Cleanup, mixdown, AudioInv, EncodesTheFiles,
       CheckpointInv, RestartedHasNoAudio, TypeOK, AudioTyped, RecoveryStages
  <1>9. CASE EncoderEnds
    BY <1>9 DEF EncoderEnds, audio, AudioInv, EncodesTheFiles, CheckpointInv,
       RestartedHasNoAudio, TypeOK, AudioTyped, RecoveryStages
  <1>10. CASE Crash
    BY <1>10 DEF Crash, Up, AudioInv, EncodesTheFiles, CheckpointInv,
       RestartedHasNoAudio, TypeOK, AudioTyped, RecoveryStages
  <1>11. CASE Boot \/ RecoverChecks \/ RecoverCleansUp \/ RecoverMarks \/ RecoverDeletes
    BY <1>11 DEF Boot, audio, mixdown, RecoverChecks, RecoverCleansUp, Cleanup,
       RecoverMarks, RecoverDeletes, AudioInv, EncodesTheFiles, CheckpointInv,
       RestartedHasNoAudio, TypeOK, AudioTyped, RecoveryStages
  <1> QED BY <1>1, <1>2, <1>3, <1>4, <1>5, <1>6, <1>7, <1>8, <1>9, <1>10, <1>11 DEF
     Next, Recording, Tasks, StopStep, Recovery

(* ffmpeg was given all the files, which hold all that is kept.             *)
LEMMA MixdownStep ==
  ASSUME TypeOK, CheckpointInv, AudioInv, Next
  PROVE  MixdownIsWhole'
  <1>1. CASE Capture
    BY <1>1 DEF Capture, mixdown, locals, AudioInv, AudioIsDrained, AudioAccounted,
       EncodesTheFiles, MixdownIsWhole, Playable, TypeOK, AudioTyped, Live, PastWriter,
       PastAudio, StopStages, PreEncode
  <1>2. CASE Deliver \/ JournalAppends \/ RebuildBegins \/ RebuildEnds \/ Flush
    BY <1>2, AudioUntouched DEF Deliver, JournalAppends, RebuildBegins, RebuildEnds,
       Flush, AudioInv
  <1>3. CASE Accumulate
    BY <1>3 DEF Accumulate, SaveCheckpoint, SaverLocked, Up, mixdown, locals, AudioInv,
       AudioIsDrained, AudioAccounted, EncodesTheFiles, MixdownIsWhole, Playable,
       TypeOK, AudioTyped, Live, PastWriter, PastAudio, StopStages, PreEncode
  <1>4. CASE StopBegins \/ StopClosesWriter \/ StopAwaitsAudio \/ StopAwaitsJournal \/
     StopWritesTranscripts \/ StopDropsJournal
    BY <1>4 DEF StopBegins, audio, mixdown, StopClosesWriter, Await, StopAwaitsAudio,
       StopAwaitsJournal, StopWritesTranscripts, locals, StopDropsJournal, AudioInv,
       AudioIsDrained, AudioAccounted, EncodesTheFiles, MixdownIsWhole, Playable,
       TypeOK, AudioTyped, Live, PastWriter, PastAudio, StopStages, PreEncode
  <1>5. CASE StopSavesLastCheckpoint
    BY <1>5 DEF StopSavesLastCheckpoint, SaveCheckpoint, mixdown, locals, AudioInv,
       AudioIsDrained, AudioAccounted, EncodesTheFiles, MixdownIsWhole, Playable,
       TypeOK, AudioTyped, Live, PastWriter, PastAudio, StopStages, PreEncode
  <1>6. CASE StopStartsEncoder \/ RecoverStartsEncoder
    BY <1>6 DEF StopStartsEncoder, EncoderStarts, mixdown, locals, RecoverStartsEncoder,
       AudioInv, AudioIsDrained, AudioAccounted, EncodesTheFiles, MixdownIsWhole,
       Playable, TypeOK, AudioTyped, Live, PastWriter, PastAudio, StopStages, PreEncode
  <1>7. CASE StopGivesUp \/ StopWritesMetadata \/ StopFinalisesRow
    BY <1>7 DEF StopGivesUp, audio, mixdown, StopWritesMetadata, StopFinalisesRow,
       locals, AudioInv, AudioIsDrained, AudioAccounted, EncodesTheFiles,
       MixdownIsWhole, Playable, TypeOK, AudioTyped, Live, PastWriter, PastAudio,
       StopStages, PreEncode
  <1>8. CASE StopCleansUp
    BY <1>8 DEF StopCleansUp, Cleanup, mixdown, locals, AudioInv, AudioIsDrained,
       AudioAccounted, EncodesTheFiles, MixdownIsWhole, Playable, TypeOK, AudioTyped,
       Live, PastWriter, PastAudio, StopStages, PreEncode
  <1>9. CASE EncoderEnds
    BY <1>9 DEF EncoderEnds, audio, AudioInv, AudioIsDrained, AudioAccounted,
       EncodesTheFiles, MixdownIsWhole, Playable, TypeOK, AudioTyped, Live, PastWriter,
       PastAudio, StopStages, PreEncode
  <1>10. CASE Crash
    BY <1>10 DEF Crash, Up, AudioInv, AudioIsDrained, AudioAccounted, EncodesTheFiles,
       MixdownIsWhole, Playable, TypeOK, AudioTyped, Live, PastWriter, PastAudio,
       StopStages, PreEncode
  <1>11. CASE Boot \/ RecoverChecks \/ RecoverCleansUp \/ RecoverMarks \/ RecoverDeletes
    BY <1>11 DEF Boot, audio, mixdown, locals, RecoverChecks, RecoverCleansUp, Cleanup,
       RecoverMarks, RecoverDeletes, AudioInv, AudioIsDrained, AudioAccounted,
       EncodesTheFiles, MixdownIsWhole, Playable, TypeOK, AudioTyped, Live, PastWriter,
       PastAudio, StopStages, PreEncode
  <1> QED BY <1>1, <1>2, <1>3, <1>4, <1>5, <1>6, <1>7, <1>8, <1>9, <1>10, <1>11 DEF
     Next, Recording, Tasks, StopStep, Recovery

(* Only the last steps of a save or of a recovery set the path.             *)
LEMMA NoResultStep ==
  ASSUME TypeOK, CheckpointInv, AudioInv, Next
  PROVE  NoResultYet'
  <1>1. CASE Capture
    BY <1>1 DEF Capture, mixdown, locals, AudioInv, NoResultYet, Live, StopStages
  <1>2. CASE Deliver \/ JournalAppends \/ RebuildBegins \/ RebuildEnds \/ Flush
    BY <1>2, AudioUntouched DEF Deliver, JournalAppends, RebuildBegins, RebuildEnds,
       Flush, AudioInv
  <1>3. CASE Accumulate
    BY <1>3 DEF Accumulate, SaveCheckpoint, SaverLocked, Up, mixdown, locals, AudioInv,
       NoResultYet, Live, StopStages
  <1>4. CASE StopBegins \/ StopClosesWriter \/ StopAwaitsAudio \/ StopAwaitsJournal \/
     StopWritesTranscripts \/ StopDropsJournal
    BY <1>4 DEF StopBegins, mixdown, StopClosesWriter, Await, StopAwaitsAudio,
       StopAwaitsJournal, StopWritesTranscripts, locals, StopDropsJournal, AudioInv,
       NoResultYet, Live, StopStages
  <1>5. CASE StopSavesLastCheckpoint
    BY <1>5 DEF StopSavesLastCheckpoint, SaveCheckpoint, mixdown, locals, AudioInv,
       NoResultYet, Live, StopStages
  <1>6. CASE StopStartsEncoder \/ RecoverStartsEncoder
    BY <1>6 DEF StopStartsEncoder, EncoderStarts, mixdown, locals, RecoverStartsEncoder,
       AudioInv, NoResultYet, Live, StopStages
  <1>7. CASE StopGivesUp \/ StopCleansUp \/ StopWritesMetadata \/ StopFinalisesRow
    BY <1>7 DEF StopGivesUp, mixdown, StopCleansUp, Cleanup, locals, StopWritesMetadata,
       StopFinalisesRow, AudioInv, NoResultYet, Live, StopStages
  <1>8. CASE EncoderEnds
    BY <1>8 DEF EncoderEnds, AudioInv, NoResultYet, Live, StopStages
  <1>9. CASE Crash
    BY <1>9 DEF Crash, Up, AudioInv, NoResultYet, Live, StopStages
  <1>10. CASE Boot \/ RecoverChecks \/ RecoverCleansUp \/ RecoverMarks \/ RecoverDeletes
    BY <1>10 DEF Boot, mixdown, locals, RecoverChecks, RecoverCleansUp, Cleanup,
       RecoverMarks, RecoverDeletes, AudioInv, NoResultYet, Live, StopStages
  <1> QED BY <1>1, <1>2, <1>3, <1>4, <1>5, <1>6, <1>7, <1>8, <1>9, <1>10 DEF Next,
     Recording, Tasks, StopStep, Recovery

(* What was kept is, by then, what was captured.                            *)
LEMMA SavedStep ==
  ASSUME TypeOK, CheckpointInv, AudioInv, Next
  PROVE  SavedIsWhole'
  <1>1. CASE Capture
    BY <1>1 DEF Capture, mixdown, locals, AudioInv, SavedIsWhole, NoResultYet, Playable,
       TypeOK, AudioTyped, Live, StopStages
  <1>2. CASE Deliver \/ JournalAppends \/ RebuildBegins \/ RebuildEnds \/ Flush
    BY <1>2, AudioUntouched DEF Deliver, JournalAppends, RebuildBegins, RebuildEnds,
       Flush, AudioInv
  <1>3. CASE Accumulate
    BY <1>3 DEF Accumulate, SaveCheckpoint, SaverLocked, Up, mixdown, locals, AudioInv,
       SavedIsWhole, NoResultYet, Playable, TypeOK, AudioTyped, Live, StopStages
  <1>4. CASE StopBegins \/ StopClosesWriter \/ StopAwaitsAudio \/ StopAwaitsJournal \/
     StopWritesTranscripts \/ StopDropsJournal
    BY <1>4 DEF StopBegins, audio, mixdown, StopClosesWriter, Await, StopAwaitsAudio,
       StopAwaitsJournal, StopWritesTranscripts, locals, StopDropsJournal, AudioInv,
       SavedIsWhole, NoResultYet, Playable, TypeOK, AudioTyped, Live, StopStages
  <1>5. CASE StopSavesLastCheckpoint
    BY <1>5 DEF StopSavesLastCheckpoint, SaveCheckpoint, mixdown, locals, AudioInv,
       SavedIsWhole, NoResultYet, Playable, TypeOK, AudioTyped, Live, StopStages
  <1>6. CASE StopStartsEncoder \/ RecoverStartsEncoder
    BY <1>6 DEF StopStartsEncoder, EncoderStarts, mixdown, locals, RecoverStartsEncoder,
       AudioInv, SavedIsWhole, NoResultYet, Playable, TypeOK, AudioTyped, Live,
       StopStages
  <1>7. CASE StopGivesUp \/ StopCleansUp \/ StopFinalisesRow
    BY <1>7 DEF StopGivesUp, audio, mixdown, StopCleansUp, Cleanup, locals,
       StopFinalisesRow, AudioInv, SavedIsWhole, NoResultYet, Playable, TypeOK,
       AudioTyped, Live, StopStages
  <1>8. CASE StopWritesMetadata
    <2>1. kept = 1..captured \/ "audio" \in late
      BY <1>8 DEF StopWritesMetadata, AudioInv, AudioAccounted, AudioIsDrained, Live,
         PastAudio,
             PastWriter, StopStages
    <2> QED BY <1>8, <2>1 DEF StopWritesMetadata, AudioInv, SavedIsWhole, MixdownIsWhole,
               Playable,
                           audio, mixdown
  <1>9. CASE EncoderEnds
    BY <1>9 DEF EncoderEnds, audio, AudioInv, SavedIsWhole, NoResultYet, Playable,
       TypeOK, AudioTyped, Live, StopStages
  <1>10. CASE Crash
    BY <1>10 DEF Crash, Up, AudioInv, SavedIsWhole, NoResultYet, Playable, TypeOK,
       AudioTyped, Live, StopStages
  <1>11. CASE Boot \/ RecoverChecks \/ RecoverCleansUp \/ RecoverMarks \/ RecoverDeletes
    BY <1>11 DEF Boot, audio, mixdown, locals, RecoverChecks, RecoverCleansUp, Cleanup,
       RecoverMarks, RecoverDeletes, AudioInv, SavedIsWhole, NoResultYet, Playable,
       TypeOK, AudioTyped, Live, StopStages
  <1> QED BY <1>1, <1>2, <1>3, <1>4, <1>5, <1>6, <1>7, <1>8, <1>9, <1>10, <1>11 DEF
     Next, Recording, Tasks, StopStep, Recovery

(* A recovery has the path once ffmpeg has encoded all the files.           *)
LEMMA RecoveredStep ==
  ASSUME TypeOK, CheckpointInv, AudioInv, Next
  PROVE  RecoveredIsWhole'
  <1>1. CASE Capture
    BY <1>1 DEF Capture, mixdown, locals, AudioInv, RecoveredIsWhole, EncodesTheFiles,
       NoResultYet, PlaysTheFiles, Playable, CheckpointInv, EncoderHasFiles,
       RestartedHasNoAudio, TypeOK, AudioTyped, Live, StopStages, RecoveryStages
  <1>2. CASE Deliver \/ JournalAppends \/ RebuildBegins \/ RebuildEnds \/ Flush
    BY <1>2, AudioUntouched DEF Deliver, JournalAppends, RebuildBegins, RebuildEnds,
       Flush, AudioInv
  <1>3. CASE Accumulate
    BY <1>3 DEF Accumulate, SaveCheckpoint, SaverLocked, Up, mixdown, locals, AudioInv,
       RecoveredIsWhole, EncodesTheFiles, NoResultYet, PlaysTheFiles, Playable,
       CheckpointInv, EncoderHasFiles, RestartedHasNoAudio, TypeOK, AudioTyped, Live,
       StopStages, RecoveryStages
  <1>4. CASE StopBegins \/ StopClosesWriter \/ StopAwaitsAudio \/ StopAwaitsJournal \/
     StopWritesTranscripts \/ StopDropsJournal
    BY <1>4 DEF StopBegins, audio, mixdown, StopClosesWriter, Await, StopAwaitsAudio,
       StopAwaitsJournal, StopWritesTranscripts, locals, StopDropsJournal, AudioInv,
       RecoveredIsWhole, EncodesTheFiles, NoResultYet, PlaysTheFiles, Playable,
       CheckpointInv, EncoderHasFiles, RestartedHasNoAudio, TypeOK, AudioTyped, Live,
       StopStages, RecoveryStages
  <1>5. CASE StopSavesLastCheckpoint
    BY <1>5 DEF StopSavesLastCheckpoint, SaveCheckpoint, mixdown, locals, AudioInv,
       RecoveredIsWhole, EncodesTheFiles, NoResultYet, PlaysTheFiles, Playable,
       CheckpointInv, EncoderHasFiles, RestartedHasNoAudio, TypeOK, AudioTyped, Live,
       StopStages, RecoveryStages
  <1>6. CASE StopStartsEncoder \/ RecoverStartsEncoder
    BY <1>6 DEF StopStartsEncoder, EncoderStarts, mixdown, locals, RecoverStartsEncoder,
       AudioInv, RecoveredIsWhole, EncodesTheFiles, NoResultYet, PlaysTheFiles,
       Playable, CheckpointInv, EncoderHasFiles, RestartedHasNoAudio, TypeOK,
       AudioTyped, Live, StopStages, RecoveryStages
  <1>7. CASE StopGivesUp \/ StopCleansUp \/ StopWritesMetadata \/ StopFinalisesRow
    BY <1>7 DEF StopGivesUp, audio, mixdown, StopCleansUp, Cleanup, locals,
       StopWritesMetadata, StopFinalisesRow, AudioInv, RecoveredIsWhole,
       EncodesTheFiles, NoResultYet, PlaysTheFiles, Playable, CheckpointInv,
       EncoderHasFiles, RestartedHasNoAudio, TypeOK, AudioTyped, Live, StopStages,
       RecoveryStages
  <1>8. CASE EncoderEnds
    BY <1>8 DEF EncoderEnds, audio, AudioInv, RecoveredIsWhole, EncodesTheFiles,
       NoResultYet, PlaysTheFiles, Playable, CheckpointInv, EncoderHasFiles,
       RestartedHasNoAudio, TypeOK, AudioTyped, Live, StopStages, RecoveryStages
  <1>9. CASE Crash
    BY <1>9 DEF Crash, Up, AudioInv, RecoveredIsWhole, EncodesTheFiles, NoResultYet,
       PlaysTheFiles, Playable, CheckpointInv, EncoderHasFiles, RestartedHasNoAudio,
       TypeOK, AudioTyped, Live, StopStages, RecoveryStages
  <1>10. CASE Boot \/ RecoverChecks \/ RecoverMarks \/ RecoverDeletes
    BY <1>10 DEF Boot, audio, mixdown, locals, RecoverChecks, RecoverMarks,
       RecoverDeletes, AudioInv, RecoveredIsWhole, EncodesTheFiles, NoResultYet,
       PlaysTheFiles, Playable, CheckpointInv, EncoderHasFiles, RestartedHasNoAudio,
       TypeOK, AudioTyped, Live, StopStages, RecoveryStages
  <1>11. CASE RecoverCleansUp
    <2>1. UNION files' \subseteq UNION files
      BY <1>11, UnionRemove DEF RecoverCleansUp, Cleanup
    <2> QED BY <1>11, <2>1 DEF RecoverCleansUp, Cleanup, AudioInv, RecoveredIsWhole,
               PlaysTheFiles,
                           Playable, mixdown, locals
  <1> QED BY <1>1, <1>2, <1>3, <1>4, <1>5, <1>6, <1>7, <1>8, <1>9, <1>10, <1>11 DEF
     Next, Recording, Tasks, StopStep, Recovery

(* The path is written when nothing is left to encode, and never afterwards *)
(* is audio.mp4 written again.                                              *)
LEMMA RowStep ==
  ASSUME TypeOK, CheckpointInv, AudioInv, Next
  PROVE  RowIsFinal'
  <1>1. CASE Capture
    BY <1>1 DEF Capture, mixdown, meeting, locals, AudioInv, RowIsFinal,
       RecoveredIsWhole, AudioIsDrained, PlaysTheFiles, Playable, CheckpointInv,
       RestartedHasNoAudio, TypeOK, AudioTyped, PastWriter, PastAudio, StopStages,
       RecoveryStages
  <1>2. CASE Deliver \/ JournalAppends \/ RebuildBegins \/ RebuildEnds \/ Flush
    BY <1>2, AudioUntouched DEF Deliver, JournalAppends, RebuildBegins, RebuildEnds,
       Flush, AudioInv
  <1>3. CASE Accumulate
    BY <1>3 DEF Accumulate, SaveCheckpoint, SaverLocked, Up, mixdown, meeting, locals,
       AudioInv, RowIsFinal, RecoveredIsWhole, AudioIsDrained, PlaysTheFiles, Playable,
       CheckpointInv, RestartedHasNoAudio, TypeOK, AudioTyped, PastWriter, PastAudio,
       StopStages, RecoveryStages
  <1>4. CASE StopBegins \/ StopClosesWriter \/ StopAwaitsAudio \/ StopAwaitsJournal \/
     StopWritesTranscripts \/ StopDropsJournal
    BY <1>4 DEF StopBegins, audio, mixdown, meeting, StopClosesWriter, Await,
       StopAwaitsAudio, StopAwaitsJournal, StopWritesTranscripts, locals,
       StopDropsJournal, AudioInv, RowIsFinal, RecoveredIsWhole, AudioIsDrained,
       PlaysTheFiles, Playable, CheckpointInv, RestartedHasNoAudio, TypeOK, AudioTyped,
       PastWriter, PastAudio, StopStages, RecoveryStages
  <1>5. CASE StopSavesLastCheckpoint
    BY <1>5 DEF StopSavesLastCheckpoint, SaveCheckpoint, mixdown, meeting, locals,
       AudioInv, RowIsFinal, RecoveredIsWhole, AudioIsDrained, PlaysTheFiles, Playable,
       CheckpointInv, RestartedHasNoAudio, TypeOK, AudioTyped, PastWriter, PastAudio,
       StopStages, RecoveryStages
  <1>6. CASE StopStartsEncoder \/ RecoverStartsEncoder
    BY <1>6 DEF StopStartsEncoder, EncoderStarts, mixdown, meeting, locals,
       RecoverStartsEncoder, AudioInv, RowIsFinal, RecoveredIsWhole, AudioIsDrained,
       PlaysTheFiles, Playable, CheckpointInv, RestartedHasNoAudio, TypeOK, AudioTyped,
       PastWriter, PastAudio, StopStages, RecoveryStages
  <1>7. CASE StopGivesUp \/ StopCleansUp \/ StopWritesMetadata
    BY <1>7 DEF StopGivesUp, audio, mixdown, meeting, StopCleansUp, Cleanup, locals,
       StopWritesMetadata, AudioInv, RowIsFinal, RecoveredIsWhole, AudioIsDrained,
       PlaysTheFiles, Playable, CheckpointInv, RestartedHasNoAudio, TypeOK, AudioTyped,
       PastWriter, PastAudio, StopStages, RecoveryStages
  <1>8. CASE StopFinalisesRow
    <2>1. ASSUME path', "audio" \notin late
          PROVE  PlaysTheFiles /\ ~encoder
      <3>1. result /\ Playable = 1..captured /\ ~encoder
        BY <1>8, <2>1 DEF StopFinalisesRow, AudioInv, SavedIsWhole, RowIsFinal
      <3>2. kept \subseteq 1..captured /\ UNION files \subseteq kept
        BY <1>8 DEF StopFinalisesRow, AudioInv, AudioAccounted, Live, StopStages, TypeOK,
           AudioTyped,
                 CheckpointInv, FilesAreKept
      <3> QED BY <3>1, <3>2 DEF PlaysTheFiles
    <2>2. path' => row' = "completed" /\ stage' = "stopped" /\ ~encoder
      BY <1>8 DEF StopFinalisesRow, AudioInv, SavedIsWhole, RowIsFinal
    <2> QED BY <1>8, <2>1, <2>2 DEF StopFinalisesRow, RowIsFinal, PlaysTheFiles, Playable,
               audio,
                                 mixdown, locals
  <1>9. CASE EncoderEnds
    BY <1>9 DEF EncoderEnds, audio, meeting, AudioInv, RowIsFinal, RecoveredIsWhole,
       AudioIsDrained, PlaysTheFiles, Playable, CheckpointInv, RestartedHasNoAudio,
       TypeOK, AudioTyped, PastWriter, PastAudio, StopStages, RecoveryStages
  <1>10. CASE Crash
    BY <1>10 DEF Crash, Up, meeting, AudioInv, RowIsFinal, RecoveredIsWhole,
       AudioIsDrained, PlaysTheFiles, Playable, CheckpointInv, RestartedHasNoAudio,
       TypeOK, AudioTyped, PastWriter, PastAudio, StopStages, RecoveryStages
  <1>11. CASE Boot \/ RecoverChecks \/ RecoverDeletes \/ RecoverCleansUp
    BY <1>11 DEF Boot, audio, mixdown, locals, RecoverChecks, meeting, RecoverDeletes,
       RecoverCleansUp, Cleanup, AudioInv, RowIsFinal, RecoveredIsWhole, AudioIsDrained,
       PlaysTheFiles, Playable, CheckpointInv, RestartedHasNoAudio, TypeOK, AudioTyped,
       PastWriter, PastAudio, StopStages, RecoveryStages
  <1>12. CASE RecoverMarks
    BY <1>12 DEF RecoverMarks, audio, mixdown, meeting, AudioInv, RowIsFinal,
       RecoveredIsWhole, AudioIsDrained, PlaysTheFiles, Playable, CheckpointInv,
       RestartedHasNoAudio, TypeOK, AudioTyped, PastWriter, PastAudio, StopStages,
       RecoveryStages
  <1> QED BY <1>1, <1>2, <1>3, <1>4, <1>5, <1>6, <1>7, <1>8, <1>9, <1>10, <1>11, <1>12
     DEF Next, Recording, Tasks, StopStep, Recovery

(* What is saved and what the row says of it, in every state.               *)
LEMMA AudioInductive == Spec => []AudioInv
  <1>1. TypeOK /\ CheckpointInv /\ AudioInv /\ Next => AudioInv'
    BY AccountedStep, DrainedAudioStep, EncodesStep, MixdownStep, NoResultStep, SavedStep,
       RecoveredStep, RowStep DEF AudioInv
  <1>2. AudioInv /\ UNCHANGED vars => AudioInv'
    BY AudioUntouched DEF vars
  <1> QED BY InitAudio, TypeCorrect, CheckpointsInductive, <1>1, <1>2, PTL DEF Spec

(* The path stop() returns is that of an audio.mp4 that plays every chunk   *)
(* captured, if the accumulation task was drained.                          *)
THEOREM SavedAudioPlaysAll == Spec => []SavedAudioIsWhole
  <1>1. AudioInv => SavedAudioIsWhole
    BY DEF AudioInv, SavedIsWhole, SavedAudioIsWhole
  <1> QED BY AudioInductive, <1>1, PTL

(* The path in the meetings row is that of an audio.mp4 that plays what the *)
(* checkpoint files hold, through every failure, crash and recovery.        *)
THEOREM RowPathPlays == Spec => []RowAudioIsPlayable
  <1>1. AudioInv => RowAudioIsPlayable
    BY DEF AudioInv, RowIsFinal, PlaysTheFiles, RowAudioIsPlayable
  <1> QED BY AudioInductive, <1>1, PTL

=============================================================================
