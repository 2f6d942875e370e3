---------------------- MODULE SerialRecording_proofs ----------------------
(* Proofs about RecordingLifecycle for a shell that runs one start() and    *)
(* one stop() at a time (SerialShell), for any numbers of meetings and      *)
(* segments, with failing statements, crashes and restarts.                 *)
(*                                                                         *)
(* SerialInv, on top of AllInv of RecordingLifecycle_proofs, says what the  *)
(* globals hold at each place of the two calls.  It has three layers, with  *)
(* one lemma per group of actions each: the stages, the handle of the       *)
(* worker, the rows of the transcript.  The properties of the run           *)
(* lifecycle_session follow, and that the service implements                *)
(* RecordingSession: Init maps to Init, a step to a step or a stutter.      *)
(* Two results about stop() close the module: no segment is dropped while   *)
(* it has the manager in hand, and no save knows the duration.              *)
EXTENDS RecordingLifecycle_proofs

-----------------------------------------------------------------------------
(* The inductive invariant *)

(* The labels of a start() that is under way, and of a stop() before and    *)
(* after it has announced itself.                                           *)
Opening == {"validate", "startFailed", "open", "meetingInfo", "row", "store",
            "spawnWorker", "subscribe", "announceRecording"}
Before == {"check", "claimStop", "readPhase", "readMeeting", "announceStopping"}
Stopping == {"take", "flush", "replay", "putBack", "announceFinalising"}
Finalising == {"takeTask", "drain", "unsubscribe", "closeWriter", "takeForSave",
               "save", "finaliseRow", "announceIdle"}

(* Nothing of a recording is left in the globals.                           *)
Quiet ==
    /\ slot = NONE /\ task = NONE /\ subscriber = NONE /\ writer = NONE
    /\ capturing = {}

(* The SQLite writer is that of recording m, and it was opened if the row   *)
(* was inserted.                                                            *)
Writes(m) ==
    /\ m # NONE
    /\ writer \in {m, NONE}
    /\ rows[m] = "recording" => writer = m

(* What the worker of m publishes goes to the session of m.                 *)
Fed(m) == subscriber = m /\ Writes(m)

(* What start() has set up so far.                                         *)
SetUp(c) ==
    /\ pc[c] \in {"validate", "startFailed", "open"} => Quiet
    /\ pc[c] \in {"meetingInfo", "row", "store"} =>
          /\ slot = NONE /\ task = NONE /\ subscriber = NONE
          /\ capturing = {mine[c]} /\ Writes(mine[c]) /\ worker[mine[c]] = "none"
          /\ pc[c] # "store" => writer = NONE
    /\ pc[c] \in {"spawnWorker", "subscribe", "announceRecording"} =>
          /\ slot = mine[c] /\ Writes(slot) /\ capturing = {slot}
          /\ task = IF pc[c] = "spawnWorker" THEN NONE ELSE slot
          /\ subscriber = IF pc[c] = "announceRecording" THEN slot ELSE NONE
          /\ pc[c] = "spawnWorker" => worker[slot] = "none"

(* What stop() has not torn down yet.                                      *)
WindUp(c) ==
    /\ pc[c] \in {"take", "announceFinalising"} =>
          task = slot /\ Fed(slot) /\ capturing = IF pc[c] = "take" THEN {slot} ELSE {}
    /\ pc[c] \in {"flush", "replay", "putBack"} =>
          /\ slot = NONE /\ task = held[c] /\ Fed(held[c])
          /\ capturing = IF pc[c] = "flush" THEN {held[c]} ELSE {}
    /\ pc[c] \in Finalising =>
          /\ capturing = {}
          /\ task = IF pc[c] = "takeTask" THEN slot ELSE NONE
    /\ pc[c] = "drain" => joining[c] = slot
    /\ pc[c] \in {"takeTask", "drain", "unsubscribe"} => Fed(slot)
    /\ pc[c] = "closeWriter" => subscriber = NONE /\ Writes(slot)
    /\ pc[c] \in {"takeForSave", "save"} => subscriber = NONE /\ writer = NONE
    /\ pc[c] = "takeForSave" => slot # NONE
    /\ pc[c] = "save" => slot = NONE /\ held[c] # NONE
    /\ pc[c] \in {"finaliseRow", "announceIdle"} => Quiet

(* While start() is under way no stop() runs, and the phase is Starting.    *)
StartStages ==
    \A c \in StartCalls : pc[c] \in Opening =>
        /\ phase = "Starting"
        /\ \A d \in StopCalls : pc[d] = "idle"
        /\ SetUp(c)

(* While stop() takes a recording down no start() gets past its checks.     *)
StopStages ==
    \A d \in StopCalls : pc[d] \in Stopping \cup Finalising =>
        /\ phase = IF pc[d] \in Stopping THEN "Stopping" ELSE "Finalising"
        /\ \A c \in StartCalls : pc[c] \in {"idle", "releaseStart"}
        /\ WindUp(d)

(* Between the calls nothing is left over, or a whole recording runs.       *)
BetweenStages ==
    \/ \E c \in StartCalls : pc[c] \in Opening
    \/ \E d \in StopCalls : pc[d] \in Stopping \cup Finalising
    \/ /\ phase = "Idle" /\ Quiet
       /\ \A d \in StopCalls : pc[d] \in {"idle", "releaseStop"}
       /\ \A c \in StartCalls, d \in StopCalls :
             pc[c] \in {"checkActive", "announceStarting"} => pc[d] = "idle"
    \/ /\ phase = "Recording" /\ task = slot /\ Fed(slot) /\ capturing = {slot}
       /\ \A c \in StartCalls : pc[c] \in {"idle", "releaseStart"}
       /\ \A d \in StopCalls : pc[d] \in {"idle"} \cup Before

(* Where the calls are determines the phase and what the globals hold.      *)
StageInv == StartStages /\ StopStages /\ BetweenStages

(* A worker runs only while its handle is in TRANSCRIPTION_TASK or awaited. *)
HandleInv ==
    /\ \A m \in Meetings : worker[m] \in {"running", "storing"} =>
          task = m \/ \E c \in StopCalls : joining[c] = m
    /\ \A c \in StopCalls : joining[c] # NONE => pc[c] = "drain"

(* As long as a row says "recording" or "completed", what was delivered for *)
(* its meeting was handed to SQLite.                                        *)
WholeSoFar ==
    /\ \A s \in delivered : worker[s[1]] # "none"
    /\ \A m \in Meetings \ minted : worker[m] = "none"
    /\ \A m \in Meetings : rows[m] \in {"recording", "completed"} =>
          \A s \in delivered : s[1] = m => <<m, s>> \in db

(* The inductive invariant.                                                 *)
SerialInv == AllInv /\ StageInv /\ HandleInv /\ WholeSoFar

-----------------------------------------------------------------------------
(* The stages *)

(* A process that has just started is between two recordings.               *)
LEMMA InitStage == Init => StageInv
  BY DEF Init, StageInv, StartStages, StopStages, BetweenStages, Quiet, Opening, Stopping,
         Finalising, Calls, StopLike

(* start() passes through its stages in order, and begins only when no stop *)
(* is past its check of the flag.                                           *)
LEMMA StartKeepsStage ==
  ASSUME SerialShell, SerialInv, NEW c \in StartCalls, StartStep(c)
  PROVE  StageInv'
  <1> USE CallsAssumption DEF SerialInv, AllInv, TypeInv, TypeOK, GuardsExclusive, StartHolds,
          StopHolds, SerialShell, StageInv, StartStages, StopStages, BetweenStages, SetUp, WindUp,
          Quiet, Writes, Fed, Opening, Stopping, Finalising, Before, IsRecording, HandleInv,
          StartLabels, StopLabels, Calls, StopLike, Goto, OnlyPc, EmitPhase,
          phaseVars, globals, managers, workers, database, locals
  <1>1. CASE StartClaim(c)
    BY <1>1 DEF StartClaim
  <1>2. CASE StartCheckStop(c)
    BY <1>2 DEF StartCheckStop
  <1>3. CASE StartCheckActive(c)
    BY <1>3 DEF StartCheckActive
  <1>4. CASE StartAnnounceStarting(c)
    BY <1>4 DEF StartAnnounceStarting
  <1>5. CASE StartValidate(c)
    BY <1>5 DEF StartValidate
  <1>6. CASE StartFailed(c)
    BY <1>6 DEF StartFailed
  <1>7. CASE StartOpen(c)
    <2>1. CASE pc' = [pc EXCEPT ![c] = "startFailed"] /\ UNCHANGED <<minted, recording, clocked, capturing, mine>>
      BY <1>7, <2>1 DEF StartOpen
    <2>2. ASSUME NEW m \in Meetings \ minted,
                 capturing' = capturing \cup {m}, mine' = [mine EXCEPT ![c] = m],
                 pc' = [pc EXCEPT ![c] = "meetingInfo"]
          PROVE  StageInv'
      <3>1. rows[m] = "none" /\ worker[m] = "none" /\ m # NONE
        BY DEF OneHand, MintedFirst, WholeSoFar
      <3> QED BY <1>7, <2>2, <3>1 DEF StartOpen
    <2> QED BY <1>7, <2>1, <2>2 DEF StartOpen
  <1>8. CASE StartMeetingInfo(c)
    BY <1>8 DEF StartMeetingInfo
  <1>9. CASE StartRow(c)
    BY <1>9 DEF StartRow
  <1>10. CASE StartStore(c)
    BY <1>10 DEF StartStore
  <1>11. CASE StartSpawnWorker(c)
    BY <1>11 DEF StartSpawnWorker
  <1>12. CASE StartSubscribe(c)
    BY <1>12 DEF StartSubscribe
  <1>13. CASE StartAnnounceRecording(c)
    BY <1>13 DEF StartAnnounceRecording
  <1>14. CASE StartRelease(c)
    BY <1>14 DEF StartRelease
  <1> QED BY <1>1, <1>2, <1>3, <1>4, <1>5, <1>6, <1>7, <1>8, <1>9, <1>10, <1>11, <1>12,
             <1>13, <1>14 DEF StartStep

(* So does stop(): it hands the recording from the slot to its own hands and *)
(* back, and lets go of the handle, the subscriber and the writer in turn.   *)
LEMMA StopKeepsStage ==
  ASSUME SerialShell, SerialInv, NEW c \in StopLike, StopStep(c)
  PROVE  StageInv'
  <1> USE CallsAssumption DEF SerialInv, AllInv, TypeInv, TypeOK, GuardsExclusive, StartHolds,
          StopHolds, SerialShell, StageInv, StartStages, StopStages, BetweenStages, SetUp, WindUp,
          Quiet, Writes, Fed, Opening, Stopping, Finalising, Before, IsRecording, HandleInv,
          StartLabels, StopLabels, Calls, StopLike, Goto, OnlyPc, EmitPhase,
          phaseVars, globals, managers, workers, database, locals
  <1>1. CASE StopCheck(c)
    BY <1>1 DEF StopCheck, Returned
  <1>2. CASE StopClaim(c)
    BY <1>2 DEF StopClaim, Returned
  <1>3. CASE StopReadPhase(c)
    BY <1>3 DEF StopReadPhase
  <1>4. CASE StopReadMeeting(c)
    BY <1>4 DEF StopReadMeeting
  <1>5. CASE StopAnnounceStopping(c)
    BY <1>5 DEF StopAnnounceStopping
  <1>6. CASE StopTake(c)
    BY <1>6 DEF StopTake
  <1>7. CASE StopFlush(c)
    BY <1>7 DEF StopFlush
  <1>8. CASE StopReplay(c)
    BY <1>8 DEF StopReplay
  <1>9. CASE StopPutBack(c)
    BY <1>9 DEF StopPutBack
  <1>10. CASE StopAnnounceFinalising(c)
    BY <1>10 DEF StopAnnounceFinalising
  <1>11. CASE StopTakeTask(c)
    BY <1>11 DEF StopTakeTask
  <1>12. CASE StopDrained(c)
    BY <1>12 DEF StopDrained
  <1>13. CASE StopDrainStalled(c)
    BY <1>13 DEF StopDrainStalled
  <1>14. CASE StopUnsubscribe(c)
    BY <1>14 DEF StopUnsubscribe
  <1>15. CASE StopCloseWriter(c)
    BY <1>15 DEF StopCloseWriter
  <1>16. CASE StopTakeForSave(c)
    BY <1>16 DEF StopTakeForSave
  <1>17. CASE StopSave(c)
    BY <1>17 DEF StopSave
  <1>18. CASE StopFinaliseRow(c)
    BY <1>18 DEF StopFinaliseRow
  <1>19. CASE StopAnnounceIdle(c)
    BY <1>19 DEF StopAnnounceIdle
  <1>20. CASE StopRelease(c)
    BY <1>20 DEF StopRelease, Returned
  <1> QED BY <1>1, <1>2, <1>3, <1>4, <1>5, <1>6, <1>7, <1>8, <1>9, <1>10, <1>11, <1>12,
             <1>13, <1>14, <1>15, <1>16, <1>17, <1>18, <1>19, <1>20 DEF StopStep

(* The worker changes no field that a stage is about.                        *)
LEMMA WorkerKeepsStage ==
  ASSUME SerialShell, SerialInv, NEW m \in Meetings, WorkerStep(m)
  PROVE  StageInv'
  <1> USE CallsAssumption DEF SerialInv, AllInv, TypeInv, TypeOK, GuardsExclusive, StartHolds,
          StopHolds, SerialShell, StageInv, StartStages, StopStages, BetweenStages, SetUp, WindUp,
          Quiet, Writes, Fed, Opening, Stopping, Finalising, Before, IsRecording, HandleInv,
          StartLabels, StopLabels, Calls, StopLike, Goto, OnlyPc, EmitPhase,
          phaseVars, globals, managers, workers, database, locals
  <1>1. CASE WorkerInitFails(m)
    BY <1>1 DEF WorkerInitFails
  <1>2. CASE WorkerFilters(m)
    BY <1>2 DEF WorkerFilters
  <1>3. CASE WorkerPublishes(m)
    BY <1>3 DEF WorkerPublishes, NextSegment
  <1>4. CASE WorkerStores(m)
    BY <1>4 DEF WorkerStores
  <1>5. CASE WorkerEnds(m)
    BY <1>5 DEF WorkerEnds
  <1> QED BY <1>1, <1>2, <1>3, <1>4, <1>5 DEF WorkerStep

(* Nor does the shell, but for the calls it starts; a restart clears all.   *)
LEMMA RestKeepsStage ==
  ASSUME SerialShell, SerialInv, Clicks \/ (\E m \in Meetings : Speak(m)) \/ Restart \/ UNCHANGED vars
  PROVE  StageInv'
  <1> USE CallsAssumption DEF SerialInv, AllInv, TypeInv, TypeOK, GuardsExclusive, StartHolds,
          StopHolds, SerialShell, StageInv, StartStages, StopStages, BetweenStages, SetUp, WindUp,
          Quiet, Writes, Fed, Opening, Stopping, Finalising, Before, IsRecording, HandleInv,
          StartLabels, StopLabels, Calls, StopLike, Goto, OnlyPc, EmitPhase,
          phaseVars, globals, managers, workers, database, locals
  <1>1. ASSUME NEW c \in StartCalls, ClickStart(c) PROVE StageInv'
    BY <1>1 DEF ClickStart
  <1>2. ASSUME NEW c \in StopCalls, ClickStop(c) PROVE StageInv'
    BY <1>2 DEF ClickStop
  <1>3. ASSUME NEW m \in Meetings, Speak(m) PROVE StageInv'
    BY <1>3 DEF Speak
  <1>4. CASE Restart
    BY <1>4 DEF Restart
  <1>5. CASE UNCHANGED vars
    BY <1>5 DEF vars
  <1> QED BY <1>1, <1>2, <1>3, <1>4, <1>5 DEF Clicks

-----------------------------------------------------------------------------
(* The handle of the worker *)

(* No worker runs in a process that has just started.                       *)
LEMMA InitHandle == Init => HandleInv
  BY DEF Init, HandleInv, StopLike

(* start() stores the handle in the step that spawns the worker, and finds  *)
(* no older handle there.                                                   *)
LEMMA StartKeepsHandle ==
  ASSUME SerialShell, SerialInv, NEW c \in StartCalls, StartStep(c)
  PROVE  HandleInv'
  <1> USE CallsAssumption DEF SerialInv, AllInv, TypeInv, TypeOK, GuardsExclusive, StartHolds,
          StopHolds, SerialShell, StageInv, StartStages, StopStages, BetweenStages, SetUp, WindUp,
          Quiet, Writes, Fed, Opening, Stopping, Finalising, Before, IsRecording, HandleInv,
          StartLabels, StopLabels, Calls, StopLike, Goto, OnlyPc, EmitPhase,
          phaseVars, globals, managers, workers, database, locals
  <1>1. CASE StartClaim(c)
    BY <1>1 DEF StartClaim
  <1>2. CASE StartCheckStop(c)
    BY <1>2 DEF StartCheckStop
  <1>3. CASE StartCheckActive(c)
    BY <1>3 DEF StartCheckActive
  <1>4. CASE StartAnnounceStarting(c)
    BY <1>4 DEF StartAnnounceStarting
  <1>5. CASE StartValidate(c)
    BY <1>5 DEF StartValidate
  <1>6. CASE StartFailed(c)
    BY <1>6 DEF StartFailed
  <1>7. CASE StartOpen(c)
    BY <1>7 DEF StartOpen
  <1>8. CASE StartMeetingInfo(c)
    BY <1>8 DEF StartMeetingInfo
  <1>9. CASE StartRow(c)
    BY <1>9 DEF StartRow
  <1>10. CASE StartStore(c)
    BY <1>10 DEF StartStore
  <1>11. CASE StartSpawnWorker(c)
    BY <1>11 DEF StartSpawnWorker
  <1>12. CASE StartSubscribe(c)
    BY <1>12 DEF StartSubscribe
  <1>13. CASE StartAnnounceRecording(c)
    BY <1>13 DEF StartAnnounceRecording
  <1>14. CASE StartRelease(c)
    BY <1>14 DEF StartRelease
  <1> QED BY <1>1, <1>2, <1>3, <1>4, <1>5, <1>6, <1>7, <1>8, <1>9, <1>10, <1>11, <1>12,
             <1>13, <1>14 DEF StartStep

(* stop() keeps the handle until the worker has ended or is aborted.         *)
LEMMA StopKeepsHandle ==
  ASSUME SerialShell, SerialInv, NEW c \in StopLike, StopStep(c)
  PROVE  HandleInv'
  <1> USE CallsAssumption DEF SerialInv, AllInv, TypeInv, TypeOK, GuardsExclusive, StartHolds,
          StopHolds, SerialShell, StageInv, StartStages, StopStages, BetweenStages, SetUp, WindUp,
          Quiet, Writes, Fed, Opening, Stopping, Finalising, Before, IsRecording, HandleInv,
          StartLabels, StopLabels, Calls, StopLike, Goto, OnlyPc, EmitPhase,
          phaseVars, globals, managers, workers, database, locals
  <1>1. CASE StopCheck(c)
    BY <1>1 DEF StopCheck, Returned
  <1>2. CASE StopClaim(c)
    BY <1>2 DEF StopClaim, Returned
  <1>3. CASE StopReadPhase(c)
    BY <1>3 DEF StopReadPhase
  <1>4. CASE StopReadMeeting(c)
    BY <1>4 DEF StopReadMeeting
  <1>5. CASE StopAnnounceStopping(c)
    BY <1>5 DEF StopAnnounceStopping
  <1>6. CASE StopTake(c)
    BY <1>6 DEF StopTake
  <1>7. CASE StopFlush(c)
    BY <1>7 DEF StopFlush
  <1>8. CASE StopReplay(c)
    BY <1>8 DEF StopReplay
  <1>9. CASE StopPutBack(c)
    BY <1>9 DEF StopPutBack
  <1>10. CASE StopAnnounceFinalising(c)
    BY <1>10 DEF StopAnnounceFinalising
  <1>11. CASE StopTakeTask(c)
    BY <1>11 DEF StopTakeTask
  <1>12. CASE StopDrained(c)
    BY <1>12 DEF StopDrained
  <1>13. CASE StopDrainStalled(c)
    BY <1>13 DEF StopDrainStalled
  <1>14. CASE StopUnsubscribe(c)
    BY <1>14 DEF StopUnsubscribe
  <1>15. CASE StopCloseWriter(c)
    BY <1>15 DEF StopCloseWriter
  <1>16. CASE StopTakeForSave(c)
    BY <1>16 DEF StopTakeForSave
  <1>17. CASE StopSave(c)
    BY <1>17 DEF StopSave
  <1>18. CASE StopFinaliseRow(c)
    BY <1>18 DEF StopFinaliseRow
  <1>19. CASE StopAnnounceIdle(c)
    BY <1>19 DEF StopAnnounceIdle
  <1>20. CASE StopRelease(c)
    BY <1>20 DEF StopRelease, Returned
  <1> QED BY <1>1, <1>2, <1>3, <1>4, <1>5, <1>6, <1>7, <1>8, <1>9, <1>10, <1>11, <1>12,
             <1>13, <1>14, <1>15, <1>16, <1>17, <1>18, <1>19, <1>20 DEF StopStep

(* A worker never starts by itself.                                          *)
LEMMA WorkerKeepsHandle ==
  ASSUME SerialShell, SerialInv, NEW m \in Meetings, WorkerStep(m)
  PROVE  HandleInv'
  <1> USE CallsAssumption DEF SerialInv, AllInv, TypeInv, TypeOK, GuardsExclusive, StartHolds,
          StopHolds, SerialShell, StageInv, StartStages, StopStages, BetweenStages, SetUp, WindUp,
          Quiet, Writes, Fed, Opening, Stopping, Finalising, Before, IsRecording, HandleInv,
          StartLabels, StopLabels, Calls, StopLike, Goto, OnlyPc, EmitPhase,
          phaseVars, globals, managers, workers, database, locals
  <1>1. CASE WorkerInitFails(m)
    BY <1>1 DEF WorkerInitFails
  <1>2. CASE WorkerFilters(m)
    BY <1>2 DEF WorkerFilters
  <1>3. CASE WorkerPublishes(m)
    BY <1>3 DEF WorkerPublishes, NextSegment
  <1>4. CASE WorkerStores(m)
    BY <1>4 DEF WorkerStores
  <1>5. CASE WorkerEnds(m)
    BY <1>5 DEF WorkerEnds
  <1> QED BY <1>1, <1>2, <1>3, <1>4, <1>5 DEF WorkerStep

(* Nothing else moves a handle.                                              *)
LEMMA RestKeepsHandle ==
  ASSUME SerialShell, SerialInv, Clicks \/ (\E m \in Meetings : Speak(m)) \/ Restart \/ UNCHANGED vars
  PROVE  HandleInv'
  <1> USE CallsAssumption DEF SerialInv, AllInv, TypeInv, TypeOK, GuardsExclusive, StartHolds,
          StopHolds, SerialShell, StageInv, StartStages, StopStages, BetweenStages, SetUp, WindUp,
          Quiet, Writes, Fed, Opening, Stopping, Finalising, Before, IsRecording, HandleInv,
          StartLabels, StopLabels, Calls, StopLike, Goto, OnlyPc, EmitPhase,
          phaseVars, globals, managers, workers, database, locals
  <1>1. ASSUME NEW c \in StartCalls, ClickStart(c) PROVE HandleInv'
    BY <1>1 DEF ClickStart
  <1>2. ASSUME NEW c \in StopCalls, ClickStop(c) PROVE HandleInv'
    BY <1>2 DEF ClickStop
  <1>3. ASSUME NEW m \in Meetings, Speak(m) PROVE HandleInv'
    BY <1>3 DEF Speak
  <1>4. CASE Restart
    BY <1>4 DEF Restart
  <1>5. CASE UNCHANGED vars
    BY <1>5 DEF vars
  <1> QED BY <1>1, <1>2, <1>3, <1>4, <1>5 DEF Clicks

-----------------------------------------------------------------------------
(* The rows of the transcript *)

(* Nothing has been delivered when the process starts.                      *)
LEMMA InitWhole == Init => WholeSoFar
  BY DEF Init, WholeSoFar

(* A meetings row appears before its worker does, and with its SQLite writer. *)
LEMMA StartKeepsWhole ==
  ASSUME SerialShell, SerialInv, NEW c \in StartCalls, StartStep(c)
  PROVE  WholeSoFar'
  <1> USE CallsAssumption DEF SerialInv, AllInv, TypeInv, TypeOK, GuardsExclusive, StartHolds,
          StopHolds, SerialShell, StageInv, StartStages, StopStages, BetweenStages, SetUp, WindUp,
          Quiet, Writes, Fed, Opening, Stopping, Finalising, Before, IsRecording, HandleInv,
          StartLabels, StopLabels, Calls, StopLike, Goto, OnlyPc, EmitPhase,
          phaseVars, globals, managers, workers, database, locals,
          WholeSoFar, OneHand, MintedFirst, Segments
  <1>1. CASE StartClaim(c)
    BY <1>1 DEF StartClaim
  <1>2. CASE StartCheckStop(c)
    BY <1>2 DEF StartCheckStop
  <1>3. CASE StartCheckActive(c)
    BY <1>3 DEF StartCheckActive
  <1>4. CASE StartAnnounceStarting(c)
    BY <1>4 DEF StartAnnounceStarting
  <1>5. CASE StartValidate(c)
    BY <1>5 DEF StartValidate
  <1>6. CASE StartFailed(c)
    BY <1>6 DEF StartFailed
  <1>7. CASE StartOpen(c)
    BY <1>7 DEF StartOpen
  <1>8. CASE StartMeetingInfo(c)
    BY <1>8 DEF StartMeetingInfo
  <1>9. CASE StartRow(c)
    BY <1>9 DEF StartRow
  <1>10. CASE StartStore(c)
    BY <1>10 DEF StartStore
  <1>11. CASE StartSpawnWorker(c)
    BY <1>11 DEF StartSpawnWorker
  <1>12. CASE StartSubscribe(c)
    BY <1>12 DEF StartSubscribe
  <1>13. CASE StartAnnounceRecording(c)
    BY <1>13 DEF StartAnnounceRecording
  <1>14. CASE StartRelease(c)
    BY <1>14 DEF StartRelease
  <1> QED BY <1>1, <1>2, <1>3, <1>4, <1>5, <1>6, <1>7, <1>8, <1>9, <1>10, <1>11, <1>12,
             <1>13, <1>14 DEF StartStep

(* stop() marks only a row that said "recording" as completed.              *)
LEMMA StopKeepsWhole ==
  ASSUME SerialShell, SerialInv, NEW c \in StopLike, StopStep(c)
  PROVE  WholeSoFar'
  <1> USE CallsAssumption DEF SerialInv, AllInv, TypeInv, TypeOK, GuardsExclusive, StartHolds,
          StopHolds, SerialShell, StageInv, StartStages, StopStages, BetweenStages, SetUp, WindUp,
          Quiet, Writes, Fed, Opening, Stopping, Finalising, Before, IsRecording, HandleInv,
          StartLabels, StopLabels, Calls, StopLike, Goto, OnlyPc, EmitPhase,
          phaseVars, globals, managers, workers, database, locals,
          WholeSoFar, OneHand, MintedFirst, Segments
  <1>1. CASE StopCheck(c)
    BY <1>1 DEF StopCheck, Returned
  <1>2. CASE StopClaim(c)
    BY <1>2 DEF StopClaim, Returned
  <1>3. CASE StopReadPhase(c)
    BY <1>3 DEF StopReadPhase
  <1>4. CASE StopReadMeeting(c)
    BY <1>4 DEF StopReadMeeting
  <1>5. CASE StopAnnounceStopping(c)
    BY <1>5 DEF StopAnnounceStopping
  <1>6. CASE StopTake(c)
    BY <1>6 DEF StopTake
  <1>7. CASE StopFlush(c)
    BY <1>7 DEF StopFlush
  <1>8. CASE StopReplay(c)
    BY <1>8 DEF StopReplay
  <1>9. CASE StopPutBack(c)
    BY <1>9 DEF StopPutBack
  <1>10. CASE StopAnnounceFinalising(c)
    BY <1>10 DEF StopAnnounceFinalising
  <1>11. CASE StopTakeTask(c)
    BY <1>11 DEF StopTakeTask
  <1>12. CASE StopDrained(c)
    BY <1>12 DEF StopDrained
  <1>13. CASE StopDrainStalled(c)
    BY <1>13 DEF StopDrainStalled
  <1>14. CASE StopUnsubscribe(c)
    BY <1>14 DEF StopUnsubscribe
  <1>15. CASE StopCloseWriter(c)
    BY <1>15 DEF StopCloseWriter
  <1>16. CASE StopTakeForSave(c)
    BY <1>16 DEF StopTakeForSave
  <1>17. CASE StopSave(c)
    BY <1>17 DEF StopSave
  <1>18. CASE StopFinaliseRow(c)
    BY <1>18 DEF StopFinaliseRow, OpenRows, StopsMeeting
  <1>19. CASE StopAnnounceIdle(c)
    BY <1>19 DEF StopAnnounceIdle
  <1>20. CASE StopRelease(c)
    BY <1>20 DEF StopRelease, Returned
  <1> QED BY <1>1, <1>2, <1>3, <1>4, <1>5, <1>6, <1>7, <1>8, <1>9, <1>10, <1>11, <1>12,
             <1>13, <1>14, <1>15, <1>16, <1>17, <1>18, <1>19, <1>20 DEF StopStep

(* A running worker that the bus hears belongs to the recording in hand: its  *)
(* subscriber and its writer are the ones in place.                          *)
LEMMA RunningIsFed ==
  ASSUME SerialShell, SerialInv, NEW m \in Meetings, worker[m] = "running"
  PROVE  /\ Live = {m} /\ rows[m] # "completed"
         /\ \/ subscriber = m /\ Writes(m)
            \/ subscriber = NONE /\ \E c \in StartCalls : pc[c] = "subscribe" /\ mine[c] = m
  <1> USE CallsAssumption DEF SerialInv, AllInv, TypeInv, TypeOK, GuardsExclusive, StartHolds,
          StopHolds, SerialShell, StageInv, StartStages, StopStages, BetweenStages, SetUp, WindUp,
          Quiet, Writes, Fed, Opening, Stopping, Finalising, Before, IsRecording, HandleInv,
          StartLabels, StopLabels, Calls, StopLike, Goto, OnlyPc, EmitPhase,
          phaseVars, globals, managers, workers, database, locals,
          OneHand, OpenRows, StartOwnsFresh, OwnedByStart, Live, StopOwnsHeld
  <1> QED OBVIOUS

(* While the row says "recording", whatever the subscriber hears goes to the *)
(* writer too.                                                               *)
LEMMA WorkerKeepsWhole ==
  ASSUME SerialShell, SerialInv, NEW m \in Meetings, WorkerStep(m)
  PROVE  WholeSoFar'
  <1> USE CallsAssumption DEF SerialInv, AllInv, TypeInv, TypeOK, GuardsExclusive, StartHolds,
          StopHolds, SerialShell, StageInv, StartStages, StopStages, BetweenStages, SetUp, WindUp,
          Quiet, Writes, Fed, Opening, Stopping, Finalising, Before, IsRecording, HandleInv,
          StartLabels, StopLabels, Calls, StopLike, Goto, OnlyPc, EmitPhase,
          phaseVars, globals, managers, workers, database, locals,
          WholeSoFar, OneHand, MintedFirst, Segments
  <1>1. CASE WorkerInitFails(m)
    BY <1>1 DEF WorkerInitFails
  <1>2. CASE WorkerFilters(m)
    BY <1>2 DEF WorkerFilters
  <1>3. CASE WorkerPublishes(m)
    <2>1. CASE subscriber = NONE
      BY <1>3, <2>1 DEF WorkerPublishes
    <2>2. CASE subscriber # NONE
      <3>1. subscriber = m /\ Writes(m) /\ rows[m] # "completed"
        BY <1>3, <2>2, RunningIsFed DEF WorkerPublishes, SetUp
      <3>2. /\ delivered' = delivered \cup {NextSegment(m)}
            /\ db' = IF writer = NONE THEN db ELSE db \cup {<<m, NextSegment(m)>>}
            /\ \A n \in Meetings : worker'[n] = IF n = m THEN "storing" ELSE worker[n]
            /\ rows' = rows /\ minted' = minted /\ worker[m] # "none"
        BY <1>3, <2>2, <3>1 DEF WorkerPublishes
      <3>3. NextSegment(m)[1] = m /\ \A s \in delivered : s[1] \in Meetings
        BY DEF NextSegment
      <3>4. \A s \in delivered' : worker'[s[1]] # "none"
        BY <3>2, <3>3
      <3>5. \A n \in Meetings \ minted' : worker'[n] = "none"
        BY <3>2
      <3>6. ASSUME NEW n \in Meetings, rows'[n] \in {"recording", "completed"},
                   NEW s \in delivered', s[1] = n
            PROVE  <<n, s>> \in db'
        BY <3>1, <3>2, <3>3, <3>6
      <3> HIDE DEF Writes
      <3> QED BY <3>4, <3>5, <3>6
    <2> QED BY <2>1, <2>2
  <1>4. CASE WorkerStores(m)
    BY <1>4 DEF WorkerStores
  <1>5. CASE WorkerEnds(m)
    BY <1>5 DEF WorkerEnds
  <1> QED BY <1>1, <1>2, <1>3, <1>4, <1>5 DEF WorkerStep

(* The sweep of a restart leaves no row "recording".                        *)
LEMMA RestKeepsWhole ==
  ASSUME SerialShell, SerialInv, Clicks \/ (\E m \in Meetings : Speak(m)) \/ Restart \/ UNCHANGED vars
  PROVE  WholeSoFar'
  <1> USE CallsAssumption DEF SerialInv, AllInv, TypeInv, TypeOK, GuardsExclusive, StartHolds,
          StopHolds, SerialShell, StageInv, StartStages, StopStages, BetweenStages, SetUp, WindUp,
          Quiet, Writes, Fed, Opening, Stopping, Finalising, Before, IsRecording, HandleInv,
          StartLabels, StopLabels, Calls, StopLike, Goto, OnlyPc, EmitPhase,
          phaseVars, globals, managers, workers, database, locals,
          WholeSoFar, OneHand, MintedFirst, Segments
  <1>1. ASSUME NEW c \in StartCalls, ClickStart(c) PROVE WholeSoFar'
    BY <1>1 DEF ClickStart
  <1>2. ASSUME NEW c \in StopCalls, ClickStop(c) PROVE WholeSoFar'
    BY <1>2 DEF ClickStop
  <1>3. ASSUME NEW m \in Meetings, Speak(m) PROVE WholeSoFar'
    BY <1>3 DEF Speak
  <1>4. CASE Restart
    BY <1>4 DEF Restart, Swept
  <1>5. CASE UNCHANGED vars
    BY <1>5 DEF vars
  <1> QED BY <1>1, <1>2, <1>3, <1>4, <1>5 DEF Clicks

-----------------------------------------------------------------------------
(* The invariant *)

(* The inductive invariant holds initially.                                 *)
LEMMA InitSerialInv == Init => SerialInv
  BY InitAllInv, InitStage, InitHandle, InitWhole DEF SerialInv

(* A step of a shell without fatal errors, quits and pauses.                *)
LEMMA SerialSteps ==
  ASSUME SerialShell, Next
  PROVE  \/ \E c \in StartCalls : StartStep(c)
         \/ \E c \in StopLike : StopStep(c)
         \/ \E m \in Meetings : WorkerStep(m)
         \/ Clicks \/ (\E m \in Meetings : Speak(m)) \/ Restart
  BY DEF SerialShell, Next, Crash

(* The inductive invariant is preserved by every step.                      *)
LEMMA StepKeepsSerialInv ==
  ASSUME SerialShell, SerialInv, [Next]_vars
  PROVE  SerialInv'
  <1>1. AllInv'
    BY StepKeepsAllInv DEF SerialInv
  <1>2. StageInv'
    BY SerialSteps, StartKeepsStage, StopKeepsStage, WorkerKeepsStage, RestKeepsStage
  <1>3. HandleInv'
    BY SerialSteps, StartKeepsHandle, StopKeepsHandle, WorkerKeepsHandle, RestKeepsHandle
  <1>4. WholeSoFar'
    BY SerialSteps, StartKeepsWhole, StopKeepsWhole, WorkerKeepsWhole, RestKeepsWhole
  <1> QED BY <1>1, <1>2, <1>3, <1>4 DEF SerialInv

(* The inductive invariant of a shell that runs one start() and one stop()  *)
(* at a time: where the two calls are determines the phase, the manager,    *)
(* the handle of the worker, the subscriber, the writer and the streams.    *)
THEOREM SerialInvariance == ASSUME SerialShell PROVE Spec => []SerialInv
  BY InitSerialInv, StepKeepsSerialInv, PTL DEF Spec

(* While the shell shows a recording there is a manager for stop() to find. *)
THEOREM RecordingFindsManager == ASSUME SerialShell PROVE Spec => []RecordingHasManager
  <1>1. SerialInv => RecordingHasManager
    BY SerialShell, CallsAssumption DEF SerialShell, SerialInv, StageInv, StartStages,
       StopStages,
       BetweenStages, Fed, Writes, RecordingHasManager
  <1> QED BY <1>1, SerialInvariance, PTL

(* When the phase is Idle, no manager is left in any hand, and nothing is   *)
(* left open or running.                                                    *)
LEMMA IdleStates == SerialShell /\ SerialInv => IdleIsQuiet
  <1> SUFFICES ASSUME SerialShell, SerialInv, phase = "Idle" PROVE IdleIsQuiet
    BY DEF IdleIsQuiet
  <1> USE CallsAssumption DEF SerialShell, SerialInv, AllInv, TypeInv, TypeOK, StopLike, Calls
  <1>1. /\ Quiet
        /\ \A c \in StartCalls : pc[c] \notin Opening
        /\ \A d \in StopCalls : pc[d] \in {"idle", "releaseStop"}
    BY DEF StageInv, StartStages, StopStages, BetweenStages, Opening, Stopping, Finalising
  <1>2. \A d \in StopLike : held[d] = NONE /\ joining[d] = NONE
    BY <1>1 DEF OneHand, StopOwnsHeld, HandleInv
  <1>3. Live = {}
    BY <1>1, <1>2 DEF Live, OwnedByStart, Opening, Quiet
  <1>4. \A m \in Meetings : worker[m] \notin {"running", "storing"}
    BY <1>1, <1>2 DEF HandleInv, Quiet
  <1> QED BY <1>1, <1>3, <1>4 DEF IdleIsQuiet, Quiet

(* Idle means everything was released.                                      *)
THEOREM IdleReleasesAll == ASSUME SerialShell PROVE Spec => []IdleIsQuiet
  BY IdleStates, SerialInvariance, PTL

(* No start "sneaks in" under a stop: a start that is about to store its    *)
(* manager is the only owner of one.  It takes a second start to break it.  *)
THEOREM StartOwnsTheSlot == ASSUME SerialShell PROVE Spec => []StartKeepsManager
  <1>1. ASSUME SerialShell, SerialInv, NEW c \in StartCalls, pc[c] = "store"
        PROVE  Live = {mine[c]}
    <2> USE CallsAssumption DEF SerialShell, SerialInv, AllInv, TypeInv, TypeOK, StopLike, Calls
    <2>1. slot = NONE /\ \A d \in StopCalls : pc[d] = "idle"
      BY <1>1 DEF StageInv, StartStages, SetUp, Opening
    <2>2. \A d \in StopLike : held[d] = NONE
      BY <1>1, <2>1 DEF OneHand, StopOwnsHeld
    <2>3. \A d \in StartCalls : d = c
      BY <1>1
    <2> QED BY <1>1, <2>1, <2>2, <2>3 DEF Live, OwnedByStart
  <1>2. SerialShell /\ SerialInv => StartKeepsManager
    BY <1>1 DEF StartKeepsManager
  <1> QED BY <1>2, SerialInvariance, PTL

(* A row that says "completed" with a drained worker has every segment that *)
(* the bus delivered.                                                       *)
THEOREM CompletedRowsAreWhole == ASSUME SerialShell PROVE Spec => []CompletedIsWhole
  <1>1. SerialInv => CompletedIsWhole
    BY DEF SerialInv, WholeSoFar, CompletedIsWhole
  <1> QED BY <1>1, SerialInvariance, PTL

(* A segment published after the session subscribed is heard by that        *)
(* session, and by no later one.                                            *)
THEOREM SegmentsAreHeard == ASSUME SerialShell PROVE Spec => HeardByOwnSession
  <1>1. SerialInv =>
          \A m \in Meetings :
             WorkerPublishes(m) =>
                 \/ subscriber = m
                 \/ \E c \in StartCalls : pc[c] = "subscribe" /\ mine[c] = m
    BY SerialShell, RunningIsFed DEF WorkerPublishes
  <1> QED BY <1>1, SerialInvariance, PTL DEF Spec, HeardByOwnSession

-----------------------------------------------------------------------------
(* The phase *)

(* Each announcement of start() finds the phase it follows on.              *)
LEMMA StartFollowsTable ==
  ASSUME SerialShell, SerialInv, NEW c \in StartCalls, StartStep(c)
  PROVE  phase' = phase \/ <<phase, phase'>> \in Table
  <1> USE CallsAssumption DEF SerialInv, AllInv, TypeInv, TypeOK, GuardsExclusive, StartHolds,
          StopHolds, SerialShell, StageInv, StartStages, StopStages, BetweenStages, SetUp, WindUp,
          Quiet, Writes, Fed, Opening, Stopping, Finalising, Before, IsRecording, HandleInv,
          StartLabels, StopLabels, Calls, StopLike, Goto, OnlyPc, EmitPhase,
          phaseVars, globals, managers, workers, database, locals,
          Table
  <1>1. CASE StartClaim(c)
    BY <1>1 DEF StartClaim
  <1>2. CASE StartCheckStop(c)
    BY <1>2 DEF StartCheckStop
  <1>3. CASE StartCheckActive(c)
    BY <1>3 DEF StartCheckActive
  <1>4. CASE StartAnnounceStarting(c)
    BY <1>4 DEF StartAnnounceStarting
  <1>5. CASE StartValidate(c)
    BY <1>5 DEF StartValidate
  <1>6. CASE StartFailed(c)
    BY <1>6 DEF StartFailed
  <1>7. CASE StartOpen(c)
    BY <1>7 DEF StartOpen
  <1>8. CASE StartMeetingInfo(c)
    BY <1>8 DEF StartMeetingInfo
  <1>9. CASE StartRow(c)
    BY <1>9 DEF StartRow
  <1>10. CASE StartStore(c)
    BY <1>10 DEF StartStore
  <1>11. CASE StartSpawnWorker(c)
    BY <1>11 DEF StartSpawnWorker
  <1>12. CASE StartSubscribe(c)
    BY <1>12 DEF StartSubscribe
  <1>13. CASE StartAnnounceRecording(c)
    BY <1>13 DEF StartAnnounceRecording
  <1>14. CASE StartRelease(c)
    BY <1>14 DEF StartRelease
  <1> QED BY <1>1, <1>2, <1>3, <1>4, <1>5, <1>6, <1>7, <1>8, <1>9, <1>10, <1>11, <1>12,
             <1>13, <1>14 DEF StartStep
(* So does each announcement of stop().                                     *)
LEMMA StopFollowsTable ==
  ASSUME SerialShell, SerialInv, NEW c \in StopLike, StopStep(c)
  PROVE  phase' = phase \/ <<phase, phase'>> \in Table
  <1> USE CallsAssumption DEF SerialInv, AllInv, TypeInv, TypeOK, GuardsExclusive, StartHolds,
          StopHolds, SerialShell, StageInv, StartStages, StopStages, BetweenStages, SetUp, WindUp,
          Quiet, Writes, Fed, Opening, Stopping, Finalising, Before, IsRecording, HandleInv,
          StartLabels, StopLabels, Calls, StopLike, Goto, OnlyPc, EmitPhase,
          phaseVars, globals, managers, workers, database, locals,
          Table
  <1>1. CASE StopCheck(c)
    BY <1>1 DEF StopCheck, Returned
  <1>2. CASE StopClaim(c)
    BY <1>2 DEF StopClaim, Returned
  <1>3. CASE StopReadPhase(c)
    BY <1>3 DEF StopReadPhase
  <1>4. CASE StopReadMeeting(c)
    BY <1>4 DEF StopReadMeeting
  <1>5. CASE StopAnnounceStopping(c)
    BY <1>5 DEF StopAnnounceStopping
  <1>6. CASE StopTake(c)
    BY <1>6 DEF StopTake
  <1>7. CASE StopFlush(c)
    BY <1>7 DEF StopFlush
  <1>8. CASE StopReplay(c)
    BY <1>8 DEF StopReplay
  <1>9. CASE StopPutBack(c)
    BY <1>9 DEF StopPutBack
  <1>10. CASE StopAnnounceFinalising(c)
    BY <1>10 DEF StopAnnounceFinalising
  <1>11. CASE StopTakeTask(c)
    BY <1>11 DEF StopTakeTask
  <1>12. CASE StopDrained(c)
    BY <1>12 DEF StopDrained
  <1>13. CASE StopDrainStalled(c)
    BY <1>13 DEF StopDrainStalled
  <1>14. CASE StopUnsubscribe(c)
    BY <1>14 DEF StopUnsubscribe
  <1>15. CASE StopCloseWriter(c)
    BY <1>15 DEF StopCloseWriter
  <1>16. CASE StopTakeForSave(c)
    BY <1>16 DEF StopTakeForSave
  <1>17. CASE StopSave(c)
    BY <1>17 DEF StopSave
  <1>18. CASE StopFinaliseRow(c)
    BY <1>18 DEF StopFinaliseRow
  <1>19. CASE StopAnnounceIdle(c)
    BY <1>19 DEF StopAnnounceIdle
  <1>20. CASE StopRelease(c)
    BY <1>20 DEF StopRelease, Returned
  <1> QED BY <1>1, <1>2, <1>3, <1>4, <1>5, <1>6, <1>7, <1>8, <1>9, <1>10, <1>11, <1>12,
             <1>13, <1>14, <1>15, <1>16, <1>17, <1>18, <1>19, <1>20 DEF StopStep

(* The phase follows the documented table: nothing refuses a transition, so *)
(* this is the order of the steps of start() and stop().                    *)
THEOREM PhaseFollowsTable == ASSUME SerialShell PROVE Spec => TableFollowed
  <1>1. SerialInv /\ [Next]_vars =>
           [phase' = phase \/ <<phase, phase'>> \in Table \/ Restart]_vars
    <2> SUFFICES ASSUME SerialInv, Next
                 PROVE  phase' = phase \/ <<phase, phase'>> \in Table \/ Restart
      OBVIOUS
    <2>1. ASSUME NEW m \in Meetings, Speak(m) \/ WorkerStep(m) PROVE phase' = phase
      BY <2>1 DEF Speak, WorkerStep, WorkerInitFails, WorkerFilters, WorkerPublishes,
                  WorkerStores, WorkerEnds, phaseVars
    <2>2. CASE Clicks
      BY <2>2, SerialShell DEF SerialShell, Clicks, ClickStart, ClickStop, OnlyPc, phaseVars
    <2> QED BY <2>1, <2>2, SerialShell, SerialSteps, StartFollowsTable, StopFollowsTable
  <1> QED BY <1>1, SerialInvariance, PTL DEF Spec, TableFollowed

-----------------------------------------------------------------------------
(* The refinement of RecordingSession *)

(* start() makes one recording live, when none is.                          *)
LEMMA StartKeepsLive ==
  ASSUME SerialShell, SerialInv, NEW c \in StartCalls, StartStep(c)
  PROVE  /\ db' = db
         /\ \/ Live' = Live /\ minted' = minted
            \/ \E m \in Meetings \ minted :
                  Live = {} /\ Live' = {m} /\ minted' = minted \cup {m}
  <1> USE CallsAssumption DEF SerialInv, AllInv, TypeInv, TypeOK, GuardsExclusive, StartHolds,
          StopHolds, SerialShell, StageInv, StartStages, StopStages, BetweenStages, SetUp, WindUp,
          Quiet, Writes, Fed, Opening, Stopping, Finalising, Before, IsRecording, HandleInv,
          StartLabels, StopLabels, Calls, StopLike, Goto, OnlyPc, EmitPhase,
          phaseVars, globals, managers, workers, database, locals,
          Live, OwnedByStart, OneHand, MintedFirst, StartOwnsFresh, StopOwnsHeld
  <1>1. CASE StartClaim(c)
    BY <1>1 DEF StartClaim
  <1>2. CASE StartCheckStop(c)
    BY <1>2 DEF StartCheckStop
  <1>3. CASE StartCheckActive(c)
    BY <1>3 DEF StartCheckActive
  <1>4. CASE StartAnnounceStarting(c)
    BY <1>4 DEF StartAnnounceStarting
  <1>5. CASE StartValidate(c)
    BY <1>5 DEF StartValidate
  <1>6. CASE StartFailed(c)
    BY <1>6 DEF StartFailed
  <1>7. CASE StartOpen(c)
    BY <1>7 DEF StartOpen
  <1>8. CASE StartMeetingInfo(c)
    BY <1>8 DEF StartMeetingInfo
  <1>9. CASE StartRow(c)
    BY <1>9 DEF StartRow
  <1>10. CASE StartStore(c)
    BY <1>10 DEF StartStore
  <1>11. CASE StartSpawnWorker(c)
    BY <1>11 DEF StartSpawnWorker
  <1>12. CASE StartSubscribe(c)
    BY <1>12 DEF StartSubscribe
  <1>13. CASE StartAnnounceRecording(c)
    BY <1>13 DEF StartAnnounceRecording
  <1>14. CASE StartRelease(c)
    BY <1>14 DEF StartRelease
  <1> QED BY <1>1, <1>2, <1>3, <1>4, <1>5, <1>6, <1>7, <1>8, <1>9, <1>10, <1>11, <1>12,
             <1>13, <1>14 DEF StartStep
(* stop() passes the recording between the slot and its hands until it has  *)
(* been saved.                                                              *)
LEMMA StopKeepsLive ==
  ASSUME SerialShell, SerialInv, NEW c \in StopLike, StopStep(c)
  PROVE  /\ db' = db /\ minted' = minted
         /\ Live' = Live \/ Live' = {}
  <1> USE CallsAssumption DEF SerialInv, AllInv, TypeInv, TypeOK, GuardsExclusive, StartHolds,
          StopHolds, SerialShell, StageInv, StartStages, StopStages, BetweenStages, SetUp, WindUp,
          Quiet, Writes, Fed, Opening, Stopping, Finalising, Before, IsRecording, HandleInv,
          StartLabels, StopLabels, Calls, StopLike, Goto, OnlyPc, EmitPhase,
          phaseVars, globals, managers, workers, database, locals,
          Live, OwnedByStart, OneHand, MintedFirst, StartOwnsFresh, StopOwnsHeld
  <1>1. CASE StopCheck(c)
    BY <1>1 DEF StopCheck, Returned
  <1>2. CASE StopClaim(c)
    BY <1>2 DEF StopClaim, Returned
  <1>3. CASE StopReadPhase(c)
    BY <1>3 DEF StopReadPhase
  <1>4. CASE StopReadMeeting(c)
    BY <1>4 DEF StopReadMeeting
  <1>5. CASE StopAnnounceStopping(c)
    BY <1>5 DEF StopAnnounceStopping
  <1>6. CASE StopTake(c)
    BY <1>6 DEF StopTake
  <1>7. CASE StopFlush(c)
    BY <1>7 DEF StopFlush
  <1>8. CASE StopReplay(c)
    BY <1>8 DEF StopReplay
  <1>9. CASE StopPutBack(c)
    BY <1>9 DEF StopPutBack
  <1>10. CASE StopAnnounceFinalising(c)
    BY <1>10 DEF StopAnnounceFinalising
  <1>11. CASE StopTakeTask(c)
    BY <1>11 DEF StopTakeTask
  <1>12. CASE StopDrained(c)
    BY <1>12 DEF StopDrained
  <1>13. CASE StopDrainStalled(c)
    BY <1>13 DEF StopDrainStalled
  <1>14. CASE StopUnsubscribe(c)
    BY <1>14 DEF StopUnsubscribe
  <1>15. CASE StopCloseWriter(c)
    BY <1>15 DEF StopCloseWriter
  <1>16. CASE StopTakeForSave(c)
    BY <1>16 DEF StopTakeForSave
  <1>17. CASE StopSave(c)
    BY <1>17 DEF StopSave
  <1>18. CASE StopFinaliseRow(c)
    BY <1>18 DEF StopFinaliseRow
  <1>19. CASE StopAnnounceIdle(c)
    BY <1>19 DEF StopAnnounceIdle
  <1>20. CASE StopRelease(c)
    BY <1>20 DEF StopRelease, Returned
  <1> QED BY <1>1, <1>2, <1>3, <1>4, <1>5, <1>6, <1>7, <1>8, <1>9, <1>10, <1>11, <1>12,
             <1>13, <1>14, <1>15, <1>16, <1>17, <1>18, <1>19, <1>20 DEF StopStep
(* The worker keeps a segment only for the live recording it is of.         *)
LEMMA WorkerKeepsLive ==
  ASSUME SerialShell, SerialInv, NEW m \in Meetings, WorkerStep(m)
  PROVE  /\ Live' = Live /\ minted' = minted
         /\ \/ db' = db
            \/ /\ m \in Live
               /\ \E s \in Segments : s[1] = m /\ db' = db \cup {<<m, s>>}
  <1>1. Live' = Live /\ minted' = minted
    BY DEF WorkerStep, WorkerInitFails, WorkerFilters, WorkerPublishes, WorkerStores,
       WorkerEnds,
           globals, locals, Live, OwnedByStart
  <1>2. CASE WorkerPublishes(m)
    <2>1. m \in Live /\ (subscriber = m \/ subscriber = NONE)
      BY <1>2, RunningIsFed DEF WorkerPublishes
    <2>2. NextSegment(m) \in Segments /\ NextSegment(m)[1] = m
      BY <1>2, CallsAssumption DEF WorkerPublishes, SerialInv, AllInv, TypeInv, TypeOK,
         NextSegment, Segments
    <2> QED BY <1>1, <1>2, <2>1, <2>2 DEF WorkerPublishes
  <1>3. CASE ~WorkerPublishes(m)
    BY <1>1, <1>3 DEF WorkerStep, WorkerInitFails, WorkerFilters, WorkerStores,
       WorkerEnds, database
  <1> QED BY <1>2, <1>3

(* Nothing else keeps or drops a recording, but a restart.                  *)
LEMMA RestKeepsLive ==
  ASSUME SerialShell, SerialInv, Clicks \/ (\E m \in Meetings : Speak(m)) \/ Restart \/ UNCHANGED vars
  PROVE  /\ db' = db /\ minted' = minted
         /\ Live' = Live \/ Live' = {}
  <1> USE CallsAssumption DEF SerialShell, SerialInv, AllInv, TypeInv, TypeOK, StopLike, Calls,
          Live, OwnedByStart, OnlyPc, Goto, globals, locals, database
  <1>1. ASSUME NEW c \in StartCalls, ClickStart(c)
        PROVE  db' = db /\ minted' = minted /\ Live' = Live
    BY <1>1 DEF ClickStart
  <1>2. ASSUME NEW c \in StopCalls, ClickStop(c)
        PROVE  db' = db /\ minted' = minted /\ Live' = Live
    BY <1>2 DEF ClickStop
  <1>3. ASSUME NEW m \in Meetings, Speak(m)
        PROVE  db' = db /\ minted' = minted /\ Live' = Live
    BY <1>3 DEF Speak
  <1>4. CASE Restart
    BY <1>4 DEF Restart
  <1>5. CASE UNCHANGED vars
    BY <1>5 DEF vars
  <1> QED BY <1>1, <1>2, <1>3, <1>4, <1>5 DEF Clicks

(* The recordings in hand were minted.                                      *)
LEMMA LiveMinted == SerialInv => Live \subseteq minted
  BY DEF SerialInv, AllInv, OneHand, MintedFirst, StartOwnsFresh, OwnedByStart, Live,
     StopLike

(* What the bus handed to SQLite for meeting m.                             *)
Book == [m \in Meetings |-> {s \in Segments : <<m, s>> \in db}]

(* The initial states map to initial states.                                *)
LEMMA InitSession == SerialShell /\ Init => Session!Init
  <1> SUFFICES ASSUME SerialShell, Init PROVE Session!Init
    OBVIOUS
  <1>1. Live = {}
    BY CallsAssumption DEF Init, Live, OwnedByStart, StopLike, Calls
  <1>2. minted \ Live = {} /\ Book = [m \in Meetings |-> {}]
    BY DEF Init, Book
  <1> QED BY <1>1, <1>2 DEF Session!Init, Book

(* Every step maps to a step or a stutter: StartOpen to Begin, the          *)
(* publication of a segment to Keep, the save and a restart to End.         *)
LEMMA StepSession ==
  ASSUME SerialShell, SerialInv, SerialInv', [Next]_vars
  PROVE  [Session!Next]_(Session!vars)
  <1>1. CASE db' = db /\ minted' = minted /\ Live' = Live
    BY <1>1 DEF Session!vars
  <1>2. CASE db' = db /\ minted' = minted /\ Live # {} /\ Live' = {}
    <2>1. minted' \ Live' = (minted \ Live) \cup Live
      BY <1>2, LiveMinted
    <2> QED BY <1>2, <2>1 DEF Session!Next, Session!End
  <1>3. ASSUME db' = db, NEW m \in Meetings \ minted,
               Live = {}, Live' = {m}, minted' = minted \cup {m}
        PROVE  Session!Begin(m)
    BY <1>3 DEF Session!Begin
  <1>4. ASSUME NEW m \in Meetings, NEW s \in Segments, m \in Live, s[1] = m, Live' = Live,
               minted' = minted, db' = db \cup {<<m, s>>}
        PROVE  Session!Keep(m, s)
    <2>1. Book' = [Book EXCEPT ![m] = @ \cup {s}]
      BY <1>4 DEF Book
    <2> QED BY <1>4, <2>1 DEF Session!Keep, Book
  <1>5. ASSUME NEW c \in StartCalls, StartStep(c) PROVE [Session!Next]_(Session!vars)
    BY <1>1, <1>3, <1>5, StartKeepsLive DEF Session!Next
  <1>6. ASSUME NEW m \in Meetings, WorkerStep(m) PROVE [Session!Next]_(Session!vars)
    <2>1. CASE db' = db
      BY <1>1, <1>6, <2>1, WorkerKeepsLive
    <2>2. CASE db' # db
      <3>1. PICK s \in Segments : Session!Keep(m, s)
        BY <1>4, <1>6, <2>2, WorkerKeepsLive
      <3>2. s \in Session!Segments
        BY DEF Session!Segments, Segments
      <3> QED BY <3>1, <3>2 DEF Session!Next
    <2> QED BY <2>1, <2>2
  <1>7. CASE db' = db /\ minted' = minted /\ (Live' = Live \/ Live' = {})
    BY <1>1, <1>2, <1>7
  <1> QED BY <1>5, <1>6, <1>7, SerialSteps, StopKeepsLive, RestKeepsLive

(* The recording service implements serial recordings.                      *)
THEOREM ImplementsSession == ASSUME SerialShell PROVE Spec => SerialSessions
  BY InitSession, StepSession, SerialInvariance, PTL DEF Spec, SerialSessions, Session!Spec

-----------------------------------------------------------------------------
(* What the bus delivers is in the saver or in the buffer                   *)

(* start() touches no segment, and the manager it makes has none yet.       *)
LEMMA StartKeepsSegments ==
  ASSUME SerialShell, SerialInv, SaverOrBuffer, NEW c \in StartCalls, StartStep(c)
  PROVE  SaverOrBuffer'
  <1>1. /\ saved' = saved /\ pending' = pending
        /\ delivered' = delivered /\ decoded' = decoded
    BY DEF StartStep, StartClaim, StartCheckStop, StartCheckActive, StartAnnounceStarting,
           StartValidate, StartFailed, StartOpen, StartMeetingInfo, StartRow, StartStore,
           StartSpawnWorker, StartSubscribe, StartAnnounceRecording, StartRelease,
           OnlyPc, globals, managers, workers
  <1>2. \A m \in Meetings : worker[m] # "none" => worker'[m] = worker[m]
    <2>1. CASE StartSpawnWorker(c)
      <3>1. worker[mine[c]] = "none" /\ worker' = [worker EXCEPT ![mine[c]] = "running"]
        BY <2>1 DEF StartSpawnWorker, SerialInv, StageInv, StartStages, SetUp, Opening
      <3> QED BY <3>1 DEF SerialInv, AllInv, TypeInv, TypeOK
    <2>2. CASE ~StartSpawnWorker(c)
      BY <2>2 DEF StartStep, StartClaim, StartCheckStop, StartCheckActive,
             StartAnnounceStarting, StartValidate, StartFailed, StartOpen, StartMeetingInfo,
             StartRow, StartStore, StartSubscribe, StartAnnounceRecording, StartRelease,
             OnlyPc, workers
    <2> QED BY <2>1, <2>2
  <1>3. \A s \in delivered : s[1] \in minted /\ s[1] \in Meetings /\ worker[s[1]] # "none"
    BY DEF SerialInv, AllInv, TypeInv, TypeOK, WholeSoFar, Segments
  <1>4. \A m \in Live' : m \in Live \/ m \notin minted
    BY StartKeepsLive
  <1> QED BY <1>1, <1>2, <1>3, <1>4 DEF SaverOrBuffer

(* stop() empties the buffer into the manager it has in hand, which is the  *)
(* only one there is.                                                       *)
LEMMA StopKeepsSegments ==
  ASSUME SerialShell, SerialInv, SaverOrBuffer, NEW c \in StopLike, StopStep(c)
  PROVE  SaverOrBuffer'
  <1>1. delivered' = delivered /\ decoded' = decoded /\ Live' \subseteq Live
    BY StopKeepsLive
       DEF StopStep, StopCheck, StopClaim, StopReadPhase, StopReadMeeting,
           StopAnnounceStopping, StopTake, StopFlush, StopReplay, StopPutBack,
           StopAnnounceFinalising, StopTakeTask, StopDrained, StopDrainStalled,
           StopUnsubscribe, StopCloseWriter, StopTakeForSave, StopSave, StopFinaliseRow,
           StopAnnounceIdle, StopRelease, OnlyPc, workers
  <1>2. \A m \in Meetings : worker[m] = "storing" => worker'[m] = "storing"
    BY DEF StopStep, StopCheck, StopClaim, StopReadPhase, StopReadMeeting,
           StopAnnounceStopping, StopTake, StopFlush, StopReplay, StopPutBack,
           StopAnnounceFinalising, StopTakeTask, StopDrained, StopDrainStalled,
           StopUnsubscribe, StopCloseWriter, StopTakeForSave, StopSave, StopFinaliseRow,
           StopAnnounceIdle, StopRelease, OnlyPc, workers,
           SerialInv, AllInv, TypeInv, TypeOK
  <1>3. Live \subseteq Meetings
    BY LiveMinted DEF SerialInv, AllInv, TypeInv, TypeOK
  <1>4. CASE StopReplay(c)
    <2>1. pc[c] = "replay" /\ c \in StopCalls
      BY <1>4 DEF StopReplay, SerialShell, StopLike
    <2>2. slot = NONE /\ \A d \in StartCalls : ~OwnedByStart(d)
      BY <2>1 DEF SerialInv, StageInv, StopStages, WindUp, Stopping, OwnedByStart
    <2>3. Live \subseteq {held[c]}
      BY <2>1, <2>2 DEF Live, SerialShell, StopLike
    <2>4. saved' = [saved EXCEPT ![held[c]] = @ \cup pending]
      BY <1>4 DEF StopReplay
    <2>5. \A m \in Live : saved'[m] = saved[m] \cup pending
      BY <1>3, <2>3, <2>4 DEF SerialInv, AllInv, TypeInv, TypeOK
    <2> QED BY <1>1, <1>2, <1>3, <2>5 DEF SaverOrBuffer
  <1>5. CASE ~StopReplay(c)
    <2>1. saved' = saved /\ pending' = pending
      BY <1>5
         DEF StopStep, StopCheck, StopClaim, StopReadPhase, StopReadMeeting,
             StopAnnounceStopping, StopTake, StopFlush, StopPutBack,
             StopAnnounceFinalising, StopTakeTask, StopDrained, StopDrainStalled,
             StopUnsubscribe, StopCloseWriter, StopTakeForSave, StopSave, StopFinaliseRow,
             StopAnnounceIdle, StopRelease, OnlyPc, globals, managers
    <2> QED BY <1>1, <1>2, <1>3, <2>1 DEF SaverOrBuffer
  <1> QED BY <1>4, <1>5

(* A worker that stores a segment finds the manager of its own recording in *)
(* the slot, or none.                                                       *)
LEMMA StoringFindsOwn ==
  ASSUME SerialShell, SerialInv, NEW m \in Meetings, worker[m] = "storing"
  PROVE  slot \in {m, NONE}
  <1> USE CallsAssumption DEF SerialInv, AllInv, TypeInv, TypeOK, GuardsExclusive, StartHolds,
          StopHolds, SerialShell, StageInv, StartStages, StopStages, BetweenStages, SetUp, WindUp,
          Quiet, Writes, Fed, Opening, Stopping, Finalising, Before, HandleInv, StopLike, Calls
  <1> QED OBVIOUS

(* The worker hands each segment on before it takes the next one.           *)
LEMMA WorkerKeepsSegments ==
  ASSUME SerialShell, SerialInv, SaverOrBuffer, NEW m \in Meetings, WorkerStep(m)
  PROVE  SaverOrBuffer'
  <1>1. Live' = Live /\ Live \subseteq Meetings
    BY WorkerKeepsLive, LiveMinted DEF SerialInv, AllInv, TypeInv, TypeOK
  <1>2. /\ worker \in [Meetings -> WorkerStatus] /\ decoded \in [Meetings -> 0..MaxChunks]
        /\ saved \in [Meetings -> SUBSET Segments]
        /\ delivered \subseteq Segments
    BY DEF SerialInv, AllInv, TypeInv, TypeOK
  <1>3. CASE WorkerStores(m)
    <2>1. /\ worker[m] = "storing" /\ worker' = [worker EXCEPT ![m] = "running"]
          /\ delivered' = delivered
      BY <1>3 DEF WorkerStores
    <2>2. /\ <<m, decoded[m]>> \in saved'[m] \cup pending'
          /\ \A n \in Meetings : saved[n] \cup pending \subseteq saved'[n] \cup pending'
      BY <1>2, <1>3, <2>1, StoringFindsOwn DEF WorkerStores
    <2>3. ASSUME NEW n \in Live, NEW s \in delivered, s[1] = n,
                 s \notin saved'[n] \cup pending'
          PROVE  worker'[n] = "storing" /\ s[2] = decoded'[n]
      <3>1. worker[n] = "storing" /\ s[2] = decoded[n]
        BY <1>1, <2>2, <2>3 DEF SaverOrBuffer
      <3>2. s = <<n, decoded[n]>>
        BY <1>2, <2>3, <3>1 DEF Segments
      <3>3. n # m
        BY <2>2, <2>3, <3>2
      <3> QED BY <1>1, <1>2, <1>3, <2>1, <3>1, <3>3 DEF WorkerStores
    <2> QED BY <1>1, <2>1, <2>3 DEF SaverOrBuffer
  <1>4. CASE ~WorkerStores(m)
    <2>1. /\ worker[m] = "running" /\ saved' = saved /\ pending' = pending
          /\ \A n \in Meetings \ {m} : worker'[n] = worker[n] /\ decoded'[n] = decoded[n]
      BY <1>2, <1>4
         DEF WorkerStep, WorkerInitFails, WorkerFilters, WorkerPublishes, WorkerEnds,
             globals, managers
    <2>2. \A s \in delivered' :
             \/ s \in delivered
             \/ s = <<m, decoded'[m]>> /\ worker'[m] = "storing"
      BY <1>2, <1>4
         DEF WorkerStep, WorkerInitFails, WorkerFilters, WorkerPublishes, WorkerEnds,
             NextSegment
    <2> QED BY <1>1, <2>1, <2>2 DEF SaverOrBuffer
  <1> QED BY <1>3, <1>4

(* Nothing else moves a segment, but a restart, which has no managers.      *)
LEMMA RestKeepsSegments ==
  ASSUME SerialShell, SerialInv, SaverOrBuffer,
         Clicks \/ (\E m \in Meetings : Speak(m)) \/ Restart \/ UNCHANGED vars
  PROVE  SaverOrBuffer'
  <1>1. CASE delivered' = {}
    BY <1>1 DEF SaverOrBuffer
  <1>2. CASE /\ saved' = saved /\ pending' = pending /\ delivered' = delivered
             /\ worker' = worker /\ decoded' = decoded
    BY <1>2, RestKeepsLive DEF SaverOrBuffer
  <1>3. CASE Clicks
    BY <1>2, <1>3 DEF Clicks, SerialShell, ClickStart, ClickStop, OnlyPc, globals, managers,
       workers
  <1>4. ASSUME NEW m \in Meetings, Speak(m) PROVE SaverOrBuffer'
    BY <1>2, <1>4 DEF Speak, globals, managers
  <1>5. CASE Restart
    BY <1>1, <1>5 DEF Restart
  <1>6. CASE UNCHANGED vars
    BY <1>2, <1>6 DEF vars, globals, managers, workers
  <1> QED BY <1>3, <1>4, <1>5, <1>6

(* No segment is dropped while stop() has the manager out of the slot: what *)
(* the bus delivered is in the saver of its recording or in the buffer.     *)
THEOREM NoSegmentIsDropped == ASSUME SerialShell PROVE Spec => []SaverOrBuffer
  <1>1. Init => SaverOrBuffer
    BY DEF Init, SaverOrBuffer
  <1>2. SerialInv /\ SaverOrBuffer /\ [Next]_vars => SaverOrBuffer'
    BY SerialShell, SerialSteps, StartKeepsSegments, StopKeepsSegments, WorkerKeepsSegments,
       RestKeepsSegments
  <1> QED BY <1>1, <1>2, SerialInvariance, PTL DEF Spec

-----------------------------------------------------------------------------
(* The duration of a stopped recording                                      *)

(* RecordingState::cleanup, in the flush, clears recording_start before the *)
(* manager is put back and taken again for the save.                        *)
Unclocked ==
    \A c \in StopCalls :
        /\ pc[c] \in {"replay", "putBack", "save"} => held[c] \notin clocked
        /\ pc[c] \in {"announceFinalising", "takeTask", "drain", "unsubscribe",
                      "closeWriter", "takeForSave"} => slot \notin clocked

(* No start() sets a clock while stop() takes a recording down.             *)
LEMMA StepKeepsUnclocked ==
  ASSUME SerialShell, SerialInv, Unclocked, [Next]_vars
  PROVE  Unclocked'
  <1> USE CallsAssumption DEF SerialShell, SerialInv, AllInv, TypeInv, TypeOK, StopLike, Calls,
          Unclocked, Goto, OnlyPc, globals, managers, locals
  <1>1. ASSUME NEW c \in StartCalls, StartStep(c) PROVE Unclocked'
    <2>1. CASE \E d \in StopCalls : pc[d] \in Stopping \cup Finalising
      <3>1. pc[c] = "releaseStart" \/ pc[c] = "idle"
        BY <2>1 DEF StageInv, StopStages
      <3> QED BY <1>1, <3>1 DEF StartStep, StartClaim, StartCheckStop, StartCheckActive,
                 StartAnnounceStarting, StartValidate, StartFailed, StartOpen,
                 StartMeetingInfo, StartRow, StartStore, StartSpawnWorker, StartSubscribe,
                 StartAnnounceRecording, StartRelease
    <2>2. CASE \A d \in StopCalls : pc[d] \notin Stopping \cup Finalising
      <3>1. \A d \in StopCalls : pc'[d] = pc[d]
        BY <1>1 DEF StartStep, StartClaim, StartCheckStop, StartCheckActive,
           StartAnnounceStarting, StartValidate, StartFailed, StartOpen,
           StartMeetingInfo, StartRow, StartStore, StartSpawnWorker, StartSubscribe,
           StartAnnounceRecording, StartRelease
      <3> QED BY <2>2, <3>1 DEF Stopping, Finalising
    <2> QED BY <2>1, <2>2
  <1>2. ASSUME NEW c \in StopLike, StopStep(c) PROVE Unclocked'
    <2>1. c \in StopCalls /\ \A d \in StopCalls : d = c
      BY <1>2
    <2>2. pc[c] = "take" => slot # NONE
      BY <2>1 DEF StageInv, StopStages, WindUp, Stopping, Fed, Writes
    <2>3. pc[c] = "flush" => held[c] # NONE /\ clocked' = clocked \ {held[c]}
      BY <1>2, <2>1 DEF StageInv, StopStages, WindUp, Stopping, Fed, Writes,
         StopStep, StopCheck, StopClaim, StopReadPhase, StopReadMeeting,
         StopAnnounceStopping, StopTake, StopFlush, StopReplay, StopPutBack,
         StopAnnounceFinalising, StopTakeTask, StopDrained, StopDrainStalled,
         StopUnsubscribe, StopCloseWriter, StopTakeForSave, StopSave, StopFinaliseRow,
         StopAnnounceIdle, StopRelease
    <2> QED BY <1>2, <2>1, <2>2, <2>3
         DEF StopStep, StopCheck, StopClaim, StopReadPhase, StopReadMeeting,
         StopAnnounceStopping, StopTake, StopFlush, StopReplay, StopPutBack,
         StopAnnounceFinalising, StopTakeTask, StopDrained, StopDrainStalled,
         StopUnsubscribe, StopCloseWriter, StopTakeForSave, StopSave, StopFinaliseRow,
         StopAnnounceIdle, StopRelease, Returned
  <1>3. ASSUME NEW m \in Meetings, WorkerStep(m) PROVE Unclocked'
    BY <1>3 DEF WorkerStep, WorkerInitFails, WorkerFilters, WorkerPublishes, WorkerStores,
       WorkerEnds
  <1>4. ASSUME NEW c \in StartCalls, ClickStart(c) PROVE Unclocked'
    BY <1>4 DEF ClickStart
  <1>5. ASSUME NEW c \in StopCalls, ClickStop(c) PROVE Unclocked'
    BY <1>5 DEF ClickStop
  <1>6. ASSUME NEW m \in Meetings, Speak(m) PROVE Unclocked'
    BY <1>6 DEF Speak
  <1>7. CASE Restart
    BY <1>7 DEF Restart
  <1>8. CASE UNCHANGED vars
    BY <1>8 DEF vars
  <1> QED BY <1>1, <1>2, <1>3, <1>4, <1>5, <1>6, <1>7, <1>8, SerialSteps DEF Clicks

(* No recording is saved with its duration, which the doc of                *)
(* save_recording_only says it returns: whatever the shell records, the     *)
(* clock of a manager that is being saved was cleared before.               *)
THEOREM SavesWithoutDuration ==
  ASSUME SerialShell
  PROVE  Spec => [](\A c \in StopCalls : pc[c] = "save" => held[c] # NONE /\ held[c] \notin clocked)
  <1>1. Init => Unclocked
    BY CallsAssumption DEF Init, Unclocked, StopLike, Calls
  <1>2. SerialInv /\ Unclocked /\ [Next]_vars => Unclocked'
    BY SerialShell, StepKeepsUnclocked
  <1>3. SerialInv /\ Unclocked =>
           \A c \in StopCalls : pc[c] = "save" => held[c] # NONE /\ held[c] \notin clocked
    BY DEF Unclocked, SerialInv, StageInv, StopStages, WindUp, Finalising
  <1> QED BY <1>1, <1>2, <1>3, SerialInvariance, PTL DEF Spec

=============================================================================
