---------------------- MODULE RecordingLifecycle_proofs ----------------------
(* Proofs about RecordingLifecycle for any numbers of meetings, segments    *)
(* and overlapping calls. Three invariants are proved one on top of the     *)
(* other: TypeInv, then GuardsExclusive, then OneHand; RowsAreFinal follows *)
(* from the three. Each layer has one lemma per group of actions, with one  *)
(* step per action, and the final lemma of the layer combines the groups.   *)
(* A fourth invariant on top of them is about a quit beside one start().    *)
EXTENDS RecordingLifecycle, TLAPS

-----------------------------------------------------------------------------
(* Types *)

(* A worker inside the bus callback is storing a segment that it has taken: *)
(* without it "storing" could put segment number 0 into the saver.          *)
StoringTook == \A m \in Meetings : worker[m] = "storing" => decoded[m] > 0

(* The inductive form of TypeOK.                                            *)
TypeInv == TypeOK /\ StoringTook

(* The statics of a process that has just started have their types.         *)
LEMMA InitTyped == Init => TypeInv
  <1> SUFFICES ASSUME Init PROVE TypeInv
    OBVIOUS
  <1> USE CallsAssumption DEF Init
  <1>1. pc \in [Calls -> Labels]
    BY DEF Labels
  <1>2. rows \in [Meetings -> RowStatus] /\ worker \in [Meetings -> WorkerStatus] /\ phase \in Phases
    BY DEF RowStatus, WorkerStatus, Phases
  <1>3. sawError \in [StopLike -> BOOLEAN]
    BY Zenon
  <1>4. spoken \in [Meetings -> 0..MaxChunks] /\ decoded \in [Meetings -> 0..MaxChunks]
    OBVIOUS
  <1>5. StoringTook
    BY DEF StoringTook
  <1>6. /\ mine \in [Calls -> Meetings \cup {NONE}]
        /\ held \in [StopLike -> Meetings \cup {NONE}]
        /\ joining \in [StopLike -> Meetings \cup {NONE}]
    OBVIOUS
  <1>7. saved \in [Meetings -> SUBSET Segments]
    OBVIOUS
  <1>8. \A m \in Meetings : decoded[m] <= spoken[m]
    OBVIOUS
  <1>9. TypeOK
    BY <1>1, <1>2, <1>3, <1>4, <1>6, <1>7, <1>8 DEF TypeOK
  <1> QED BY <1>5, <1>9 DEF TypeInv

(* Every step of start() keeps the types.                                   *)
LEMMA StartTyped ==
  ASSUME TypeInv, NEW c \in StartCalls, StartStep(c)
  PROVE  TypeInv'
  <1> USE CallsAssumption DEF TypeInv, TypeOK, StoringTook, Phases, RowStatus, WorkerStatus,
          Labels, StartLabels, StopLabels, PauseLabels, Calls, StopLike, Segments, Goto, OnlyPc,
          EmitPhase, phaseVars, globals, managers, workers, database, locals
  <1>1. CASE StartClaim(c)
    <2>1. CASE startFlag
      BY <1>1, <2>1 DEF StartClaim
    <2>2. CASE ~startFlag
      BY <1>1, <2>2 DEF StartClaim
    <2> QED BY <2>1, <2>2
  <1>2. CASE StartCheckStop(c)
    BY <1>2 DEF StartCheckStop
  <1>3. CASE StartCheckActive(c)
    BY <1>3 DEF StartCheckActive
  <1>4. CASE StartAnnounceStarting(c)
    BY <1>4 DEF StartAnnounceStarting
  <1>5. CASE StartValidate(c)
    BY <1>5 DEF StartValidate
  <1>6. CASE StartFailed(c)
    BY <1>6 DEF StartFailed
  <1>7. CASE StartOpen(c)
    BY <1>7 DEF StartOpen
  <1>8. CASE StartMeetingInfo(c)
    BY <1>8 DEF StartMeetingInfo
  <1>9. CASE StartRow(c)
    BY <1>9 DEF StartRow
  <1>10. CASE StartStore(c)
    BY <1>10 DEF StartStore
  <1>11. CASE StartSpawnWorker(c)
    <2>1. worker' \in [Meetings -> WorkerStatus] /\ pc' \in [Calls -> Labels]
      BY <1>11 DEF StartSpawnWorker
    <2>2. task' \in Meetings \cup {NONE} /\ \A m \in Meetings : worker'[m] = "storing" => decoded[m] > 0
      BY <1>11 DEF StartSpawnWorker
    <2> HIDE DEF Labels, Calls, Phases, RowStatus, WorkerStatus
    <2> QED BY <1>11, <2>1, <2>2 DEF StartSpawnWorker
  <1>12. CASE StartSubscribe(c)
    BY <1>12 DEF StartSubscribe
  <1>13. CASE StartAnnounceRecording(c)
    BY <1>13 DEF StartAnnounceRecording
  <1>14. CASE StartRelease(c)
    <2>1. mine' \in [Calls -> Meetings \cup {NONE}] /\ pc' \in [Calls -> Labels]
      BY <1>14 DEF StartRelease
    <2> HIDE DEF Labels, Calls, Phases, RowStatus, WorkerStatus
    <2> QED BY <1>14, <2>1 DEF StartRelease
  <1> QED BY <1>1, <1>2, <1>3, <1>4, <1>5, <1>6, <1>7, <1>8, <1>9, <1>10, <1>11, <1>12,
             <1>13, <1>14 DEF StartStep

(* Every step of stop() keeps the types; the flush may queue one last       *)
(* segment.                                                                 *)
LEMMA StopTyped ==
  ASSUME TypeInv, NEW c \in StopLike, StopStep(c)
  PROVE  TypeInv'
  <1> USE CallsAssumption DEF TypeInv, TypeOK, StoringTook, Phases, RowStatus, WorkerStatus,
          Labels, StartLabels, StopLabels, PauseLabels, Calls, StopLike, Segments, Goto, OnlyPc,
          EmitPhase, phaseVars, globals, managers, workers, database, locals
  <1>1. CASE StopCheck(c)
    BY <1>1 DEF StopCheck, Returned
  <1>2. CASE StopClaim(c)
    <2>1. CASE stopFlag
      BY <1>2, <2>1 DEF StopClaim, Returned
    <2>2. CASE ~stopFlag
      BY <1>2, <2>2 DEF StopClaim, Returned
    <2> QED BY <2>1, <2>2
  <1>3. CASE StopReadPhase(c)
    BY <1>3 DEF StopReadPhase
  <1>4. CASE StopReadMeeting(c)
    BY <1>4 DEF StopReadMeeting
  <1>5. CASE StopAnnounceStopping(c)
    BY <1>5 DEF StopAnnounceStopping
  <1>6. CASE StopTake(c)
    BY <1>6 DEF StopTake
  <1>7. CASE StopFlush(c)
    <2>1. PICK tail \in 0..1 : /\ spoken[held[c]] + tail <= MaxChunks
                              /\ spoken' = [spoken EXCEPT ![held[c]] = @ + tail]
      BY <1>7 DEF StopFlush
    <2>2. \A m \in Meetings : spoken'[m] \in 0..MaxChunks /\ spoken[m] <= spoken'[m]
      <3> TAKE m \in Meetings
      <3>1. CASE m = held[c]
        BY <2>1, <3>1
      <3>2. CASE m # held[c]
        BY <2>1, <3>2
      <3> QED BY <3>1, <3>2
    <2>5. spoken' \in [Meetings -> 0..MaxChunks]
      BY <2>1, <2>2
    <2>3. /\ recording' \subseteq Meetings /\ paused' \subseteq Meetings /\ capturing' \subseteq Meetings
          /\ clocked' \subseteq Meetings /\ errored' \subseteq Meetings
          /\ pc' \in [Calls -> Labels] /\ decoded' = decoded /\ worker' = worker
      BY <1>7 DEF StopFlush
    <2>4. \A m \in Meetings : decoded'[m] <= spoken'[m]
      BY <2>2, <2>3
    <2> QED BY <1>7, <2>2, <2>5, <2>3, <2>4 DEF StopFlush
  <1>8. CASE StopReplay(c)
    <2>1. saved' \in [Meetings -> SUBSET Segments] /\ pending' \subseteq Segments
      BY <1>8 DEF StopReplay
    <2>2. pc' \in [Calls -> Labels]
      BY <1>8 DEF StopReplay
    <2> HIDE DEF Labels, Calls, Phases, RowStatus, WorkerStatus
    <2> QED BY <1>8, <2>1, <2>2 DEF StopReplay
  <1>9. CASE StopPutBack(c)
    BY <1>9 DEF StopPutBack
  <1>10. CASE StopAnnounceFinalising(c)
    BY <1>10 DEF StopAnnounceFinalising
  <1>11. CASE StopTakeTask(c)
    BY <1>11 DEF StopTakeTask
  <1>12. CASE StopDrained(c)
    BY <1>12 DEF StopDrained
  <1>13. CASE StopDrainStalled(c)
    BY <1>13 DEF StopDrainStalled
  <1>14. CASE StopUnsubscribe(c)
    BY <1>14 DEF StopUnsubscribe
  <1>15. CASE StopCloseWriter(c)
    BY <1>15 DEF StopCloseWriter
  <1>16. CASE StopTakeForSave(c)
    BY <1>16 DEF StopTakeForSave
  <1>17. CASE StopSave(c)
    BY <1>17 DEF StopSave
  <1>18. CASE StopFinaliseRow(c)
    BY <1>18 DEF StopFinaliseRow
  <1>19. CASE StopAnnounceIdle(c)
    <2>1. pc' \in [Calls -> Labels] /\ phase' \in Phases /\ info' \in Meetings \cup {NONE}
      BY <1>19 DEF StopAnnounceIdle
    <2> HIDE DEF Labels, Calls, Phases, RowStatus, WorkerStatus
    <2> QED BY <1>19, <2>1 DEF StopAnnounceIdle
  <1>20. CASE StopRelease(c)
    <2>1. mine' \in [Calls -> Meetings \cup {NONE}] /\ sawError' \in [StopLike -> BOOLEAN]
      BY <1>20 DEF StopRelease
    <2>2. pc' \in [Calls -> Labels]
      BY <1>20 DEF StopRelease, Returned
    <2> HIDE DEF Labels, Calls, Phases, RowStatus, WorkerStatus
    <2> QED BY <1>20, <2>1, <2>2 DEF StopRelease
  <1> QED BY <1>1, <1>2, <1>3, <1>4, <1>5, <1>6, <1>7, <1>8, <1>9, <1>10, <1>11, <1>12,
             <1>13, <1>14, <1>15, <1>16, <1>17, <1>18, <1>19, <1>20 DEF StopStep

(* Every step of pause_recording() and resume_recording() keeps the types.  *)
LEMMA PauseTyped ==
  ASSUME TypeInv, NEW c \in PauseCalls, PauseStep(c)
  PROVE  TypeInv'
  <1> USE CallsAssumption DEF TypeInv, TypeOK, StoringTook, Phases, RowStatus, WorkerStatus,
          Labels, StartLabels, StopLabels, PauseLabels, Calls, StopLike, Segments, Goto, OnlyPc,
          EmitPhase, phaseVars, globals, managers, workers, database, locals
  <1>1. CASE PauseCheck(c)
    BY <1>1 DEF PauseCheck
  <1>2. CASE Pause(c)
    BY <1>2 DEF Pause, IsRecording
  <1>3. CASE Resume(c)
    BY <1>3 DEF Resume, IsRecording
  <1>4. CASE PauseAnnounce(c)
    BY <1>4 DEF PauseAnnounce
  <1> QED BY <1>1, <1>2, <1>3, <1>4 DEF PauseStep

(* Every step of the transcription worker keeps the types.                  *)
LEMMA WorkerTyped ==
  ASSUME TypeInv, NEW m \in Meetings, WorkerStep(m)
  PROVE  TypeInv'
  <1> USE CallsAssumption DEF TypeInv, TypeOK, StoringTook, Phases, RowStatus, WorkerStatus,
          Labels, StartLabels, StopLabels, PauseLabels, Calls, StopLike, Segments, Goto, OnlyPc,
          EmitPhase, phaseVars, globals, managers, workers, database, locals
  <1>1. CASE WorkerInitFails(m)
    BY <1>1 DEF WorkerInitFails
  <1>2. CASE WorkerFilters(m)
    BY <1>2 DEF WorkerFilters
  <1>3. CASE WorkerPublishes(m)
    BY <1>3 DEF WorkerPublishes, NextSegment
  <1>4. CASE WorkerStores(m)
    BY <1>4 DEF WorkerStores
  <1>5. CASE WorkerEnds(m)
    BY <1>5 DEF WorkerEnds
  <1> QED BY <1>1, <1>2, <1>3, <1>4, <1>5 DEF WorkerStep

(* So do the shell's clicks, the pipeline, a restart and a stuttering step. *)
LEMMA OthersTyped ==
  ASSUME TypeInv, Clicks \/ (\E m \in Meetings : Speak(m)) \/ Restart \/ UNCHANGED vars
  PROVE  TypeInv'
  <1> USE CallsAssumption DEF TypeInv, TypeOK, StoringTook, Phases, Labels, StartLabels,
          StopLabels, PauseLabels, Calls, StopLike, Segments, Goto, OnlyPc, EmitPhase,
          phaseVars, globals, managers, workers, database, locals
  <1>1. ASSUME NEW c \in StartCalls, ClickStart(c) PROVE TypeInv'
    BY <1>1 DEF ClickStart
  <1>2. ASSUME NEW c \in StopCalls, ClickStop(c) PROVE TypeInv'
    BY <1>2 DEF ClickStop
  <1>3. ASSUME NEW c \in PauseCalls, ClickPause(c) PROVE TypeInv'
    BY <1>3 DEF ClickPause
  <1>4. ASSUME NEW c \in QuitCalls, ClickQuit(c) PROVE TypeInv'
    BY <1>4 DEF ClickQuit
  <1>5. ASSUME NEW m \in Meetings, NEW c \in FatalCalls, FatalError(m, c) PROVE TypeInv'
    BY <1>5 DEF FatalError
  <1>6. ASSUME NEW m \in Meetings, Speak(m) PROVE TypeInv'
    BY <1>6 DEF Speak
  <1>7. CASE Restart
    <2> USE DEF Restart
    <2>1. pc' \in [Calls -> Labels]
      BY <1>7
    <2>2. /\ rows' \in [Meetings -> RowStatus] /\ worker' \in [Meetings -> WorkerStatus]
          /\ phase' \in Phases
      BY <1>7 DEF Swept, RowStatus, WorkerStatus
    <2>3. sawError' \in [StopLike -> BOOLEAN]
      BY <1>7, Zenon
    <2>4. spoken' \in [Meetings -> 0..MaxChunks] /\ decoded' \in [Meetings -> 0..MaxChunks]
      BY <1>7
    <2>5. StoringTook'
      BY <1>7
    <2>6. /\ mine' \in [Calls -> Meetings \cup {NONE}]
          /\ held' \in [StopLike -> Meetings \cup {NONE}]
          /\ joining' \in [StopLike -> Meetings \cup {NONE}]
      BY <1>7
    <2>7. saved' \in [Meetings -> SUBSET Segments]
      BY <1>7
    <2>8. \A m \in Meetings : decoded'[m] <= spoken'[m]
      BY <1>7
    <2> QED BY <1>7, <2>1, <2>2, <2>3, <2>4, <2>5, <2>6, <2>7, <2>8
  <1>8. CASE UNCHANGED vars
    BY <1>8 DEF vars, RowStatus, WorkerStatus
  <1> QED BY <1>1, <1>2, <1>3, <1>4, <1>5, <1>6, <1>7, <1>8 DEF Clicks

(* The types are preserved by every step.                                   *)
LEMMA StepTyped == TypeInv /\ [Next]_vars => TypeInv'
  <1> SUFFICES ASSUME TypeInv, [Next]_vars PROVE TypeInv'
    OBVIOUS
  <1> QED BY StartTyped, StopTyped, PauseTyped, WorkerTyped, OthersTyped DEF Next, Crash,
             Quit

(* The state of the recording service keeps its types, and no worker takes  *)
(* more segments than the pipeline queued, whatever calls overlap.          *)
THEOREM TypeCorrect == Spec => []TypeOK
  <1>1. TypeInv => TypeOK
    BY DEF TypeInv
  <1> QED BY <1>1, InitTyped, StepTyped, PTL DEF Spec

-----------------------------------------------------------------------------
(* The guards *)

(* No guard is held when the process starts.                                *)
LEMMA InitGuards == Init => GuardsExclusive
  BY DEF Init, GuardsExclusive, StartHolds, StopHolds, StartLabels, StopLabels, Calls,
     StopLike

(* start() takes START_IN_PROGRESS when it enters its section, keeps it     *)
(* over every failure branch, and gives it back when it returns.            *)
LEMMA StartKeepsGuards ==
  ASSUME TypeInv, GuardsExclusive, NEW c \in StartCalls, StartStep(c)
  PROVE  GuardsExclusive'
  <1> USE CallsAssumption DEF TypeInv, TypeOK, GuardsExclusive, StartHolds, StopHolds,
          StartLabels, StopLabels, Calls, StopLike, Goto, OnlyPc, globals
  <1>1. CASE StartClaim(c)
    BY <1>1 DEF StartClaim
  <1>2. CASE StartCheckStop(c)
    BY <1>2 DEF StartCheckStop
  <1>3. CASE StartCheckActive(c)
    BY <1>3 DEF StartCheckActive
  <1>4. CASE StartAnnounceStarting(c)
    BY <1>4 DEF StartAnnounceStarting
  <1>5. CASE StartValidate(c)
    BY <1>5 DEF StartValidate
  <1>6. CASE StartFailed(c)
    BY <1>6 DEF StartFailed
  <1>7. CASE StartOpen(c)
    BY <1>7 DEF StartOpen
  <1>8. CASE StartMeetingInfo(c)
    BY <1>8 DEF StartMeetingInfo
  <1>9. CASE StartRow(c)
    BY <1>9 DEF StartRow
  <1>10. CASE StartStore(c)
    BY <1>10 DEF StartStore
  <1>11. CASE StartSpawnWorker(c)
    BY <1>11 DEF StartSpawnWorker
  <1>12. CASE StartSubscribe(c)
    BY <1>12 DEF StartSubscribe
  <1>13. CASE StartAnnounceRecording(c)
    BY <1>13 DEF StartAnnounceRecording
  <1>14. CASE StartRelease(c)
    BY <1>14 DEF StartRelease
  <1> QED BY <1>1, <1>2, <1>3, <1>4, <1>5, <1>6, <1>7, <1>8, <1>9, <1>10, <1>11, <1>12,
             <1>13, <1>14 DEF StartStep

(* stop() does the same with STOP_IN_PROGRESS.                              *)
LEMMA StopKeepsGuards ==
  ASSUME TypeInv, GuardsExclusive, NEW c \in StopLike, StopStep(c)
  PROVE  GuardsExclusive'
  <1> USE CallsAssumption DEF TypeInv, TypeOK, GuardsExclusive, StartHolds, StopHolds,
          StartLabels, StopLabels, Calls, StopLike, Goto, OnlyPc, globals
  <1>1. CASE StopCheck(c)
    BY <1>1 DEF StopCheck, Returned
  <1>2. CASE StopClaim(c)
    BY <1>2 DEF StopClaim, Returned
  <1>3. CASE StopReadPhase(c)
    BY <1>3 DEF StopReadPhase
  <1>4. CASE StopReadMeeting(c)
    BY <1>4 DEF StopReadMeeting
  <1>5. CASE StopAnnounceStopping(c)
    BY <1>5 DEF StopAnnounceStopping
  <1>6. CASE StopTake(c)
    BY <1>6 DEF StopTake
  <1>7. CASE StopFlush(c)
    BY <1>7 DEF StopFlush
  <1>8. CASE StopReplay(c)
    BY <1>8 DEF StopReplay
  <1>9. CASE StopPutBack(c)
    BY <1>9 DEF StopPutBack
  <1>10. CASE StopAnnounceFinalising(c)
    BY <1>10 DEF StopAnnounceFinalising
  <1>11. CASE StopTakeTask(c)
    BY <1>11 DEF StopTakeTask
  <1>12. CASE StopDrained(c)
    BY <1>12 DEF StopDrained
  <1>13. CASE StopDrainStalled(c)
    BY <1>13 DEF StopDrainStalled
  <1>14. CASE StopUnsubscribe(c)
    BY <1>14 DEF StopUnsubscribe
  <1>15. CASE StopCloseWriter(c)
    BY <1>15 DEF StopCloseWriter
  <1>16. CASE StopTakeForSave(c)
    BY <1>16 DEF StopTakeForSave
  <1>17. CASE StopSave(c)
    BY <1>17 DEF StopSave
  <1>18. CASE StopFinaliseRow(c)
    BY <1>18 DEF StopFinaliseRow
  <1>19. CASE StopAnnounceIdle(c)
    BY <1>19 DEF StopAnnounceIdle
  <1>20. CASE StopRelease(c)
    BY <1>20 DEF StopRelease, Returned
  <1> QED BY <1>1, <1>2, <1>3, <1>4, <1>5, <1>6, <1>7, <1>8, <1>9, <1>10, <1>11, <1>12,
             <1>13, <1>14, <1>15, <1>16, <1>17, <1>18, <1>19, <1>20 DEF StopStep

(* Nothing else touches a guard, except a restart, which clears both.       *)
LEMMA StepKeepsGuards ==
  ASSUME TypeInv, GuardsExclusive, [Next]_vars
  PROVE  GuardsExclusive'
  <1> USE CallsAssumption DEF TypeInv, TypeOK, GuardsExclusive, StartHolds, StopHolds,
          StartLabels, StopLabels, Calls, StopLike, Goto, OnlyPc, globals
  <1>1. ASSUME NEW c \in StartCalls, ClickStart(c) PROVE GuardsExclusive'
    BY <1>1 DEF ClickStart
  <1>2. ASSUME NEW c \in StopCalls, ClickStop(c) PROVE GuardsExclusive'
    BY <1>2 DEF ClickStop
  <1>3. ASSUME NEW c \in PauseCalls, ClickPause(c) PROVE GuardsExclusive'
    BY <1>3 DEF ClickPause
  <1>4. ASSUME NEW c \in QuitCalls, ClickQuit(c) PROVE GuardsExclusive'
    BY <1>4 DEF ClickQuit
  <1>5. ASSUME NEW m \in Meetings, NEW c \in FatalCalls, FatalError(m, c) PROVE GuardsExclusive'
    BY <1>5 DEF FatalError
  <1>6. ASSUME NEW c \in PauseCalls, PauseStep(c) PROVE GuardsExclusive'
    BY <1>6 DEF PauseStep, PauseCheck, Pause, Resume, PauseAnnounce
  <1>7. ASSUME NEW m \in Meetings, Speak(m) \/ WorkerStep(m) PROVE GuardsExclusive'
    BY <1>7 DEF Speak, WorkerStep, WorkerInitFails, WorkerFilters, WorkerPublishes,
                WorkerStores, WorkerEnds
  <1>8. CASE Restart
    BY <1>8 DEF Restart
  <1>9. CASE UNCHANGED vars
    BY <1>9 DEF vars
  <1> QED BY <1>1, <1>2, <1>3, <1>4, <1>5, <1>6, <1>7, <1>8, <1>9,
             StartKeepsGuards, StopKeepsGuards DEF Next, Clicks, Crash, Quit

(* Mutual exclusion of the PhaseGuard sections: each flag is set exactly    *)
(* while one call is inside the section it guards, for any number of        *)
(* overlapping starts, stops, fatal errors and quits.                       *)
THEOREM GuardsCorrect == Spec => []GuardsExclusive
  BY InitTyped, StepTyped, InitGuards, StepKeepsGuards, PTL DEF Spec

-----------------------------------------------------------------------------
(* The managers and the meetings rows *)

(* The inductive invariant.                                                 *)
AllInv == TypeInv /\ GuardsExclusive /\ OneHand

(* A fresh process has no manager in hand.                                  *)
LEMMA InitOneHand == Init => OneHand
  BY DEF Init, OneHand, MintedFirst, StartOwnsFresh, StopOwnsHeld, OpenRows, OwnedByStart,
         StopsMeeting, StopHolds, StopLabels, Calls, StopLike

(* A start() mints a fresh id, so the manager it owns is in no other hand   *)
(* and its row is not finalised; storing it moves it to the slot.           *)
LEMMA StartKeepsOneHand ==
  ASSUME AllInv, NEW c \in StartCalls, StartStep(c)
  PROVE  OneHand'
  <1> USE CallsAssumption DEF AllInv, TypeInv, TypeOK, GuardsExclusive, StartHolds, StopHolds,
          OneHand, MintedFirst, StartOwnsFresh, StopOwnsHeld, OpenRows, OwnedByStart, StopsMeeting,
          StartLabels, StopLabels, Calls, StopLike, Goto, OnlyPc,
          globals, managers, workers, database, locals
  <1>1. CASE StartClaim(c)
    BY <1>1 DEF StartClaim
  <1>2. CASE StartCheckStop(c)
    BY <1>2 DEF StartCheckStop
  <1>3. CASE StartCheckActive(c)
    BY <1>3 DEF StartCheckActive
  <1>4. CASE StartAnnounceStarting(c)
    BY <1>4 DEF StartAnnounceStarting
  <1>5. CASE StartValidate(c)
    BY <1>5 DEF StartValidate
  <1>6. CASE StartFailed(c)
    BY <1>6 DEF StartFailed
  <1>7. CASE StartOpen(c)
    BY <1>7 DEF StartOpen
  <1>8. CASE StartMeetingInfo(c)
    BY <1>8 DEF StartMeetingInfo
  <1>9. CASE StartRow(c)
    BY <1>9 DEF StartRow
  <1>10. CASE StartStore(c)
    BY <1>10 DEF StartStore
  <1>11. CASE StartSpawnWorker(c)
    BY <1>11 DEF StartSpawnWorker
  <1>12. CASE StartSubscribe(c)
    BY <1>12 DEF StartSubscribe
  <1>13. CASE StartAnnounceRecording(c)
    BY <1>13 DEF StartAnnounceRecording
  <1>14. CASE StartRelease(c)
    BY <1>14 DEF StartRelease
  <1> QED BY <1>1, <1>2, <1>3, <1>4, <1>5, <1>6, <1>7, <1>8, <1>9, <1>10, <1>11, <1>12,
             <1>13, <1>14 DEF StartStep

(* A stop() takes the manager out of the slot, puts it back and takes it    *)
(* again; as the only stop inside its section it is the only one that can   *)
(* finalise the row it read the id of.                                      *)
LEMMA StopKeepsOneHand ==
  ASSUME AllInv, NEW c \in StopLike, StopStep(c)
  PROVE  OneHand'
  <1> USE CallsAssumption DEF AllInv, TypeInv, TypeOK, GuardsExclusive, StartHolds, StopHolds,
          OneHand, MintedFirst, StartOwnsFresh, StopOwnsHeld, OpenRows, OwnedByStart, StopsMeeting,
          StartLabels, StopLabels, Calls, StopLike, Goto, OnlyPc,
          globals, managers, workers, database, locals
  <1>1. CASE StopCheck(c)
    BY <1>1 DEF StopCheck, Returned
  <1>2. CASE StopClaim(c)
    BY <1>2 DEF StopClaim, Returned
  <1>3. CASE StopReadPhase(c)
    BY <1>3 DEF StopReadPhase
  <1>4. CASE StopReadMeeting(c)
    BY <1>4 DEF StopReadMeeting
  <1>5. CASE StopAnnounceStopping(c)
    BY <1>5 DEF StopAnnounceStopping
  <1>6. CASE StopTake(c)
    BY <1>6 DEF StopTake
  <1>7. CASE StopFlush(c)
    BY <1>7 DEF StopFlush
  <1>8. CASE StopReplay(c)
    BY <1>8 DEF StopReplay
  <1>9. CASE StopPutBack(c)
    BY <1>9 DEF StopPutBack
  <1>10. CASE StopAnnounceFinalising(c)
    BY <1>10 DEF StopAnnounceFinalising
  <1>11. CASE StopTakeTask(c)
    BY <1>11 DEF StopTakeTask
  <1>12. CASE StopDrained(c)
    BY <1>12 DEF StopDrained
  <1>13. CASE StopDrainStalled(c)
    BY <1>13 DEF StopDrainStalled
  <1>14. CASE StopUnsubscribe(c)
    BY <1>14 DEF StopUnsubscribe
  <1>15. CASE StopCloseWriter(c)
    BY <1>15 DEF StopCloseWriter
  <1>16. CASE StopTakeForSave(c)
    BY <1>16 DEF StopTakeForSave
  <1>17. CASE StopSave(c)
    BY <1>17 DEF StopSave
  <1>18. CASE StopFinaliseRow(c)
    BY <1>18 DEF StopFinaliseRow
  <1>19. CASE StopAnnounceIdle(c)
    BY <1>19 DEF StopAnnounceIdle
  <1>20. CASE StopRelease(c)
    BY <1>20 DEF StopRelease, Returned
  <1> QED BY <1>1, <1>2, <1>3, <1>4, <1>5, <1>6, <1>7, <1>8, <1>9, <1>10, <1>11, <1>12,
             <1>13, <1>14, <1>15, <1>16, <1>17, <1>18, <1>19, <1>20 DEF StopStep

(* Nothing else moves a manager or an id; a restart drops all of them.      *)
LEMMA StepKeepsOneHand ==
  ASSUME AllInv, [Next]_vars
  PROVE  OneHand'
  <1> USE CallsAssumption DEF AllInv, TypeInv, TypeOK, GuardsExclusive, StartHolds, StopHolds,
          OneHand, MintedFirst, StartOwnsFresh, StopOwnsHeld, OpenRows, OwnedByStart, StopsMeeting,
          StartLabels, StopLabels, Calls, StopLike, Goto, OnlyPc,
          globals, managers, workers, database, locals
  <1>1. ASSUME NEW c \in StartCalls, ClickStart(c) PROVE OneHand'
    BY <1>1 DEF ClickStart
  <1>2. ASSUME NEW c \in StopCalls, ClickStop(c) PROVE OneHand'
    BY <1>2 DEF ClickStop
  <1>3. ASSUME NEW c \in PauseCalls, ClickPause(c) PROVE OneHand'
    BY <1>3 DEF ClickPause
  <1>4. ASSUME NEW c \in QuitCalls, ClickQuit(c) PROVE OneHand'
    BY <1>4 DEF ClickQuit
  <1>5. ASSUME NEW m \in Meetings, NEW c \in FatalCalls, FatalError(m, c) PROVE OneHand'
    BY <1>5 DEF FatalError
  <1>6. ASSUME NEW c \in PauseCalls, PauseStep(c) PROVE OneHand'
    BY <1>6 DEF PauseStep, PauseCheck, Pause, Resume, PauseAnnounce
  <1>7. ASSUME NEW m \in Meetings, Speak(m) \/ WorkerStep(m) PROVE OneHand'
    BY <1>7 DEF Speak, WorkerStep, WorkerInitFails, WorkerFilters, WorkerPublishes,
                WorkerStores, WorkerEnds
  <1>8. CASE Restart
    BY <1>8 DEF Restart, Swept
  <1>9. CASE UNCHANGED vars
    BY <1>9 DEF vars
  <1> QED BY <1>1, <1>2, <1>3, <1>4, <1>5, <1>6, <1>7, <1>8, <1>9,
             StartKeepsOneHand, StopKeepsOneHand DEF Next, Clicks, Crash, Quit

(* The inductive invariant holds initially.                                 *)
LEMMA InitAllInv == Init => AllInv
  BY InitTyped, InitGuards, InitOneHand DEF AllInv

(* The inductive invariant is preserved by every step.                      *)
LEMMA StepKeepsAllInv == AllInv /\ [Next]_vars => AllInv'
  BY StepTyped, StepKeepsGuards, StepKeepsOneHand DEF AllInv

(* A manager is owned by one start, the slot or one stop, and as long as it *)
(* is, its meetings row has no final status.                                *)
THEOREM OneHandCorrect == Spec => []OneHand
  <1>1. AllInv => OneHand
    BY DEF AllInv
  <1> QED BY <1>1, InitAllInv, StepKeepsAllInv, PTL DEF Spec

(* Only create_recording_meeting, the finalisation in stop() and the sweep  *)
(* at startup write a row, and none of them finds a final one.              *)
LEMMA FinalRowsStay ==
  ASSUME AllInv, [Next]_vars, NEW m \in Meetings, rows[m] \in {"completed", "interrupted"}
  PROVE  rows'[m] = rows[m]
  <1> USE DEF globals, managers, workers, database, locals, OnlyPc
  <1>1. ASSUME NEW c \in StartCalls, StartRow(c) PROVE rows'[m] = rows[m]
    <2>1. mine[c] # m
      BY <1>1 DEF StartRow, AllInv, OneHand, StartOwnsFresh, OwnedByStart
    <2> QED BY <1>1, <2>1 DEF StartRow, AllInv, TypeInv, TypeOK
  <1>2. ASSUME NEW c \in StopLike, StopFinaliseRow(c) PROVE rows'[m] = rows[m]
    <2>1. mine[c] # m
      BY <1>2, CallsAssumption DEF StopFinaliseRow, AllInv, OneHand, OpenRows,
         StopsMeeting, StopHolds, StopLabels,
                  TypeInv, TypeOK, MintedFirst
    <2> QED BY <1>2, <2>1 DEF StopFinaliseRow, AllInv, TypeInv, TypeOK
  <1>3. CASE Restart
    BY <1>3 DEF Restart, Swept
  <1>4. ASSUME NEW c \in StartCalls, StartStep(c), ~StartRow(c) PROVE rows' = rows
    BY <1>4 DEF StartStep, StartClaim, StartCheckStop, StartCheckActive,
       StartAnnounceStarting,
         StartValidate, StartFailed, StartOpen, StartMeetingInfo, StartStore,
         StartSpawnWorker, StartSubscribe, StartAnnounceRecording, StartRelease
  <1>5. ASSUME NEW c \in StopLike, StopStep(c), ~StopFinaliseRow(c) PROVE rows' = rows
    BY <1>5 DEF StopStep, StopCheck, StopClaim, StopReadPhase, StopReadMeeting,
         StopAnnounceStopping, StopTake, StopFlush, StopReplay, StopPutBack,
         StopAnnounceFinalising, StopTakeTask, StopDrained, StopDrainStalled, StopUnsubscribe,
         StopCloseWriter, StopTakeForSave, StopSave, StopAnnounceIdle, StopRelease
  <1>6. ASSUME NEW c \in PauseCalls, PauseStep(c) PROVE rows' = rows
    BY <1>6 DEF PauseStep, PauseCheck, Pause, Resume, PauseAnnounce
  <1>7. ASSUME NEW n \in Meetings, Speak(n) \/ WorkerStep(n) PROVE rows' = rows
    BY <1>7 DEF Speak, WorkerStep, WorkerInitFails, WorkerFilters, WorkerPublishes,
                WorkerStores, WorkerEnds
  <1>8. CASE Clicks
    BY <1>8 DEF Clicks, ClickStart, ClickStop, ClickPause, ClickQuit, FatalError
  <1>9. CASE UNCHANGED vars
    BY <1>9 DEF vars
  <1> QED BY <1>1, <1>2, <1>3, <1>4, <1>5, <1>6, <1>7, <1>8, <1>9 DEF Next, Crash, Quit

(* The status a meetings row is finalised with is the one it keeps, for any *)
(* number of meetings and any overlap of starts, stops, fatal errors,       *)
(* quits, crashes and failing statements.                                   *)
THEOREM RowsStayFinal == Spec => RowsAreFinal
  <1>1. AllInv /\ [Next]_vars =>
           [\A m \in Meetings :
               rows[m] \in {"completed", "interrupted"} => rows'[m] = rows[m]]_vars
    BY FinalRowsStay
  <1> QED BY <1>1, InitAllInv, StepKeepsAllInv, PTL DEF Spec, RowsAreFinal

-----------------------------------------------------------------------------
(* A quit beside nothing but one start()                                    *)
(*                                                                          *)
(* QuitFinishesRecording fails when the quit meets a user's stop            *)
(* (lifecycle_quit).  Without a stop beside it, it holds: QuitInv says that *)
(* the quit's own stop finds the recording, keeps it, and that no start     *)
(* puts a new one in its place.                                             *)

(* The shell quits while at most one start() is under way; no stop() of its *)
(* own is running beside it, and the statements of the database succeed.    *)
LoneQuit ==
    /\ \A c, d \in StartCalls : c = d
    /\ StopCalls = {} /\ FatalCalls = {}
    /\ ~DbFaults

(* Where a start() may be while a manager is in the slot.                   *)
AfterStore == {"idle", "spawnWorker", "subscribe", "announceRecording", "releaseStart"}

(* The stop() of a quit: while it finds the recording in the slot, while it *)
(* has it in hand, and when it is through with it.                          *)
FindsSlot == {"check", "claimStop", "readPhase", "readMeeting", "announceStopping", "take",
              "announceFinalising", "takeTask", "drain", "unsubscribe", "closeWriter",
              "takeForSave"}
HasInHand == {"flush", "replay", "putBack", "save"}
SavedIt == {"finaliseRow", "announceIdle"}

(* A quit begins once, and only one does.                                   *)
OneQuit ==
    \A c, d \in QuitCalls : pc[c] # "idle" /\ pc[d] # "idle" => c = d

(* While there is a recording to finish the shell does not show Idle, and   *)
(* no start() is between its claim and its slot.                            *)
StartsHeldOff ==
    /\ slot # NONE \/ (\E q \in QuitCalls : pc[q] \in FindsSlot \cup HasInHand \cup SavedIt) =>
          /\ phase \notin {"Idle", "Error"}
          /\ \A c \in StartCalls : pc[c] \in AfterStore
    /\ \A q \in QuitCalls, c \in StartCalls :
          pc[q] = "releaseStop" => pc[c] \in AfterStore \cup {"claim", "checkStop"}
    /\ \A c \in StartCalls :
          pc[c] \in {"validate", "startFailed", "open", "meetingInfo", "row", "store"}
              => phase \notin {"Idle", "Error"}

(* The stop() of a quit ends what it found in the slot.                     *)
QuitHasIt ==
    \A q \in QuitCalls :
        /\ pc[q] \in FindsSlot => slot # NONE
        /\ pc[q] \in FindsSlot \ {"check", "claimStop", "readPhase", "readMeeting"} =>
              mine[q] = slot
        /\ pc[q] \in HasInHand => slot = NONE /\ held[q] # NONE /\ mine[q] = held[q]
        /\ pc[q] \in SavedIt \cup {"releaseStop"} => slot = NONE

(* A row that says "recording" is that of the recording at hand.            *)
OpenRowsInHand ==
    \A m \in Meetings : rows[m] = "recording" =>
        \/ slot = m
        \/ \E c \in StartCalls : pc[c] = "store" /\ mine[c] = m
        \/ \E q \in QuitCalls : pc[q] \in HasInHand \cup {"finaliseRow"} /\ mine[q] = m

QuitInv == AllInv /\ OneQuit /\ StartsHeldOff /\ QuitHasIt /\ OpenRowsInHand

(* start() stores its manager only when there is none, and its row with it. *)
LEMMA StartKeepsQuit ==
  ASSUME LoneQuit, QuitInv, NEW c \in StartCalls, StartStep(c)
  PROVE  OneQuit' /\ StartsHeldOff' /\ QuitHasIt' /\ OpenRowsInHand'
  <1> USE CallsAssumption DEF LoneQuit, QuitInv, AllInv, TypeInv, TypeOK, GuardsExclusive,
          StartHolds, StopHolds, OneQuit, StartsHeldOff, QuitHasIt, OpenRowsInHand, AfterStore,
          FindsSlot, HasInHand, SavedIt, StartLabels, StopLabels, Calls, StopLike, IsRecording,
          Goto, OnlyPc, EmitPhase, phaseVars, globals, managers, workers, database, locals
  <1>1. CASE StartClaim(c)
    BY <1>1 DEF StartClaim
  <1>2. CASE StartCheckStop(c)
    BY <1>2 DEF StartCheckStop
  <1>3. CASE StartCheckActive(c)
    BY <1>3 DEF StartCheckActive
  <1>4. CASE StartAnnounceStarting(c)
    BY <1>4 DEF StartAnnounceStarting
  <1>5. CASE StartValidate(c)
    BY <1>5 DEF StartValidate
  <1>6. CASE StartFailed(c)
    BY <1>6 DEF StartFailed
  <1>7. CASE StartOpen(c)
    BY <1>7 DEF StartOpen
  <1>8. CASE StartMeetingInfo(c)
    BY <1>8 DEF StartMeetingInfo
  <1>9. CASE StartRow(c)
    BY <1>9 DEF StartRow
  <1>10. CASE StartStore(c)
    BY <1>10 DEF StartStore
  <1>11. CASE StartSpawnWorker(c)
    BY <1>11 DEF StartSpawnWorker
  <1>12. CASE StartSubscribe(c)
    BY <1>12 DEF StartSubscribe
  <1>13. CASE StartAnnounceRecording(c)
    BY <1>13 DEF StartAnnounceRecording
  <1>14. CASE StartRelease(c)
    BY <1>14 DEF StartRelease
  <1> QED BY <1>1, <1>2, <1>3, <1>4, <1>5, <1>6, <1>7, <1>8, <1>9, <1>10, <1>11, <1>12,
             <1>13, <1>14 DEF StartStep

(* The stop() of the quit takes the recording down from step to step.       *)
LEMMA StopKeepsQuit ==
  ASSUME LoneQuit, QuitInv, NEW c \in StopLike, StopStep(c)
  PROVE  OneQuit' /\ StartsHeldOff' /\ QuitHasIt' /\ OpenRowsInHand'
  <1> USE CallsAssumption DEF LoneQuit, QuitInv, AllInv, TypeInv, TypeOK, GuardsExclusive,
          StartHolds, StopHolds, OneQuit, StartsHeldOff, QuitHasIt, OpenRowsInHand, AfterStore,
          FindsSlot, HasInHand, SavedIt, StartLabels, StopLabels, Calls, StopLike, IsRecording,
          Goto, OnlyPc, EmitPhase, phaseVars, globals, managers, workers, database, locals
  <1>1. CASE StopCheck(c)
    BY <1>1 DEF StopCheck, Returned
  <1>2. CASE StopClaim(c)
    BY <1>2 DEF StopClaim, Returned
  <1>3. CASE StopReadPhase(c)
    BY <1>3 DEF StopReadPhase
  <1>4. CASE StopReadMeeting(c)
    BY <1>4 DEF StopReadMeeting
  <1>5. CASE StopAnnounceStopping(c)
    BY <1>5 DEF StopAnnounceStopping
  <1>6. CASE StopTake(c)
    BY <1>6 DEF StopTake
  <1>7. CASE StopFlush(c)
    BY <1>7 DEF StopFlush
  <1>8. CASE StopReplay(c)
    BY <1>8 DEF StopReplay
  <1>9. CASE StopPutBack(c)
    BY <1>9 DEF StopPutBack
  <1>10. CASE StopAnnounceFinalising(c)
    BY <1>10 DEF StopAnnounceFinalising
  <1>11. CASE StopTakeTask(c)
    BY <1>11 DEF StopTakeTask
  <1>12. CASE StopDrained(c)
    BY <1>12 DEF StopDrained
  <1>13. CASE StopDrainStalled(c)
    BY <1>13 DEF StopDrainStalled
  <1>14. CASE StopUnsubscribe(c)
    BY <1>14 DEF StopUnsubscribe
  <1>15. CASE StopCloseWriter(c)
    BY <1>15 DEF StopCloseWriter
  <1>16. CASE StopTakeForSave(c)
    BY <1>16 DEF StopTakeForSave
  <1>17. CASE StopSave(c)
    BY <1>17 DEF StopSave
  <1>18. CASE StopFinaliseRow(c)
    BY <1>18 DEF StopFinaliseRow
  <1>19. CASE StopAnnounceIdle(c)
    BY <1>19 DEF StopAnnounceIdle
  <1>20. CASE StopRelease(c)
    BY <1>20 DEF StopRelease, Returned
  <1> QED BY <1>1, <1>2, <1>3, <1>4, <1>5, <1>6, <1>7, <1>8, <1>9, <1>10, <1>11, <1>12,
             <1>13, <1>14, <1>15, <1>16, <1>17, <1>18, <1>19, <1>20 DEF StopStep

(* A late pause does not make the shell show Idle, and a restart leaves no  *)
(* row "recording".                                                         *)
LEMMA RestKeepsQuit ==
  ASSUME LoneQuit, QuitInv, [Next]_vars,
         ~(\E c \in StartCalls : StartStep(c)), ~(\E c \in StopLike : StopStep(c))
  PROVE  OneQuit' /\ StartsHeldOff' /\ QuitHasIt' /\ OpenRowsInHand'
  <1> DEFINE Kept == OneQuit' /\ StartsHeldOff' /\ QuitHasIt' /\ OpenRowsInHand'
  <1> USE CallsAssumption DEF LoneQuit, QuitInv, AllInv, TypeInv, TypeOK, GuardsExclusive,
          StartHolds, StopHolds, OneQuit, StartsHeldOff, QuitHasIt, OpenRowsInHand, AfterStore,
          FindsSlot, HasInHand, SavedIt, StartLabels, StopLabels, Calls, StopLike, IsRecording,
          Goto, OnlyPc, EmitPhase, phaseVars, globals, managers, workers, database, locals
  <1>1. ASSUME NEW c \in StartCalls, ClickStart(c) PROVE Kept
    BY <1>1 DEF ClickStart
  <1>2. ASSUME NEW c \in PauseCalls, ClickPause(c) PROVE Kept
    BY <1>2 DEF ClickPause
  <1>3. ASSUME NEW c \in QuitCalls, ClickQuit(c) PROVE Kept
    BY <1>3 DEF ClickQuit
  <1>4. ASSUME NEW c \in PauseCalls, PauseStep(c) PROVE Kept
    BY <1>4 DEF PauseStep, PauseCheck, Pause, Resume, PauseAnnounce
  <1>5. ASSUME NEW m \in Meetings, Speak(m) \/ WorkerStep(m) PROVE Kept
    BY <1>5 DEF Speak, WorkerStep, WorkerInitFails, WorkerFilters, WorkerPublishes,
                WorkerStores, WorkerEnds
  <1>6. CASE Restart
    BY <1>6 DEF Restart, Swept
  <1>7. CASE UNCHANGED vars
    BY <1>7 DEF vars
  <1> QED BY <1>1, <1>2, <1>3, <1>4, <1>5, <1>6, <1>7 DEF Next, Clicks, Crash, Quit

(* The inductive invariant of a shell that quits beside one start().        *)
LEMMA QuitInvariance == ASSUME LoneQuit PROVE Spec => []QuitInv
  <1>1. Init => QuitInv
    BY InitAllInv, CallsAssumption
       DEF Init, QuitInv, OneQuit, StartsHeldOff, QuitHasIt, OpenRowsInHand, AfterStore,
           FindsSlot, HasInHand, SavedIt, Calls, StopLike
  <1>2. QuitInv /\ [Next]_vars => QuitInv'
    <2> SUFFICES ASSUME QuitInv, [Next]_vars PROVE QuitInv'
      OBVIOUS
    <2>1. AllInv'
      BY StepKeepsAllInv DEF QuitInv
    <2>2. OneQuit' /\ StartsHeldOff' /\ QuitHasIt' /\ OpenRowsInHand'
      BY LoneQuit, StartKeepsQuit, StopKeepsQuit, RestKeepsQuit
    <2> QED BY <2>1, <2>2 DEF QuitInv
  <1> QED BY <1>1, <1>2, PTL DEF Spec

(* The process exits only from the last step of the quit's stop(): the      *)
(* recording it was clicked for is in the slot until then.                  *)
LEMMA QuitReturnsFinished ==
  ASSUME LoneQuit, QuitInv, [Next]_vars, NEW c \in QuitCalls,
         pc[c] \notin {"idle", "exit"}, pc'[c] = "exit", ~startFlag,
         NEW m \in Meetings
  PROVE  rows[m] # "recording"
  <1> USE CallsAssumption DEF LoneQuit, QuitInv, AllInv, TypeInv, TypeOK, GuardsExclusive,
          StartHolds, StopHolds, OneQuit, StartsHeldOff, QuitHasIt, OpenRowsInHand, AfterStore,
          FindsSlot, HasInHand, SavedIt, StartLabels, StopLabels, Calls, StopLike, IsRecording,
          Goto, OnlyPc, EmitPhase, phaseVars, globals, managers, workers, database, locals
  <1>1. StopStep(c)
    <2>1. ASSUME NEW d \in Calls, NEW l, pc' = [pc EXCEPT ![d] = l], d # c PROVE FALSE
      BY <2>1
    <2>2. ASSUME NEW d \in StartCalls, StartStep(d) PROVE FALSE
      <3>1. \E l : pc' = [pc EXCEPT ![d] = l]
        BY <2>2 DEF StartStep, StartClaim, StartCheckStop, StartCheckActive,
           StartAnnounceStarting, StartValidate, StartFailed, StartOpen, StartMeetingInfo,
           StartRow, StartStore, StartSpawnWorker, StartSubscribe, StartAnnounceRecording,
           StartRelease
      <3> QED BY <2>1, <2>2, <3>1
    <2>3. ASSUME NEW d \in StopLike, StopStep(d), d # c PROVE FALSE
      <3>1. \E l : pc' = [pc EXCEPT ![d] = l]
        BY <2>3 DEF StopStep, StopCheck, StopClaim, StopReadPhase, StopReadMeeting,
           StopAnnounceStopping, StopTake, StopFlush, StopReplay, StopPutBack,
           StopAnnounceFinalising, StopTakeTask, StopDrained, StopDrainStalled,
           StopUnsubscribe, StopCloseWriter, StopTakeForSave, StopSave, StopFinaliseRow,
           StopAnnounceIdle, StopRelease
      <3> QED BY <2>1, <2>3, <3>1
    <2>4. ASSUME NEW d \in PauseCalls, PauseStep(d) PROVE FALSE
      <3>1. \E l : pc' = [pc EXCEPT ![d] = l]
        BY <2>4 DEF PauseStep, PauseCheck, Pause, Resume, PauseAnnounce
      <3> QED BY <2>1, <2>4, <3>1
    <2>5. ASSUME NEW n \in Meetings, Speak(n) \/ WorkerStep(n) PROVE FALSE
      BY <2>5 DEF Speak, WorkerStep, WorkerInitFails, WorkerFilters, WorkerPublishes,
                  WorkerStores, WorkerEnds
    <2>6. CASE Clicks
      BY <2>6 DEF Clicks, ClickStart, ClickPause, ClickQuit
    <2>7. CASE Restart
      BY <2>7 DEF Restart
    <2>8. CASE UNCHANGED vars
      BY <2>8 DEF vars
    <2> QED BY <2>2, <2>3, <2>4, <2>5, <2>6, <2>7, <2>8 DEF Next, Crash, Quit
  <1>2. ~StopCheck(c) /\ ~StopClaim(c)
    BY DEF StopCheck, StopClaim, Returned
  <1>3. pc[c] = "releaseStop"
    BY <1>1, <1>2 DEF StopStep, StopReadPhase, StopReadMeeting, StopAnnounceStopping,
       StopTake, StopFlush, StopReplay, StopPutBack, StopAnnounceFinalising, StopTakeTask,
       StopDrained, StopDrainStalled, StopUnsubscribe, StopCloseWriter, StopTakeForSave,
       StopSave, StopFinaliseRow, StopAnnounceIdle, StopRelease
  <1> QED BY <1>3

(* A quit finishes the recording with the full stop flow before the process *)
(* exits, for any number of recordings, segments, quits and pauses, if no   *)
(* other stop() and no second start() runs and no statement fails.          *)
THEOREM LoneQuitFinishes == ASSUME LoneQuit PROVE Spec => QuitFinishesRecording
  <1>1. QuitInv /\ [Next]_vars =>
           [\A c \in QuitCalls :
               /\ pc[c] \notin {"idle", "exit"}
               /\ pc'[c] = "exit"
               /\ ~startFlag
               => \A m \in Meetings : rows[m] # "recording"]_vars
    BY LoneQuit, QuitReturnsFinished
  <1> QED BY <1>1, QuitInvariance, PTL DEF Spec, QuitFinishesRecording

=============================================================================
