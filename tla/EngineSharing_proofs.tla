------------------------ MODULE EngineSharing_proofs ------------------------
(***************************************************************************)
(* What EngineSharing promises for any number of sessions, batch jobs,     *)
(* models and segments.                                                    *)
(*                                                                         *)
(* The invariant has three layers.  The labels of each kind of process and *)
(* the count of the lease need nothing else.  The jobs: one per kind, and  *)
(* where each of its facts was established.  The engine: as long as no     *)
(* clash happened, one process at a time is changing the model, no other   *)
(* one while a final worker is at work, and its label says how far the     *)
(* context and the name have got.                                          *)
(***************************************************************************)
EXTENDS EngineSharing, FiniteSetTheorems, TLAPS

SessionPcs == SessionLabels \cup ChangeLabels
FinalPcs == LiveLabels \cup ChangeLabels \cup DecodeLabels
PartialPcs == {"idle", "lease", "ready", "drop", "notify", "done"} \cup DecodeLabels
JobPcs == JobLabels \cup ChangeLabels \cup DecodeLabels

(* Where each kind of process can be. *)
PcOK ==
    /\ \A s \in Sessions : pc[s] \in SessionPcs
    /\ \A s \in Sessions : pc[Final(s)] \in FinalPcs
    /\ \A s \in Sessions : pc[Partial(s)] \in PartialPcs
    /\ \A j \in Jobs : pc[j] \in JobPcs

(* The goal of a process is to unload only while it does. *)
GoalOK ==
    /\ \A w \in Live : goal[w] = "load"
    /\ \A s \in Sessions : goal[s] = "unload" => pc[s] \in {"evict", "clear", "done"}
    /\ \A j \in Jobs : goal[j] = "unload" =>
          pc[j] \in {"leased", "enrol", "recheck", "asleep", "evict", "clear",
                     "release", "done"}

(* The workers of a session exist from SpawnWorkers on. *)
SpawnOK ==
    \A s \in Sessions :
        /\ pc[s] \in {"recording", "drain"} => pc[Final(s)] # "idle"
        /\ \/ pc[s] \in {"idle", "look", "lookName", "store", "spawn"}
           \/ pc[s] \in ChangeLabels /\ goal[s] = "load"
           => pc[Final(s)] = "idle" /\ pc[Partial(s)] = "idle"

(* The counter of the lease is the number of guards. *)
HoldLabels == {"look", "lookName", "ready", "drop"} \cup ChangeLabels \cup DecodeLabels
Holders == {w \in Live : pc[w] \in HoldLabels}
LeaseHeld == count = Cardinality(Holders)

WaitersEnrolled ==
    \A j \in Jobs : pc[j] \in {"recheck", "asleep"} => j \in enrolled \cup notified

Running(j) == pc[j] \notin {"idle", "done"}
OneJobPerKind ==
    /\ \A j \in Jobs : Running(j) => Kind(j) \in inProgress
    /\ \A i, j \in Jobs : Running(i) /\ Running(j) /\ Kind(i) = Kind(j) => i = j

AskedIsCancelled == asked \subseteq cancelled

(* A job is over once it has saved: nothing below touches what it wrote. *)
Over(j) == pc[j] = "finish" \/ goal[j] = "unload"
JobOK(j) ==
    /\ pc[j] \in DecodeLabels => seg[j] < Segments
    /\ j \in Retrans /\ pc[j] = "save" => seg[j] = Segments
    /\ j \in Retrans /\ transcript = j =>
          Over(j) /\ result[j] = "ok" /\ text[j] /\ seg[j] = Segments
    /\ j \in rows => Over(j) /\ j \in folder
    /\ \/ j \notin Imports
       \/ pc[j] \in {"idle", "reset", "prepare", "copy", "done"} \/ Over(j)
       \/ j \in folder
JobData == \A j \in Jobs : JobOK(j)

AtWork(s) == pc[Final(s)] \in HoldLabels \ {"drop"}
SessionsOK ==
    /\ \A s, t \in Sessions :
          pc[s] \notin {"idle", "done"} /\ pc[t] \notin {"idle", "done"} => s = t
    /\ \A s \in Sessions :
          AtWork(s) \/ pc[Final(s)] = "lease" => pc[s] \in {"recording", "drain"}

(* What the label of the one changing process says of the engine. *)
Shape(p) ==
    /\ pc[p] \in {"loadCheck", "evict"} => name = ctx /\ ~locked
    /\ pc[p] = "clear" => ctx = NONE /\ locked
    /\ pc[p] \in {"read", "setCtx"} => ctx = NONE /\ name = NONE /\ ~locked
    /\ pc[p] = "setName" => ctx = Target(p) /\ ~locked

OneChanger ==
    ~clash =>
        /\ \A p, q \in Changing : p = q
        /\ \A s \in Sessions : AtWork(s) => Changing \subseteq {Final(s)}
        /\ \A p \in Changing : Shape(p)
        /\ Changing = {} => name = ctx /\ ~locked
        /\ \A s \in Sessions :
              pc[Final(s)] \in {"ready"} \cup DecodeLabels => ctx = Configured

LeaseInv == TypeOK /\ PcOK /\ GoalOK /\ SpawnOK /\ LeaseHeld
            /\ WaitersEnrolled /\ NoSleepOnFreeLease
JobInv == OneJobPerKind /\ AskedIsCancelled /\ JobData /\ CancelTakesEffect
EngineInv == SessionsOK /\ OneChanger /\ PoolIsOfTheContext /\ LiveIsTranscribed
IInv == LeaseInv /\ JobInv /\ EngineInv
(* The steps by who takes them. *)
SessionOnly(s) ==
    \/ StartRecording(s) \/ StopRecording(s) \/ StoreManager(s)
    \/ SpawnWorkers(s) \/ Drained(s) \/ AbortWorker(s) \/ AwaitPartial(s)
    \/ UnloadAfterStop(s)
Looking(p) == Look(p) \/ LookName(p)
LiveOnly(w) ==
    TakeLease(w) \/ NextChunk(w) \/ ChannelClosed(w) \/ DropLease(w) \/ Notify(w)
JobOnly(j) ==
    \/ StartJob(j) \/ ResetCancelled(j) \/ Prepare(j) \/ CopyAudio(j)
    \/ CutSpeech(j) \/ CheckModel(j) \/ CheckLease(j) \/ MakeNotified(j)
    \/ RecheckLease(j) \/ Wake(j) \/ LeaseTimeout(j) \/ BatchTurn(j)
    \/ SaveImport(j) \/ SaveRetrans(j) \/ FinishJob(j) \/ ReleaseJob(j)

(* Every step is one of these. *)
LEMMA Steps ==
    ASSUME Next
    PROVE  \/ \E s \in Sessions : SessionOnly(s)
           \/ \E p \in Sessions \cup Live : Looking(p)
           \/ \E p \in Processes : ChangeModel(p)
           \/ \E p \in Live \cup Jobs : Decode(p)
           \/ \E w \in Live : LiveOnly(w)
           \/ \E j \in Jobs : JobOnly(j)
           \/ \E k \in Kinds : Cancel(k)
           \/ UNCHANGED vars
BY Zenon DEF Next, SessionStep, LiveStep, JobStep, SessionOnly, Looking, LiveOnly,
       JobOnly, Processes, Terminating

(* The kinds of processes do not overlap. *)
LEMMA Disjoint ==
    /\ Processes = Sessions \cup Jobs \cup Live
    /\ \A s \in Sessions : s \notin Jobs /\ s \notin Live
    /\ \A s \in Sessions : Final(s) \in Live /\ Partial(s) \in Live
    /\ \A w \in Live : w \notin Jobs /\ w \notin Sessions
    /\ \A w \in Live : \E s \in Sessions : w = Final(s) \/ w = Partial(s)
    /\ \A s, t \in Sessions : Final(s) # Partial(t)
    /\ \A s, t \in Sessions : Final(s) = Final(t) => s = t
    /\ \A s, t \in Sessions : Partial(s) = Partial(t) => s = t
    /\ \A s \in Sessions : Final(s)[2] = "Final" /\ Partial(s)[2] = "Partial"
    /\ \A s \in Sessions : Final(s)[1] = s /\ Partial(s)[1] = s
BY SharingAssumption DEF Processes, Live, Final, Partial, Purposes

(* pc and goal are functions of the processes. *)
LEMMA PcTyped == TypeOK => /\ DOMAIN pc = Processes /\ pc = [p \in Processes |-> pc[p]]
                           /\ goal = [p \in Processes |-> goal[p]]
BY DEF TypeOK

(* Every process stays on its own labels. *)
LEMMA PcStep ==
  ASSUME TypeOK, PcOK, GoalOK, Next
  PROVE  PcOK'
  <1> USE PcTyped, Disjoint DEF PcOK, GoalOK, SessionPcs, FinalPcs, PartialPcs, JobPcs, SessionLabels, LiveLabels,
             JobLabels, ChangeLabels, DecodeLabels
  <1>1. ASSUME NEW s \in Sessions, SessionOnly(s) PROVE PcOK'
    <2>1. CASE StartRecording(s)
      BY <2>1 DEF StartRecording, Goto
    <2>2. CASE StopRecording(s)
      BY <2>2 DEF StopRecording, Goto
    <2>3. CASE StoreManager(s)
      BY <2>3 DEF StoreManager, Goto
    <2>4. CASE SpawnWorkers(s)
      BY <2>4 DEF SpawnWorkers
    <2>5. CASE Drained(s)
      BY <2>5 DEF Drained, Goto
    <2>6. CASE AbortWorker(s)
      BY <2>6 DEF AbortWorker, Unlock
    <2>7. CASE AwaitPartial(s)
      BY <2>7 DEF AwaitPartial, Goto
    <2>8. CASE UnloadAfterStop(s)
      BY <2>8 DEF UnloadAfterStop, Goto, NoteClash
    <2> QED BY <1>1, <2>1, <2>2, <2>3, <2>4, <2>5, <2>6, <2>7, <2>8 DEF SessionOnly
  <1>2. ASSUME NEW p \in Sessions \cup Live, Looking(p) PROVE PcOK'
    <2>1. CASE Look(p)
      BY <2>1 DEF Look, Goto, NoteClash
    <2>2. CASE LookName(p)
      BY <2>2 DEF LookName, Goto, NoteClash, AfterLoad
    <2> QED BY <1>2, <2>1, <2>2 DEF Looking
  <1>3. ASSUME NEW p \in Processes, ChangeModel(p) PROVE PcOK'
    <2>1. CASE LoadCheck(p)
      BY <2>1 DEF LoadCheck, Goto, AfterLoad
    <2>2. CASE EvictStep(p)
      BY <2>2 DEF EvictStep, Goto, Evict
    <2>3. CASE ClearStep(p)
      BY <2>3 DEF ClearStep, Goto, Clear, AfterUnload
    <2>4. CASE ReadWeights(p)
      BY <2>4 DEF ReadWeights, Goto, LoadFails
    <2>5. CASE SetContextStep(p)
      BY <2>5 DEF SetContextStep, Goto, SetContext
    <2>6. CASE SetNameStep(p)
      BY <2>6 DEF SetNameStep, Goto, SetName, AfterLoad
    <2> QED BY <1>3, <2>1, <2>2, <2>3, <2>4, <2>5, <2>6 DEF ChangeModel
  <1>4. ASSUME NEW p \in Live \cup Jobs, Decode(p) PROVE PcOK'
    <2>1. CASE LookUpState(p)
      BY <2>1 DEF LookUpState, Goto, Decoded, NoModelLoaded, BatchFails, JobFails
    <2>2. CASE InsertState(p)
      BY <2>2 DEF InsertState, Goto, Decoded, BatchFails, JobFails, PoolInsert
    <2> QED BY <1>4, <2>1, <2>2 DEF Decode
  <1>5. ASSUME NEW w \in Live, LiveOnly(w) PROVE PcOK'
    <2>1. CASE TakeLease(w)
      BY <2>1 DEF TakeLease, Goto, AcquireLive, NoteClash
    <2>2. CASE NextChunk(w)
      BY <2>2 DEF NextChunk, Goto
    <2>3. CASE ChannelClosed(w)
      BY <2>3 DEF ChannelClosed, Goto
    <2>4. CASE DropLease(w)
      BY <2>4 DEF DropLease, Goto, DropGuard, LastGuard
    <2>5. CASE Notify(w)
      BY <2>5 DEF Notify, Goto, NotifyWaiters
    <2> QED BY <1>5, <2>1, <2>2, <2>3, <2>4, <2>5 DEF LiveOnly
  <1>6. ASSUME NEW j \in Jobs, JobOnly(j) PROVE PcOK'
    <2>1. CASE StartJob(j)
      BY <2>1 DEF StartJob, Goto
    <2>2. CASE ResetCancelled(j)
      BY <2>2 DEF ResetCancelled, Goto
    <2>3. CASE Prepare(j)
      BY <2>3 DEF Prepare, Goto, JobFails
    <2>4. CASE CopyAudio(j)
      BY <2>4 DEF CopyAudio, Goto, JobFails
    <2>5. CASE CutSpeech(j)
      BY <2>5 DEF CutSpeech, Goto, JobFails, BatchFails
    <2>6. CASE CheckModel(j)
      BY <2>6 DEF CheckModel, Goto
    <2>7. CASE CheckLease(j)
      BY <2>7 DEF CheckLease, Goto, Granted, NoteClash
    <2>8. CASE MakeNotified(j)
      BY <2>8 DEF MakeNotified, Goto, Enrol
    <2>9. CASE RecheckLease(j)
      BY <2>9 DEF RecheckLease, Goto, Granted, NoteClash, Unenrol
    <2>10. CASE Wake(j)
      BY <2>10 DEF Wake, Goto, Granted, NoteClash, Unenrol
    <2>11. CASE LeaseTimeout(j)
      BY <2>11 DEF LeaseTimeout, Goto, Unenrol, JobFails
    <2>12. CASE BatchTurn(j)
      BY <2>12 DEF BatchTurn, Goto, BatchFails, JobFails
    <2>13. CASE SaveImport(j)
      BY <2>13 DEF SaveImport, Goto, JobSucceeds, JobFails
    <2>14. CASE SaveRetrans(j)
      BY <2>14 DEF SaveRetrans, Goto, JobSucceeds, JobFails
    <2>15. CASE FinishJob(j)
      BY <2>15 DEF FinishJob, Goto
    <2>16. CASE ReleaseJob(j)
      BY <2>16 DEF ReleaseJob, Goto
    <2> QED BY <1>6, <2>1, <2>2, <2>3, <2>4, <2>5, <2>6, <2>7, <2>8, <2>9, <2>10, <2>11,
               <2>12, <2>13, <2>14, <2>15, <2>16 DEF JobOnly
  <1>7. ASSUME NEW k \in Kinds, Cancel(k) PROVE PcOK'
    BY <1>7 DEF Cancel, procVars
  <1>8. CASE UNCHANGED vars
    BY <1>8 DEF vars, procVars
  <1> QED BY Steps, <1>1, <1>2, <1>3, <1>4, <1>5, <1>6, <1>7, <1>8

(* Only an unload under way has the goal to unload. *)
LEMMA GoalStep ==
  ASSUME TypeOK, PcOK, GoalOK, Next
  PROVE  GoalOK'
  <1> USE PcTyped, Disjoint DEF PcOK, GoalOK, SessionPcs, FinalPcs, PartialPcs, JobPcs, SessionLabels, LiveLabels,
             JobLabels, ChangeLabels, DecodeLabels
  <1>1. ASSUME NEW s \in Sessions, SessionOnly(s) PROVE GoalOK'
    <2>1. CASE StartRecording(s)
      BY <2>1 DEF StartRecording, Goto
    <2>2. CASE StopRecording(s)
      BY <2>2 DEF StopRecording, Goto
    <2>3. CASE StoreManager(s)
      BY <2>3 DEF StoreManager, Goto
    <2>4. CASE SpawnWorkers(s)
      BY <2>4 DEF SpawnWorkers
    <2>5. CASE Drained(s)
      BY <2>5 DEF Drained, Goto
    <2>6. CASE AbortWorker(s)
      BY <2>6 DEF AbortWorker, Unlock
    <2>7. CASE AwaitPartial(s)
      BY <2>7 DEF AwaitPartial, Goto
    <2>8. CASE UnloadAfterStop(s)
      BY <2>8 DEF UnloadAfterStop, Goto, NoteClash
    <2> QED BY <1>1, <2>1, <2>2, <2>3, <2>4, <2>5, <2>6, <2>7, <2>8 DEF SessionOnly
  <1>2. ASSUME NEW p \in Sessions \cup Live, Looking(p) PROVE GoalOK'
    <2>1. CASE Look(p)
      BY <2>1 DEF Look, Goto, NoteClash
    <2>2. CASE LookName(p)
      BY <2>2 DEF LookName, Goto, NoteClash, AfterLoad
    <2> QED BY <1>2, <2>1, <2>2 DEF Looking
  <1>3. ASSUME NEW p \in Processes, ChangeModel(p) PROVE GoalOK'
    <2>1. CASE LoadCheck(p)
      BY <2>1 DEF LoadCheck, Goto, AfterLoad
    <2>2. CASE EvictStep(p)
      BY <2>2 DEF EvictStep, Goto, Evict
    <2>3. CASE ClearStep(p)
      BY <2>3 DEF ClearStep, Goto, Clear, AfterUnload
    <2>4. CASE ReadWeights(p)
      BY <2>4 DEF ReadWeights, Goto, LoadFails
    <2>5. CASE SetContextStep(p)
      BY <2>5 DEF SetContextStep, Goto, SetContext
    <2>6. CASE SetNameStep(p)
      BY <2>6 DEF SetNameStep, Goto, SetName, AfterLoad
    <2> QED BY <1>3, <2>1, <2>2, <2>3, <2>4, <2>5, <2>6 DEF ChangeModel
  <1>4. ASSUME NEW p \in Live \cup Jobs, Decode(p) PROVE GoalOK'
    <2>1. CASE LookUpState(p)
      BY <2>1 DEF LookUpState, Goto, Decoded, NoModelLoaded, BatchFails, JobFails
    <2>2. CASE InsertState(p)
      BY <2>2 DEF InsertState, Goto, Decoded, BatchFails, JobFails, PoolInsert
    <2> QED BY <1>4, <2>1, <2>2 DEF Decode
  <1>5. ASSUME NEW w \in Live, LiveOnly(w) PROVE GoalOK'
    <2>1. CASE TakeLease(w)
      BY <2>1 DEF TakeLease, Goto, AcquireLive, NoteClash
    <2>2. CASE NextChunk(w)
      BY <2>2 DEF NextChunk, Goto
    <2>3. CASE ChannelClosed(w)
      BY <2>3 DEF ChannelClosed, Goto
    <2>4. CASE DropLease(w)
      BY <2>4 DEF DropLease, Goto, DropGuard, LastGuard
    <2>5. CASE Notify(w)
      BY <2>5 DEF Notify, Goto, NotifyWaiters
    <2> QED BY <1>5, <2>1, <2>2, <2>3, <2>4, <2>5 DEF LiveOnly
  <1>6. ASSUME NEW j \in Jobs, JobOnly(j) PROVE GoalOK'
    <2>1. CASE StartJob(j)
      BY <2>1 DEF StartJob, Goto
    <2>2. CASE ResetCancelled(j)
      BY <2>2 DEF ResetCancelled, Goto
    <2>3. CASE Prepare(j)
      BY <2>3 DEF Prepare, Goto, JobFails
    <2>4. CASE CopyAudio(j)
      BY <2>4 DEF CopyAudio, Goto, JobFails
    <2>5. CASE CutSpeech(j)
      BY <2>5 DEF CutSpeech, Goto, JobFails, BatchFails
    <2>6. CASE CheckModel(j)
      BY <2>6 DEF CheckModel, Goto
    <2>7. CASE CheckLease(j)
      BY <2>7 DEF CheckLease, Goto, Granted, NoteClash
    <2>8. CASE MakeNotified(j)
      BY <2>8 DEF MakeNotified, Goto, Enrol
    <2>9. CASE RecheckLease(j)
      BY <2>9 DEF RecheckLease, Goto, Granted, NoteClash, Unenrol
    <2>10. CASE Wake(j)
      BY <2>10 DEF Wake, Goto, Granted, NoteClash, Unenrol
    <2>11. CASE LeaseTimeout(j)
      BY <2>11 DEF LeaseTimeout, Goto, Unenrol, JobFails
    <2>12. CASE BatchTurn(j)
      BY <2>12 DEF BatchTurn, Goto, BatchFails, JobFails
    <2>13. CASE SaveImport(j)
      BY <2>13 DEF SaveImport, Goto, JobSucceeds, JobFails
    <2>14. CASE SaveRetrans(j)
      BY <2>14 DEF SaveRetrans, Goto, JobSucceeds, JobFails
    <2>15. CASE FinishJob(j)
      BY <2>15 DEF FinishJob, Goto
    <2>16. CASE ReleaseJob(j)
      BY <2>16 DEF ReleaseJob, Goto
    <2> QED BY <1>6, <2>1, <2>2, <2>3, <2>4, <2>5, <2>6, <2>7, <2>8, <2>9, <2>10, <2>11,
               <2>12, <2>13, <2>14, <2>15, <2>16 DEF JobOnly
  <1>7. ASSUME NEW k \in Kinds, Cancel(k) PROVE GoalOK'
    BY <1>7 DEF Cancel, procVars
  <1>8. CASE UNCHANGED vars
    BY <1>8 DEF vars, procVars
  <1> QED BY Steps, <1>1, <1>2, <1>3, <1>4, <1>5, <1>6, <1>7, <1>8

(* A worker leaves idle in SpawnWorkers and never comes back. *)
LEMMA SpawnStep ==
  ASSUME TypeOK, PcOK, GoalOK, SpawnOK, Next
  PROVE  SpawnOK'
  <1> USE PcTyped, Disjoint DEF PcOK, GoalOK, SpawnOK, SessionPcs, FinalPcs, PartialPcs, JobPcs, SessionLabels, LiveLabels,
             JobLabels, ChangeLabels, DecodeLabels
  <1>1. ASSUME NEW s \in Sessions, SessionOnly(s) PROVE SpawnOK'
    <2>1. CASE StartRecording(s)
      BY <2>1 DEF StartRecording, Goto
    <2>2. CASE StopRecording(s)
      BY <2>2 DEF StopRecording, Goto
    <2>3. CASE StoreManager(s)
      BY <2>3 DEF StoreManager, Goto
    <2>4. CASE SpawnWorkers(s)
      BY <2>4 DEF SpawnWorkers
    <2>5. CASE Drained(s)
      BY <2>5 DEF Drained, Goto
    <2>6. CASE AbortWorker(s)
      BY <2>6 DEF AbortWorker, Unlock
    <2>7. CASE AwaitPartial(s)
      BY <2>7 DEF AwaitPartial, Goto
    <2>8. CASE UnloadAfterStop(s)
      BY <2>8 DEF UnloadAfterStop, Goto, NoteClash
    <2> QED BY <1>1, <2>1, <2>2, <2>3, <2>4, <2>5, <2>6, <2>7, <2>8 DEF SessionOnly
  <1>2. ASSUME NEW p \in Sessions \cup Live, Looking(p) PROVE SpawnOK'
    <2>1. CASE Look(p)
      BY <2>1 DEF Look, Goto, NoteClash
    <2>2. CASE LookName(p)
      BY <2>2 DEF LookName, Goto, NoteClash, AfterLoad
    <2> QED BY <1>2, <2>1, <2>2 DEF Looking
  <1>3. ASSUME NEW p \in Processes, ChangeModel(p) PROVE SpawnOK'
    <2>1. CASE LoadCheck(p)
      <3>1. CASE p \in Sessions
        <4>1. goal[p] = "load"
          BY <2>1, <3>1 DEF LoadCheck, TypeOK
        <4>2. pc[Final(p)] = "idle" /\ pc[Partial(p)] = "idle"
          BY <2>1, <3>1, <4>1 DEF LoadCheck
        <4>3. /\ pc'[p] \in {"store", "read", "evict"} /\ UNCHANGED goal
              /\ \A q \in Processes : q /= p => pc'[q] = pc[q]
          BY <2>1, <3>1 DEF LoadCheck, Goto, AfterLoad
        <4> QED BY <3>1, <4>1, <4>2, <4>3
      <3>2. CASE p \notin Sessions
        BY <2>1, <3>2 DEF LoadCheck, Goto, AfterLoad
      <3> QED BY <3>1, <3>2
    <2>2. CASE EvictStep(p)
      BY <2>2 DEF EvictStep, Goto, Evict
    <2>3. CASE ClearStep(p)
      BY <2>3 DEF ClearStep, Goto, Clear, AfterUnload
    <2>4. CASE ReadWeights(p)
      BY <2>4 DEF ReadWeights, Goto, LoadFails
    <2>5. CASE SetContextStep(p)
      BY <2>5 DEF SetContextStep, Goto, SetContext
    <2>6. CASE SetNameStep(p)
      <3>1. CASE p \in Sessions
        <4>1. goal[p] = "load"
          BY <2>6, <3>1 DEF SetNameStep, TypeOK
        <4>2. pc[Final(p)] = "idle" /\ pc[Partial(p)] = "idle"
          BY <2>6, <3>1, <4>1 DEF SetNameStep
        <4>3. /\ pc'[p] \in {"store", "read", "evict"} /\ UNCHANGED goal
              /\ \A q \in Processes : q /= p => pc'[q] = pc[q]
          BY <2>6, <3>1 DEF SetNameStep, Goto, AfterLoad
        <4> QED BY <3>1, <4>1, <4>2, <4>3
      <3>2. CASE p \notin Sessions
        BY <2>6, <3>2 DEF SetNameStep, Goto, AfterLoad
      <3> QED BY <3>1, <3>2
    <2> QED BY <1>3, <2>1, <2>2, <2>3, <2>4, <2>5, <2>6 DEF ChangeModel
  <1>4. ASSUME NEW p \in Live \cup Jobs, Decode(p) PROVE SpawnOK'
    <2>1. CASE LookUpState(p)
      BY <2>1 DEF LookUpState, Goto, Decoded, NoModelLoaded, BatchFails, JobFails
    <2>2. CASE InsertState(p)
      BY <2>2 DEF InsertState, Goto, Decoded, BatchFails, JobFails, PoolInsert
    <2> QED BY <1>4, <2>1, <2>2 DEF Decode
  <1>5. ASSUME NEW w \in Live, LiveOnly(w) PROVE SpawnOK'
    <2>1. CASE TakeLease(w)
      BY <2>1 DEF TakeLease, Goto, AcquireLive, NoteClash
    <2>2. CASE NextChunk(w)
      BY <2>2 DEF NextChunk, Goto
    <2>3. CASE ChannelClosed(w)
      BY <2>3 DEF ChannelClosed, Goto
    <2>4. CASE DropLease(w)
      BY <2>4 DEF DropLease, Goto, DropGuard, LastGuard
    <2>5. CASE Notify(w)
      BY <2>5 DEF Notify, Goto, NotifyWaiters
    <2> QED BY <1>5, <2>1, <2>2, <2>3, <2>4, <2>5 DEF LiveOnly
  <1>6. ASSUME NEW j \in Jobs, JobOnly(j) PROVE SpawnOK'
    <2>1. CASE StartJob(j)
      BY <2>1 DEF StartJob, Goto
    <2>2. CASE ResetCancelled(j)
      BY <2>2 DEF ResetCancelled, Goto
    <2>3. CASE Prepare(j)
      BY <2>3 DEF Prepare, Goto, JobFails
    <2>4. CASE CopyAudio(j)
      BY <2>4 DEF CopyAudio, Goto, JobFails
    <2>5. CASE CutSpeech(j)
      BY <2>5 DEF CutSpeech, Goto, JobFails, BatchFails
    <2>6. CASE CheckModel(j)
      BY <2>6 DEF CheckModel, Goto
    <2>7. CASE CheckLease(j)
      BY <2>7 DEF CheckLease, Goto, Granted, NoteClash
    <2>8. CASE MakeNotified(j)
      BY <2>8 DEF MakeNotified, Goto, Enrol
    <2>9. CASE RecheckLease(j)
      BY <2>9 DEF RecheckLease, Goto, Granted, NoteClash, Unenrol
    <2>10. CASE Wake(j)
      BY <2>10 DEF Wake, Goto, Granted, NoteClash, Unenrol
    <2>11. CASE LeaseTimeout(j)
      BY <2>11 DEF LeaseTimeout, Goto, Unenrol, JobFails
    <2>12. CASE BatchTurn(j)
      BY <2>12 DEF BatchTurn, Goto, BatchFails, JobFails
    <2>13. CASE SaveImport(j)
      BY <2>13 DEF SaveImport, Goto, JobSucceeds, JobFails
    <2>14. CASE SaveRetrans(j)
      BY <2>14 DEF SaveRetrans, Goto, JobSucceeds, JobFails
    <2>15. CASE FinishJob(j)
      BY <2>15 DEF FinishJob, Goto
    <2>16. CASE ReleaseJob(j)
      BY <2>16 DEF ReleaseJob, Goto
    <2> QED BY <1>6, <2>1, <2>2, <2>3, <2>4, <2>5, <2>6, <2>7, <2>8, <2>9, <2>10, <2>11,
               <2>12, <2>13, <2>14, <2>15, <2>16 DEF JobOnly
  <1>7. ASSUME NEW k \in Kinds, Cancel(k) PROVE SpawnOK'
    BY <1>7 DEF Cancel, procVars
  <1>8. CASE UNCHANGED vars
    BY <1>8 DEF vars, procVars
  <1> QED BY Steps, <1>1, <1>2, <1>3, <1>4, <1>5, <1>6, <1>7, <1>8

(* Live consumers are finitely many, and a guard held counts. *)
LEMMA LeaseCounts ==
  ASSUME TypeOK, LeaseHeld
  PROVE  /\ IsFiniteSet(Holders)
         /\ \A w \in Holders : count > 0
  <1>1. IsFiniteSet(Purposes)
    <2>1. Purposes = ({} \cup {"Final"}) \cup {"Partial"}
      BY DEF Purposes
    <2> QED BY <2>1, FS_EmptySet, FS_AddElement
  <1>2. IsFiniteSet(Live)
    BY <1>1, FS_Product, SharingAssumption DEF Live
  <1>3. IsFiniteSet(Holders)
    BY <1>2, FS_Subset DEF Holders
  <1>4. ASSUME NEW w \in Holders PROVE count > 0
    BY <1>3, FS_EmptySet, FS_CardinalityType DEF LeaseHeld, TypeOK, LeaseTypeOK
  <1> QED BY <1>3, <1>4

(* TypeOK in four parts. *)
ProcTypes ==
    /\ LeaseTypeOK /\ EngineTypeOK
    /\ goal \in [Processes -> {"load", "unload"}]
    /\ snap \in [Processes -> Models \cup {NONE}]
PcFunction == pc = [p \in Processes |-> pc[p]]
JobTypes ==
    /\ wants \in [Jobs -> Models \cup {NONE}]
    /\ seen \in [Jobs -> Models \cup {NONE}]
    /\ seg \in [Jobs -> 0..Segments]
    /\ text \in [Jobs -> BOOLEAN]
    /\ result \in [Jobs -> {"none", "ok", "err", "refused"}]
DataTypes ==
    /\ inProgress \subseteq Kinds /\ cancelled \subseteq Kinds
    /\ asked \subseteq Kinds
    /\ folder \subseteq Imports /\ rows \subseteq Imports
    /\ transcript \in Retrans \cup {NONE}
    /\ heard \in [Live -> Models \cup {NONE, "skipped"}]
    /\ clash \in BOOLEAN /\ straddled \in BOOLEAN
    /\ recording \subseteq Sessions
    /\ made \in Scenarios

(* pc stays a function of the processes. *)
LEMMA PcFunctionStep ==
  ASSUME TypeOK, Next
  PROVE  PcFunction'
  <1> USE Disjoint DEF TypeOK, PcFunction
  <1>1. ASSUME NEW s \in Sessions, SessionOnly(s) PROVE PcFunction'
    <2>1. CASE StartRecording(s)
      BY <2>1 DEF StartRecording, Goto
    <2>2. CASE StopRecording(s)
      BY <2>2 DEF StopRecording, Goto
    <2>3. CASE StoreManager(s)
      BY <2>3 DEF StoreManager, Goto
    <2>4. CASE SpawnWorkers(s)
      BY <2>4 DEF SpawnWorkers
    <2>5. CASE Drained(s)
      BY <2>5 DEF Drained, Goto
    <2>6. CASE AbortWorker(s)
      BY <2>6 DEF AbortWorker, Unlock
    <2>7. CASE AwaitPartial(s)
      BY <2>7 DEF AwaitPartial, Goto
    <2>8. CASE UnloadAfterStop(s)
      BY <2>8 DEF UnloadAfterStop, Goto, NoteClash
    <2> QED BY <1>1, <2>1, <2>2, <2>3, <2>4, <2>5, <2>6, <2>7, <2>8 DEF SessionOnly
  <1>2. ASSUME NEW p \in Sessions \cup Live, Looking(p) PROVE PcFunction'
    <2>1. CASE Look(p)
      BY <2>1 DEF Look, Goto, NoteClash
    <2>2. CASE LookName(p)
      BY <2>2 DEF LookName, Goto, NoteClash, AfterLoad
    <2> QED BY <1>2, <2>1, <2>2 DEF Looking
  <1>3. ASSUME NEW p \in Processes, ChangeModel(p) PROVE PcFunction'
    <2>1. CASE LoadCheck(p)
      BY <2>1 DEF LoadCheck, Goto, AfterLoad
    <2>2. CASE EvictStep(p)
      BY <2>2 DEF EvictStep, Goto, Evict
    <2>3. CASE ClearStep(p)
      BY <2>3 DEF ClearStep, Goto, Clear, AfterUnload
    <2>4. CASE ReadWeights(p)
      BY <2>4 DEF ReadWeights, Goto, LoadFails
    <2>5. CASE SetContextStep(p)
      BY <2>5 DEF SetContextStep, Goto, SetContext
    <2>6. CASE SetNameStep(p)
      BY <2>6 DEF SetNameStep, Goto, SetName, AfterLoad
    <2> QED BY <1>3, <2>1, <2>2, <2>3, <2>4, <2>5, <2>6 DEF ChangeModel
  <1>4. ASSUME NEW p \in Live \cup Jobs, Decode(p) PROVE PcFunction'
    <2>1. CASE LookUpState(p)
      BY <2>1 DEF LookUpState, Goto, Decoded, NoModelLoaded, BatchFails, JobFails
    <2>2. CASE InsertState(p)
      BY <2>2 DEF InsertState, Goto, Decoded, BatchFails, JobFails, PoolInsert
    <2> QED BY <1>4, <2>1, <2>2 DEF Decode
  <1>5. ASSUME NEW w \in Live, LiveOnly(w) PROVE PcFunction'
    <2>1. CASE TakeLease(w)
      BY <2>1 DEF TakeLease, Goto, AcquireLive, NoteClash
    <2>2. CASE NextChunk(w)
      BY <2>2 DEF NextChunk, Goto
    <2>3. CASE ChannelClosed(w)
      BY <2>3 DEF ChannelClosed, Goto
    <2>4. CASE DropLease(w)
      BY <2>4 DEF DropLease, Goto, DropGuard, LastGuard
    <2>5. CASE Notify(w)
      BY <2>5 DEF Notify, Goto, NotifyWaiters
    <2> QED BY <1>5, <2>1, <2>2, <2>3, <2>4, <2>5 DEF LiveOnly
  <1>6. ASSUME NEW j \in Jobs, JobOnly(j) PROVE PcFunction'
    <2>1. CASE StartJob(j)
      BY <2>1 DEF StartJob, Goto
    <2>2. CASE ResetCancelled(j)
      BY <2>2 DEF ResetCancelled, Goto
    <2>3. CASE Prepare(j)
      BY <2>3 DEF Prepare, Goto, JobFails
    <2>4. CASE CopyAudio(j)
      BY <2>4 DEF CopyAudio, Goto, JobFails
    <2>5. CASE CutSpeech(j)
      BY <2>5 DEF CutSpeech, Goto, JobFails, BatchFails
    <2>6. CASE CheckModel(j)
      BY <2>6 DEF CheckModel, Goto
    <2>7. CASE CheckLease(j)
      BY <2>7 DEF CheckLease, Goto, Granted, NoteClash
    <2>8. CASE MakeNotified(j)
      BY <2>8 DEF MakeNotified, Goto, Enrol
    <2>9. CASE RecheckLease(j)
      BY <2>9 DEF RecheckLease, Goto, Granted, NoteClash, Unenrol
    <2>10. CASE Wake(j)
      BY <2>10 DEF Wake, Goto, Granted, NoteClash, Unenrol
    <2>11. CASE LeaseTimeout(j)
      BY <2>11 DEF LeaseTimeout, Goto, Unenrol, JobFails
    <2>12. CASE BatchTurn(j)
      BY <2>12 DEF BatchTurn, Goto, BatchFails, JobFails
    <2>13. CASE SaveImport(j)
      BY <2>13 DEF SaveImport, Goto, JobSucceeds, JobFails
    <2>14. CASE SaveRetrans(j)
      BY <2>14 DEF SaveRetrans, Goto, JobSucceeds, JobFails
    <2>15. CASE FinishJob(j)
      BY <2>15 DEF FinishJob, Goto
    <2>16. CASE ReleaseJob(j)
      BY <2>16 DEF ReleaseJob, Goto
    <2> QED BY <1>6, <2>1, <2>2, <2>3, <2>4, <2>5, <2>6, <2>7, <2>8, <2>9, <2>10, <2>11,
               <2>12, <2>13, <2>14, <2>15, <2>16 DEF JobOnly
  <1>7. ASSUME NEW k \in Kinds, Cancel(k) PROVE PcFunction'
    BY <1>7 DEF Cancel, procVars
  <1>8. CASE UNCHANGED vars
    BY <1>8 DEF vars, procVars
  <1> QED BY Steps, <1>1, <1>2, <1>3, <1>4, <1>5, <1>6, <1>7, <1>8

(* The lease, the engine and the goals. *)
LEMMA ProcTypesStep ==
  ASSUME TypeOK, LeaseHeld, Next
  PROVE  ProcTypes'
  <1> USE Disjoint, SharingAssumption DEF TypeOK, ProcTypes, LeaseTypeOK,
             EngineTypeOK, leaseVars, engineVars
  <1>1. ASSUME NEW s \in Sessions, SessionOnly(s) PROVE ProcTypes'
    <2>1. CASE StartRecording(s)
      BY <2>1 DEF StartRecording, Goto
    <2>2. CASE StopRecording(s)
      BY <2>2 DEF StopRecording, Goto
    <2>3. CASE StoreManager(s)
      BY <2>3 DEF StoreManager, Goto
    <2>4. CASE SpawnWorkers(s)
      BY <2>4 DEF SpawnWorkers
    <2>5. CASE Drained(s)
      BY <2>5 DEF Drained, Goto
    <2>6. CASE AbortWorker(s)
      <3>1. locked' \in BOOLEAN /\ UNCHANGED <<ctx, name, pool>>
        BY <2>6 DEF AbortWorker, Unlock
      <3> QED BY <2>6, <3>1 DEF AbortWorker
    <2>7. CASE AwaitPartial(s)
      BY <2>7 DEF AwaitPartial, Goto
    <2>8. CASE UnloadAfterStop(s)
      <3>1. goal' \in [Processes -> {"load", "unload"}]
        <4>1. CASE UNCHANGED goal
          BY <4>1
        <4>2. CASE goal' = [goal EXCEPT ![s] = "unload"]
          BY <4>2
        <4> QED BY <2>8, <4>1, <4>2 DEF UnloadAfterStop
      <3> QED BY <2>8, <3>1 DEF UnloadAfterStop
    <2> QED BY <1>1, <2>1, <2>2, <2>3, <2>4, <2>5, <2>6, <2>7, <2>8 DEF SessionOnly
  <1>2. ASSUME NEW p \in Sessions \cup Live, Looking(p) PROVE ProcTypes'
    <2>1. CASE Look(p)
      BY <2>1 DEF Look, Goto, NoteClash
    <2>2. CASE LookName(p)
      BY <2>2 DEF LookName, Goto, NoteClash, AfterLoad
    <2> QED BY <1>2, <2>1, <2>2 DEF Looking
  <1>3. ASSUME NEW p \in Processes, ChangeModel(p) PROVE ProcTypes'
    <2>1. CASE LoadCheck(p)
      BY <2>1 DEF LoadCheck, Goto, AfterLoad
    <2>2. CASE EvictStep(p)
      BY <2>2 DEF EvictStep, Goto, Evict
    <2>3. CASE ClearStep(p)
      BY <2>3 DEF ClearStep, Goto, Clear, AfterUnload
    <2>4. CASE ReadWeights(p)
      BY <2>4 DEF ReadWeights, Goto, LoadFails
    <2>5. CASE SetContextStep(p)
      <3>1. Target(p) \in Models \cup {NONE}
        BY DEF Target, Processes
      <3> QED BY <2>5, <3>1 DEF SetContextStep, SetContext
    <2>6. CASE SetNameStep(p)
      <3>1. Target(p) \in Models \cup {NONE}
        BY DEF Target, Processes
      <3> QED BY <2>6, <3>1 DEF SetNameStep, SetName
    <2> QED BY <1>3, <2>1, <2>2, <2>3, <2>4, <2>5, <2>6 DEF ChangeModel
  <1>4. ASSUME NEW p \in Live \cup Jobs, Decode(p) PROVE ProcTypes'
    <2>1. CASE LookUpState(p)
      <3>1. snap' \in [Processes -> Models \cup {NONE}]
        BY <2>1 DEF LookUpState
      <3> QED BY <2>1, <3>1 DEF LookUpState
    <2>2. CASE InsertState(p)
      <3>1. StateFor(Purpose(p), snap[p]) \in Models \cup {NONE}
        BY DEF StateFor, Purpose, Live, Processes, Purposes
      <3>2. pool' \in [Purposes -> Models \cup {NONE}]
        BY <2>2, <3>1 DEF InsertState, PoolInsert
      <3>3. snap' \in [Processes -> Models \cup {NONE}]
        BY <2>2 DEF InsertState
      <3> QED BY <2>2, <3>2, <3>3 DEF InsertState, PoolInsert
    <2> QED BY <1>4, <2>1, <2>2 DEF Decode
  <1>5. ASSUME NEW w \in Live, LiveOnly(w) PROVE ProcTypes'
    <2>1. CASE TakeLease(w)
      BY <2>1 DEF TakeLease, Goto, AcquireLive, NoteClash
    <2>2. CASE NextChunk(w)
      BY <2>2 DEF NextChunk, Goto
    <2>3. CASE ChannelClosed(w)
      BY <2>3 DEF ChannelClosed, Goto
    <2>4. CASE DropLease(w)
      <3>1. count > 0
        BY <2>4, LeaseCounts DEF DropLease, Holders, HoldLabels
      <3> QED BY <2>4, <3>1 DEF DropLease, Goto, DropGuard
    <2>5. CASE Notify(w)
      BY <2>5 DEF Notify, Goto, NotifyWaiters
    <2> QED BY <1>5, <2>1, <2>2, <2>3, <2>4, <2>5 DEF LiveOnly
  <1>6. ASSUME NEW j \in Jobs, JobOnly(j) PROVE ProcTypes'
    <2>1. CASE StartJob(j)
      BY <2>1 DEF StartJob, Goto
    <2>2. CASE ResetCancelled(j)
      BY <2>2 DEF ResetCancelled, Goto
    <2>3. CASE Prepare(j)
      BY <2>3 DEF Prepare, Goto, JobFails
    <2>4. CASE CopyAudio(j)
      BY <2>4 DEF CopyAudio, Goto, JobFails
    <2>5. CASE CutSpeech(j)
      BY <2>5 DEF CutSpeech, Goto, JobFails, BatchFails
    <2>6. CASE CheckModel(j)
      BY <2>6 DEF CheckModel, Goto
    <2>7. CASE CheckLease(j)
      BY <2>7 DEF CheckLease, Goto, Granted, NoteClash
    <2>8. CASE MakeNotified(j)
      BY <2>8 DEF MakeNotified, Goto, Enrol
    <2>9. CASE RecheckLease(j)
      BY <2>9 DEF RecheckLease, Goto, Granted, NoteClash, Unenrol
    <2>10. CASE Wake(j)
      BY <2>10 DEF Wake, Goto, Granted, NoteClash, Unenrol
    <2>11. CASE LeaseTimeout(j)
      BY <2>11 DEF LeaseTimeout, Goto, Unenrol, JobFails
    <2>12. CASE BatchTurn(j)
      BY <2>12 DEF BatchTurn, Goto, BatchFails, JobFails
    <2>13. CASE SaveImport(j)
      BY <2>13 DEF SaveImport, Goto, JobSucceeds, JobFails
    <2>14. CASE SaveRetrans(j)
      BY <2>14 DEF SaveRetrans, Goto, JobSucceeds, JobFails
    <2>15. CASE FinishJob(j)
      BY <2>15 DEF FinishJob, Goto
    <2>16. CASE ReleaseJob(j)
      BY <2>16 DEF ReleaseJob, Goto
    <2> QED BY <1>6, <2>1, <2>2, <2>3, <2>4, <2>5, <2>6, <2>7, <2>8, <2>9, <2>10, <2>11,
               <2>12, <2>13, <2>14, <2>15, <2>16 DEF JobOnly
  <1>7. ASSUME NEW k \in Kinds, Cancel(k) PROVE ProcTypes'
    BY <1>7 DEF Cancel, procVars
  <1>8. CASE UNCHANGED vars
    BY <1>8 DEF vars, procVars
  <1> QED BY Steps, <1>1, <1>2, <1>3, <1>4, <1>5, <1>6, <1>7, <1>8

(* The jobs. *)
LEMMA JobTypesStep ==
  ASSUME TypeOK, JobData, Next
  PROVE  JobTypes'
  <1>below. \A i \in Jobs : pc[i] \in {"decode", "insert"} => seg[i] < Segments
    BY DEF JobData, JobOK, DecodeLabels
  <1>typed. JobTypes
    BY DEF TypeOK, JobTypes
  <1> USE <1>below, <1>typed, Disjoint, SharingAssumption DEF JobTypes, jobVars
  <1>1. ASSUME NEW s \in Sessions, SessionOnly(s) PROVE JobTypes'
    <2>1. CASE StartRecording(s)
      BY <2>1 DEF StartRecording, Goto
    <2>2. CASE StopRecording(s)
      BY <2>2 DEF StopRecording, Goto
    <2>3. CASE StoreManager(s)
      BY <2>3 DEF StoreManager, Goto
    <2>4. CASE SpawnWorkers(s)
      BY <2>4 DEF SpawnWorkers
    <2>5. CASE Drained(s)
      BY <2>5 DEF Drained, Goto
    <2>6. CASE AbortWorker(s)
      BY <2>6 DEF AbortWorker, Unlock
    <2>7. CASE AwaitPartial(s)
      BY <2>7 DEF AwaitPartial, Goto
    <2>8. CASE UnloadAfterStop(s)
      BY <2>8 DEF UnloadAfterStop, Goto, NoteClash
    <2> QED BY <1>1, <2>1, <2>2, <2>3, <2>4, <2>5, <2>6, <2>7, <2>8 DEF SessionOnly
  <1>2. ASSUME NEW p \in Sessions \cup Live, Looking(p) PROVE JobTypes'
    <2>1. CASE Look(p)
      BY <2>1 DEF Look, Goto, NoteClash
    <2>2. CASE LookName(p)
      BY <2>2 DEF LookName, Goto, NoteClash, AfterLoad
    <2> QED BY <1>2, <2>1, <2>2 DEF Looking
  <1>3. ASSUME NEW p \in Processes, ChangeModel(p) PROVE JobTypes'
    <2>1. CASE LoadCheck(p)
      BY <2>1 DEF LoadCheck, Goto, AfterLoad
    <2>2. CASE EvictStep(p)
      BY <2>2 DEF EvictStep, Goto, Evict
    <2>3. CASE ClearStep(p)
      BY <2>3 DEF ClearStep, Goto, Clear, AfterUnload
    <2>4. CASE ReadWeights(p)
      <3>1. CASE p \in Jobs
        BY <2>4, <3>1 DEF ReadWeights, LoadFails
      <3>2. CASE p \notin Jobs
        BY <2>4, <3>2 DEF ReadWeights, LoadFails
      <3> QED BY <3>1, <3>2
    <2>5. CASE SetContextStep(p)
      BY <2>5 DEF SetContextStep, Goto, SetContext
    <2>6. CASE SetNameStep(p)
      BY <2>6 DEF SetNameStep, Goto, SetName, AfterLoad
    <2> QED BY <1>3, <2>1, <2>2, <2>3, <2>4, <2>5, <2>6 DEF ChangeModel
  <1>4. ASSUME NEW p \in Live \cup Jobs, Decode(p) PROVE JobTypes'
    <2>1. CASE LookUpState(p)
      BY <2>1 DEF LookUpState, Goto, Decoded, NoModelLoaded, BatchFails, JobFails
    <2>2. CASE InsertState(p)
      BY <2>2 DEF InsertState, Goto, Decoded, BatchFails, JobFails, PoolInsert
    <2> QED BY <1>4, <2>1, <2>2 DEF Decode
  <1>5. ASSUME NEW w \in Live, LiveOnly(w) PROVE JobTypes'
    <2>1. CASE TakeLease(w)
      BY <2>1 DEF TakeLease, Goto, AcquireLive, NoteClash
    <2>2. CASE NextChunk(w)
      BY <2>2 DEF NextChunk, Goto
    <2>3. CASE ChannelClosed(w)
      BY <2>3 DEF ChannelClosed, Goto
    <2>4. CASE DropLease(w)
      BY <2>4 DEF DropLease, Goto, DropGuard, LastGuard
    <2>5. CASE Notify(w)
      BY <2>5 DEF Notify, Goto, NotifyWaiters
    <2> QED BY <1>5, <2>1, <2>2, <2>3, <2>4, <2>5 DEF LiveOnly
  <1>6. ASSUME NEW j \in Jobs, JobOnly(j) PROVE JobTypes'
    <2>1. CASE StartJob(j)
      <3>1. CASE Kind(j) \in inProgress
        <4>1. result' = [result EXCEPT ![j] = "refused"] /\ UNCHANGED <<wants, seen, seg, text>>
          BY <2>1, <3>1 DEF StartJob
        <4> QED BY <4>1
      <3>2. CASE Kind(j) \notin inProgress
        BY <2>1, <3>2 DEF StartJob
      <3> QED BY <3>1, <3>2
    <2>2. CASE ResetCancelled(j)
      BY <2>2 DEF ResetCancelled, Goto
    <2>3. CASE Prepare(j)
      BY <2>3 DEF Prepare, Goto, JobFails
    <2>4. CASE CopyAudio(j)
      BY <2>4 DEF CopyAudio, Goto, JobFails
    <2>5. CASE CutSpeech(j)
      BY <2>5 DEF CutSpeech, Goto, JobFails, BatchFails
    <2>6. CASE CheckModel(j)
      BY <2>6 DEF CheckModel, TypeOK, EngineTypeOK
    <2>7. CASE CheckLease(j)
      BY <2>7 DEF CheckLease, Goto, Granted, NoteClash
    <2>8. CASE MakeNotified(j)
      BY <2>8 DEF MakeNotified, Goto, Enrol
    <2>9. CASE RecheckLease(j)
      BY <2>9 DEF RecheckLease, Goto, Granted, NoteClash, Unenrol
    <2>10. CASE Wake(j)
      BY <2>10 DEF Wake, Goto, Granted, NoteClash, Unenrol
    <2>11. CASE LeaseTimeout(j)
      BY <2>11 DEF LeaseTimeout, Goto, Unenrol, JobFails
    <2>12. CASE BatchTurn(j)
      BY <2>12 DEF BatchTurn, Goto, BatchFails, JobFails
    <2>13. CASE SaveImport(j)
      BY <2>13 DEF SaveImport, Goto, JobSucceeds, JobFails
    <2>14. CASE SaveRetrans(j)
      BY <2>14 DEF SaveRetrans, Goto, JobSucceeds, JobFails
    <2>15. CASE FinishJob(j)
      BY <2>15 DEF FinishJob, Goto
    <2>16. CASE ReleaseJob(j)
      BY <2>16 DEF ReleaseJob, Goto
    <2> QED BY <1>6, <2>1, <2>2, <2>3, <2>4, <2>5, <2>6, <2>7, <2>8, <2>9, <2>10, <2>11,
               <2>12, <2>13, <2>14, <2>15, <2>16 DEF JobOnly
  <1>7. ASSUME NEW k \in Kinds, Cancel(k) PROVE JobTypes'
    BY <1>7 DEF Cancel, procVars
  <1>8. CASE UNCHANGED vars
    BY <1>8 DEF vars, procVars
  <1> QED BY Steps, <1>1, <1>2, <1>3, <1>4, <1>5, <1>6, <1>7, <1>8

(* What is stored, and the flags and histories. *)
LEMMA DataTypesStep ==
  ASSUME TypeOK, Next
  PROVE  DataTypes'
  <1> USE Disjoint, SharingAssumption DEF TypeOK, DataTypes, EngineTypeOK, Kinds, Kind, dataVars, flagVars, histVars
  <1>1. ASSUME NEW s \in Sessions, SessionOnly(s) PROVE DataTypes'
    <2>1. CASE StartRecording(s)
      BY <2>1 DEF StartRecording, Goto
    <2>2. CASE StopRecording(s)
      BY <2>2 DEF StopRecording, Goto
    <2>3. CASE StoreManager(s)
      BY <2>3 DEF StoreManager, Goto
    <2>4. CASE SpawnWorkers(s)
      BY <2>4 DEF SpawnWorkers
    <2>5. CASE Drained(s)
      BY <2>5 DEF Drained, Goto
    <2>6. CASE AbortWorker(s)
      BY <2>6 DEF AbortWorker, Unlock
    <2>7. CASE AwaitPartial(s)
      BY <2>7 DEF AwaitPartial, Goto
    <2>8. CASE UnloadAfterStop(s)
      BY <2>8 DEF UnloadAfterStop, Goto, NoteClash
    <2> QED BY <1>1, <2>1, <2>2, <2>3, <2>4, <2>5, <2>6, <2>7, <2>8 DEF SessionOnly
  <1>2. ASSUME NEW p \in Sessions \cup Live, Looking(p) PROVE DataTypes'
    <2>1. CASE Look(p)
      BY <2>1 DEF Look, Goto, NoteClash
    <2>2. CASE LookName(p)
      BY <2>2 DEF LookName, Goto, NoteClash, AfterLoad
    <2> QED BY <1>2, <2>1, <2>2 DEF Looking
  <1>3. ASSUME NEW p \in Processes, ChangeModel(p) PROVE DataTypes'
    <2>1. CASE LoadCheck(p)
      BY <2>1 DEF LoadCheck, Goto, AfterLoad
    <2>2. CASE EvictStep(p)
      BY <2>2 DEF EvictStep, Goto, Evict
    <2>3. CASE ClearStep(p)
      BY <2>3 DEF ClearStep, Goto, Clear, AfterUnload
    <2>4. CASE ReadWeights(p)
      BY <2>4 DEF ReadWeights, Goto, LoadFails
    <2>5. CASE SetContextStep(p)
      BY <2>5 DEF SetContextStep, Goto, SetContext
    <2>6. CASE SetNameStep(p)
      BY <2>6 DEF SetNameStep, Goto, SetName, AfterLoad
    <2> QED BY <1>3, <2>1, <2>2, <2>3, <2>4, <2>5, <2>6 DEF ChangeModel
  <1>4. ASSUME NEW p \in Live \cup Jobs, Decode(p) PROVE DataTypes'
    <2>1. CASE LookUpState(p)
      <3>1. CASE p \in Live
        <4>1. Purpose(p) \in Purposes
          BY <3>1 DEF Purpose, Live
        <4>2. heard' \in [Live -> Models \cup {NONE, "skipped"}] /\ UNCHANGED folder
          BY <2>1, <3>1, <4>1 DEF LookUpState, Decoded, NoModelLoaded
        <4> QED BY <2>1, <4>2 DEF LookUpState
      <3>2. CASE p \notin Live
        BY <2>1, <3>2 DEF LookUpState, Decoded, NoModelLoaded, BatchFails
      <3> QED BY <3>1, <3>2
    <2>2. CASE InsertState(p)
      <3>1. StateFor(Purpose(p), snap[p]) \in Models \cup {NONE}
        BY DEF StateFor, Purpose, Live, Processes, Purposes
      <3>2. heard' \in [Live -> Models \cup {NONE, "skipped"}] /\ folder' \subseteq Imports
        BY <2>2, <3>1 DEF InsertState, Decoded, BatchFails
      <3> QED BY <2>2, <3>2 DEF InsertState
    <2> QED BY <1>4, <2>1, <2>2 DEF Decode
  <1>5. ASSUME NEW w \in Live, LiveOnly(w) PROVE DataTypes'
    <2>1. CASE TakeLease(w)
      BY <2>1 DEF TakeLease, Goto, AcquireLive, NoteClash
    <2>2. CASE NextChunk(w)
      BY <2>2 DEF NextChunk, Goto
    <2>3. CASE ChannelClosed(w)
      BY <2>3 DEF ChannelClosed, Goto
    <2>4. CASE DropLease(w)
      BY <2>4 DEF DropLease, Goto, DropGuard, LastGuard
    <2>5. CASE Notify(w)
      BY <2>5 DEF Notify, Goto, NotifyWaiters
    <2> QED BY <1>5, <2>1, <2>2, <2>3, <2>4, <2>5 DEF LiveOnly
  <1>6. ASSUME NEW j \in Jobs, JobOnly(j) PROVE DataTypes'
    <2>1. CASE StartJob(j)
      <3>1. CASE Kind(j) \in inProgress
        BY <2>1, <3>1 DEF StartJob
      <3>2. CASE Kind(j) \notin inProgress
        <4>1. inProgress' = inProgress \cup {Kind(j)} /\ UNCHANGED <<cancelled, asked, dataVars, histVars, recording>>
          BY <2>1, <3>2 DEF StartJob
        <4> QED BY <4>1
      <3> QED BY <3>1, <3>2
    <2>2. CASE ResetCancelled(j)
      BY <2>2 DEF ResetCancelled, Goto
    <2>3. CASE Prepare(j)
      BY <2>3 DEF Prepare, Goto, JobFails
    <2>4. CASE CopyAudio(j)
      BY <2>4 DEF CopyAudio, Goto, JobFails
    <2>5. CASE CutSpeech(j)
      BY <2>5 DEF CutSpeech, Goto, JobFails, BatchFails
    <2>6. CASE CheckModel(j)
      BY <2>6 DEF CheckModel, Goto
    <2>7. CASE CheckLease(j)
      BY <2>7 DEF CheckLease, Goto, Granted, NoteClash
    <2>8. CASE MakeNotified(j)
      BY <2>8 DEF MakeNotified, Goto, Enrol
    <2>9. CASE RecheckLease(j)
      BY <2>9 DEF RecheckLease, Goto, Granted, NoteClash, Unenrol
    <2>10. CASE Wake(j)
      BY <2>10 DEF Wake, Goto, Granted, NoteClash, Unenrol
    <2>11. CASE LeaseTimeout(j)
      BY <2>11 DEF LeaseTimeout, Goto, Unenrol, JobFails
    <2>12. CASE BatchTurn(j)
      BY <2>12 DEF BatchTurn, Goto, BatchFails, JobFails
    <2>13. CASE SaveImport(j)
      BY <2>13 DEF SaveImport, Goto, JobSucceeds, JobFails
    <2>14. CASE SaveRetrans(j)
      BY <2>14 DEF SaveRetrans, Goto, JobSucceeds, JobFails
    <2>15. CASE FinishJob(j)
      BY <2>15 DEF FinishJob, Goto
    <2>16. CASE ReleaseJob(j)
      BY <2>16 DEF ReleaseJob, Goto
    <2> QED BY <1>6, <2>1, <2>2, <2>3, <2>4, <2>5, <2>6, <2>7, <2>8, <2>9, <2>10, <2>11,
               <2>12, <2>13, <2>14, <2>15, <2>16 DEF JobOnly
  <1>7. ASSUME NEW k \in Kinds, Cancel(k) PROVE DataTypes'
    BY <1>7 DEF Cancel, procVars
  <1>8. CASE UNCHANGED vars
    BY <1>8 DEF vars, procVars
  <1> QED BY Steps, <1>1, <1>2, <1>3, <1>4, <1>5, <1>6, <1>7, <1>8

(* Types are kept. *)
LEMMA TypeStep ==
  ASSUME TypeOK, PcOK, GoalOK, LeaseHeld, JobData, Next
  PROVE  TypeOK'
  <1>1. ProcTypes' /\ PcFunction' /\ JobTypes' /\ DataTypes'
    BY ProcTypesStep, PcFunctionStep, JobTypesStep, DataTypesStep
  <1>2. PcOK'
    BY PcStep
  <1>3. ASSUME NEW p \in Processes
        PROVE  pc'[p] \in SessionLabels \cup LiveLabels \cup JobLabels
                          \cup ChangeLabels \cup DecodeLabels
    <2>1. CASE p \in Live
      <3>1. PICK s \in Sessions : p = Final(s) \/ p = Partial(s)
        BY <2>1, Disjoint
      <3> QED BY <1>2, <3>1 DEF PcOK, FinalPcs, PartialPcs, LiveLabels
    <2>2. CASE p \in Sessions \cup Jobs
      BY <1>2, <2>2 DEF PcOK, SessionPcs, JobPcs
    <2> QED BY <2>1, <2>2, Disjoint
  <1>4. pc' \in [Processes -> SessionLabels \cup LiveLabels \cup JobLabels
                              \cup ChangeLabels \cup DecodeLabels]
    BY <1>1, <1>3 DEF PcFunction
  <1> QED BY <1>1, <1>4 DEF TypeOK, ProcTypes, JobTypes, DataTypes

HoldersMove ==
    \/ count' = count /\ Holders' = Holders
    \/ \E w \in Live \ Holders : count' = count + 1 /\ Holders' = Holders \cup {w}
    \/ \E w \in Holders : count' = count - 1 /\ Holders' = Holders \ {w}

(* The holders change with the counter, by AcquireLive and DropGuard only. *)
LEMMA HoldersStep ==
  ASSUME TypeOK, PcOK, GoalOK, SpawnOK, Next
  PROVE  HoldersMove
  <1> USE PcTyped, Disjoint DEF PcOK, GoalOK, HoldersMove, Holders, HoldLabels, leaseVars,
             SessionPcs, FinalPcs, PartialPcs, JobPcs, SessionLabels, LiveLabels,
             JobLabels, ChangeLabels, DecodeLabels
  <1>1. ASSUME NEW s \in Sessions, SessionOnly(s) PROVE HoldersMove
    <2>1. CASE StartRecording(s)
      BY <2>1 DEF StartRecording, Goto
    <2>2. CASE StopRecording(s)
      BY <2>2 DEF StopRecording, Goto
    <2>3. CASE StoreManager(s)
      BY <2>3 DEF StoreManager, Goto
    <2>4. CASE SpawnWorkers(s)
      BY <2>4 DEF SpawnWorkers, SpawnOK
    <2>5. CASE Drained(s)
      BY <2>5 DEF Drained, Goto
    <2>6. CASE AbortWorker(s)
      BY <2>6 DEF AbortWorker, Unlock, SpawnOK
    <2>7. CASE AwaitPartial(s)
      BY <2>7 DEF AwaitPartial, Goto
    <2>8. CASE UnloadAfterStop(s)
      BY <2>8 DEF UnloadAfterStop, Goto, NoteClash
    <2> QED BY <1>1, <2>1, <2>2, <2>3, <2>4, <2>5, <2>6, <2>7, <2>8 DEF SessionOnly
  <1>2. ASSUME NEW p \in Sessions \cup Live, Looking(p) PROVE HoldersMove
    <2>1. CASE Look(p)
      BY <2>1 DEF Look, Goto, NoteClash
    <2>2. CASE LookName(p)
      BY <2>2 DEF LookName, Goto, NoteClash, AfterLoad
    <2> QED BY <1>2, <2>1, <2>2 DEF Looking
  <1>3. ASSUME NEW p \in Processes, ChangeModel(p) PROVE HoldersMove
    <2>1. CASE LoadCheck(p)
      BY <2>1 DEF LoadCheck, Goto, AfterLoad
    <2>2. CASE EvictStep(p)
      BY <2>2 DEF EvictStep, Goto, Evict
    <2>3. CASE ClearStep(p)
      BY <2>3 DEF ClearStep, Goto, Clear, AfterUnload
    <2>4. CASE ReadWeights(p)
      BY <2>4 DEF ReadWeights, Goto, LoadFails
    <2>5. CASE SetContextStep(p)
      BY <2>5 DEF SetContextStep, Goto, SetContext
    <2>6. CASE SetNameStep(p)
      BY <2>6 DEF SetNameStep, Goto, SetName, AfterLoad
    <2> QED BY <1>3, <2>1, <2>2, <2>3, <2>4, <2>5, <2>6 DEF ChangeModel
  <1>4. ASSUME NEW p \in Live \cup Jobs, Decode(p) PROVE HoldersMove
    <2>1. CASE LookUpState(p)
      BY <2>1 DEF LookUpState, Goto, Decoded, NoModelLoaded, BatchFails, JobFails
    <2>2. CASE InsertState(p)
      BY <2>2 DEF InsertState, Goto, Decoded, BatchFails, JobFails, PoolInsert
    <2> QED BY <1>4, <2>1, <2>2 DEF Decode
  <1>5. ASSUME NEW w \in Live, LiveOnly(w) PROVE HoldersMove
    <2>1. CASE TakeLease(w)
      BY <2>1 DEF TakeLease, Goto, AcquireLive, NoteClash
    <2>2. CASE NextChunk(w)
      BY <2>2 DEF NextChunk, Goto
    <2>3. CASE ChannelClosed(w)
      BY <2>3 DEF ChannelClosed, Goto
    <2>4. CASE DropLease(w)
      BY <2>4 DEF DropLease, Goto, DropGuard, LastGuard
    <2>5. CASE Notify(w)
      BY <2>5 DEF Notify, Goto, NotifyWaiters
    <2> QED BY <1>5, <2>1, <2>2, <2>3, <2>4, <2>5 DEF LiveOnly
  <1>6. ASSUME NEW j \in Jobs, JobOnly(j) PROVE HoldersMove
    <2>1. CASE StartJob(j)
      BY <2>1 DEF StartJob, Goto
    <2>2. CASE ResetCancelled(j)
      BY <2>2 DEF ResetCancelled, Goto
    <2>3. CASE Prepare(j)
      BY <2>3 DEF Prepare, Goto, JobFails
    <2>4. CASE CopyAudio(j)
      BY <2>4 DEF CopyAudio, Goto, JobFails
    <2>5. CASE CutSpeech(j)
      BY <2>5 DEF CutSpeech, Goto, JobFails, BatchFails
    <2>6. CASE CheckModel(j)
      BY <2>6 DEF CheckModel, Goto
    <2>7. CASE CheckLease(j)
      BY <2>7 DEF CheckLease, Goto, Granted, NoteClash
    <2>8. CASE MakeNotified(j)
      BY <2>8 DEF MakeNotified, Goto, Enrol
    <2>9. CASE RecheckLease(j)
      BY <2>9 DEF RecheckLease, Goto, Granted, NoteClash, Unenrol
    <2>10. CASE Wake(j)
      BY <2>10 DEF Wake, Goto, Granted, NoteClash, Unenrol
    <2>11. CASE LeaseTimeout(j)
      BY <2>11 DEF LeaseTimeout, Goto, Unenrol, JobFails
    <2>12. CASE BatchTurn(j)
      BY <2>12 DEF BatchTurn, Goto, BatchFails, JobFails
    <2>13. CASE SaveImport(j)
      BY <2>13 DEF SaveImport, Goto, JobSucceeds, JobFails
    <2>14. CASE SaveRetrans(j)
      BY <2>14 DEF SaveRetrans, Goto, JobSucceeds, JobFails
    <2>15. CASE FinishJob(j)
      BY <2>15 DEF FinishJob, Goto
    <2>16. CASE ReleaseJob(j)
      BY <2>16 DEF ReleaseJob, Goto
    <2> QED BY <1>6, <2>1, <2>2, <2>3, <2>4, <2>5, <2>6, <2>7, <2>8, <2>9, <2>10, <2>11,
               <2>12, <2>13, <2>14, <2>15, <2>16 DEF JobOnly
  <1>7. ASSUME NEW k \in Kinds, Cancel(k) PROVE HoldersMove
    BY <1>7 DEF Cancel, procVars
  <1>8. CASE UNCHANGED vars
    BY <1>8 DEF vars, procVars
  <1> QED BY Steps, <1>1, <1>2, <1>3, <1>4, <1>5, <1>6, <1>7, <1>8

(* The counter stays the number of guards. *)
LEMMA LeaseHeldStep ==
  ASSUME TypeOK, PcOK, GoalOK, SpawnOK, LeaseHeld, Next
  PROVE  LeaseHeld'
  <1>1. IsFiniteSet(Holders) /\ Cardinality(Holders) \in Nat
    BY LeaseCounts, FS_CardinalityType
  <1>2. CASE count' = count /\ Holders' = Holders
    BY <1>2 DEF LeaseHeld
  <1>3. ASSUME NEW w \in Live \ Holders, count' = count + 1, Holders' = Holders \cup {w}
        PROVE  LeaseHeld'
    BY <1>1, <1>3, FS_AddElement DEF LeaseHeld
  <1>4. ASSUME NEW w \in Holders, count' = count - 1, Holders' = Holders \ {w}
        PROVE  LeaseHeld'
    BY <1>1, <1>4, FS_RemoveElement DEF LeaseHeld
  <1> QED BY HoldersStep, <1>2, <1>3, <1>4 DEF HoldersMove

(* A waiter's future is made before the lease is read again. *)
LEMMA WaitersStep ==
  ASSUME TypeOK, PcOK, WaitersEnrolled, Next
  PROVE  WaitersEnrolled'
  <1> USE PcTyped, Disjoint DEF PcOK, WaitersEnrolled, leaseVars,
             SessionPcs, FinalPcs, PartialPcs, JobPcs, SessionLabels, LiveLabels,
             JobLabels, ChangeLabels, DecodeLabels
  <1>1. ASSUME NEW s \in Sessions, SessionOnly(s) PROVE WaitersEnrolled'
    <2>1. CASE StartRecording(s)
      BY <2>1 DEF StartRecording, Goto
    <2>2. CASE StopRecording(s)
      BY <2>2 DEF StopRecording, Goto
    <2>3. CASE StoreManager(s)
      BY <2>3 DEF StoreManager, Goto
    <2>4. CASE SpawnWorkers(s)
      BY <2>4 DEF SpawnWorkers
    <2>5. CASE Drained(s)
      BY <2>5 DEF Drained, Goto
    <2>6. CASE AbortWorker(s)
      BY <2>6 DEF AbortWorker, Unlock
    <2>7. CASE AwaitPartial(s)
      BY <2>7 DEF AwaitPartial, Goto
    <2>8. CASE UnloadAfterStop(s)
      BY <2>8 DEF UnloadAfterStop, Goto, NoteClash
    <2> QED BY <1>1, <2>1, <2>2, <2>3, <2>4, <2>5, <2>6, <2>7, <2>8 DEF SessionOnly
  <1>2. ASSUME NEW p \in Sessions \cup Live, Looking(p) PROVE WaitersEnrolled'
    <2>1. CASE Look(p)
      BY <2>1 DEF Look, Goto, NoteClash
    <2>2. CASE LookName(p)
      BY <2>2 DEF LookName, Goto, NoteClash, AfterLoad
    <2> QED BY <1>2, <2>1, <2>2 DEF Looking
  <1>3. ASSUME NEW p \in Processes, ChangeModel(p) PROVE WaitersEnrolled'
    <2>1. CASE LoadCheck(p)
      BY <2>1 DEF LoadCheck, Goto, AfterLoad
    <2>2. CASE EvictStep(p)
      BY <2>2 DEF EvictStep, Goto, Evict
    <2>3. CASE ClearStep(p)
      BY <2>3 DEF ClearStep, Goto, Clear, AfterUnload
    <2>4. CASE ReadWeights(p)
      BY <2>4 DEF ReadWeights, Goto, LoadFails
    <2>5. CASE SetContextStep(p)
      BY <2>5 DEF SetContextStep, Goto, SetContext
    <2>6. CASE SetNameStep(p)
      BY <2>6 DEF SetNameStep, Goto, SetName, AfterLoad
    <2> QED BY <1>3, <2>1, <2>2, <2>3, <2>4, <2>5, <2>6 DEF ChangeModel
  <1>4. ASSUME NEW p \in Live \cup Jobs, Decode(p) PROVE WaitersEnrolled'
    <2>1. CASE LookUpState(p)
      BY <2>1 DEF LookUpState, Goto, Decoded, NoModelLoaded, BatchFails, JobFails
    <2>2. CASE InsertState(p)
      BY <2>2 DEF InsertState, Goto, Decoded, BatchFails, JobFails, PoolInsert
    <2> QED BY <1>4, <2>1, <2>2 DEF Decode
  <1>5. ASSUME NEW w \in Live, LiveOnly(w) PROVE WaitersEnrolled'
    <2>1. CASE TakeLease(w)
      BY <2>1 DEF TakeLease, Goto, AcquireLive, NoteClash
    <2>2. CASE NextChunk(w)
      BY <2>2 DEF NextChunk, Goto
    <2>3. CASE ChannelClosed(w)
      BY <2>3 DEF ChannelClosed, Goto
    <2>4. CASE DropLease(w)
      BY <2>4 DEF DropLease, Goto, DropGuard, LastGuard
    <2>5. CASE Notify(w)
      BY <2>5 DEF Notify, Goto, NotifyWaiters
    <2> QED BY <1>5, <2>1, <2>2, <2>3, <2>4, <2>5 DEF LiveOnly
  <1>6. ASSUME NEW j \in Jobs, JobOnly(j) PROVE WaitersEnrolled'
    <2>1. CASE StartJob(j)
      BY <2>1 DEF StartJob, Goto
    <2>2. CASE ResetCancelled(j)
      BY <2>2 DEF ResetCancelled, Goto
    <2>3. CASE Prepare(j)
      BY <2>3 DEF Prepare, Goto, JobFails
    <2>4. CASE CopyAudio(j)
      BY <2>4 DEF CopyAudio, Goto, JobFails
    <2>5. CASE CutSpeech(j)
      BY <2>5 DEF CutSpeech, Goto, JobFails, BatchFails
    <2>6. CASE CheckModel(j)
      BY <2>6 DEF CheckModel, Goto
    <2>7. CASE CheckLease(j)
      BY <2>7 DEF CheckLease, Goto, Granted, NoteClash
    <2>8. CASE MakeNotified(j)
      BY <2>8 DEF MakeNotified, Goto, Enrol
    <2>9. CASE RecheckLease(j)
      BY <2>9 DEF RecheckLease, Goto, Granted, NoteClash, Unenrol
    <2>10. CASE Wake(j)
      BY <2>10 DEF Wake, Goto, Granted, NoteClash, Unenrol
    <2>11. CASE LeaseTimeout(j)
      BY <2>11 DEF LeaseTimeout, Goto, Unenrol, JobFails
    <2>12. CASE BatchTurn(j)
      BY <2>12 DEF BatchTurn, Goto, BatchFails, JobFails
    <2>13. CASE SaveImport(j)
      BY <2>13 DEF SaveImport, Goto, JobSucceeds, JobFails
    <2>14. CASE SaveRetrans(j)
      BY <2>14 DEF SaveRetrans, Goto, JobSucceeds, JobFails
    <2>15. CASE FinishJob(j)
      BY <2>15 DEF FinishJob, Goto
    <2>16. CASE ReleaseJob(j)
      BY <2>16 DEF ReleaseJob, Goto
    <2> QED BY <1>6, <2>1, <2>2, <2>3, <2>4, <2>5, <2>6, <2>7, <2>8, <2>9, <2>10, <2>11,
               <2>12, <2>13, <2>14, <2>15, <2>16 DEF JobOnly
  <1>7. ASSUME NEW k \in Kinds, Cancel(k) PROVE WaitersEnrolled'
    BY <1>7 DEF Cancel, procVars
  <1>8. CASE UNCHANGED vars
    BY <1>8 DEF vars, procVars
  <1> QED BY Steps, <1>1, <1>2, <1>3, <1>4, <1>5, <1>6, <1>7, <1>8

(* Whoever drops the last guard still has to notify. *)
LEMMA NoSleepStep ==
  ASSUME TypeOK, PcOK, SpawnOK, LeaseHeld, WaitersEnrolled,
         NoSleepOnFreeLease, Next
  PROVE  NoSleepOnFreeLease'
  <1> USE PcTyped, Disjoint DEF PcOK, NoSleepOnFreeLease, IsLiveLeased, leaseVars,
             SessionPcs, FinalPcs, PartialPcs, JobPcs, SessionLabels, LiveLabels,
             JobLabels, ChangeLabels, DecodeLabels
  <1>1. ASSUME NEW s \in Sessions, SessionOnly(s) PROVE NoSleepOnFreeLease'
    <2>1. CASE StartRecording(s)
      BY <2>1 DEF StartRecording, Goto
    <2>2. CASE StopRecording(s)
      BY <2>2 DEF StopRecording, Goto
    <2>3. CASE StoreManager(s)
      BY <2>3 DEF StoreManager, Goto
    <2>4. CASE SpawnWorkers(s)
      BY <2>4 DEF SpawnWorkers, SpawnOK
    <2>5. CASE Drained(s)
      BY <2>5 DEF Drained, Goto
    <2>6. CASE AbortWorker(s)
      BY <2>6 DEF AbortWorker, Unlock
    <2>7. CASE AwaitPartial(s)
      BY <2>7 DEF AwaitPartial, Goto
    <2>8. CASE UnloadAfterStop(s)
      BY <2>8 DEF UnloadAfterStop, Goto, NoteClash
    <2> QED BY <1>1, <2>1, <2>2, <2>3, <2>4, <2>5, <2>6, <2>7, <2>8 DEF SessionOnly
  <1>2. ASSUME NEW p \in Sessions \cup Live, Looking(p) PROVE NoSleepOnFreeLease'
    <2>1. CASE Look(p)
      BY <2>1 DEF Look, Goto, NoteClash
    <2>2. CASE LookName(p)
      BY <2>2 DEF LookName, Goto, NoteClash, AfterLoad
    <2> QED BY <1>2, <2>1, <2>2 DEF Looking
  <1>3. ASSUME NEW p \in Processes, ChangeModel(p) PROVE NoSleepOnFreeLease'
    <2>1. CASE LoadCheck(p)
      BY <2>1 DEF LoadCheck, Goto, AfterLoad
    <2>2. CASE EvictStep(p)
      BY <2>2 DEF EvictStep, Goto, Evict
    <2>3. CASE ClearStep(p)
      BY <2>3 DEF ClearStep, Goto, Clear, AfterUnload
    <2>4. CASE ReadWeights(p)
      BY <2>4 DEF ReadWeights, Goto, LoadFails
    <2>5. CASE SetContextStep(p)
      BY <2>5 DEF SetContextStep, Goto, SetContext
    <2>6. CASE SetNameStep(p)
      BY <2>6 DEF SetNameStep, Goto, SetName, AfterLoad
    <2> QED BY <1>3, <2>1, <2>2, <2>3, <2>4, <2>5, <2>6 DEF ChangeModel
  <1>4. ASSUME NEW p \in Live \cup Jobs, Decode(p) PROVE NoSleepOnFreeLease'
    <2>1. CASE LookUpState(p)
      BY <2>1 DEF LookUpState, Goto, Decoded, NoModelLoaded, BatchFails, JobFails
    <2>2. CASE InsertState(p)
      BY <2>2 DEF InsertState, Goto, Decoded, BatchFails, JobFails, PoolInsert
    <2> QED BY <1>4, <2>1, <2>2 DEF Decode
  <1>5. ASSUME NEW w \in Live, LiveOnly(w) PROVE NoSleepOnFreeLease'
    <2>1. CASE TakeLease(w)
      BY <2>1 DEF TakeLease, Goto, AcquireLive, TypeOK, LeaseTypeOK
    <2>2. CASE NextChunk(w)
      BY <2>2 DEF NextChunk, Goto
    <2>3. CASE ChannelClosed(w)
      BY <2>3 DEF ChannelClosed, Goto
    <2>4. CASE DropLease(w)
      BY <2>4 DEF DropLease, Goto, DropGuard, LastGuard, WaitersEnrolled, TypeOK,
         LeaseTypeOK
    <2>5. CASE Notify(w)
      BY <2>5 DEF Notify, Goto, NotifyWaiters
    <2> QED BY <1>5, <2>1, <2>2, <2>3, <2>4, <2>5 DEF LiveOnly
  <1>6. ASSUME NEW j \in Jobs, JobOnly(j) PROVE NoSleepOnFreeLease'
    <2>1. CASE StartJob(j)
      BY <2>1 DEF StartJob, Goto
    <2>2. CASE ResetCancelled(j)
      BY <2>2 DEF ResetCancelled, Goto
    <2>3. CASE Prepare(j)
      BY <2>3 DEF Prepare, Goto, JobFails
    <2>4. CASE CopyAudio(j)
      BY <2>4 DEF CopyAudio, Goto, JobFails
    <2>5. CASE CutSpeech(j)
      BY <2>5 DEF CutSpeech, Goto, JobFails, BatchFails
    <2>6. CASE CheckModel(j)
      BY <2>6 DEF CheckModel, Goto
    <2>7. CASE CheckLease(j)
      BY <2>7 DEF CheckLease, Goto, Granted, NoteClash
    <2>8. CASE MakeNotified(j)
      BY <2>8 DEF MakeNotified, Goto, Enrol
    <2>9. CASE RecheckLease(j)
      BY <2>9 DEF RecheckLease, Goto, Granted, Unenrol, TypeOK, LeaseTypeOK
    <2>10. CASE Wake(j)
      BY <2>10 DEF Wake, Goto, Granted, NoteClash, Unenrol
    <2>11. CASE LeaseTimeout(j)
      BY <2>11 DEF LeaseTimeout, Goto, Unenrol, JobFails
    <2>12. CASE BatchTurn(j)
      BY <2>12 DEF BatchTurn, Goto, BatchFails, JobFails
    <2>13. CASE SaveImport(j)
      BY <2>13 DEF SaveImport, Goto, JobSucceeds, JobFails
    <2>14. CASE SaveRetrans(j)
      BY <2>14 DEF SaveRetrans, Goto, JobSucceeds, JobFails
    <2>15. CASE FinishJob(j)
      BY <2>15 DEF FinishJob, Goto
    <2>16. CASE ReleaseJob(j)
      BY <2>16 DEF ReleaseJob, Goto
    <2> QED BY <1>6, <2>1, <2>2, <2>3, <2>4, <2>5, <2>6, <2>7, <2>8, <2>9, <2>10, <2>11,
               <2>12, <2>13, <2>14, <2>15, <2>16 DEF JobOnly
  <1>7. ASSUME NEW k \in Kinds, Cancel(k) PROVE NoSleepOnFreeLease'
    BY <1>7 DEF Cancel, procVars
  <1>8. CASE UNCHANGED vars
    BY <1>8 DEF vars, procVars
  <1> QED BY Steps, <1>1, <1>2, <1>3, <1>4, <1>5, <1>6, <1>7, <1>8

(* The guard of a kind is taken and left by its one running job. *)
LEMMA OneJobStep ==
  ASSUME TypeOK, PcOK, OneJobPerKind, Next
  PROVE  OneJobPerKind'
  <1> USE PcTyped, Disjoint DEF PcOK, OneJobPerKind, Running, Kind, flagVars,
             SessionPcs, FinalPcs, PartialPcs, JobPcs, SessionLabels, LiveLabels,
             JobLabels, ChangeLabels, DecodeLabels
  <1>1. ASSUME NEW s \in Sessions, SessionOnly(s) PROVE OneJobPerKind'
    <2>1. CASE StartRecording(s)
      BY <2>1 DEF StartRecording, Goto
    <2>2. CASE StopRecording(s)
      BY <2>2 DEF StopRecording, Goto
    <2>3. CASE StoreManager(s)
      BY <2>3 DEF StoreManager, Goto
    <2>4. CASE SpawnWorkers(s)
      BY <2>4 DEF SpawnWorkers
    <2>5. CASE Drained(s)
      BY <2>5 DEF Drained, Goto
    <2>6. CASE AbortWorker(s)
      BY <2>6 DEF AbortWorker, Unlock
    <2>7. CASE AwaitPartial(s)
      BY <2>7 DEF AwaitPartial, Goto
    <2>8. CASE UnloadAfterStop(s)
      BY <2>8 DEF UnloadAfterStop, Goto, NoteClash
    <2> QED BY <1>1, <2>1, <2>2, <2>3, <2>4, <2>5, <2>6, <2>7, <2>8 DEF SessionOnly
  <1>2. ASSUME NEW p \in Sessions \cup Live, Looking(p) PROVE OneJobPerKind'
    <2>1. CASE Look(p)
      BY <2>1 DEF Look, Goto, NoteClash
    <2>2. CASE LookName(p)
      BY <2>2 DEF LookName, Goto, NoteClash, AfterLoad
    <2> QED BY <1>2, <2>1, <2>2 DEF Looking
  <1>3. ASSUME NEW p \in Processes, ChangeModel(p) PROVE OneJobPerKind'
    <2>1. CASE LoadCheck(p)
      BY <2>1 DEF LoadCheck, Goto, AfterLoad
    <2>2. CASE EvictStep(p)
      BY <2>2 DEF EvictStep, Goto, Evict
    <2>3. CASE ClearStep(p)
      BY <2>3 DEF ClearStep, Goto, Clear, AfterUnload
    <2>4. CASE ReadWeights(p)
      BY <2>4 DEF ReadWeights, Goto, LoadFails
    <2>5. CASE SetContextStep(p)
      BY <2>5 DEF SetContextStep, Goto, SetContext
    <2>6. CASE SetNameStep(p)
      BY <2>6 DEF SetNameStep, Goto, SetName, AfterLoad
    <2> QED BY <1>3, <2>1, <2>2, <2>3, <2>4, <2>5, <2>6 DEF ChangeModel
  <1>4. ASSUME NEW p \in Live \cup Jobs, Decode(p) PROVE OneJobPerKind'
    <2>1. CASE LookUpState(p)
      BY <2>1 DEF LookUpState, Goto, Decoded, NoModelLoaded, BatchFails, JobFails
    <2>2. CASE InsertState(p)
      BY <2>2 DEF InsertState, Goto, Decoded, BatchFails, JobFails, PoolInsert
    <2> QED BY <1>4, <2>1, <2>2 DEF Decode
  <1>5. ASSUME NEW w \in Live, LiveOnly(w) PROVE OneJobPerKind'
    <2>1. CASE TakeLease(w)
      BY <2>1 DEF TakeLease, Goto, AcquireLive, NoteClash
    <2>2. CASE NextChunk(w)
      BY <2>2 DEF NextChunk, Goto
    <2>3. CASE ChannelClosed(w)
      BY <2>3 DEF ChannelClosed, Goto
    <2>4. CASE DropLease(w)
      BY <2>4 DEF DropLease, Goto, DropGuard, LastGuard
    <2>5. CASE Notify(w)
      BY <2>5 DEF Notify, Goto, NotifyWaiters
    <2> QED BY <1>5, <2>1, <2>2, <2>3, <2>4, <2>5 DEF LiveOnly
  <1>6. ASSUME NEW j \in Jobs, JobOnly(j) PROVE OneJobPerKind'
    <2>1. CASE StartJob(j)
      BY <2>1 DEF StartJob, Goto
    <2>2. CASE ResetCancelled(j)
      BY <2>2 DEF ResetCancelled, Goto
    <2>3. CASE Prepare(j)
      BY <2>3 DEF Prepare, Goto, JobFails
    <2>4. CASE CopyAudio(j)
      BY <2>4 DEF CopyAudio, Goto, JobFails
    <2>5. CASE CutSpeech(j)
      BY <2>5 DEF CutSpeech, Goto, JobFails, BatchFails
    <2>6. CASE CheckModel(j)
      BY <2>6 DEF CheckModel, Goto
    <2>7. CASE CheckLease(j)
      BY <2>7 DEF CheckLease, Goto, Granted, NoteClash
    <2>8. CASE MakeNotified(j)
      BY <2>8 DEF MakeNotified, Goto, Enrol
    <2>9. CASE RecheckLease(j)
      BY <2>9 DEF RecheckLease, Goto, Granted, NoteClash, Unenrol
    <2>10. CASE Wake(j)
      BY <2>10 DEF Wake, Goto, Granted, NoteClash, Unenrol
    <2>11. CASE LeaseTimeout(j)
      BY <2>11 DEF LeaseTimeout, Goto, Unenrol, JobFails
    <2>12. CASE BatchTurn(j)
      BY <2>12 DEF BatchTurn, Goto, BatchFails, JobFails
    <2>13. CASE SaveImport(j)
      BY <2>13 DEF SaveImport, Goto, JobSucceeds, JobFails
    <2>14. CASE SaveRetrans(j)
      BY <2>14 DEF SaveRetrans, Goto, JobSucceeds, JobFails
    <2>15. CASE FinishJob(j)
      BY <2>15 DEF FinishJob, Goto
    <2>16. CASE ReleaseJob(j)
      BY <2>16 DEF ReleaseJob, Goto
    <2> QED BY <1>6, <2>1, <2>2, <2>3, <2>4, <2>5, <2>6, <2>7, <2>8, <2>9, <2>10, <2>11,
               <2>12, <2>13, <2>14, <2>15, <2>16 DEF JobOnly
  <1>7. ASSUME NEW k \in Kinds, Cancel(k) PROVE OneJobPerKind'
    BY <1>7 DEF Cancel, procVars
  <1>8. CASE UNCHANGED vars
    BY <1>8 DEF vars, procVars
  <1> QED BY Steps, <1>1, <1>2, <1>3, <1>4, <1>5, <1>6, <1>7, <1>8

(* Only a reset takes a cancellation back, and it takes both back. *)
LEMMA AskedStep ==
  ASSUME AskedIsCancelled, Next
  PROVE  AskedIsCancelled'
  <1> USE DEF AskedIsCancelled, flagVars
  <1>1. ASSUME NEW s \in Sessions, SessionOnly(s) PROVE AskedIsCancelled'
    <2>1. CASE StartRecording(s)
      BY <2>1 DEF StartRecording, Goto
    <2>2. CASE StopRecording(s)
      BY <2>2 DEF StopRecording, Goto
    <2>3. CASE StoreManager(s)
      BY <2>3 DEF StoreManager, Goto
    <2>4. CASE SpawnWorkers(s)
      BY <2>4 DEF SpawnWorkers
    <2>5. CASE Drained(s)
      BY <2>5 DEF Drained, Goto
    <2>6. CASE AbortWorker(s)
      BY <2>6 DEF AbortWorker, Unlock
    <2>7. CASE AwaitPartial(s)
      BY <2>7 DEF AwaitPartial, Goto
    <2>8. CASE UnloadAfterStop(s)
      BY <2>8 DEF UnloadAfterStop, Goto, NoteClash
    <2> QED BY <1>1, <2>1, <2>2, <2>3, <2>4, <2>5, <2>6, <2>7, <2>8 DEF SessionOnly
  <1>2. ASSUME NEW p \in Sessions \cup Live, Looking(p) PROVE AskedIsCancelled'
    <2>1. CASE Look(p)
      BY <2>1 DEF Look, Goto, NoteClash
    <2>2. CASE LookName(p)
      BY <2>2 DEF LookName, Goto, NoteClash, AfterLoad
    <2> QED BY <1>2, <2>1, <2>2 DEF Looking
  <1>3. ASSUME NEW p \in Processes, ChangeModel(p) PROVE AskedIsCancelled'
    <2>1. CASE LoadCheck(p)
      BY <2>1 DEF LoadCheck, Goto, AfterLoad
    <2>2. CASE EvictStep(p)
      BY <2>2 DEF EvictStep, Goto, Evict
    <2>3. CASE ClearStep(p)
      BY <2>3 DEF ClearStep, Goto, Clear, AfterUnload
    <2>4. CASE ReadWeights(p)
      BY <2>4 DEF ReadWeights, Goto, LoadFails
    <2>5. CASE SetContextStep(p)
      BY <2>5 DEF SetContextStep, Goto, SetContext
    <2>6. CASE SetNameStep(p)
      BY <2>6 DEF SetNameStep, Goto, SetName, AfterLoad
    <2> QED BY <1>3, <2>1, <2>2, <2>3, <2>4, <2>5, <2>6 DEF ChangeModel
  <1>4. ASSUME NEW p \in Live \cup Jobs, Decode(p) PROVE AskedIsCancelled'
    <2>1. CASE LookUpState(p)
      BY <2>1 DEF LookUpState, Goto, Decoded, NoModelLoaded, BatchFails, JobFails
    <2>2. CASE InsertState(p)
      BY <2>2 DEF InsertState, Goto, Decoded, BatchFails, JobFails, PoolInsert
    <2> QED BY <1>4, <2>1, <2>2 DEF Decode
  <1>5. ASSUME NEW w \in Live, LiveOnly(w) PROVE AskedIsCancelled'
    <2>1. CASE TakeLease(w)
      BY <2>1 DEF TakeLease, Goto, AcquireLive, NoteClash
    <2>2. CASE NextChunk(w)
      BY <2>2 DEF NextChunk, Goto
    <2>3. CASE ChannelClosed(w)
      BY <2>3 DEF ChannelClosed, Goto
    <2>4. CASE DropLease(w)
      BY <2>4 DEF DropLease, Goto, DropGuard, LastGuard
    <2>5. CASE Notify(w)
      BY <2>5 DEF Notify, Goto, NotifyWaiters
    <2> QED BY <1>5, <2>1, <2>2, <2>3, <2>4, <2>5 DEF LiveOnly
  <1>6. ASSUME NEW j \in Jobs, JobOnly(j) PROVE AskedIsCancelled'
    <2>1. CASE StartJob(j)
      BY <2>1 DEF StartJob, Goto
    <2>2. CASE ResetCancelled(j)
      BY <2>2 DEF ResetCancelled, Goto
    <2>3. CASE Prepare(j)
      BY <2>3 DEF Prepare, Goto, JobFails
    <2>4. CASE CopyAudio(j)
      BY <2>4 DEF CopyAudio, Goto, JobFails
    <2>5. CASE CutSpeech(j)
      BY <2>5 DEF CutSpeech, Goto, JobFails, BatchFails
    <2>6. CASE CheckModel(j)
      BY <2>6 DEF CheckModel, Goto
    <2>7. CASE CheckLease(j)
      BY <2>7 DEF CheckLease, Goto, Granted, NoteClash
    <2>8. CASE MakeNotified(j)
      BY <2>8 DEF MakeNotified, Goto, Enrol
    <2>9. CASE RecheckLease(j)
      BY <2>9 DEF RecheckLease, Goto, Granted, NoteClash, Unenrol
    <2>10. CASE Wake(j)
      BY <2>10 DEF Wake, Goto, Granted, NoteClash, Unenrol
    <2>11. CASE LeaseTimeout(j)
      BY <2>11 DEF LeaseTimeout, Goto, Unenrol, JobFails
    <2>12. CASE BatchTurn(j)
      BY <2>12 DEF BatchTurn, Goto, BatchFails, JobFails
    <2>13. CASE SaveImport(j)
      BY <2>13 DEF SaveImport, Goto, JobSucceeds, JobFails
    <2>14. CASE SaveRetrans(j)
      BY <2>14 DEF SaveRetrans, Goto, JobSucceeds, JobFails
    <2>15. CASE FinishJob(j)
      BY <2>15 DEF FinishJob, Goto
    <2>16. CASE ReleaseJob(j)
      BY <2>16 DEF ReleaseJob, Goto
    <2> QED BY <1>6, <2>1, <2>2, <2>3, <2>4, <2>5, <2>6, <2>7, <2>8, <2>9, <2>10, <2>11,
               <2>12, <2>13, <2>14, <2>15, <2>16 DEF JobOnly
  <1>7. ASSUME NEW k \in Kinds, Cancel(k) PROVE AskedIsCancelled'
    BY <1>7 DEF Cancel, procVars
  <1>8. CASE UNCHANGED vars
    BY <1>8 DEF vars, procVars
  <1> QED BY Steps, <1>1, <1>2, <1>3, <1>4, <1>5, <1>6, <1>7, <1>8

(* What the step of a job finds of its own labels and data. *)
LEMMA JobFacts ==
  ASSUME TypeOK, PcOK, GoalOK
  PROVE  /\ pc = [p \in Processes |-> pc[p]] /\ goal = [p \in Processes |-> goal[p]]
         /\ seg \in [Jobs -> 0..Segments] /\ text \in [Jobs -> BOOLEAN]
         /\ result = [j \in Jobs |-> result[j]] /\ rows \subseteq Imports
         /\ \A j \in Jobs : pc[j] \in JobPcs
         /\ \A j \in Jobs : goal[j] = "unload" =>
               pc[j] \in {"leased", "enrol", "recheck", "asleep", "evict", "clear",
                          "release", "done"}
         /\ \A s \in Sessions : goal[s] = "unload" => pc[s] # "read"
         /\ Segments \in Nat
  BY SharingAssumption DEF TypeOK, PcOK, GoalOK

(* Who saves is past its checks, and who has saved is over. *)
LEMMA JobDataStep ==
  ASSUME TypeOK, PcOK, GoalOK, NEW i \in Jobs, JobOK(i), Next
  PROVE  JobOK(i)'
  <1> USE JobFacts, Disjoint, SharingAssumption DEF JobOK, Over, dataVars, jobVars,
             JobPcs, SessionLabels, LiveLabels,
             JobLabels, ChangeLabels, DecodeLabels
  <1>1. ASSUME NEW s \in Sessions, SessionOnly(s) PROVE JobOK(i)'
    <2>1. CASE StartRecording(s)
      BY <2>1 DEF StartRecording, Goto
    <2>2. CASE StopRecording(s)
      BY <2>2 DEF StopRecording, Goto
    <2>3. CASE StoreManager(s)
      BY <2>3 DEF StoreManager, Goto
    <2>4. CASE SpawnWorkers(s)
      BY <2>4 DEF SpawnWorkers
    <2>5. CASE Drained(s)
      BY <2>5 DEF Drained, Goto
    <2>6. CASE AbortWorker(s)
      BY <2>6 DEF AbortWorker, Unlock
    <2>7. CASE AwaitPartial(s)
      BY <2>7 DEF AwaitPartial, Goto
    <2>8. CASE UnloadAfterStop(s)
      BY <2>8 DEF UnloadAfterStop, Goto, NoteClash
    <2> QED BY <1>1, <2>1, <2>2, <2>3, <2>4, <2>5, <2>6, <2>7, <2>8 DEF SessionOnly
  <1>2. ASSUME NEW p \in Sessions \cup Live, Looking(p) PROVE JobOK(i)'
    <2>1. CASE Look(p)
      BY <2>1 DEF Look, Goto, NoteClash
    <2>2. CASE LookName(p)
      BY <2>2 DEF LookName, Goto, NoteClash, AfterLoad
    <2> QED BY <1>2, <2>1, <2>2 DEF Looking
  <1>3. ASSUME NEW p \in Processes, ChangeModel(p) PROVE JobOK(i)'
    <2>1. CASE LoadCheck(p)
      BY <2>1 DEF LoadCheck, Goto, AfterLoad
    <2>2. CASE EvictStep(p)
      BY <2>2 DEF EvictStep, Goto, Evict
    <2>3. CASE ClearStep(p)
      BY <2>3 DEF ClearStep, Goto, Clear, AfterUnload
    <2>4. CASE ReadWeights(p)
      BY <2>4 DEF ReadWeights, Goto, LoadFails
    <2>5. CASE SetContextStep(p)
      BY <2>5 DEF SetContextStep, Goto, SetContext
    <2>6. CASE SetNameStep(p)
      BY <2>6 DEF SetNameStep, Goto, SetName, AfterLoad
    <2> QED BY <1>3, <2>1, <2>2, <2>3, <2>4, <2>5, <2>6 DEF ChangeModel
  <1>4. ASSUME NEW p \in Live \cup Jobs, Decode(p) PROVE JobOK(i)'
    <2>1. CASE LookUpState(p)
      BY <2>1 DEF LookUpState, Goto, Decoded, NoModelLoaded, BatchFails, JobFails
    <2>2. CASE InsertState(p)
      BY <2>2 DEF InsertState, Goto, Decoded, BatchFails, JobFails, PoolInsert
    <2> QED BY <1>4, <2>1, <2>2 DEF Decode
  <1>5. ASSUME NEW w \in Live, LiveOnly(w) PROVE JobOK(i)'
    <2>1. CASE TakeLease(w)
      BY <2>1 DEF TakeLease, Goto, AcquireLive, NoteClash
    <2>2. CASE NextChunk(w)
      BY <2>2 DEF NextChunk, Goto
    <2>3. CASE ChannelClosed(w)
      BY <2>3 DEF ChannelClosed, Goto
    <2>4. CASE DropLease(w)
      BY <2>4 DEF DropLease, Goto, DropGuard, LastGuard
    <2>5. CASE Notify(w)
      BY <2>5 DEF Notify, Goto, NotifyWaiters
    <2> QED BY <1>5, <2>1, <2>2, <2>3, <2>4, <2>5 DEF LiveOnly
  <1>6. ASSUME NEW j \in Jobs, JobOnly(j) PROVE JobOK(i)'
    <2>1. CASE StartJob(j)
      BY <2>1 DEF StartJob, Goto
    <2>2. CASE ResetCancelled(j)
      BY <2>2 DEF ResetCancelled, Goto
    <2>3. CASE Prepare(j)
      BY <2>3 DEF Prepare, Goto, JobFails
    <2>4. CASE CopyAudio(j)
      BY <2>4 DEF CopyAudio, Goto, JobFails
    <2>5. CASE CutSpeech(j)
      BY <2>5 DEF CutSpeech, Goto, JobFails, BatchFails
    <2>6. CASE CheckModel(j)
      BY <2>6 DEF CheckModel, Goto
    <2>7. CASE CheckLease(j)
      BY <2>7 DEF CheckLease, Goto, Granted, NoteClash
    <2>8. CASE MakeNotified(j)
      BY <2>8 DEF MakeNotified, Goto, Enrol
    <2>9. CASE RecheckLease(j)
      BY <2>9 DEF RecheckLease, Goto, Granted, NoteClash, Unenrol
    <2>10. CASE Wake(j)
      BY <2>10 DEF Wake, Goto, Granted, NoteClash, Unenrol
    <2>11. CASE LeaseTimeout(j)
      BY <2>11 DEF LeaseTimeout, Goto, Unenrol, JobFails
    <2>12. CASE BatchTurn(j)
      BY <2>12 DEF BatchTurn, Goto, BatchFails, JobFails
    <2>13. CASE SaveImport(j)
      BY <2>13 DEF SaveImport, Goto, JobSucceeds, JobFails
    <2>14. CASE SaveRetrans(j)
      BY <2>14 DEF SaveRetrans, Goto, JobSucceeds, JobFails
    <2>15. CASE FinishJob(j)
      BY <2>15 DEF FinishJob, Goto
    <2>16. CASE ReleaseJob(j)
      BY <2>16 DEF ReleaseJob, Goto
    <2> QED BY <1>6, <2>1, <2>2, <2>3, <2>4, <2>5, <2>6, <2>7, <2>8, <2>9, <2>10, <2>11,
               <2>12, <2>13, <2>14, <2>15, <2>16 DEF JobOnly
  <1>7. ASSUME NEW k \in Kinds, Cancel(k) PROVE JobOK(i)'
    BY <1>7 DEF Cancel, procVars
  <1>8. CASE UNCHANGED vars
    BY <1>8 DEF vars, procVars
  <1> QED BY Steps, <1>1, <1>2, <1>3, <1>4, <1>5, <1>6, <1>7, <1>8

(* A job reaches its save past a check of the flag, and only a job that can
   still stop is asked to. *)
LEMMA CancelStep ==
  ASSUME TypeOK, PcOK, GoalOK, OneJobPerKind,
         AskedIsCancelled, CancelTakesEffect, Next
  PROVE  CancelTakesEffect'
  <1> USE PcTyped, Disjoint DEF PcOK, GoalOK, CancelTakesEffect, AskedIsCancelled, flagVars,
             SessionPcs, FinalPcs, PartialPcs, JobPcs, SessionLabels, LiveLabels,
             JobLabels, ChangeLabels, DecodeLabels
  <1>1. ASSUME NEW s \in Sessions, SessionOnly(s) PROVE CancelTakesEffect'
    <2>1. CASE StartRecording(s)
      BY <2>1 DEF StartRecording, Goto
    <2>2. CASE StopRecording(s)
      BY <2>2 DEF StopRecording, Goto
    <2>3. CASE StoreManager(s)
      BY <2>3 DEF StoreManager, Goto
    <2>4. CASE SpawnWorkers(s)
      BY <2>4 DEF SpawnWorkers
    <2>5. CASE Drained(s)
      BY <2>5 DEF Drained, Goto
    <2>6. CASE AbortWorker(s)
      BY <2>6 DEF AbortWorker, Unlock
    <2>7. CASE AwaitPartial(s)
      BY <2>7 DEF AwaitPartial, Goto
    <2>8. CASE UnloadAfterStop(s)
      BY <2>8 DEF UnloadAfterStop, Goto, NoteClash
    <2> QED BY <1>1, <2>1, <2>2, <2>3, <2>4, <2>5, <2>6, <2>7, <2>8 DEF SessionOnly
  <1>2. ASSUME NEW p \in Sessions \cup Live, Looking(p) PROVE CancelTakesEffect'
    <2>1. CASE Look(p)
      BY <2>1 DEF Look, Goto, NoteClash
    <2>2. CASE LookName(p)
      BY <2>2 DEF LookName, Goto, NoteClash, AfterLoad
    <2> QED BY <1>2, <2>1, <2>2 DEF Looking
  <1>3. ASSUME NEW p \in Processes, ChangeModel(p) PROVE CancelTakesEffect'
    <2>1. CASE LoadCheck(p)
      BY <2>1 DEF LoadCheck, Goto, AfterLoad
    <2>2. CASE EvictStep(p)
      BY <2>2 DEF EvictStep, Goto, Evict
    <2>3. CASE ClearStep(p)
      BY <2>3 DEF ClearStep, Goto, Clear, AfterUnload
    <2>4. CASE ReadWeights(p)
      BY <2>4 DEF ReadWeights, Goto, LoadFails
    <2>5. CASE SetContextStep(p)
      BY <2>5 DEF SetContextStep, Goto, SetContext
    <2>6. CASE SetNameStep(p)
      BY <2>6 DEF SetNameStep, Goto, SetName, AfterLoad
    <2> QED BY <1>3, <2>1, <2>2, <2>3, <2>4, <2>5, <2>6 DEF ChangeModel
  <1>4. ASSUME NEW p \in Live \cup Jobs, Decode(p) PROVE CancelTakesEffect'
    <2>1. CASE LookUpState(p)
      BY <2>1 DEF LookUpState, Goto, Decoded, NoModelLoaded, BatchFails, JobFails
    <2>2. CASE InsertState(p)
      BY <2>2 DEF InsertState, Goto, Decoded, BatchFails, JobFails, PoolInsert
    <2> QED BY <1>4, <2>1, <2>2 DEF Decode
  <1>5. ASSUME NEW w \in Live, LiveOnly(w) PROVE CancelTakesEffect'
    <2>1. CASE TakeLease(w)
      BY <2>1 DEF TakeLease, Goto, AcquireLive, NoteClash
    <2>2. CASE NextChunk(w)
      BY <2>2 DEF NextChunk, Goto
    <2>3. CASE ChannelClosed(w)
      BY <2>3 DEF ChannelClosed, Goto
    <2>4. CASE DropLease(w)
      BY <2>4 DEF DropLease, Goto, DropGuard, LastGuard
    <2>5. CASE Notify(w)
      BY <2>5 DEF Notify, Goto, NotifyWaiters
    <2> QED BY <1>5, <2>1, <2>2, <2>3, <2>4, <2>5 DEF LiveOnly
  <1>6. ASSUME NEW j \in Jobs, JobOnly(j) PROVE CancelTakesEffect'
    <2>1. CASE StartJob(j)
      BY <2>1 DEF StartJob, Goto
    <2>2. CASE ResetCancelled(j)
      BY <2>2 DEF ResetCancelled, Goto
    <2>3. CASE Prepare(j)
      BY <2>3 DEF Prepare, Goto, JobFails
    <2>4. CASE CopyAudio(j)
      BY <2>4 DEF CopyAudio, Goto, JobFails
    <2>5. CASE CutSpeech(j)
      BY <2>5 DEF CutSpeech, Goto, JobFails, BatchFails
    <2>6. CASE CheckModel(j)
      BY <2>6 DEF CheckModel, Goto
    <2>7. CASE CheckLease(j)
      BY <2>7 DEF CheckLease, Goto, Granted, NoteClash
    <2>8. CASE MakeNotified(j)
      BY <2>8 DEF MakeNotified, Goto, Enrol
    <2>9. CASE RecheckLease(j)
      BY <2>9 DEF RecheckLease, Goto, Granted, NoteClash, Unenrol
    <2>10. CASE Wake(j)
      BY <2>10 DEF Wake, Goto, Granted, NoteClash, Unenrol
    <2>11. CASE LeaseTimeout(j)
      BY <2>11 DEF LeaseTimeout, Goto, Unenrol, JobFails
    <2>12. CASE BatchTurn(j)
      BY <2>12 DEF BatchTurn, Goto, BatchFails, JobFails
    <2>13. CASE SaveImport(j)
      BY <2>13 DEF SaveImport, Goto, JobSucceeds, JobFails
    <2>14. CASE SaveRetrans(j)
      BY <2>14 DEF SaveRetrans, Goto, JobSucceeds, JobFails
    <2>15. CASE FinishJob(j)
      BY <2>15 DEF FinishJob, Goto
    <2>16. CASE ReleaseJob(j)
      BY <2>16 DEF ReleaseJob, Goto
    <2> QED BY <1>6, <2>1, <2>2, <2>3, <2>4, <2>5, <2>6, <2>7, <2>8, <2>9, <2>10, <2>11,
               <2>12, <2>13, <2>14, <2>15, <2>16 DEF JobOnly
  <1>7. ASSUME NEW k \in Kinds, Cancel(k) PROVE CancelTakesEffect'
    BY <1>7 DEF Cancel, procVars, Cancellable, OneJobPerKind, Running
  <1>8. CASE UNCHANGED vars
    BY <1>8 DEF vars, procVars
  <1> QED BY Steps, <1>1, <1>2, <1>3, <1>4, <1>5, <1>6, <1>7, <1>8

(* A session starts when the others are over, and its worker works between
   SpawnWorkers and the end of the drain. *)
LEMMA SessionsStep ==
  ASSUME TypeOK, PcOK, GoalOK, SpawnOK, SessionsOK, Next
  PROVE  SessionsOK'
  <1> USE PcTyped, Disjoint DEF PcOK, GoalOK, SpawnOK, SessionsOK, AtWork, HoldLabels,
             SessionPcs, FinalPcs, PartialPcs, JobPcs, SessionLabels, LiveLabels,
             JobLabels, ChangeLabels, DecodeLabels
  <1>1. ASSUME NEW s \in Sessions, SessionOnly(s) PROVE SessionsOK'
    <2>1. CASE StartRecording(s)
      BY <2>1 DEF StartRecording, Goto
    <2>2. CASE StopRecording(s)
      BY <2>2 DEF StopRecording, Goto
    <2>3. CASE StoreManager(s)
      BY <2>3 DEF StoreManager, Goto
    <2>4. CASE SpawnWorkers(s)
      BY <2>4 DEF SpawnWorkers
    <2>5. CASE Drained(s)
      BY <2>5 DEF Drained, Goto
    <2>6. CASE AbortWorker(s)
      BY <2>6 DEF AbortWorker, Unlock
    <2>7. CASE AwaitPartial(s)
      BY <2>7 DEF AwaitPartial, Goto
    <2>8. CASE UnloadAfterStop(s)
      BY <2>8 DEF UnloadAfterStop, Goto, NoteClash
    <2> QED BY <1>1, <2>1, <2>2, <2>3, <2>4, <2>5, <2>6, <2>7, <2>8 DEF SessionOnly
  <1>2. ASSUME NEW p \in Sessions \cup Live, Looking(p) PROVE SessionsOK'
    <2>1. CASE Look(p)
      BY <2>1 DEF Look, Goto, NoteClash
    <2>2. CASE LookName(p)
      BY <2>2 DEF LookName, Goto, NoteClash, AfterLoad
    <2> QED BY <1>2, <2>1, <2>2 DEF Looking
  <1>3. ASSUME NEW p \in Processes, ChangeModel(p) PROVE SessionsOK'
    <2>1. CASE LoadCheck(p)
      BY <2>1 DEF LoadCheck, Goto, AfterLoad
    <2>2. CASE EvictStep(p)
      BY <2>2 DEF EvictStep, Goto, Evict
    <2>3. CASE ClearStep(p)
      BY <2>3 DEF ClearStep, Goto, Clear, AfterUnload
    <2>4. CASE ReadWeights(p)
      BY <2>4 DEF ReadWeights, Goto, LoadFails
    <2>5. CASE SetContextStep(p)
      BY <2>5 DEF SetContextStep, Goto, SetContext
    <2>6. CASE SetNameStep(p)
      BY <2>6 DEF SetNameStep, Goto, SetName, AfterLoad
    <2> QED BY <1>3, <2>1, <2>2, <2>3, <2>4, <2>5, <2>6 DEF ChangeModel
  <1>4. ASSUME NEW p \in Live \cup Jobs, Decode(p) PROVE SessionsOK'
    <2>1. CASE LookUpState(p)
      BY <2>1 DEF LookUpState, Goto, Decoded, NoModelLoaded, BatchFails, JobFails
    <2>2. CASE InsertState(p)
      BY <2>2 DEF InsertState, Goto, Decoded, BatchFails, JobFails, PoolInsert
    <2> QED BY <1>4, <2>1, <2>2 DEF Decode
  <1>5. ASSUME NEW w \in Live, LiveOnly(w) PROVE SessionsOK'
    <2>1. CASE TakeLease(w)
      BY <2>1 DEF TakeLease, Goto, AcquireLive, NoteClash
    <2>2. CASE NextChunk(w)
      BY <2>2 DEF NextChunk, Goto
    <2>3. CASE ChannelClosed(w)
      BY <2>3 DEF ChannelClosed, Goto
    <2>4. CASE DropLease(w)
      BY <2>4 DEF DropLease, Goto, DropGuard, LastGuard
    <2>5. CASE Notify(w)
      BY <2>5 DEF Notify, Goto, NotifyWaiters
    <2> QED BY <1>5, <2>1, <2>2, <2>3, <2>4, <2>5 DEF LiveOnly
  <1>6. ASSUME NEW j \in Jobs, JobOnly(j) PROVE SessionsOK'
    <2>1. CASE StartJob(j)
      BY <2>1 DEF StartJob, Goto
    <2>2. CASE ResetCancelled(j)
      BY <2>2 DEF ResetCancelled, Goto
    <2>3. CASE Prepare(j)
      BY <2>3 DEF Prepare, Goto, JobFails
    <2>4. CASE CopyAudio(j)
      BY <2>4 DEF CopyAudio, Goto, JobFails
    <2>5. CASE CutSpeech(j)
      BY <2>5 DEF CutSpeech, Goto, JobFails, BatchFails
    <2>6. CASE CheckModel(j)
      BY <2>6 DEF CheckModel, Goto
    <2>7. CASE CheckLease(j)
      BY <2>7 DEF CheckLease, Goto, Granted, NoteClash
    <2>8. CASE MakeNotified(j)
      BY <2>8 DEF MakeNotified, Goto, Enrol
    <2>9. CASE RecheckLease(j)
      BY <2>9 DEF RecheckLease, Goto, Granted, NoteClash, Unenrol
    <2>10. CASE Wake(j)
      BY <2>10 DEF Wake, Goto, Granted, NoteClash, Unenrol
    <2>11. CASE LeaseTimeout(j)
      BY <2>11 DEF LeaseTimeout, Goto, Unenrol, JobFails
    <2>12. CASE BatchTurn(j)
      BY <2>12 DEF BatchTurn, Goto, BatchFails, JobFails
    <2>13. CASE SaveImport(j)
      BY <2>13 DEF SaveImport, Goto, JobSucceeds, JobFails
    <2>14. CASE SaveRetrans(j)
      BY <2>14 DEF SaveRetrans, Goto, JobSucceeds, JobFails
    <2>15. CASE FinishJob(j)
      BY <2>15 DEF FinishJob, Goto
    <2>16. CASE ReleaseJob(j)
      BY <2>16 DEF ReleaseJob, Goto
    <2> QED BY <1>6, <2>1, <2>2, <2>3, <2>4, <2>5, <2>6, <2>7, <2>8, <2>9, <2>10, <2>11,
               <2>12, <2>13, <2>14, <2>15, <2>16 DEF JobOnly
  <1>7. ASSUME NEW k \in Kinds, Cancel(k) PROVE SessionsOK'
    BY <1>7 DEF Cancel, procVars
  <1>8. CASE UNCHANGED vars
    BY <1>8 DEF vars, procVars
  <1> QED BY Steps, <1>1, <1>2, <1>3, <1>4, <1>5, <1>6, <1>7, <1>8

(* A process that decides to change the model while nobody else does and no
   final worker but itself is at work becomes the one changer. *)
LEMMA EnterChange ==
  ASSUME TypeOK, OneChanger,
         NEW p \in Processes, NEW l \in {"loadCheck", "evict"},
         pc' = [pc EXCEPT ![p] = l], pc[p] \notin ChangeLabels,
         clash' = (clash \/ Changing \ {p} # {}),
         \A s \in Sessions : AtWork(s) => Final(s) = p,
         UNCHANGED <<engineVars, wants>>
  PROVE  OneChanger'
  <1> SUFFICES ASSUME ~clash' PROVE OneChanger'
    BY DEF OneChanger
  <1>1. ~clash /\ Changing = {}
    BY DEF Changing
  <1>2. name = ctx /\ ~locked
    BY <1>1 DEF OneChanger
  <1>3. Changing' = {p}
    BY <1>1, PcTyped DEF Changing, ChangeLabels
  <1>4. \A s \in Sessions : AtWork(s)' => Final(s) = p
    BY PcTyped, Disjoint DEF AtWork, HoldLabels
  <1>5. Shape(p)'
    BY <1>2, PcTyped DEF Shape, engineVars
  <1>6. \A s \in Sessions : pc'[Final(s)] \notin {"ready"} \cup DecodeLabels
    BY <1>4, PcTyped, Disjoint DEF AtWork, HoldLabels, DecodeLabels
  <1> QED BY <1>3, <1>4, <1>5, <1>6 DEF OneChanger

(* While a final worker is at work the lease is not free. *)
LEMMA FreeLease ==
  ASSUME TypeOK, LeaseHeld, ~IsLiveLeased
  PROVE  \A s \in Sessions : ~AtWork(s)
  BY LeaseCounts, Disjoint DEF AtWork, Holders, IsLiveLeased

(* The steps that decide to change the model. *)
LEMMA LookEnters ==
  ASSUME TypeOK, PcOK, SpawnOK, SessionsOK, OneChanger,
         NEW p \in Sessions \cup Live, Look(p) \/ LookName(p),
         pc' = [pc EXCEPT ![p] = "loadCheck"], NoteClash(p)
  PROVE  OneChanger'
  <1>1. pc[p] \in {"look", "lookName"} /\ pc[p] \notin ChangeLabels
    BY DEF Look, LookName, ChangeLabels
  <1>2. UNCHANGED <<engineVars, wants>>
    BY DEF Look, LookName, jobVars
  <1>3. ASSUME NEW s \in Sessions, AtWork(s) PROVE Final(s) = p
    <2>1. pc[s] \in {"recording", "drain"}
      BY <1>3 DEF SessionsOK
    <2>2. CASE p \in Sessions
      BY <1>1, <2>1, <2>2 DEF SessionsOK
    <2>3. CASE p \in Live
      <3>1. PICK t \in Sessions : p = Final(t)
        BY <1>1, <2>3, Disjoint DEF PcOK, PartialPcs, DecodeLabels
      <3>2. AtWork(t)
        BY <1>1, <3>1 DEF AtWork, HoldLabels
      <3>3. t = s
        BY <2>1, <3>2 DEF SessionsOK
      <3> QED BY <3>1, <3>3
    <2> QED BY <2>2, <2>3
  <1> QED BY <1>1, <1>2, <1>3, EnterChange, Disjoint DEF NoteClash

(* stop()'s unload, which nobody is asked about. *)
LEMMA UnloadEnters ==
  ASSUME TypeOK, PcOK, SessionsOK, OneChanger,
         NEW s \in Sessions, UnloadAfterStop(s),
         pc' = [pc EXCEPT ![s] = "evict"], NoteClash(s)
  PROVE  OneChanger'
  <1>1. pc[s] = "unloadPref" /\ pc[s] \notin ChangeLabels
    BY DEF UnloadAfterStop, ChangeLabels
  <1>2. UNCHANGED <<engineVars, wants>>
    BY DEF UnloadAfterStop, jobVars
  <1>3. ASSUME NEW t \in Sessions, AtWork(t) PROVE Final(t) = s
    BY <1>1, <1>3 DEF SessionsOK
  <1> QED BY <1>1, <1>2, <1>3, EnterChange, Disjoint DEF NoteClash

(* A job that found the lease free. *)
LEMMA GrantEnters ==
  ASSUME TypeOK, LeaseHeld, OneChanger, ~IsLiveLeased,
         NEW j \in Jobs, CheckLease(j) \/ RecheckLease(j) \/ Wake(j)
  PROVE  OneChanger'
  <1>1. PICK l \in {"loadCheck", "evict"} : pc' = [pc EXCEPT ![j] = l]
    BY DEF CheckLease, RecheckLease, Wake, Granted, Goto
  <1>2. pc[j] \notin ChangeLabels
    BY DEF CheckLease, RecheckLease, Wake, ChangeLabels
  <1>3. UNCHANGED <<engineVars, wants>> /\ NoteClash(j)
    BY DEF CheckLease, RecheckLease, Wake, Granted, jobVars
  <1>4. \A s \in Sessions : ~AtWork(s)
    BY FreeLease
  <1> QED BY <1>1, <1>2, <1>3, <1>4, EnterChange, Disjoint DEF NoteClash

(* A final worker takes the lease while nobody changes the model. *)
LEMMA LeaseEnters ==
  ASSUME TypeOK, PcOK, SessionsOK, OneChanger,
         NEW s \in Sessions, TakeLease(Final(s))
  PROVE  OneChanger'
  <1> SUFFICES ASSUME ~clash' PROVE OneChanger'
    BY DEF OneChanger
  <1>1. /\ pc' = [pc EXCEPT ![Final(s)] = "look"] /\ pc[Final(s)] = "lease"
        /\ clash' = (clash \/ Changing \ {Final(s)} # {})
        /\ UNCHANGED <<engineVars, wants>>
    BY Disjoint DEF TakeLease, Goto, NoteClash, jobVars
  <1>2. ~clash /\ Changing = {}
    BY <1>1 DEF Changing, ChangeLabels
  <1>3. name = ctx /\ ~locked
    BY <1>2 DEF OneChanger
  <1>4. Changing' = {}
    BY <1>1, <1>2, PcTyped DEF Changing, ChangeLabels
  <1>5. ASSUME NEW t \in Sessions, pc'[Final(t)] \in {"ready"} \cup DecodeLabels
        PROVE  ctx' = Configured
    BY <1>1, <1>2, <1>5, PcTyped, Disjoint DEF OneChanger, DecodeLabels, engineVars
  <1> QED BY <1>1, <1>3, <1>4, <1>5 DEF OneChanger, engineVars

(* An abort in the middle of a change counts as a clash. *)
LEMMA AbortLeaves ==
  ASSUME TypeOK, PcOK, OneChanger, NEW s \in Sessions, AbortWorker(s)
  PROVE  OneChanger'
  <1> SUFFICES ASSUME ~clash' PROVE OneChanger'
    BY DEF OneChanger
  <1>1. ~clash /\ Final(s) \notin Changing
    BY DEF AbortWorker
  <1>2. pc[Final(s)] \notin ChangeLabels /\ pc[s] = "drain"
    BY <1>1, Disjoint DEF Changing, AbortWorker
  <1>3. PICK l \in {"drop", "done"} :
           pc' = [pc EXCEPT ![s] = "awaitPartial", ![Final(s)] = l]
    BY DEF AbortWorker
  <1>4. UNCHANGED <<engineVars, wants>>
    BY <1>2 DEF AbortWorker, ChangeLabels, jobVars
  <1>5. Changing' = Changing
    BY <1>2, <1>3, PcTyped, Disjoint DEF Changing, ChangeLabels
  <1>6. \A t \in Sessions : AtWork(t)' => AtWork(t)
    BY <1>2, <1>3, PcTyped, Disjoint DEF AtWork, HoldLabels, ChangeLabels, DecodeLabels
  <1>7. \A p \in Changing : pc'[p] = pc[p]
    BY <1>2, <1>3, PcTyped, Disjoint DEF Changing, ChangeLabels
  <1>8. \A t \in Sessions : pc'[Final(t)] \in {"ready"} \cup DecodeLabels
            => pc[Final(t)] = pc'[Final(t)]
    BY <1>2, <1>3, PcTyped, Disjoint DEF DecodeLabels
  <1>9. \A p \in Changing : Shape(p)'
    BY <1>1, <1>4, <1>7 DEF OneChanger, Shape, Target, engineVars
  <1> QED BY <1>1, <1>4, <1>5, <1>6, <1>8, <1>9 DEF OneChanger, engineVars

(* Without a clash the model has one changer, and none beside a final worker. *)
LEMMA OneChangerStep ==
  ASSUME TypeOK, PcOK, GoalOK, SpawnOK, LeaseHeld, SessionsOK,
         OneChanger, Next
  PROVE  OneChanger'
  <1> USE PcTyped, Disjoint DEF PcOK, GoalOK, SessionsOK, OneChanger, Changing, AtWork, Shape, Target, HoldLabels, leaseVars, engineVars, jobVars, histVars,
             SessionPcs, FinalPcs, PartialPcs, JobPcs, SessionLabels, LiveLabels,
             JobLabels, ChangeLabels, DecodeLabels
  <1>1. ASSUME NEW s \in Sessions, SessionOnly(s) PROVE OneChanger'
    <2>1. CASE StartRecording(s)
      BY <2>1 DEF StartRecording, Goto
    <2>2. CASE StopRecording(s)
      BY <2>2 DEF StopRecording, Goto
    <2>3. CASE StoreManager(s)
      BY <2>3 DEF StoreManager, Goto
    <2>4. CASE SpawnWorkers(s)
      BY <2>4 DEF SpawnWorkers
    <2>5. CASE Drained(s)
      BY <2>5 DEF Drained, Goto
    <2>6. CASE AbortWorker(s)
      BY <2>6, AbortLeaves
    <2>7. CASE AwaitPartial(s)
      BY <2>7 DEF AwaitPartial, Goto
    <2>8. CASE UnloadAfterStop(s)
      <3>1. CASE pc' = [pc EXCEPT ![s] = "evict"] /\ NoteClash(s)
        BY <2>8, <3>1, UnloadEnters
      <3>2. CASE pc' = [pc EXCEPT ![s] = "done"] /\ UNCHANGED clash
        BY <2>8, <3>2 DEF UnloadAfterStop
      <3> QED BY <2>8, <3>1, <3>2 DEF UnloadAfterStop, Goto
    <2> QED BY <1>1, <2>1, <2>2, <2>3, <2>4, <2>5, <2>6, <2>7, <2>8 DEF SessionOnly
  <1>2. ASSUME NEW p \in Sessions \cup Live, Looking(p) PROVE OneChanger'
    <2>1. CASE Look(p)
      <3>1. CASE IsModelLoaded
        BY <2>1, <3>1 DEF Look, Goto
      <3>2. CASE ~IsModelLoaded
        <4>1. pc' = [pc EXCEPT ![p] = "loadCheck"] /\ NoteClash(p)
          BY <2>1, <3>2 DEF Look, Goto
        <4> QED BY <2>1, <4>1, LookEnters
      <3> QED BY <3>1, <3>2
    <2>2. CASE LookName(p)
      <3> DEFINE Takes == name = Configured \/ (p \in Sessions /\ name /= NONE)
      <3>1. CASE Takes
        BY <2>2, <3>1 DEF LookName, Goto, AfterLoad
      <3>2. CASE ~Takes
        <4>1. pc' = [pc EXCEPT ![p] = "loadCheck"] /\ NoteClash(p)
          BY <2>2, <3>2 DEF LookName, Goto
        <4> QED BY <2>2, <4>1, LookEnters
      <3> QED BY <3>1, <3>2
    <2> QED BY <1>2, <2>1, <2>2 DEF Looking
  <1>3. ASSUME NEW p \in Processes, ChangeModel(p) PROVE OneChanger'
    <2>1. CASE LoadCheck(p)
      BY <2>1 DEF LoadCheck, Goto, AfterLoad
    <2>2. CASE EvictStep(p)
      BY <2>2 DEF EvictStep, Goto, Evict
    <2>3. CASE ClearStep(p)
      BY <2>3 DEF ClearStep, Goto, Clear, AfterUnload
    <2>4. CASE ReadWeights(p)
      BY <2>4 DEF ReadWeights, Goto, LoadFails
    <2>5. CASE SetContextStep(p)
      BY <2>5 DEF SetContextStep, Goto, SetContext
    <2>6. CASE SetNameStep(p)
      BY <2>6 DEF SetNameStep, Goto, SetName, AfterLoad
    <2> QED BY <1>3, <2>1, <2>2, <2>3, <2>4, <2>5, <2>6 DEF ChangeModel
  <1>4. ASSUME NEW p \in Live \cup Jobs, Decode(p) PROVE OneChanger'
    <2>1. CASE LookUpState(p)
      BY <2>1 DEF LookUpState, Goto, Decoded, NoModelLoaded, BatchFails, JobFails
    <2>2. CASE InsertState(p)
      BY <2>2 DEF InsertState, Goto, Decoded, BatchFails, JobFails, PoolInsert
    <2> QED BY <1>4, <2>1, <2>2 DEF Decode
  <1>5. ASSUME NEW w \in Live, LiveOnly(w) PROVE OneChanger'
    <2>1. CASE TakeLease(w)
      <3>1. CASE w[2] = "Final"
        BY <2>1, <3>1, LeaseEnters
      <3>2. CASE w[2] /= "Final"
        BY <2>1, <3>2 DEF TakeLease, Goto
      <3> QED BY <3>1, <3>2
    <2>2. CASE NextChunk(w)
      BY <2>2 DEF NextChunk, Goto
    <2>3. CASE ChannelClosed(w)
      BY <2>3 DEF ChannelClosed, Goto
    <2>4. CASE DropLease(w)
      BY <2>4 DEF DropLease, Goto, DropGuard, LastGuard
    <2>5. CASE Notify(w)
      BY <2>5 DEF Notify, Goto, NotifyWaiters
    <2> QED BY <1>5, <2>1, <2>2, <2>3, <2>4, <2>5 DEF LiveOnly
  <1>6. ASSUME NEW j \in Jobs, JobOnly(j) PROVE OneChanger'
    <2>1. CASE StartJob(j)
      <3>1. CASE Kind(j) \in inProgress
        BY <2>1, <3>1 DEF StartJob, Goto
      <3>2. CASE Kind(j) \notin inProgress
        <4>1. PICK m \in BatchModels : wants' = [wants EXCEPT ![j] = m]
          BY <2>1, <3>2 DEF StartJob
        <4> QED BY <2>1, <3>2, <4>1 DEF StartJob, Goto
      <3> QED BY <3>1, <3>2
    <2>2. CASE ResetCancelled(j)
      BY <2>2 DEF ResetCancelled, Goto
    <2>3. CASE Prepare(j)
      BY <2>3 DEF Prepare, Goto, JobFails
    <2>4. CASE CopyAudio(j)
      BY <2>4 DEF CopyAudio, Goto, JobFails
    <2>5. CASE CutSpeech(j)
      BY <2>5 DEF CutSpeech, Goto, JobFails, BatchFails
    <2>6. CASE CheckModel(j)
      BY <2>6 DEF CheckModel, Goto
    <2>7. CASE CheckLease(j)
      <3>1. CASE ~IsLiveLeased
        BY <2>7, <3>1, GrantEnters
      <3>2. CASE IsLiveLeased
        BY <2>7, <3>2 DEF CheckLease, Goto
      <3> QED BY <3>1, <3>2
    <2>8. CASE MakeNotified(j)
      BY <2>8 DEF MakeNotified, Goto, Enrol
    <2>9. CASE RecheckLease(j)
      <3>1. CASE ~IsLiveLeased
        BY <2>9, <3>1, GrantEnters
      <3>2. CASE IsLiveLeased
        BY <2>9, <3>2 DEF RecheckLease, Goto
      <3> QED BY <3>1, <3>2
    <2>10. CASE Wake(j)
      <3>1. CASE ~IsLiveLeased
        BY <2>10, <3>1, GrantEnters
      <3>2. CASE IsLiveLeased
        BY <2>10, <3>2 DEF Wake, Goto
      <3> QED BY <3>1, <3>2
    <2>11. CASE LeaseTimeout(j)
      BY <2>11 DEF LeaseTimeout, Goto, Unenrol, JobFails
    <2>12. CASE BatchTurn(j)
      BY <2>12 DEF BatchTurn, Goto, BatchFails, JobFails
    <2>13. CASE SaveImport(j)
      BY <2>13 DEF SaveImport, Goto, JobSucceeds, JobFails
    <2>14. CASE SaveRetrans(j)
      BY <2>14 DEF SaveRetrans, Goto, JobSucceeds, JobFails
    <2>15. CASE FinishJob(j)
      BY <2>15 DEF FinishJob, Goto
    <2>16. CASE ReleaseJob(j)
      BY <2>16 DEF ReleaseJob, Goto
    <2> QED BY <1>6, <2>1, <2>2, <2>3, <2>4, <2>5, <2>6, <2>7, <2>8, <2>9, <2>10, <2>11,
               <2>12, <2>13, <2>14, <2>15, <2>16 DEF JobOnly
  <1>7. ASSUME NEW k \in Kinds, Cancel(k) PROVE OneChanger'
    BY <1>7 DEF Cancel, procVars
  <1>8. CASE UNCHANGED vars
    BY <1>8 DEF vars, procVars
  <1> QED BY Steps, <1>1, <1>2, <1>3, <1>4, <1>5, <1>6, <1>7, <1>8

(* A final worker that is at a chunk has the configured model before it, and
   nobody holds the lock of the context. *)
LEMMA FinalReads ==
  ASSUME TypeOK, OneChanger, ~clash, NEW s \in Sessions,
         pc[Final(s)] \in {"ready"} \cup DecodeLabels
  PROVE  ctx = Configured /\ ~locked /\ ctx # NONE
  <1>1. AtWork(s)
    BY DEF AtWork, HoldLabels, DecodeLabels
  <1>2. Changing = {}
    <2>1. Final(s) \notin Changing
      BY DEF Changing, ChangeLabels, DecodeLabels
    <2> QED BY <1>1, <2>1 DEF OneChanger
  <1>3. ctx = Configured
    BY DEF OneChanger
  <1> QED BY <1>2, <1>3, SharingAssumption, ModelsAssumption DEF OneChanger

(* The pool is dropped under the lock that every change of the context takes. *)
LEMMA PoolStep ==
  ASSUME TypeOK, PcOK, OneChanger, PoolIsOfTheContext, Next
  PROVE  PoolIsOfTheContext'
  <1> USE PcTyped, Disjoint DEF PoolIsOfTheContext, engineVars, histVars
  <1>1. ASSUME NEW s \in Sessions, SessionOnly(s) PROVE PoolIsOfTheContext'
    <2>1. CASE StartRecording(s)
      BY <2>1 DEF StartRecording, Goto
    <2>2. CASE StopRecording(s)
      BY <2>2 DEF StopRecording, Goto
    <2>3. CASE StoreManager(s)
      BY <2>3 DEF StoreManager, Goto
    <2>4. CASE SpawnWorkers(s)
      BY <2>4 DEF SpawnWorkers
    <2>5. CASE Drained(s)
      BY <2>5 DEF Drained, Goto
    <2>6. CASE AbortWorker(s)
      <3>1. CASE pc[Final(s)] = "clear"
        BY <2>6, <3>1 DEF AbortWorker, Changing, ChangeLabels
      <3>2. CASE pc[Final(s)] /= "clear"
        BY <2>6, <3>2 DEF AbortWorker
      <3> QED BY <3>1, <3>2
    <2>7. CASE AwaitPartial(s)
      BY <2>7 DEF AwaitPartial, Goto
    <2>8. CASE UnloadAfterStop(s)
      BY <2>8 DEF UnloadAfterStop, Goto, NoteClash
    <2> QED BY <1>1, <2>1, <2>2, <2>3, <2>4, <2>5, <2>6, <2>7, <2>8 DEF SessionOnly
  <1>2. ASSUME NEW p \in Sessions \cup Live, Looking(p) PROVE PoolIsOfTheContext'
    <2>1. CASE Look(p)
      BY <2>1 DEF Look, Goto, NoteClash
    <2>2. CASE LookName(p)
      BY <2>2 DEF LookName, Goto, NoteClash, AfterLoad
    <2> QED BY <1>2, <2>1, <2>2 DEF Looking
  <1>3. ASSUME NEW p \in Processes, ChangeModel(p) PROVE PoolIsOfTheContext'
    <2>1. CASE LoadCheck(p)
      BY <2>1 DEF LoadCheck, Goto, AfterLoad
    <2>2. CASE EvictStep(p)
      BY <2>2 DEF EvictStep, Evict
    <2>3. CASE ClearStep(p)
      BY <2>3 DEF ClearStep, Clear, TypeOK, EngineTypeOK
    <2>4. CASE ReadWeights(p)
      BY <2>4 DEF ReadWeights, Goto, LoadFails
    <2>5. CASE SetContextStep(p)
      <3>1. CASE clash
        BY <2>5, <3>1 DEF SetContextStep
      <3>2. CASE ~clash
        <4>1. ctx = NONE /\ ~locked
          BY <2>5, <3>2, Disjoint DEF SetContextStep, OneChanger, Changing, ChangeLabels,
             Shape
        <4>2. straddled \/ (\A q \in Purposes : pool[q] = NONE)
          BY <3>2, <4>1
        <4> QED BY <2>5, <4>2 DEF SetContextStep, SetContext
      <3> QED BY <3>1, <3>2
    <2>6. CASE SetNameStep(p)
      BY <2>6 DEF SetNameStep, Goto, SetName, AfterLoad
    <2> QED BY <1>3, <2>1, <2>2, <2>3, <2>4, <2>5, <2>6 DEF ChangeModel
  <1>4. ASSUME NEW p \in Live \cup Jobs, Decode(p) PROVE PoolIsOfTheContext'
    <2>1. CASE LookUpState(p)
      BY <2>1 DEF LookUpState, Goto, Decoded, NoModelLoaded, BatchFails, JobFails
    <2>2. CASE InsertState(p)
      <3>1. /\ pool \in [Purposes -> Models \cup {NONE}] /\ UNCHANGED <<ctx, locked, clash>>
            /\ straddled' = (straddled \/ snap[p] /= ctx)
            /\ pool' = [pool EXCEPT ![Purpose(p)] = StateFor(Purpose(p), snap[p])]
        BY <2>2 DEF InsertState, PoolInsert, TypeOK, EngineTypeOK
      <3> QED BY <3>1 DEF StateFor
    <2> QED BY <1>4, <2>1, <2>2 DEF Decode
  <1>5. ASSUME NEW w \in Live, LiveOnly(w) PROVE PoolIsOfTheContext'
    <2>1. CASE TakeLease(w)
      BY <2>1 DEF TakeLease, Goto, AcquireLive, NoteClash
    <2>2. CASE NextChunk(w)
      BY <2>2 DEF NextChunk, Goto
    <2>3. CASE ChannelClosed(w)
      BY <2>3 DEF ChannelClosed, Goto
    <2>4. CASE DropLease(w)
      BY <2>4 DEF DropLease, Goto, DropGuard, LastGuard
    <2>5. CASE Notify(w)
      BY <2>5 DEF Notify, Goto, NotifyWaiters
    <2> QED BY <1>5, <2>1, <2>2, <2>3, <2>4, <2>5 DEF LiveOnly
  <1>6. ASSUME NEW j \in Jobs, JobOnly(j) PROVE PoolIsOfTheContext'
    <2>1. CASE StartJob(j)
      BY <2>1 DEF StartJob, Goto
    <2>2. CASE ResetCancelled(j)
      BY <2>2 DEF ResetCancelled, Goto
    <2>3. CASE Prepare(j)
      BY <2>3 DEF Prepare, Goto, JobFails
    <2>4. CASE CopyAudio(j)
      BY <2>4 DEF CopyAudio, Goto, JobFails
    <2>5. CASE CutSpeech(j)
      BY <2>5 DEF CutSpeech, Goto, JobFails, BatchFails
    <2>6. CASE CheckModel(j)
      BY <2>6 DEF CheckModel, Goto
    <2>7. CASE CheckLease(j)
      BY <2>7 DEF CheckLease, Goto, Granted, NoteClash
    <2>8. CASE MakeNotified(j)
      BY <2>8 DEF MakeNotified, Goto, Enrol
    <2>9. CASE RecheckLease(j)
      BY <2>9 DEF RecheckLease, Goto, Granted, NoteClash, Unenrol
    <2>10. CASE Wake(j)
      BY <2>10 DEF Wake, Goto, Granted, NoteClash, Unenrol
    <2>11. CASE LeaseTimeout(j)
      BY <2>11 DEF LeaseTimeout, Goto, Unenrol, JobFails
    <2>12. CASE BatchTurn(j)
      BY <2>12 DEF BatchTurn, Goto, BatchFails, JobFails
    <2>13. CASE SaveImport(j)
      BY <2>13 DEF SaveImport, Goto, JobSucceeds, JobFails
    <2>14. CASE SaveRetrans(j)
      BY <2>14 DEF SaveRetrans, Goto, JobSucceeds, JobFails
    <2>15. CASE FinishJob(j)
      BY <2>15 DEF FinishJob, Goto
    <2>16. CASE ReleaseJob(j)
      BY <2>16 DEF ReleaseJob, Goto
    <2> QED BY <1>6, <2>1, <2>2, <2>3, <2>4, <2>5, <2>6, <2>7, <2>8, <2>9, <2>10, <2>11,
               <2>12, <2>13, <2>14, <2>15, <2>16 DEF JobOnly
  <1>7. ASSUME NEW k \in Kinds, Cancel(k) PROVE PoolIsOfTheContext'
    BY <1>7 DEF Cancel, procVars
  <1>8. CASE UNCHANGED vars
    BY <1>8 DEF vars, procVars
  <1> QED BY Steps, <1>1, <1>2, <1>3, <1>4, <1>5, <1>6, <1>7, <1>8

(* A final worker decodes on the configured model. *)
LEMMA HeardStep ==
  ASSUME TypeOK, PcOK, OneChanger, PoolIsOfTheContext,
         LiveIsTranscribed, Next
  PROVE  LiveIsTranscribed'
  <1> USE PcTyped, Disjoint, SharingAssumption, ModelsAssumption DEF LiveIsTranscribed, histVars
  <1>1. ASSUME NEW s \in Sessions, SessionOnly(s) PROVE LiveIsTranscribed'
    <2>1. CASE StartRecording(s)
      BY <2>1 DEF StartRecording, Goto
    <2>2. CASE StopRecording(s)
      BY <2>2 DEF StopRecording, Goto
    <2>3. CASE StoreManager(s)
      BY <2>3 DEF StoreManager, Goto
    <2>4. CASE SpawnWorkers(s)
      BY <2>4 DEF SpawnWorkers
    <2>5. CASE Drained(s)
      BY <2>5 DEF Drained, Goto
    <2>6. CASE AbortWorker(s)
      BY <2>6 DEF AbortWorker, Unlock
    <2>7. CASE AwaitPartial(s)
      BY <2>7 DEF AwaitPartial, Goto
    <2>8. CASE UnloadAfterStop(s)
      BY <2>8 DEF UnloadAfterStop, Goto, NoteClash
    <2> QED BY <1>1, <2>1, <2>2, <2>3, <2>4, <2>5, <2>6, <2>7, <2>8 DEF SessionOnly
  <1>2. ASSUME NEW p \in Sessions \cup Live, Looking(p) PROVE LiveIsTranscribed'
    <2>1. CASE Look(p)
      BY <2>1 DEF Look, Goto, NoteClash
    <2>2. CASE LookName(p)
      BY <2>2 DEF LookName, Goto, NoteClash, AfterLoad
    <2> QED BY <1>2, <2>1, <2>2 DEF Looking
  <1>3. ASSUME NEW p \in Processes, ChangeModel(p) PROVE LiveIsTranscribed'
    <2>1. CASE LoadCheck(p)
      BY <2>1 DEF LoadCheck, Goto, AfterLoad
    <2>2. CASE EvictStep(p)
      BY <2>2 DEF EvictStep, Goto, Evict
    <2>3. CASE ClearStep(p)
      BY <2>3 DEF ClearStep, Goto, Clear, AfterUnload
    <2>4. CASE ReadWeights(p)
      BY <2>4 DEF ReadWeights, Goto, LoadFails
    <2>5. CASE SetContextStep(p)
      BY <2>5 DEF SetContextStep, Goto, SetContext
    <2>6. CASE SetNameStep(p)
      BY <2>6 DEF SetNameStep, Goto, SetName, AfterLoad
    <2> QED BY <1>3, <2>1, <2>2, <2>3, <2>4, <2>5, <2>6 DEF ChangeModel
  <1>4. ASSUME NEW p \in Live \cup Jobs, Decode(p) PROVE LiveIsTranscribed'
    <2>1. CASE LookUpState(p)
      <3>1. ASSUME NEW s \in Sessions, p = Final(s), ~clash, ~straddled
            PROVE  heard' = heard \/ heard' = [heard EXCEPT ![p] = Configured]
        <4>1. ctx = Configured /\ ~locked /\ ctx /= NONE
          BY <2>1, <3>1, FinalReads DEF LookUpState, DecodeLabels
        <4>2. Purpose(p) = "Final" /\ Purpose(p) \in Purposes /\ p \in Live
          BY <3>1 DEF Purpose, Purposes
        <4>3. pool[Purpose(p)] \in {NONE, ctx}
          BY <3>1, <4>1, <4>2 DEF PoolIsOfTheContext
        <4> QED BY <2>1, <4>1, <4>2, <4>3 DEF LookUpState, Decoded
      <3>2. \A s \in Sessions : p /= Final(s) => heard'[Final(s)] = heard[Final(s)]
        BY <2>1 DEF LookUpState, Decoded, NoModelLoaded, TypeOK
      <3>3. UNCHANGED <<clash, straddled>> /\ heard \in [Live -> Models \cup {NONE, "skipped"}]
        BY <2>1 DEF LookUpState, TypeOK
      <3> QED BY <3>1, <3>2, <3>3
    <2>2. CASE InsertState(p)
      <3>1. ASSUME NEW s \in Sessions, p = Final(s), ~clash, ~straddled'
            PROVE  heard' = [heard EXCEPT ![p] = Configured]
        <4>1. ctx = Configured /\ ~locked /\ ctx /= NONE
          BY <2>2, <3>1, FinalReads DEF InsertState, DecodeLabels
        <4>2. Purpose(p) = "Final" /\ Purpose(p) \in Purposes /\ p \in Live
          BY <3>1 DEF Purpose, Purposes
        <4>3. ~straddled /\ snap[p] = ctx
          BY <2>2, <3>1 DEF InsertState
        <4>4. pool[Purpose(p)] \in {NONE, ctx}
          BY <3>1, <4>1, <4>2, <4>3 DEF PoolIsOfTheContext
        <4>5. StateFor(Purpose(p), snap[p]) = Configured
          BY <4>1, <4>3, <4>4 DEF StateFor
        <4> QED BY <2>2, <4>2, <4>5 DEF InsertState, Decoded
      <3>2. \A s \in Sessions : p /= Final(s) => heard'[Final(s)] = heard[Final(s)]
        BY <2>2 DEF InsertState, Decoded, TypeOK
      <3>3. /\ UNCHANGED clash /\ (straddled => straddled')
            /\ heard \in [Live -> Models \cup {NONE, "skipped"}]
        BY <2>2 DEF InsertState, TypeOK
      <3> QED BY <3>1, <3>2, <3>3
    <2> QED BY <1>4, <2>1, <2>2 DEF Decode
  <1>5. ASSUME NEW w \in Live, LiveOnly(w) PROVE LiveIsTranscribed'
    <2>1. CASE TakeLease(w)
      BY <2>1 DEF TakeLease, Goto, AcquireLive, NoteClash
    <2>2. CASE NextChunk(w)
      <3>1. \A s \in Sessions : w = Final(s) => clash \/ heard' = heard
        BY <2>2, FinalReads DEF NextChunk, IsModelLoaded
      <3>2. \A s \in Sessions : w /= Final(s) => heard'[Final(s)] = heard[Final(s)]
        BY <2>2 DEF NextChunk, TypeOK
      <3> QED BY <2>2, <3>1, <3>2 DEF NextChunk
    <2>3. CASE ChannelClosed(w)
      BY <2>3 DEF ChannelClosed, Goto
    <2>4. CASE DropLease(w)
      BY <2>4 DEF DropLease, Goto, DropGuard, LastGuard
    <2>5. CASE Notify(w)
      BY <2>5 DEF Notify, Goto, NotifyWaiters
    <2> QED BY <1>5, <2>1, <2>2, <2>3, <2>4, <2>5 DEF LiveOnly
  <1>6. ASSUME NEW j \in Jobs, JobOnly(j) PROVE LiveIsTranscribed'
    <2>1. CASE StartJob(j)
      BY <2>1 DEF StartJob, Goto
    <2>2. CASE ResetCancelled(j)
      BY <2>2 DEF ResetCancelled, Goto
    <2>3. CASE Prepare(j)
      BY <2>3 DEF Prepare, Goto, JobFails
    <2>4. CASE CopyAudio(j)
      BY <2>4 DEF CopyAudio, Goto, JobFails
    <2>5. CASE CutSpeech(j)
      BY <2>5 DEF CutSpeech, Goto, JobFails, BatchFails
    <2>6. CASE CheckModel(j)
      BY <2>6 DEF CheckModel, Goto
    <2>7. CASE CheckLease(j)
      BY <2>7 DEF CheckLease, Goto, Granted, NoteClash
    <2>8. CASE MakeNotified(j)
      BY <2>8 DEF MakeNotified, Goto, Enrol
    <2>9. CASE RecheckLease(j)
      BY <2>9 DEF RecheckLease, Goto, Granted, NoteClash, Unenrol
    <2>10. CASE Wake(j)
      BY <2>10 DEF Wake, Goto, Granted, NoteClash, Unenrol
    <2>11. CASE LeaseTimeout(j)
      BY <2>11 DEF LeaseTimeout, Goto, Unenrol, JobFails
    <2>12. CASE BatchTurn(j)
      BY <2>12 DEF BatchTurn, Goto, BatchFails, JobFails
    <2>13. CASE SaveImport(j)
      BY <2>13 DEF SaveImport, Goto, JobSucceeds, JobFails
    <2>14. CASE SaveRetrans(j)
      BY <2>14 DEF SaveRetrans, Goto, JobSucceeds, JobFails
    <2>15. CASE FinishJob(j)
      BY <2>15 DEF FinishJob, Goto
    <2>16. CASE ReleaseJob(j)
      BY <2>16 DEF ReleaseJob, Goto
    <2> QED BY <1>6, <2>1, <2>2, <2>3, <2>4, <2>5, <2>6, <2>7, <2>8, <2>9, <2>10, <2>11,
               <2>12, <2>13, <2>14, <2>15, <2>16 DEF JobOnly
  <1>7. ASSUME NEW k \in Kinds, Cancel(k) PROVE LiveIsTranscribed'
    BY <1>7 DEF Cancel, procVars
  <1>8. CASE UNCHANGED vars
    BY <1>8 DEF vars, procVars
  <1> QED BY Steps, <1>1, <1>2, <1>3, <1>4, <1>5, <1>6, <1>7, <1>8

(* Nobody has done anything yet. *)
LEMMA InitTypes ==
  ASSUME Init
  PROVE  TypeOK
  <1> USE SharingAssumption DEF Init, LeaseInit, EngineInit
  <1>1. LeaseTypeOK /\ EngineTypeOK
    BY DEF LeaseTypeOK, EngineTypeOK
  <1>2. /\ pc \in [Processes -> SessionLabels \cup LiveLabels \cup JobLabels
                               \cup ChangeLabels \cup DecodeLabels]
        /\ goal \in [Processes -> {"load", "unload"}]
        /\ snap \in [Processes -> Models \cup {NONE}]
    BY DEF SessionLabels, LiveLabels
  <1>3. /\ wants \in [Jobs -> Models \cup {NONE}]
        /\ seen \in [Jobs -> Models \cup {NONE}]
        /\ seg \in [Jobs -> 0..Segments]
        /\ text \in [Jobs -> BOOLEAN]
        /\ result \in [Jobs -> {"none", "ok", "err", "refused"}]
    OBVIOUS
  <1>4. /\ heard \in [Live -> Models \cup {NONE, "skipped"}]
        /\ transcript \in Retrans \cup {NONE}
        /\ clash \in BOOLEAN /\ straddled \in BOOLEAN /\ made \in Scenarios
    OBVIOUS
  <1> QED BY <1>1, <1>2, <1>3, <1>4 DEF TypeOK

(* The invariant holds before the first call. *)
LEMMA InitInv ==
  ASSUME Init
  PROVE  IInv
  <1>1. TypeOK
    BY InitTypes
  <1>2. \A p \in Processes : pc[p] \in {"idle", "done"} /\ goal[p] = "load"
    BY DEF Init
  <1>3. \A s \in Sessions : pc[Final(s)] = "idle" /\ pc[Partial(s)] = "idle"
    BY Disjoint DEF Init
  <1>4. PcOK /\ GoalOK /\ SpawnOK
    BY <1>2, <1>3, Disjoint DEF PcOK, GoalOK, SpawnOK, SessionPcs, FinalPcs, PartialPcs,
       JobPcs, SessionLabels, LiveLabels, JobLabels
  <1>5. LeaseHeld
    <2>1. Holders = {}
      BY <1>2, Disjoint DEF Holders, HoldLabels, ChangeLabels, DecodeLabels
    <2> QED BY <2>1, FS_EmptySet DEF LeaseHeld, Init, LeaseInit
  <1>6. WaitersEnrolled /\ NoSleepOnFreeLease
    BY <1>2, Disjoint DEF WaitersEnrolled, NoSleepOnFreeLease
  <1>7. OneJobPerKind /\ AskedIsCancelled /\ CancelTakesEffect
    BY <1>2, Disjoint DEF OneJobPerKind, Running, AskedIsCancelled, CancelTakesEffect, Init
  <1>8. JobData
    <2>1. rows = {} /\ transcript = NONE
      BY DEF Init
    <2> QED BY <1>2, <2>1, Disjoint, SharingAssumption DEF JobData, JobOK, Over,
               DecodeLabels, Jobs
  <1>9. SessionsOK
    BY <1>2, <1>3, Disjoint DEF SessionsOK, AtWork, HoldLabels, ChangeLabels, DecodeLabels
  <1>10. Changing = {} /\ name = ctx /\ ~locked
    BY <1>2 DEF Changing, ChangeLabels, Init, EngineInit
  <1>11. OneChanger
    BY <1>3, <1>10 DEF OneChanger, DecodeLabels
  <1>12. PoolIsOfTheContext /\ LiveIsTranscribed
    BY Disjoint DEF Init, EngineInit, PoolIsOfTheContext, LiveIsTranscribed
  <1> QED BY <1>1, <1>4, <1>5, <1>6, <1>7, <1>8, <1>9, <1>11, <1>12
          DEF IInv, LeaseInv, JobInv, EngineInv

(* Every step keeps it. *)
LEMMA StepInv ==
  ASSUME IInv, Next
  PROVE  IInv'
  <1> USE DEF IInv, LeaseInv, JobInv, EngineInv
  <1>1. TypeOK'
    BY TypeStep
  <1>2. PcOK' /\ GoalOK' /\ SpawnOK'
    BY PcStep, GoalStep, SpawnStep
  <1>3. LeaseHeld' /\ WaitersEnrolled' /\ NoSleepOnFreeLease'
    BY LeaseHeldStep, WaitersStep, NoSleepStep
  <1>4. OneJobPerKind' /\ AskedIsCancelled' /\ CancelTakesEffect'
    BY OneJobStep, AskedStep, CancelStep
  <1>5. ASSUME NEW i \in Jobs PROVE JobOK(i)'
    BY JobDataStep DEF JobData
  <1>6. JobData'
    BY <1>5 DEF JobData
  <1>7. SessionsOK' /\ OneChanger'
    BY SessionsStep, OneChangerStep
  <1>8. PoolIsOfTheContext' /\ LiveIsTranscribed'
    BY PoolStep, HeardStep
  <1> QED BY <1>1, <1>2, <1>3, <1>4, <1>6, <1>7, <1>8

(* What does not change keeps what it satisfied. *)
LEMMA StutterInv ==
  ASSUME IInv, UNCHANGED vars
  PROVE  IInv'
  <1> USE DEF vars, leaseVars, engineVars, procVars, jobVars, flagVars, dataVars, histVars
  <1>1. LeaseInv'
    BY DEF IInv, LeaseInv, TypeOK, LeaseTypeOK, EngineTypeOK, PcOK, GoalOK, SpawnOK,
       LeaseHeld, Holders, WaitersEnrolled, NoSleepOnFreeLease
  <1>2. JobInv'
    BY DEF IInv, JobInv, OneJobPerKind, Running, AskedIsCancelled, JobData, JobOK, Over,
       CancelTakesEffect
  <1>3. EngineInv'
    BY DEF IInv, EngineInv, SessionsOK, AtWork, OneChanger, Changing, Shape, Target,
       PoolIsOfTheContext, LiveIsTranscribed
  <1> QED BY <1>1, <1>2, <1>3 DEF IInv

(* The inductive invariant holds whatever the sessions, the jobs and their
   cancellations do: all that follows is read off it. *)
THEOREM Invariance == Spec => []IInv
  <1>1. Init => IInv
    BY InitInv
  <1>2. IInv /\ [Next]_vars => IInv'
    <2> SUFFICES ASSUME IInv, [Next]_vars PROVE IInv'
      OBVIOUS
    <2>1. CASE Next
      BY <2>1, StepInv
    <2>2. CASE UNCHANGED vars
      BY <2>2, StutterInv
    <2> QED BY <2>1, <2>2
  <1> QED BY <1>1, <1>2, PTL DEF Spec

(* Every variable keeps its type; the counter of the lease (lease.rs:30) never
   goes below zero, though a guard is dropped by whoever aborts its task. *)
THEOREM TypeCorrect == Spec => []TypeOK
  <1>1. IInv => TypeOK
    BY DEF IInv, LeaseInv, JobInv, EngineInv
  <1> QED BY <1>1, Invariance, PTL

(* wait_until_free (lease.rs:67-115) loses no wakeup, for any number of workers
   and waiting jobs: the future is made before the counter is read again. *)
THEOREM NoSleeperIsForgotten == Spec => []NoSleepOnFreeLease
  <1>1. IInv => NoSleepOnFreeLease
    BY DEF IInv, LeaseInv, JobInv, EngineInv
  <1> QED BY <1>1, Invariance, PTL

(* A cancellation that comes before a job's last check of its flag keeps the job
   from saving, though the flag is shared by all calls of its kind
   (import.rs:25-53 and retranscription.rs:20-48). *)
THEOREM CancelIsHonoured == Spec => []CancelTakesEffect
  <1>1. IInv => CancelTakesEffect
    BY DEF IInv, LeaseInv, JobInv, EngineInv
  <1> QED BY <1>1, Invariance, PTL

(* Only a retranscription that ended well, with some text, replaces the
   transcript (retranscription.rs:812-816). *)
THEOREM FailedRetranscriptionKeeps == Spec => []FailureKeepsTranscript
  <1>1. IInv => FailureKeepsTranscript
    BY DEF IInv, LeaseInv, JobInv, EngineInv, JobData, JobOK, Jobs, FailureKeepsTranscript
  <1> QED BY <1>1, Invariance, PTL

(* The folder of an imported meeting survives every clean-up of a failed or
   cancelled import (import.rs). *)
THEOREM ImportedFolderStays == Spec => []ImportedRowHasFolder
  <1>1. IInv => ImportedRowHasFolder
    BY DEF TypeOK, IInv, LeaseInv, JobInv, EngineInv, JobData, JobOK, Jobs,
       ImportedRowHasFolder
  <1> QED BY <1>1, Invariance, PTL

(* get_current_model and is_model_loaded (whisper_engine.rs:513-519) agree
   between changes of the model, for any number of live and batch callers. *)
THEOREM NameFollowsContext == Spec => []NameIsTheContext
  <1>1. IInv => NameIsTheContext
    BY DEF IInv, LeaseInv, JobInv, EngineInv, OneChanger, NameIsTheContext
  <1> QED BY <1>1, Invariance, PTL

(* No pooled state decodes with weights that were unloaded
   (whisper_engine.rs:114-118). *)
THEOREM PoolFollowsContext == Spec => []PoolIsOfTheContext
  <1>1. IInv => PoolIsOfTheContext
    BY DEF IInv, LeaseInv, JobInv, EngineInv
  <1> QED BY <1>1, Invariance, PTL

(* What the lease is for (lease.rs:10-24): a live chunk is neither skipped nor
   decoded on a batch job's model. *)
THEOREM LeaseProtectsLive == Spec => []LiveIsTranscribed
  <1>1. IInv => LiveIsTranscribed
    BY DEF IInv, LeaseInv, JobInv, EngineInv
  <1> QED BY <1>1, Invariance, PTL
=============================================================================
