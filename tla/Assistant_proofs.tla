-------------------------- MODULE Assistant_proofs --------------------------
(***************************************************************************)
(* What Assistant promises for any number of runs, extractions, helpers,   *)
(* models and downloads.                                                   *)
(*                                                                         *)
(* Each step of the composition is a step of the downloads or leaves them  *)
(* alone, and likewise for the manager of the helper: their invariants     *)
(* carry over.  What is left is the service: its types, the registry, and  *)
(* the runs that were cancelled.                                           *)
(***************************************************************************)
EXTENDS Assistant, ModelDownloads_proofs, SidecarFailures_proofs, TLAPS

(* A step of the composition is a step of the downloads, or not theirs. *)
LEMMA DownloadSteps ==
    ASSUME [Next]_vars
    PROVE  [DownloadNext]_downloadVars
<1>1. CASE \E r \in Runs : GenerateSummary(r) \/ ServiceStep(r)
  BY <1>1
     DEF GenerateSummary, ServiceStep, Register, Resolve, PassIsStopped, AskBuiltin,
         BuiltinAnswers, AskRemote, RemoteAnswers, Cleanup, Store, StoreRefused
<1>2. CASE \E x \in Extractions : Reextract(x) \/ ExtractionStep(x)
  BY <1>2
     DEF Reextract, ExtractionStep, ExtractionRefused, AskExtraction,
         ExtractionAnswered, ReplaceItems
<1>3. CASE \/ \E c \in Calls : SidecarCall(c)
           \/ \E h \in Helpers :
                 HealthLoopStep(h) \/ IdleLoopStep(h) \/ Helper(h) \/ Ails(h)
           \/ IdleTimePasses
  BY <1>3
     DEF SidecarCall, HealthLoopStep, IdleLoopStep, Helper, Ails, IdleTimePasses
<1>4. CASE CancelSummary \/ AgentWrites \/ SaveEdit \/ RefreshView
  BY <1>4 DEF CancelSummary, AgentWrites, SaveEdit, RefreshView
<1>5. CASE \E d \in Downloads : DownloadTask(d) \/ DownloadNetwork(d)
  BY <1>5 DEF DownloadTask, DownloadNetwork, DownloadNext
<1>6. CASE \E m \in Managers : AtTheWindow(m) \/ Scans(m)
  BY <1>6 DEF AtTheWindow, Scans, DownloadNext
<1>7. CASE RemovesCancelled
  BY <1>7 DEF RemovesCancelled, DownloadNext
<1>8. CASE UNCHANGED vars
  BY <1>8 DEF vars
<1> QED BY <1>1, <1>2, <1>3, <1>4, <1>5, <1>6, <1>7, <1>8 DEF Next

(* The steps that are not the service's leave it and the tokens alone. *)
ServiceNext ==
    \/ \E r \in Runs : GenerateSummary(r) \/ ServiceStep(r)
    \/ \E x \in Extractions : Reextract(x) \/ ExtractionStep(x)
    \/ CancelSummary \/ AgentWrites \/ SaveEdit \/ RefreshView

LEMMA ServiceCases ==
    ASSUME [Next]_vars
    PROVE  ServiceNext \/ UNCHANGED <<serviceVars, cancelled>>
<1>1. CASE \E c \in Calls : SidecarCall(c)
  BY <1>1
     DEF SidecarCall, CallStep, ShutdownStep, SpawnStep, RequestStep, TakeChild,
         AwaitExit, EndShutdown, SpawnHelper, SpawnFails, PutChild, PutStdout,
         PutLoops, StartRequest, WriteRequest, OpenStdout, ReadAnswer, ReadNothing,
         RequestTimeout, CancelRequest
<1>2. CASE \/ \E h \in Helpers :
                 HealthLoopStep(h) \/ IdleLoopStep(h) \/ Helper(h) \/ Ails(h)
           \/ IdleTimePasses
  BY <1>2
     DEF HealthLoopStep, IdleLoopStep, Helper, Ails, IdleTimePasses, HealthTick,
         PingStep, PingOpen, PingRead, PingTimeout, PingFailed, IdleTick,
         IdleTickBusy, ShutdownStep, TakeChild, AwaitExit, EndShutdown,
         HelperStep, HelperAils, TimePasses
<1>3. CASE \E d \in Downloads : DownloadTask(d) \/ DownloadNetwork(d)
  BY <1>3 DEF DownloadTask, DownloadNetwork, sidecarVars
<1>4. CASE \/ \E m \in Managers : AtTheWindow(m) \/ Scans(m)
           \/ RemovesCancelled
  BY <1>4 DEF AtTheWindow, Scans, RemovesCancelled, sidecarVars
<1>5. CASE UNCHANGED vars
  BY <1>5 DEF vars, sidecarVars
<1> QED BY <1>1, <1>2, <1>3, <1>4, <1>5 DEF Next, ServiceNext

(* The runs and the extractions are the calls of the manager. *)
LEMMA CallKinds ==
    /\ Runs \subseteq Calls /\ Extractions \subseteq Calls
    /\ \A g \in Helpers : IdleLoop(g) \in Loops /\ HealthLoop(g) \in Loops
    /\ Calls \subseteq Actors /\ Loops \subseteq Actors
BY AssistantAssumption, ActorKinds

(* Likewise for the manager: what the service does to it are its calls. *)
LEMMA SidecarSteps ==
    ASSUME TypeOK, [Next]_vars
    PROVE  [SidecarNext]_sidecarVars
<1>1. ASSUME NEW r \in Runs, GenerateSummary(r) \/ ServiceStep(r)
      PROVE  [SidecarNext]_sidecarVars
  <2>1. CASE AskBuiltin(r)
    BY <2>1, CallKinds DEF AskBuiltin, SidecarNext
  <2>2. CASE BuiltinAnswers(r)
    <3>1. CASE rpc'[r] = "pass"
      BY <2>2, <3>1, CallKinds DEF BuiltinAnswers, SidecarNext, AnswerTaken
    <3>2. CASE rpc'[r] /= "pass"
      BY <2>2, <3>2 DEF BuiltinAnswers, sidecarVars
    <3> QED BY <3>1, <3>2
  <2> QED BY <1>1, <2>1, <2>2
        DEF GenerateSummary, ServiceStep, Register, Resolve, PassIsStopped,
            AskRemote, RemoteAnswers, Cleanup, Store, StoreRefused
<1>2. ASSUME NEW x \in Extractions, Reextract(x) \/ ExtractionStep(x)
      PROVE  [SidecarNext]_sidecarVars
  BY <1>2, CallKinds
     DEF Reextract, ExtractionStep, ExtractionRefused, AskExtraction,
         ExtractionAnswered, ReplaceItems, SidecarNext
<1>3. CASE \E c \in Calls : SidecarCall(c)
  BY <1>3, CallKinds DEF SidecarCall, CallStep, SidecarNext
<1>4. CASE \/ \E h \in Helpers :
                 HealthLoopStep(h) \/ IdleLoopStep(h) \/ Helper(h) \/ Ails(h)
           \/ IdleTimePasses
  BY <1>4, CallKinds
     DEF HealthLoopStep, IdleLoopStep, Helper, Ails, IdleTimePasses, SidecarNext
<1>5. CASE CancelSummary
  <2>1. registry \in Calls
    BY <1>5, CallKinds DEF CancelSummary, TypeOK
  <2> QED BY <1>5, <2>1 DEF CancelSummary, TokenSet, SidecarNext
<1>6. CASE AgentWrites \/ SaveEdit \/ RefreshView
  BY <1>6 DEF AgentWrites, SaveEdit, RefreshView
<1>7. CASE \/ \E d \in Downloads : DownloadTask(d) \/ DownloadNetwork(d)
           \/ \E m \in Managers : AtTheWindow(m) \/ Scans(m)
           \/ RemovesCancelled
  BY <1>7 DEF DownloadTask, DownloadNetwork, AtTheWindow, Scans,
     RemovesCancelled
<1>8. CASE UNCHANGED vars
  BY <1>8 DEF vars
<1> QED BY <1>1, <1>2, <1>3, <1>4, <1>5, <1>6, <1>7, <1>8 DEF Next

(***************************************************************************)
(* The service: its types, and what its runs keep.                         *)
(***************************************************************************)
ServiceTypes ==
    /\ made \in Scenarios
    /\ registry \in Runs \cup {NONE}
    /\ rpc \in [Runs -> RunLabels]
    /\ left \in [Runs -> 0..MapPasses] /\ useful \in [Runs -> BOOLEAN]
    /\ outcome \in [Runs -> {"none", "ok", "err", "cancelled"}]
    /\ xpc \in [Extractions -> {"idle", "load", "calling", "replace", "done"}]
    /\ parent \in [Extractions -> Runs \cup {NONE}]
    /\ rowStatus \in {"none", "completed", "failed", "cancelled"}
    /\ rowText \in Runs \cup {"agent", "edited", NONE}
    /\ items \in Extractions \cup {NONE}
    /\ view \in {"idle", "generating", "error"}
    /\ newest \in Runs \cup {NONE} /\ doomed \subseteq Runs

(* The type invariant of the composition is that of its parts. *)
LEMMA TypesOfParts ==
    TypeOK <=> SidecarTypeOK /\ DownloadTypeOK /\ ServiceTypes
BY DEF TypeOK, ServiceTypes

(* A run in the registry has registered; one that succeeded is past its    *)
(* passes, and only such a one has its text in the row.                    *)
RegisteredOK ==
    /\ registry /= NONE => rpc[registry] \notin {"idle", "register"}
    /\ \A r \in Runs :
          outcome[r] = "ok" =>
              left[r] = 0 /\ rpc[r] \in {"cleanup", "store", "done"}
    /\ rowText \in Runs => outcome[rowText] = "ok"

(* A doomed run is stopped before its next pass, and the one it may be in  *)
(* is not its last.                                                        *)
DoomedOK ==
    \A r \in doomed :
        /\ r \in cancelled /\ rpc[r] \notin {"idle", "register"}
        /\ rpc[r] = "calling" => left[r] > 0
        /\ outcome[r] /= "ok"

RunsOK == RegisteredOK /\ DoomedOK /\ NewestRunCancellable

(* What the end of a pass does to a run. *)
LEMMA PassEnded ==
    ASSUME ServiceTypes, NEW r \in Runs,
           NEW end \in {"none", "ok", "err", "cancelled"}, PassEnds(r, end)
    PROVE  /\ \/ rpc' = [rpc EXCEPT ![r] = "pass"] /\ outcome' = outcome
              \/ rpc' = [rpc EXCEPT ![r] = "cleanup"]
           /\ \A q \in Runs \ {r} : left'[q] = left[q] /\ outcome'[q] = outcome[q]
           /\ left' \in [Runs -> 0..MapPasses] /\ useful' \in [Runs -> BOOLEAN]
           /\ outcome' \in [Runs -> {"none", "ok", "err", "cancelled"}]
           /\ outcome' = outcome \/ outcome'[r] /= "ok"
              \/ (left[r] = 0 /\ left' = left /\ rpc'[r] = "cleanup")
<1> USE DEF ServiceTypes, EndRun, GotoRun
<1>1. CASE end = "cancelled" \/ left[r] = 0
  <2>1. EndRun(r, end) /\ UNCHANGED <<left, useful>>
    BY <1>1 DEF PassEnds
  <2>2. outcome' = [outcome EXCEPT ![r] = end]
        /\ rpc' = [rpc EXCEPT ![r] = "cleanup"]
    BY <2>1
  <2>3. rpc'[r] = "cleanup" /\ outcome'[r] = end
    BY <2>2, r \in Runs DEF RunLabels
  <2> QED BY <1>1, <2>1, <2>2, <2>3
<1>2. CASE end /= "cancelled" /\ left[r] /= 0
  <2>1. /\ left' = [left EXCEPT ![r] = left[r] - 1]
        /\ useful' = [useful EXCEPT ![r] = useful[r] \/ end = "ok"]
        /\ \/ outcome' = [outcome EXCEPT ![r] = "err"]
              /\ rpc' = [rpc EXCEPT ![r] = "cleanup"]
           \/ rpc' = [rpc EXCEPT ![r] = "pass"] /\ outcome' = outcome
    BY <1>2 DEF PassEnds
  <2>2. left[r] \in 0..MapPasses /\ left[r] - 1 \in 0..MapPasses
    BY <1>2, AssistantAssumption
  <2>3. left' \in [Runs -> 0..MapPasses]
        /\ \A q \in Runs \ {r} : left'[q] = left[q]
    BY <2>1, <2>2
  <2>4. useful' \in [Runs -> BOOLEAN]
    BY <2>1, Zenon
  <2> QED BY <2>1, <2>3, <2>4
<1> QED BY <1>1, <1>2

(* What a run leaves in the row. *)
LEMMA OutcomeStored ==
    ASSUME ServiceTypes, NEW r \in Runs, StoreOutcome(r)
    PROVE  /\ rowStatus' \in {"none", "completed", "failed", "cancelled"}
           /\ rowText' = rowText \/ (rowText' = r /\ outcome[r] = "ok")
<1>1. CASE HasRow
  BY <1>1 DEF StoreOutcome, ServiceTypes
<1>2. CASE ~HasRow
  BY <1>2 DEF StoreOutcome, ServiceTypes, rowVars
<1> QED BY <1>1, <1>2

(* Every step keeps the types of the service. *)
LEMMA ServiceTypesStep ==
    ASSUME SidecarTypeOK, ServiceTypes, [Next]_vars
    PROVE  ServiceTypes'
<1>1. ASSUME NEW r \in Runs, ServiceStep(r) PROVE ServiceTypes'
  <2>1. CASE Register(r)
    BY <2>1, AssistantAssumption DEF Register, GotoRun, extractVars, rowVars,
       ServiceTypes, RunLabels, HasRow
  <2>2. CASE Resolve(r)
    BY <2>2, AssistantAssumption DEF Resolve, GotoRun, extractVars, rowVars,
       runHistory, ServiceTypes, RunLabels, HasRow
  <2>3. CASE PassIsStopped(r)
    BY <2>3, AssistantAssumption DEF PassIsStopped, GotoRun, EndRun,
       extractVars, rowVars, runHistory, ServiceTypes, RunLabels, HasRow
  <2>4. CASE AskBuiltin(r)
    <3>1. PICK f \in BuiltinModels :
             IF Present(f)
             THEN GotoRun(r, "calling") /\ UNCHANGED <<outcome, left, useful>>
             ELSE PassEnds(r, "err")
      BY <2>4 DEF AskBuiltin
    <3>2. CASE Present(f)
      BY <2>4, <3>1, <3>2 DEF AskBuiltin, GotoRun, StopsHere, extractVars,
         rowVars, runHistory, ServiceTypes, RunLabels, HasRow
    <3>3. CASE ~Present(f)
      BY <2>4, <3>1, <3>3, PassEnded DEF AskBuiltin, StopsHere, extractVars,
         rowVars, runHistory, ServiceTypes, RunLabels, HasRow
    <3> QED BY <3>2, <3>3
  <2>5. CASE BuiltinAnswers(r)
    <3>1. PICK end \in {"none", "ok", "err", "cancelled"} : PassEnds(r, end)
      BY <2>5, CallKinds DEF BuiltinAnswers, SidecarTypeOK
    <3> QED BY <2>5, <3>1, PassEnded DEF BuiltinAnswers, sidecarVars,
               extractVars, rowVars, runHistory, ServiceTypes, RunLabels,
               HasRow
  <2>6. CASE AskRemote(r)
    BY <2>6, AssistantAssumption DEF AskRemote, GotoRun, extractVars, rowVars,
       runHistory, ServiceTypes, RunLabels, HasRow
  <2>7. CASE RemoteAnswers(r)
    <3>1. PICK end \in {"none", "ok", "err", "cancelled"} : PassEnds(r, end)
      BY <2>7 DEF RemoteAnswers
    <3> QED BY <2>7, <3>1, PassEnded DEF RemoteAnswers, sidecarVars,
               extractVars, rowVars, runHistory, ServiceTypes, RunLabels,
               HasRow
  <2>8. CASE Cleanup(r)
    BY <2>8, AssistantAssumption DEF Cleanup, GotoRun, extractVars, rowVars,
       runHistory, ServiceTypes, RunLabels, HasRow
  <2>9. CASE Store(r)
    <3>1. rpc' = [rpc EXCEPT ![r] = "done"] /\ StoreOutcome(r)
      BY <2>9 DEF Store, GotoRun
    <3>2. xpc' \in [Extractions -> {"idle", "load", "calling", "replace", "done"}]
          /\ parent' \in [Extractions -> Runs \cup {NONE}]
      <4> DEFINE free == {x \in Extractions \cap made : xpc[x] = "idle"}
      <4>1. CASE outcome[r] = "ok" /\ free /= {}
        <5>1. PICK x \in free : xpc' = [xpc EXCEPT ![x] = "load"]
                                /\ parent' = [parent EXCEPT ![x] = r]
          BY <2>9, <4>1 DEF Store
        <5> QED BY <5>1 DEF ServiceTypes
      <4>2. CASE ~(outcome[r] = "ok" /\ free /= {})
        BY <2>9, <4>2 DEF Store, ServiceTypes
      <4> QED BY <4>1, <4>2
    <3> QED BY <2>9, <3>1, <3>2, OutcomeStored DEF Store, runHistory,
               ServiceTypes, RunLabels, HasRow
  <2>10. CASE StoreRefused(r)
    <3>1. rpc' = [rpc EXCEPT ![r] = "lastCleanup"] /\ StoreOutcome(r)
      BY <2>10 DEF StoreRefused, GotoRun
    <3> QED BY <2>10, <3>1, OutcomeStored DEF StoreRefused, extractVars,
               runHistory, ServiceTypes, RunLabels, HasRow
  <2> QED BY <1>1, <2>1, <2>2, <2>3, <2>4, <2>5, <2>6, <2>7, <2>8, <2>9, <2>10
     DEF ServiceStep
<1>2. ASSUME NEW x \in Extractions, ExtractionStep(x) PROVE ServiceTypes'
  <2>1. CASE ExtractionRefused(x)
    BY <2>1, AssistantAssumption DEF ExtractionRefused, GotoExtraction,
       runVars, rowVars, runHistory, ServiceTypes, RunLabels, HasRow
  <2>2. CASE AskExtraction(x)
    BY <2>2, AssistantAssumption DEF AskExtraction, GotoExtraction, runVars,
       rowVars, runHistory, ServiceTypes, RunLabels, HasRow
  <2>3. CASE ExtractionAnswered(x)
    BY <2>3, AssistantAssumption DEF ExtractionAnswered, GotoExtraction,
       runVars, rowVars, runHistory, ServiceTypes, RunLabels, HasRow
  <2>4. CASE ReplaceItems(x)
    BY <2>4, AssistantAssumption DEF ReplaceItems, GotoExtraction, runVars,
       rowVars, runHistory, ServiceTypes, RunLabels, HasRow
  <2> QED BY <1>2, <2>1, <2>2, <2>3, <2>4 DEF ExtractionStep
<1>3. ASSUME NEW r \in Runs, GenerateSummary(r) PROVE ServiceTypes'
  BY <1>3, AssistantAssumption DEF GenerateSummary, GotoRun, extractVars,
     rowVars, runHistory, ServiceTypes, RunLabels, HasRow
<1>4. ASSUME NEW x \in Extractions, Reextract(x) PROVE ServiceTypes'
  BY <1>4, AssistantAssumption DEF Reextract, GotoExtraction, runVars,
     rowVars, runHistory, ServiceTypes, RunLabels, HasRow
<1>5. ASSUME CancelSummary PROVE ServiceTypes'
  BY <1>5 DEF CancelSummary, runVars, extractVars, rowVars, ServiceTypes
<1>6. ASSUME AgentWrites PROVE ServiceTypes'
  BY <1>6, AssistantAssumption DEF AgentWrites, runVars, extractVars,
     runHistory, ServiceTypes, RunLabels, HasRow
<1>7. ASSUME SaveEdit PROVE ServiceTypes'
  BY <1>7, AssistantAssumption DEF SaveEdit, runVars, extractVars, runHistory,
     ServiceTypes, RunLabels, HasRow
<1>8. ASSUME RefreshView PROVE ServiceTypes'
  BY <1>8, AssistantAssumption DEF RefreshView, runVars, extractVars, rowVars,
     runHistory, ServiceTypes, RunLabels, HasRow
<1>9. CASE UNCHANGED <<serviceVars, cancelled>>
  BY <1>9 DEF serviceVars, runVars, extractVars, rowVars, runHistory,
     ServiceTypes, RunLabels, HasRow
<1> QED BY ServiceCases, <1>1, <1>2, <1>3, <1>4, <1>5, <1>6, <1>7, <1>8, <1>9
   DEF ServiceNext

(* Every step keeps the registry, the outcomes and the row in line. *)
LEMMA RegisteredStep ==
    ASSUME SidecarTypeOK, ServiceTypes, RegisteredOK, [Next]_vars
    PROVE  RegisteredOK'
<1>1. ASSUME NEW r \in Runs, ServiceStep(r) PROVE RegisteredOK'
  <2>1. CASE Register(r)
    BY <2>1, AssistantAssumption DEF Register, GotoRun, extractVars, rowVars,
       RegisteredOK, ServiceTypes, RunLabels, OwnsEntry, HasRow
  <2>2. CASE Resolve(r)
    BY <2>2, AssistantAssumption DEF Resolve, GotoRun, extractVars, rowVars,
       runHistory, RegisteredOK, ServiceTypes, RunLabels, OwnsEntry, HasRow
  <2>3. CASE PassIsStopped(r)
    BY <2>3, AssistantAssumption DEF PassIsStopped, GotoRun, EndRun,
       extractVars, rowVars, runHistory, RegisteredOK, ServiceTypes,
       RunLabels, OwnsEntry, HasRow
  <2>4. CASE AskBuiltin(r)
    <3>1. PICK f \in BuiltinModels :
             IF Present(f)
             THEN GotoRun(r, "calling") /\ UNCHANGED <<outcome, left, useful>>
             ELSE PassEnds(r, "err")
      BY <2>4 DEF AskBuiltin
    <3>2. CASE Present(f)
      BY <2>4, <3>1, <3>2 DEF AskBuiltin, GotoRun, StopsHere, extractVars,
         rowVars, runHistory, RegisteredOK, ServiceTypes, RunLabels
    <3>3. CASE ~Present(f)
      BY <2>4, <3>1, <3>3, PassEnded DEF AskBuiltin, StopsHere, extractVars,
         rowVars, runHistory, RegisteredOK, ServiceTypes, RunLabels
    <3> QED BY <3>2, <3>3
  <2>5. CASE BuiltinAnswers(r)
    <3>1. PICK end \in {"none", "ok", "err", "cancelled"} : PassEnds(r, end)
      BY <2>5, CallKinds DEF BuiltinAnswers, SidecarTypeOK
    <3> QED BY <2>5, <3>1, PassEnded DEF BuiltinAnswers, sidecarVars,
               extractVars, rowVars, runHistory, RegisteredOK, ServiceTypes,
               RunLabels
  <2>6. CASE AskRemote(r)
    BY <2>6, AssistantAssumption DEF AskRemote, GotoRun, extractVars, rowVars,
       runHistory, RegisteredOK, ServiceTypes, RunLabels, OwnsEntry, HasRow
  <2>7. CASE RemoteAnswers(r)
    <3>1. PICK end \in {"none", "ok", "err", "cancelled"} : PassEnds(r, end)
      BY <2>7 DEF RemoteAnswers
    <3> QED BY <2>7, <3>1, PassEnded DEF RemoteAnswers, sidecarVars,
               extractVars, rowVars, runHistory, RegisteredOK, ServiceTypes,
               RunLabels
  <2>8. CASE Cleanup(r)
    BY <2>8, AssistantAssumption DEF Cleanup, GotoRun, extractVars, rowVars,
       runHistory, RegisteredOK, ServiceTypes, RunLabels, OwnsEntry, HasRow
  <2>9. CASE Store(r)
    <3>1. rpc' = [rpc EXCEPT ![r] = "done"] /\ StoreOutcome(r)
      BY <2>9 DEF Store, GotoRun
    <3> QED BY <2>9, <3>1, OutcomeStored DEF Store, runHistory, RegisteredOK,
               ServiceTypes, RunLabels, rowVars
  <2>10. CASE StoreRefused(r)
    <3>1. rpc' = [rpc EXCEPT ![r] = "lastCleanup"] /\ StoreOutcome(r)
      BY <2>10 DEF StoreRefused, GotoRun
    <3> QED BY <2>10, <3>1, OutcomeStored DEF StoreRefused, extractVars,
               runHistory, RegisteredOK, ServiceTypes, RunLabels, rowVars
  <2> QED BY <1>1, <2>1, <2>2, <2>3, <2>4, <2>5, <2>6, <2>7, <2>8, <2>9, <2>10
     DEF ServiceStep
<1>2. ASSUME NEW x \in Extractions, ExtractionStep(x) PROVE RegisteredOK'
  <2>1. CASE ExtractionRefused(x)
    BY <2>1, AssistantAssumption DEF ExtractionRefused, GotoExtraction,
       runVars, rowVars, runHistory, RegisteredOK, ServiceTypes, RunLabels,
       OwnsEntry, HasRow
  <2>2. CASE AskExtraction(x)
    BY <2>2, AssistantAssumption DEF AskExtraction, GotoExtraction, runVars,
       rowVars, runHistory, RegisteredOK, ServiceTypes, RunLabels, OwnsEntry,
       HasRow
  <2>3. CASE ExtractionAnswered(x)
    BY <2>3, AssistantAssumption DEF ExtractionAnswered, GotoExtraction,
       runVars, rowVars, runHistory, RegisteredOK, ServiceTypes, RunLabels,
       OwnsEntry, HasRow
  <2>4. CASE ReplaceItems(x)
    BY <2>4, AssistantAssumption DEF ReplaceItems, GotoExtraction, runVars,
       rowVars, runHistory, RegisteredOK, ServiceTypes, RunLabels, OwnsEntry,
       HasRow
  <2> QED BY <1>2, <2>1, <2>2, <2>3, <2>4 DEF ExtractionStep
<1>3. ASSUME NEW r \in Runs, GenerateSummary(r) PROVE RegisteredOK'
  BY <1>3, AssistantAssumption DEF GenerateSummary, GotoRun, extractVars,
     rowVars, runHistory, RegisteredOK, ServiceTypes, RunLabels, OwnsEntry,
     HasRow
<1>4. ASSUME NEW x \in Extractions, Reextract(x) PROVE RegisteredOK'
  BY <1>4, AssistantAssumption DEF Reextract, GotoExtraction, runVars,
     rowVars, runHistory, RegisteredOK, ServiceTypes, RunLabels, OwnsEntry,
     HasRow
<1>5. ASSUME CancelSummary PROVE RegisteredOK'
  BY <1>5, AssistantAssumption DEF CancelSummary, runVars, extractVars,
     rowVars, RegisteredOK, ServiceTypes, RunLabels, OwnsEntry, HasRow
<1>6. ASSUME AgentWrites PROVE RegisteredOK'
  BY <1>6, AssistantAssumption DEF AgentWrites, runVars, extractVars,
     runHistory, RegisteredOK, ServiceTypes, RunLabels, rowVars, OwnsEntry,
     HasRow
<1>7. ASSUME SaveEdit PROVE RegisteredOK'
  BY <1>7, AssistantAssumption DEF SaveEdit, runVars, extractVars, runHistory,
     RegisteredOK, ServiceTypes, RunLabels, rowVars, OwnsEntry, HasRow
<1>8. ASSUME RefreshView PROVE RegisteredOK'
  BY <1>8, AssistantAssumption DEF RefreshView, runVars, extractVars, rowVars,
     runHistory, RegisteredOK, ServiceTypes, RunLabels, OwnsEntry, HasRow
<1>9. CASE UNCHANGED <<serviceVars, cancelled>>
  BY <1>9 DEF serviceVars, runVars, extractVars, rowVars, runHistory,
     RegisteredOK, ServiceTypes, RunLabels, OwnsEntry, HasRow
<1> QED BY ServiceCases, <1>1, <1>2, <1>3, <1>4, <1>5, <1>6, <1>7, <1>8, <1>9
   DEF ServiceNext

(* A doomed run stays cancelled and never gets to a success. *)
LEMMA DoomedStep ==
    ASSUME SidecarTypeOK, ServiceTypes, RegisteredOK, DoomedOK, [Next]_vars
    PROVE  DoomedOK'
<1>1. ASSUME NEW r \in Runs, ServiceStep(r) PROVE DoomedOK'
  <2>1. CASE Register(r)
    BY <2>1, AssistantAssumption DEF Register, GotoRun, extractVars, rowVars,
       DoomedOK, ServiceTypes, RunLabels, sidecarVars, StopsHere
  <2>2. CASE Resolve(r)
    BY <2>2, AssistantAssumption DEF Resolve, GotoRun, extractVars, rowVars,
       runHistory, DoomedOK, ServiceTypes, RunLabels, sidecarVars, StopsHere
  <2>3. CASE PassIsStopped(r)
    BY <2>3, AssistantAssumption DEF PassIsStopped, GotoRun, EndRun,
       extractVars, rowVars, runHistory, DoomedOK, ServiceTypes, RunLabels,
       sidecarVars, StopsHere
  <2>4. CASE AskBuiltin(r)
    <3>1. PICK f \in BuiltinModels :
             IF Present(f)
             THEN GotoRun(r, "calling") /\ UNCHANGED <<outcome, left, useful>>
             ELSE PassEnds(r, "err")
      BY <2>4 DEF AskBuiltin
    <3>2. cancelled' = cancelled
      BY <2>4 DEF AskBuiltin, EnsureRunning, sidecarVars
    <3>3. CASE Present(f)
      BY <2>4, <3>1, <3>2, <3>3 DEF AskBuiltin, GotoRun, StopsHere,
         extractVars, rowVars, runHistory, DoomedOK, ServiceTypes, RunLabels,
         sidecarVars
    <3>4. CASE ~Present(f)
      BY <2>4, <3>1, <3>2, <3>4, PassEnded DEF AskBuiltin, StopsHere,
         extractVars, rowVars, runHistory, DoomedOK, ServiceTypes, RunLabels,
         sidecarVars
    <3> QED BY <3>3, <3>4
  <2>5. CASE BuiltinAnswers(r)
    <3>1. PICK end \in {"none", "ok", "err", "cancelled"} : PassEnds(r, end)
      BY <2>5, CallKinds DEF BuiltinAnswers, SidecarTypeOK
    <3> QED BY <2>5, <3>1, PassEnded DEF BuiltinAnswers, sidecarVars,
               extractVars, rowVars, runHistory, DoomedOK, ServiceTypes,
               RunLabels
  <2>6. CASE AskRemote(r)
    BY <2>6, AssistantAssumption DEF AskRemote, GotoRun, extractVars, rowVars,
       runHistory, DoomedOK, ServiceTypes, RunLabels, sidecarVars, StopsHere
  <2>7. CASE RemoteAnswers(r)
    <3>1. PICK end \in {"none", "ok", "err", "cancelled"} : PassEnds(r, end)
      BY <2>7 DEF RemoteAnswers
    <3> QED BY <2>7, <3>1, PassEnded DEF RemoteAnswers, sidecarVars,
               extractVars, rowVars, runHistory, DoomedOK, ServiceTypes,
               RunLabels
  <2>8. CASE Cleanup(r)
    BY <2>8, AssistantAssumption DEF Cleanup, GotoRun, extractVars, rowVars,
       runHistory, DoomedOK, ServiceTypes, RunLabels, sidecarVars, StopsHere
  <2>9. CASE Store(r)
    <3>1. rpc' = [rpc EXCEPT ![r] = "done"] /\ StoreOutcome(r)
      BY <2>9 DEF Store, GotoRun
    <3> QED BY <2>9, <3>1, OutcomeStored DEF Store, runHistory, DoomedOK,
               ServiceTypes, RunLabels, sidecarVars
  <2>10. CASE StoreRefused(r)
    <3>1. rpc' = [rpc EXCEPT ![r] = "lastCleanup"] /\ StoreOutcome(r)
      BY <2>10 DEF StoreRefused, GotoRun
    <3> QED BY <2>10, <3>1, OutcomeStored DEF StoreRefused, extractVars,
               runHistory, DoomedOK, ServiceTypes, RunLabels, sidecarVars
  <2> QED BY <1>1, <2>1, <2>2, <2>3, <2>4, <2>5, <2>6, <2>7, <2>8, <2>9, <2>10
     DEF ServiceStep
<1>2. ASSUME NEW x \in Extractions, ExtractionStep(x) PROVE DoomedOK'
  <2>1. CASE ExtractionRefused(x)
    BY <2>1, AssistantAssumption DEF ExtractionRefused, GotoExtraction,
       runVars, rowVars, runHistory, DoomedOK, ServiceTypes, RunLabels,
       sidecarVars, StopsHere
  <2>2. CASE AskExtraction(x)
    <3>1. cancelled' = cancelled
      BY <2>2 DEF AskExtraction, EnsureRunning, sidecarVars
    <3> QED BY <2>2, <3>1 DEF AskExtraction, runVars, rowVars, runHistory,
               DoomedOK
  <2>3. CASE ExtractionAnswered(x)
    BY <2>3, AssistantAssumption DEF ExtractionAnswered, GotoExtraction,
       runVars, rowVars, runHistory, DoomedOK, ServiceTypes, RunLabels,
       sidecarVars, StopsHere
  <2>4. CASE ReplaceItems(x)
    BY <2>4, AssistantAssumption DEF ReplaceItems, GotoExtraction, runVars,
       rowVars, runHistory, DoomedOK, ServiceTypes, RunLabels, sidecarVars,
       StopsHere
  <2> QED BY <1>2, <2>1, <2>2, <2>3, <2>4 DEF ExtractionStep
<1>3. ASSUME NEW r \in Runs, GenerateSummary(r) PROVE DoomedOK'
  BY <1>3, AssistantAssumption DEF GenerateSummary, GotoRun, extractVars,
     rowVars, runHistory, DoomedOK, ServiceTypes, RunLabels, sidecarVars,
     StopsHere
<1>4. ASSUME NEW x \in Extractions, Reextract(x) PROVE DoomedOK'
  BY <1>4, AssistantAssumption DEF Reextract, GotoExtraction, runVars,
     rowVars, runHistory, DoomedOK, ServiceTypes, RunLabels, sidecarVars,
     StopsHere
<1>5. ASSUME CancelSummary PROVE DoomedOK'
  BY <1>5, AssistantAssumption DEF CancelSummary, runVars, extractVars,
     rowVars, DoomedOK, ServiceTypes, RunLabels, sidecarVars, StopsHere,
     RegisteredOK
<1>6. ASSUME AgentWrites PROVE DoomedOK'
  BY <1>6, AssistantAssumption DEF AgentWrites, runVars, extractVars,
     runHistory, DoomedOK, ServiceTypes, RunLabels, sidecarVars, StopsHere
<1>7. ASSUME SaveEdit PROVE DoomedOK'
  BY <1>7, AssistantAssumption DEF SaveEdit, runVars, extractVars, runHistory,
     DoomedOK, ServiceTypes, RunLabels, sidecarVars, StopsHere
<1>8. ASSUME RefreshView PROVE DoomedOK'
  BY <1>8, AssistantAssumption DEF RefreshView, runVars, extractVars, rowVars,
     runHistory, DoomedOK, ServiceTypes, RunLabels, sidecarVars, StopsHere
<1>9. CASE UNCHANGED <<serviceVars, cancelled>>
  BY <1>9 DEF serviceVars, runVars, extractVars, rowVars, runHistory,
     DoomedOK, ServiceTypes, RunLabels, sidecarVars, StopsHere
<1> QED BY ServiceCases, <1>1, <1>2, <1>3, <1>4, <1>5, <1>6, <1>7, <1>8, <1>9
   DEF ServiceNext

(* No step takes the newest run's token out of the registry. *)
LEMMA NewestStep ==
    ASSUME SidecarTypeOK, ServiceTypes, NewestRunCancellable, [Next]_vars
    PROVE  NewestRunCancellable'
<1>1. ASSUME NEW r \in Runs, ServiceStep(r) PROVE NewestRunCancellable'
  <2>1. CASE Register(r)
    BY <2>1, AssistantAssumption DEF Register, GotoRun, extractVars, rowVars,
       NewestRunCancellable, ServiceTypes, RunLabels, OwnsEntry
  <2>2. CASE Resolve(r)
    BY <2>2, AssistantAssumption DEF Resolve, GotoRun, extractVars, rowVars,
       runHistory, NewestRunCancellable, ServiceTypes, RunLabels, OwnsEntry
  <2>3. CASE PassIsStopped(r)
    BY <2>3, AssistantAssumption DEF PassIsStopped, GotoRun, EndRun,
       extractVars, rowVars, runHistory, NewestRunCancellable, ServiceTypes,
       RunLabels, OwnsEntry
  <2>4. CASE AskBuiltin(r)
    <3>1. PICK f \in BuiltinModels :
             IF Present(f)
             THEN GotoRun(r, "calling") /\ UNCHANGED <<outcome, left, useful>>
             ELSE PassEnds(r, "err")
      BY <2>4 DEF AskBuiltin
    <3>2. CASE Present(f)
      BY <2>4, <3>1, <3>2 DEF AskBuiltin, GotoRun, StopsHere, extractVars,
         rowVars, runHistory, NewestRunCancellable, ServiceTypes, RunLabels
    <3>3. CASE ~Present(f)
      BY <2>4, <3>1, <3>3, PassEnded DEF AskBuiltin, StopsHere, extractVars,
         rowVars, runHistory, NewestRunCancellable, ServiceTypes, RunLabels
    <3> QED BY <3>2, <3>3
  <2>5. CASE BuiltinAnswers(r)
    <3>1. PICK end \in {"none", "ok", "err", "cancelled"} : PassEnds(r, end)
      BY <2>5, CallKinds DEF BuiltinAnswers, SidecarTypeOK
    <3> QED BY <2>5, <3>1, PassEnded DEF BuiltinAnswers, sidecarVars,
               extractVars, rowVars, runHistory, NewestRunCancellable,
               ServiceTypes, RunLabels
  <2>6. CASE AskRemote(r)
    BY <2>6, AssistantAssumption DEF AskRemote, GotoRun, extractVars, rowVars,
       runHistory, NewestRunCancellable, ServiceTypes, RunLabels, OwnsEntry
  <2>7. CASE RemoteAnswers(r)
    <3>1. PICK end \in {"none", "ok", "err", "cancelled"} : PassEnds(r, end)
      BY <2>7 DEF RemoteAnswers
    <3> QED BY <2>7, <3>1, PassEnded DEF RemoteAnswers, sidecarVars,
               extractVars, rowVars, runHistory, NewestRunCancellable,
               ServiceTypes, RunLabels
  <2>8. CASE Cleanup(r)
    BY <2>8, AssistantAssumption DEF Cleanup, GotoRun, extractVars, rowVars,
       runHistory, NewestRunCancellable, ServiceTypes, RunLabels, OwnsEntry
  <2>9. CASE Store(r)
    <3>1. rpc' = [rpc EXCEPT ![r] = "done"] /\ StoreOutcome(r)
      BY <2>9 DEF Store, GotoRun
    <3> QED BY <2>9, <3>1, OutcomeStored DEF Store, runHistory,
               NewestRunCancellable, ServiceTypes, RunLabels
  <2>10. CASE StoreRefused(r)
    <3>1. rpc' = [rpc EXCEPT ![r] = "lastCleanup"] /\ StoreOutcome(r)
      BY <2>10 DEF StoreRefused, GotoRun
    <3> QED BY <2>10, <3>1, OutcomeStored DEF StoreRefused, extractVars,
               runHistory, NewestRunCancellable, ServiceTypes, RunLabels
  <2> QED BY <1>1, <2>1, <2>2, <2>3, <2>4, <2>5, <2>6, <2>7, <2>8, <2>9, <2>10
     DEF ServiceStep
<1>2. ASSUME NEW x \in Extractions, ExtractionStep(x)
      PROVE NewestRunCancellable'
  <2>1. CASE ExtractionRefused(x)
    BY <2>1, AssistantAssumption DEF ExtractionRefused, GotoExtraction,
       runVars, rowVars, runHistory, NewestRunCancellable, ServiceTypes,
       RunLabels, OwnsEntry
  <2>2. CASE AskExtraction(x)
    BY <2>2, AssistantAssumption DEF AskExtraction, GotoExtraction, runVars,
       rowVars, runHistory, NewestRunCancellable, ServiceTypes, RunLabels,
       OwnsEntry
  <2>3. CASE ExtractionAnswered(x)
    BY <2>3, AssistantAssumption DEF ExtractionAnswered, GotoExtraction,
       runVars, rowVars, runHistory, NewestRunCancellable, ServiceTypes,
       RunLabels, OwnsEntry
  <2>4. CASE ReplaceItems(x)
    BY <2>4, AssistantAssumption DEF ReplaceItems, GotoExtraction, runVars,
       rowVars, runHistory, NewestRunCancellable, ServiceTypes, RunLabels,
       OwnsEntry
  <2> QED BY <1>2, <2>1, <2>2, <2>3, <2>4 DEF ExtractionStep
<1>3. ASSUME NEW r \in Runs, GenerateSummary(r) PROVE NewestRunCancellable'
  BY <1>3, AssistantAssumption DEF GenerateSummary, GotoRun, extractVars,
     rowVars, runHistory, NewestRunCancellable, ServiceTypes, RunLabels,
     OwnsEntry
<1>4. ASSUME NEW x \in Extractions, Reextract(x) PROVE NewestRunCancellable'
  BY <1>4, AssistantAssumption DEF Reextract, GotoExtraction, runVars,
     rowVars, runHistory, NewestRunCancellable, ServiceTypes, RunLabels,
     OwnsEntry
<1>5. ASSUME CancelSummary PROVE NewestRunCancellable'
  BY <1>5, AssistantAssumption DEF CancelSummary, runVars, extractVars,
     rowVars, NewestRunCancellable, ServiceTypes, RunLabels, OwnsEntry
<1>6. ASSUME AgentWrites PROVE NewestRunCancellable'
  BY <1>6, AssistantAssumption DEF AgentWrites, runVars, extractVars,
     runHistory, NewestRunCancellable, ServiceTypes, RunLabels, OwnsEntry
<1>7. ASSUME SaveEdit PROVE NewestRunCancellable'
  BY <1>7, AssistantAssumption DEF SaveEdit, runVars, extractVars, runHistory,
     NewestRunCancellable, ServiceTypes, RunLabels, OwnsEntry
<1>8. ASSUME RefreshView PROVE NewestRunCancellable'
  BY <1>8, AssistantAssumption DEF RefreshView, runVars, extractVars, rowVars,
     runHistory, NewestRunCancellable, ServiceTypes, RunLabels, OwnsEntry
<1>9. CASE UNCHANGED <<serviceVars, cancelled>>
  BY <1>9 DEF serviceVars, runVars, extractVars, rowVars, runHistory,
     NewestRunCancellable, ServiceTypes, RunLabels, OwnsEntry
<1> QED BY ServiceCases, <1>1, <1>2, <1>3, <1>4, <1>5, <1>6, <1>7, <1>8, <1>9
   DEF ServiceNext

(* The service before its first run. *)
LEMMA ServiceStarts ==
    ASSUME Init
    PROVE  ServiceTypes /\ RunsOK
<1>1. MapPasses \in Nat /\ MapPasses \in 0..MapPasses /\ 0 \in 0..MapPasses
  BY AssistantAssumption
<1>2. ServiceTypes
  BY <1>1 DEF Init, ServiceTypes, RunLabels
<1>3. NONE \notin Runs
  BY AssistantAssumption, SidecarAssumption
<1> QED BY <1>2, <1>3
      DEF Init, RunsOK, RegisteredOK, DoomedOK, NewestRunCancellable

(***************************************************************************)
(* Together.                                                               *)
(***************************************************************************)
AssistantInv ==
    /\ SidecarTypes /\ AnswerInv /\ FailureInv
    /\ DownloadInv
    /\ ServiceTypes /\ RunsOK

(* The invariants hold at the start. *)
LEMMA AssistantStarts ==
    ASSUME Init
    PROVE  AssistantInv
<1>1. SidecarTypes /\ AnswerInv /\ FailureInv
  BY SidecarTypesInit, AnswersStart, FailuresStart DEF Init
<1>2. DownloadInv
  BY DownloadsStart DEF Init
<1> QED BY <1>1, <1>2, ServiceStarts DEF AssistantInv

(* And every step keeps them. *)
LEMMA AssistantSteps ==
    ASSUME AssistantInv, [Next]_vars
    PROVE  AssistantInv'
<1>1. TypeOK
  BY TypesOfParts DEF AssistantInv, SidecarTypes, DownloadInv, DownloadTypes
<1>2. SidecarTypes' /\ AnswerInv' /\ FailureInv'
  BY <1>1, SidecarSteps, SidecarTypesStep, AnswersStep, FailuresStep
     DEF AssistantInv
<1>3. DownloadInv'
  BY DownloadSteps, DownloadsStep DEF AssistantInv
<1>4. ServiceTypes' /\ RunsOK'
  BY ServiceTypesStep, RegisteredStep, DoomedStep, NewestStep
     DEF AssistantInv, RunsOK, SidecarTypes
<1> QED BY <1>2, <1>3, <1>4 DEF AssistantInv

(* The inductive invariant of the composition holds of every behaviour:    *)
(* the pipes of the helper, the files of the models, the registry and the  *)
(* row are each in the state the others count on.                          *)
THEOREM Invariance == Spec => []AssistantInv
<1>1. AssistantInv /\ UNCHANGED vars => AssistantInv'
  BY AssistantSteps
<1> QED BY AssistantStarts, AssistantSteps, PTL DEF Spec

(* Every variable of the service, the manager of the helper and the        *)
(* downloads keeps its type, whatever overlaps.                            *)
THEOREM TypeCorrect == Spec => []TypeOK
<1>1. AssistantInv => TypeOK
  BY TypesOfParts DEF AssistantInv, SidecarTypes, DownloadInv, DownloadTypes
<1> QED BY <1>1, Invariance, PTL

(* A generation is given the text it asked for, unless the helper was left *)
(* with an answer that somebody stopped waiting for.                       *)
THEOREM AnswersGoToTheirCalls == Spec => []OwnAnswer
<1>1. AssistantInv => OwnAnswer
  BY DEF AssistantInv, AnswerInv, OwnOrStale, OwnAnswer
<1> QED BY <1>1, Invariance, PTL

(* A generation that finds a pipe of its helper missing or at its end has  *)
(* met another user of the manager, or a helper has crashed or got stuck.  *)
THEOREM FailuresHaveCauses == Spec => []BrokenHasCause
<1>1. AssistantInv => BrokenHasCause
  BY DEF AssistantInv, FailureInv, Untroubled, BrokenHasCause
<1> QED BY <1>1, Invariance, PTL

(* The run registered last is the one the registry can cancel while it     *)
(* generates: an older run's cleanup does not take its token away.         *)
THEOREM NewestStaysCancellable == Spec => []NewestRunCancellable
<1>1. AssistantInv => NewestRunCancellable
  BY DEF AssistantInv, RunsOK
<1> QED BY <1>1, Invariance, PTL

(* A run cancelled before its last pass never gets its text into the row.  *)
THEOREM CancelledRunLeavesRow == Spec => []CancelledRunKeepsSummary
<1>1. AssistantInv => CancelledRunKeepsSummary
  BY DEF AssistantInv, RunsOK, RegisteredOK, DoomedOK, ServiceTypes,
         CancelledRunKeepsSummary
<1> QED BY <1>1, Invariance, PTL

(* A model shown as available is the whole file, or lacks only an end that *)
(* the size checks tolerate and that an interrupted or a running download  *)
(* explains, unless two parties worked on it, a scan was stored late or    *)
(* its download is about to say that it failed.                            *)
THEOREM AvailableFilesAreIntact == Spec => []AvailableIsIntact
<1>1. AssistantInv => AvailableIsIntact
  BY IntactFromLarge DEF AssistantInv, DownloadInv
<1> QED BY <1>1, Invariance, PTL

(* One manager runs two downloads of a model only after a cancellation.    *)
THEOREM DownloadsAreGuarded == Spec => []OneDownload
<1>1. AssistantInv => OneDownload
  BY DEF AssistantInv, DownloadInv
<1> QED BY <1>1, Invariance, PTL

(* "Downloading" is shown while a download runs, but for the engine after  *)
(* a cancellation and for a manager whose scan was late.                   *)
THEOREM ShownDownloadsRun == Spec => []NoPhantomDownload
<1>1. AssistantInv => NoPhantomDownload
  BY DEF AssistantInv, DownloadInv
<1> QED BY <1>1, Invariance, PTL

(* Inside the composition the manager of the helper and the downloads each *)
(* behave as on their own: whatever the service does, it only calls them.  *)
THEOREM ImplementsParts ==
    Spec => /\ SidecarInit /\ [][SidecarNext]_sidecarVars
            /\ [][DownloadNext]_downloadVars
<1>1. Init => SidecarInit
  BY DEF Init
<1>2. TypeOK /\ [Next]_vars => [SidecarNext]_sidecarVars
  BY SidecarSteps
<1>3. [Next]_vars => [DownloadNext]_downloadVars
  BY DownloadSteps
<1> QED BY <1>1, <1>2, <1>3, TypeCorrect, PTL DEF Spec

============================================================================
