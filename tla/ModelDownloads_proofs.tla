----------------------- MODULE ModelDownloads_proofs -----------------------
(***************************************************************************)
(* What ModelDownloads promises for any number of downloads, models and    *)
(* chunks, whoever else takes steps beside it: its steps are DownloadNext, *)
(* and Assistant_proofs shows that the composition takes no others.        *)
(***************************************************************************)
EXTENDS ModelDownloads, SequenceTheorems, TLAPS

(* The steps of the downloads, the windows and the scans. *)
DownloadNext ==
    \/ \E d \in Downloads : NetworkStep(d) \/ TaskStep(d)
    \/ \E m \in Managers : \E f \in ModelsOf(m) :
          \/ \E d \in Downloads : Begin(d, m, f)
          \/ CancelDownload(m, f) \/ DeleteModel(m, f)
    \/ \E m \in Managers : ScanFiles(m) \/ StoreScan(m)
    \/ RemoveCancelled

(* A download that runs is one of a manager, for a model of it. *)
TasksTyped ==
    \A d \in Downloads :
        /\ Running(d) => by[d] \in Managers /\ of[d] \in ModelsOf(by[d])
        /\ dpc[d] = "idle" => fd[d] = "none"

(* A file that is open under its name is there. *)
NamedIsThere ==
    \A d \in Downloads : fd[d] = "named" => of[d] \in Models /\ Present(of[d])

DownloadTypes == DownloadTypeOK /\ TasksTyped /\ NamedIsThere

(* A sequence built as a function on 1..n. *)
LEMMA SeqOfChunks ==
    ASSUME NEW n \in Nat, NEW s \in [1..n -> 0..Size]
    PROVE  s \in Seq(0..Size) /\ Len(s) = n
<1>1. s \in Seq(0..Size)
  BY SeqDef
<1>2. DOMAIN s = 1..n /\ DOMAIN s = 1..Len(s) /\ Len(s) \in Nat
  BY <1>1, LenProperties
<1> QED BY <1>1, <1>2

(* A manager downloads models there are. *)
LEMMA ModelsOfManager ==
    ASSUME NEW m \in Managers
    PROVE  ModelsOf(m) \subseteq Models
BY DEF ModelsOf, Models

(* The length of a file is the number of its chunks. *)
LEMMA LengthIsNat ==
    ASSUME DownloadTypeOK, NEW f \in Models
    PROVE  /\ Length(f) \in Nat
           /\ Present(f) => file[f] \in Seq(0..Size) /\ Length(f) = Len(file[f])
<1>1. CASE Present(f)
  <2>1. file[f] \in Seq(0..Size)
    BY <1>1 DEF DownloadTypeOK, Present
  <2> QED BY <1>1, <2>1, LenProperties DEF Length
<1>2. CASE ~Present(f)
  BY <1>2 DEF Length
<1> QED BY <1>1, <1>2

(* What a chunk leaves in the file is a file again. *)
LEMMA WrittenIsFile ==
    ASSUME DownloadTypeOK, NEW d \in Downloads, of[d] \in Models,
           Present(of[d]), got[d] < Size
    PROVE  Written(d) \in Seq(0..Size)
<1> DEFINE old == file[of[d]]
           at == IF append[d] THEN Len(old) + 1 ELSE got[d] + 1
           end == IF at > Len(old) THEN at ELSE Len(old)
<1>1. old \in Seq(0..Size) /\ Len(old) \in Nat /\ got[d] \in Nat /\ Size \in Nat
  BY LengthIsNat, LenProperties, DownloadsAssumption DEF DownloadTypeOK
<1>2. end \in Nat
  BY <1>1
<1>3. \A k \in 1..Len(old) : old[k] \in 0..Size
  BY <1>1, ElementOfSeq
<1>4. Written(d) = [k \in 1..end |-> IF k = at THEN got[d] + 1
                         ELSE IF k <= Len(old) THEN old[k] ELSE 0]
  BY DEF Written
<1>5. Written(d) \in [1..end -> 0..Size]
  BY <1>1, <1>2, <1>3, <1>4
<1> QED BY <1>2, <1>5, SeqOfChunks

(* What the managers find at their start is typed. *)
LEMMA InitDownloadTypes ==
    ASSUME NEW there, DownloadInitWith(there)
    PROVE  DownloadTypes
<1>1. Whole \in Seq(0..Size)
  BY SeqOfChunks, DownloadsAssumption DEF Whole
<1> QED BY <1>1
      DEF DownloadInitWith, DownloadTypes, DownloadTypeOK, TasksTyped, NamedIsThere,
          Running, Statuses, DownloadLabels, Present

(* A scan gives every model a status. *)
LEMMA FindsTyped ==
    ASSUME DownloadTypeOK, NEW m \in Managers
    PROVE  Finds(m) \in [Models -> Statuses]
BY DEF DownloadTypeOK, Finds, EngineFinds, ManagerFinds, Statuses, Managers

(* So does a task. *)
LEMMA StatusTyped ==
    ASSUME DownloadTypeOK, NEW m \in Managers, NEW f \in Models,
           NEW s \in Statuses, SetStatus(m, f, s)
    PROVE  status' \in [Managers -> [Models -> Statuses]]
BY DEF DownloadTypeOK, SetStatus

(* A removed name leaves a download that writes with its handle. *)
LEMMA RemoveTyped ==
    ASSUME DownloadTypes, NEW f \in Models, Remove(f), of' = of,
           dpc' \in [Downloads -> DownloadLabels],
           \A d \in Downloads : dpc'[d] = "idle" => dpc[d] = "idle"
    PROVE  /\ file' \in [Models -> Seq(0..Size) \cup {NONE}]
           /\ fd' \in [Downloads -> {"none", "named", "removed"}]
           /\ NamedIsThere'
           /\ \A d \in Downloads : dpc'[d] = "idle" => fd'[d] = "none"
BY DEF DownloadTypes, DownloadTypeOK, TasksTyped, NamedIsThere, Remove,
   Present

(* The manager and the model of a task that takes a step. *)
LEMMA TaskOfManager ==
    ASSUME TasksTyped, NEW d \in Downloads, Running(d)
    PROVE  by[d] \in Managers /\ of[d] \in ModelsOf(by[d]) /\ of[d] \in Models
BY ModelsOfManager DEF TasksTyped

(* Every step of the downloads keeps the types. *)
LEMMA TypesStep ==
    ASSUME DownloadTypes, [DownloadNext]_downloadVars
    PROVE  DownloadTypes'
<1> USE DEF DownloadTypes
<1>1. ASSUME NEW d \in Downloads, NetworkStep(d) PROVE DownloadTypes'
  <2>1. CASE Resumes(d)
    <3>1. by[d] \in Managers /\ of[d] \in ModelsOf(by[d]) /\ of[d] \in Models
     BY <2>1, TaskOfManager DEF Resumes, Running, DownloadTypes
    <3>2. status' \in [Managers -> [Models -> Statuses]]
      BY <2>1, <3>1, StatusTyped DEF Resumes, Statuses, ErrorStatus,
         DownloadTypes, DownloadTypeOK
    <3>3. /\ UNCHANGED <<diskVars, guardVars, by, of, got, scan, downloadHistory>>
          /\ dpc[d] = "response"
          /\ dpc' = [dpc EXCEPT ![d] = IF Present(of[d]) THEN "loop" ELSE "failed"]
          /\ fd' = IF Present(of[d]) THEN [fd EXCEPT ![d] = "named"] ELSE fd
          /\ append' \in [Downloads -> BOOLEAN]
      BY <2>1 DEF Resumes, Step, DownloadTypeOK
    <3>4. DownloadTypeOK'
      BY <3>2, <3>3 DEF DownloadTypeOK, DownloadLabels, diskVars, guardVars,
         downloadHistory
    <3>5. TasksTyped'
      BY <3>1, <3>3 DEF DownloadTypeOK, TasksTyped, Running, ModelsOf
    <3>6. NamedIsThere'
      BY <3>1, <3>3 DEF DownloadTypeOK, NamedIsThere, Present, diskVars
    <3> QED BY <3>4, <3>5, <3>6 DEF DownloadTypes
  <2>2. CASE StartsOver(d)
    <3>1. by[d] \in Managers /\ of[d] \in ModelsOf(by[d]) /\ of[d] \in Models
     BY <2>2, TaskOfManager DEF StartsOver, Running, DownloadTypes
    <3>2. status' \in [Managers -> [Models -> Statuses]]
      BY <2>2, <3>1, StatusTyped DEF StartsOver, Statuses, ErrorStatus,
         DownloadTypes, DownloadTypeOK
    <3>3. file' \in [Models -> Seq(0..Size) \cup {NONE}] /\ NamedIsThere'
      <4>1. << >> \in Seq(0..Size)
        BY EmptySeq
      <4>2. file' = [file EXCEPT ![of[d]] = << >>]
        BY <2>2 DEF StartsOver
      <4>3. file' \in [Models -> Seq(0..Size) \cup {NONE}]
        BY <4>1, <4>2 DEF DownloadTypeOK
      <4>4. << >> # NONE
        BY <4>1, DownloadsAssumption
      <4>5. \A f \in Models : Present(f) => Present(f)'
        BY <4>2, <4>4 DEF DownloadTypeOK, Present
      <4>6. Present(of[d])'
        BY <3>1, <2>2, <4>2, <4>4 DEF DownloadTypeOK, Present, StartsOver
      <4>7. of' = of /\ fd' = [fd EXCEPT ![d] = "named"]
        BY <2>2 DEF StartsOver
      <4>8. NamedIsThere'
        BY <3>1, <4>5, <4>6, <4>7 DEF DownloadTypeOK, NamedIsThere, Present
      <4> QED BY <4>3, <4>8
    <3>4. meddled' \subseteq Models
      BY <2>2, <3>1 DEF StartsOver, Meddling, DownloadTypes, DownloadTypeOK
    <3> QED BY <2>2, <3>1, <3>2, <3>3, <3>4 DEF StartsOver, Step, diskVars,
               guardVars, taskVars, downloadHistory, DownloadTypes,
               DownloadTypeOK, TasksTyped, NamedIsThere, Running, Present,
               Statuses, DownloadLabels
  <2>3. CASE Chunk(d)
    <3>1. by[d] \in Managers /\ of[d] \in ModelsOf(by[d]) /\ of[d] \in Models
     BY <2>3, TaskOfManager DEF Chunk, Running, DownloadTypes
    <3>2. status' \in [Managers -> [Models -> Statuses]]
      BY <2>3, <3>1, StatusTyped DEF Chunk, Statuses, ErrorStatus,
         DownloadTypes, DownloadTypeOK
    <3>3. file' \in [Models -> Seq(0..Size) \cup {NONE}] /\ NamedIsThere'
      BY <2>3, <3>1, WrittenIsFile, DownloadsAssumption DEF Chunk,
         DownloadTypes, DownloadTypeOK, NamedIsThere, Present
    <3> QED BY <2>3, <3>1, <3>2, <3>3 DEF Chunk, Step, diskVars, guardVars,
               taskVars, downloadHistory, DownloadTypes, DownloadTypeOK,
               TasksTyped, NamedIsThere, Running, Present, Statuses,
               DownloadLabels
  <2>4. CASE StreamEnds(d)
    <3>1. by[d] \in Managers /\ of[d] \in ModelsOf(by[d]) /\ of[d] \in Models
      BY <2>4, TaskOfManager DEF StreamEnds, Running, DownloadTypes
    <3>2. CASE CameWhole(d)
      <4>1. status' \in [Managers -> [Models -> Statuses]]
        BY <2>4, <3>1, <3>2, StatusTyped DEF StreamEnds, Statuses,
           DownloadTypes
      <4> QED BY <2>4, <3>1, <3>2, <4>1 DEF StreamEnds, Step, diskVars,
                 guardVars, taskVars, downloadHistory, DownloadTypes,
                 DownloadTypeOK, TasksTyped, NamedIsThere, Running, Present,
                 Statuses, DownloadLabels
    <3>3. CASE ~CameWhole(d)
      <4>1. /\ file' \in [Models -> Seq(0..Size) \cup {NONE}]
            /\ fd' \in [Downloads -> {"none", "named", "removed"}]
            /\ NamedIsThere'
            /\ \A e \in Downloads : dpc'[e] = "idle" => fd'[e] = "none"
        <5>1. Remove(of[d]) /\ of' = of /\ dpc' = [dpc EXCEPT ![d] = "failed"]
          BY <2>4, <3>3 DEF StreamEnds, Step
        <5> QED BY <3>1, <5>1, RemoveTyped DEF DownloadTypes, DownloadTypeOK,
                   DownloadLabels
      <4>2. meddled' \subseteq Models
        BY <2>4, <3>1, <3>3 DEF StreamEnds, Meddling, DownloadTypes,
           DownloadTypeOK
      <4> QED BY <2>4, <3>1, <3>3, <4>1, <4>2 DEF StreamEnds, Step, diskVars,
                 guardVars, taskVars, downloadHistory, DownloadTypes,
                 DownloadTypeOK, TasksTyped, NamedIsThere, Running, Present,
                 Statuses, DownloadLabels
    <3> QED BY <3>2, <3>3
  <2>5. CASE NetworkFails(d)
    BY <2>5, TaskOfManager DEF NetworkFails, Step, LeavesPart, diskVars, guardVars,
       downloadHistory, DownloadTypeOK, TasksTyped, NamedIsThere, Running,
       Present, Statuses, DownloadLabels
  <2> QED BY <1>1, <2>1, <2>2, <2>3, <2>4, <2>5 DEF NetworkStep
<1>2. ASSUME NEW d \in Downloads, TaskStep(d) PROVE DownloadTypes'
  <2>1. CASE AlreadyThere(d)
    BY <2>1, ModelsOfManager DEF AlreadyThere, Step, SetStatus, Finish,
       diskVars, downloadHistory, DownloadTypeOK, TasksTyped, NamedIsThere,
       Running, Present, Statuses, DownloadLabels
  <2>2. CASE Prepare(d)
    <3>1. /\ dpc' = [dpc EXCEPT ![d] = "request"] /\ dpc[d] = "prepare"
          /\ UNCHANGED <<removal, guarded, cancelFlag, status, by, of, got,
                         append, scan, dropped, meddled, interrupted, outdated>>
      BY <2>2 DEF Prepare, Step, guardVars, downloadHistory
    <3>2. of[d] \in Models
      BY <2>2, ModelsOfManager DEF Prepare, DownloadTypes, TasksTyped, Running
    <3>3. /\ file' \in [Models -> Seq(0..Size) \cup {NONE}]
          /\ fd' \in [Downloads -> {"none", "named", "removed"}]
          /\ \A e \in Downloads : /\ fd[e] = "none" => fd'[e] = "none"
                                  /\ fd'[e] = "named" => /\ fd[e] = "named"
                                                         /\ file'[of[e]] = file[of[e]]
      <4>1. CASE Length(of[d]) > Most
        BY <2>2, <3>2, <4>1 DEF Prepare, Remove, DownloadTypes,
           DownloadTypeOK, NamedIsThere
      <4>2. CASE ~(Length(of[d]) > Most)
        BY <2>2, <4>2 DEF Prepare, DownloadTypes, DownloadTypeOK
      <4> QED BY <4>1, <4>2
    <3>4. DownloadTypeOK'
      BY <3>1, <3>3 DEF DownloadTypes, DownloadTypeOK, DownloadLabels
    <3>5. TasksTyped'
      BY <3>1, <3>3 DEF DownloadTypes, DownloadTypeOK, TasksTyped, Running,
         ModelsOf
    <3>6. NamedIsThere'
      BY <3>1, <3>3 DEF DownloadTypes, NamedIsThere, Present
    <3> QED BY <3>4, <3>5, <3>6 DEF DownloadTypes
  <2>3. CASE Request(d)
    BY <2>3, ModelsOfManager, LengthIsNat DEF Request, Step, diskVars,
       guardVars, downloadHistory, DownloadTypeOK, TasksTyped, NamedIsThere,
       Running, Present, Statuses, DownloadLabels
  <2>4. CASE CheckFlag(d)
    BY <2>4, ModelsOfManager DEF CheckFlag, Step, diskVars, guardVars,
       downloadHistory, DownloadTypeOK, TasksTyped, NamedIsThere, Running,
       Present, Statuses, DownloadLabels
  <2>5. CASE TimesOut(d)
    BY <2>5, TaskOfManager DEF TimesOut, Step, LeavesPart, diskVars, guardVars,
       downloadHistory, DownloadTypeOK, TasksTyped, NamedIsThere, Running,
       Present, Statuses, DownloadLabels
  <2>6. CASE Validate(d)
    <3>1. by[d] \in Managers /\ of[d] \in ModelsOf(by[d]) /\ of[d] \in Models
      BY <2>6, TaskOfManager DEF Validate, Running, DownloadTypes
    <3>2. status' \in [Managers -> [Models -> Statuses]]
      BY <2>6, <3>1, StatusTyped DEF Validate, Statuses, ErrorStatus,
         DownloadTypes
    <3>3. CASE HasMagic(of[d])
      BY <2>6, <3>1, <3>2, <3>3 DEF Validate, Step, Finish, diskVars,
         guardVars, taskVars, downloadHistory, DownloadTypes, DownloadTypeOK,
         TasksTyped, NamedIsThere, Running, Present, Statuses, DownloadLabels
    <3>4. CASE ~HasMagic(of[d])
      <4>1. /\ file' \in [Models -> Seq(0..Size) \cup {NONE}]
            /\ fd' \in [Downloads -> {"none", "named", "removed"}]
            /\ NamedIsThere'
            /\ \A e \in Downloads : dpc'[e] = "idle" => fd'[e] = "none"
        <5>1. Remove(of[d]) /\ of' = of /\ dpc' = [dpc EXCEPT ![d] = "done"]
          BY <2>6, <3>4 DEF Validate, Step
        <5> QED BY <3>1, <5>1, RemoveTyped DEF DownloadTypes, DownloadTypeOK,
                   DownloadLabels
      <4>2. meddled' \subseteq Models
        BY <2>6, <3>1, <3>4 DEF Validate, Meddling, DownloadTypes,
           DownloadTypeOK
      <4> QED BY <2>6, <3>1, <3>2, <3>4, <4>1, <4>2 DEF Validate, Step,
                 Finish, diskVars, guardVars, taskVars, downloadHistory,
                 DownloadTypes, DownloadTypeOK, TasksTyped, NamedIsThere,
                 Running, Present, Statuses, DownloadLabels
    <3> QED BY <3>3, <3>4
  <2>7. CASE EndCancelled(d)
    <3>1. by[d] \in Managers /\ of[d] \in ModelsOf(by[d]) /\ of[d] \in Models
     BY <2>7, TaskOfManager DEF EndCancelled, Running, DownloadTypes
    <3>2. status' \in [Managers -> [Models -> Statuses]]
      BY <2>7, <3>1, StatusTyped DEF EndCancelled, Statuses, ErrorStatus,
         DownloadTypes, DownloadTypeOK
    <3> QED BY <2>7, <3>1, <3>2 DEF EndCancelled, Step, Finish, diskVars,
               guardVars, taskVars, downloadHistory, DownloadTypes,
               DownloadTypeOK, TasksTyped, NamedIsThere, Running, Present,
               Statuses, DownloadLabels
  <2>8. CASE EndFailed(d)
    BY <2>8, ModelsOfManager DEF EndFailed, Step, SetStatus, Finish,
       ErrorStatus, diskVars, downloadHistory, DownloadTypeOK, TasksTyped,
       NamedIsThere, Running, Present, Statuses, DownloadLabels
  <2> QED BY <1>2, <2>1, <2>2, <2>3, <2>4, <2>5, <2>6, <2>7, <2>8 DEF TaskStep
<1>3. ASSUME NEW m \in Managers, NEW f \in ModelsOf(m), NEW d \in Downloads, Begin(d, m,
             f)
      PROVE  DownloadTypes'
  <2>1. f \in Models
    BY ModelsOfManager
  <2>2. CASE Admits(m, f)
    <3>1. status' \in [Managers -> [Models -> Statuses]]
      BY <1>3, <2>1, <2>2, StatusTyped DEF Begin, Statuses, DownloadTypes
    <3>2. fd[d] = "none" /\ fd' = fd /\ file' = file
      BY <1>3 DEF Begin, DownloadTypes, TasksTyped, diskVars
    <3>3. NamedIsThere'
      BY <1>3, <2>2, <3>2 DEF Begin, DownloadTypes, DownloadTypeOK,
         NamedIsThere, Present
    <3>4. TasksTyped'
      BY <1>3, <2>1, <2>2, <3>2 DEF Begin, Step, DownloadTypes,
         DownloadTypeOK, TasksTyped, Running
    <3>5. /\ guarded' \in [Managers -> SUBSET Models]
          /\ cancelFlag' \in [Managers -> Models \cup {NONE}]
          /\ meddled' \subseteq Models
      <4>1. guarded[m] \cup {f} \in SUBSET Models
        BY <2>1 DEF DownloadTypes, DownloadTypeOK
      <4>2. guarded' \in [Managers -> SUBSET Models]
        <5>1. guarded' = [guarded EXCEPT ![m] = guarded[m] \cup {f}]
          BY <1>3, <2>2 DEF Begin
        <5> QED BY <4>1, <5>1 DEF DownloadTypes, DownloadTypeOK
      <4>3. cancelFlag' \in [Managers -> Models \cup {NONE}]
        BY <1>3, <2>2 DEF Begin, DownloadTypes, DownloadTypeOK
      <4>4. meddled' \subseteq Models
        BY <1>3, <2>1, <2>2 DEF Begin, DownloadTypes, DownloadTypeOK
      <4> QED BY <4>2, <4>3, <4>4
    <3>6. /\ dpc' \in [Downloads -> DownloadLabels]
          /\ by' \in [Downloads -> Managers \cup {NONE}]
          /\ of' \in [Downloads -> Models \cup {NONE}]
      BY <1>3, <2>1, <2>2 DEF Begin, Step, DownloadTypes, DownloadTypeOK,
         DownloadLabels
    <3>7. DownloadTypeOK'
      BY <1>3, <3>1, <3>2, <3>5, <3>6 DEF Begin, diskVars, DownloadTypes,
         DownloadTypeOK
    <3> QED BY <3>3, <3>4, <3>7 DEF DownloadTypes
  <2>3. CASE ~Admits(m, f)
    BY <1>3, <2>1, <2>3 DEF Begin, Step, diskVars, guardVars, taskVars,
       downloadHistory, DownloadTypes, DownloadTypeOK, TasksTyped,
       NamedIsThere, Running, Present, Statuses, DownloadLabels
  <2> QED BY <2>2, <2>3
<1>4. ASSUME NEW m \in Managers, NEW f \in ModelsOf(m), CancelDownload(m, f)
      PROVE  DownloadTypes'
  BY <1>4, ModelsOfManager DEF CancelDownload, SetStatus, taskVars,
     DownloadTypeOK, TasksTyped, NamedIsThere, Running, Present, Statuses,
     DownloadLabels
<1>5. ASSUME NEW m \in Managers, NEW f \in ModelsOf(m), DeleteModel(m, f)
      PROVE  DownloadTypes'
  <2>1. f \in Models
    BY ModelsOfManager
  <2>2. status' \in [Managers -> [Models -> Statuses]]
    BY <1>5, <2>1, StatusTyped DEF DeleteModel, Statuses, DownloadTypes
  <2>3. /\ file' \in [Models -> Seq(0..Size) \cup {NONE}]
        /\ fd' \in [Downloads -> {"none", "named", "removed"}]
        /\ NamedIsThere'
        /\ \A d \in Downloads : dpc'[d] = "idle" => fd'[d] = "none"
    BY <1>5, <2>1, RemoveTyped DEF DeleteModel, DownloadTypes, DownloadTypeOK
  <2>4. meddled' \subseteq Models
    BY <1>5, <2>1 DEF DeleteModel, Meddling, DownloadTypes, DownloadTypeOK
  <2> QED BY <1>5, <2>2, <2>3, <2>4 DEF DeleteModel, diskVars, guardVars,
             taskVars, downloadHistory, DownloadTypes, DownloadTypeOK,
             TasksTyped, NamedIsThere, Running, Present, Statuses,
             DownloadLabels
<1>6. ASSUME NEW m \in Managers, ScanFiles(m)
      PROVE  DownloadTypes'
  BY <1>6, ModelsOfManager, FindsTyped DEF ScanFiles, diskVars, guardVars,
     taskVars, downloadHistory, DownloadTypeOK, TasksTyped, NamedIsThere,
     Running, Present, Statuses, DownloadLabels
<1>7. ASSUME NEW m \in Managers, StoreScan(m)
      PROVE  DownloadTypes'
  BY <1>7, ModelsOfManager DEF StoreScan, diskVars, guardVars, taskVars,
     DownloadTypeOK, TasksTyped, NamedIsThere, Running, Present, Statuses,
     DownloadLabels
<1>8. ASSUME RemoveCancelled
      PROVE  DownloadTypes'
  BY <1>8, ModelsOfManager DEF RemoveCancelled, Remove, guardVars,
     DownloadTypeOK, TasksTyped, NamedIsThere, Running, Present, Statuses,
     DownloadLabels
<1>9. CASE UNCHANGED downloadVars
  BY <1>9, ModelsOfManager DEF downloadVars, diskVars, guardVars, taskVars,
     downloadHistory, DownloadTypeOK, TasksTyped, NamedIsThere, Running,
     Present, Statuses, DownloadLabels
<1> QED BY <1>1, <1>2, <1>3, <1>4, <1>5, <1>6, <1>7, <1>8, <1>9 DEF
   DownloadNext

(* A download that runs is registered, or a cancellation has let go of it. *)
ActiveOrDropped ==
    \A d \in Downloads :
        Running(d) => of[d] \in guarded[by[d]] \/ <<by[d], of[d]>> \in dropped

(* A second download of a model is let in only after a cancellation. *)
LEMMA OneDownloadStep ==
    ASSUME DownloadTypes, ActiveOrDropped, OneDownload,
           [DownloadNext]_downloadVars
    PROVE  ActiveOrDropped' /\ OneDownload'
<1>1. ASSUME NEW d \in Downloads, NetworkStep(d)
      PROVE ActiveOrDropped' /\ OneDownload'
  <2>1. CASE Resumes(d)
    BY <2>1 DEF Resumes, Step, SetStatus, diskVars, guardVars,
       downloadHistory, DownloadTypes, DownloadTypeOK, TasksTyped, Running,
       ActiveOrDropped, OneDownload
  <2>2. CASE StartsOver(d)
    BY <2>2 DEF StartsOver, Step, SetStatus, guardVars, DownloadTypes,
       DownloadTypeOK, TasksTyped, Running, ActiveOrDropped, OneDownload
  <2>3. CASE Chunk(d)
    BY <2>3 DEF Chunk, Step, SetStatus, guardVars, downloadHistory,
       DownloadTypes, DownloadTypeOK, TasksTyped, Running, ActiveOrDropped,
       OneDownload
  <2>4. CASE StreamEnds(d)
    BY <2>4 DEF StreamEnds, Step, SetStatus, Remove, guardVars, DownloadTypes,
       DownloadTypeOK, TasksTyped, Running, ActiveOrDropped, OneDownload
  <2>5. CASE NetworkFails(d)
    BY <2>5 DEF NetworkFails, Step, diskVars, guardVars, downloadHistory,
       DownloadTypes, DownloadTypeOK, TasksTyped, Running, ActiveOrDropped,
       OneDownload
  <2> QED BY <1>1, <2>1, <2>2, <2>3, <2>4, <2>5 DEF NetworkStep
<1>2. ASSUME NEW d \in Downloads, TaskStep(d)
      PROVE ActiveOrDropped' /\ OneDownload'
  <2>1. CASE AlreadyThere(d)
    BY <2>1 DEF AlreadyThere, Step, SetStatus, Finish, diskVars,
       downloadHistory, DownloadTypes, DownloadTypeOK, TasksTyped, Running,
       ActiveOrDropped, OneDownload
  <2>2. CASE Prepare(d)
    BY <2>2 DEF Prepare, Step, Remove, guardVars, downloadHistory,
       DownloadTypes, DownloadTypeOK, TasksTyped, Running, ActiveOrDropped,
       OneDownload
  <2>3. CASE Request(d)
    BY <2>3 DEF Request, Step, diskVars, guardVars, downloadHistory,
       DownloadTypes, DownloadTypeOK, TasksTyped, Running, ActiveOrDropped,
       OneDownload
  <2>4. CASE CheckFlag(d)
    BY <2>4 DEF CheckFlag, Step, diskVars, guardVars, downloadHistory,
       DownloadTypes, DownloadTypeOK, TasksTyped, Running, ActiveOrDropped,
       OneDownload
  <2>5. CASE TimesOut(d)
    BY <2>5 DEF TimesOut, Step, diskVars, guardVars, downloadHistory,
       DownloadTypes, DownloadTypeOK, TasksTyped, Running, ActiveOrDropped,
       OneDownload
  <2>6. CASE Validate(d)
    BY <2>6 DEF Validate, Step, SetStatus, Remove, Finish, ErrorStatus,
       DownloadTypes, DownloadTypeOK, TasksTyped, Running, ActiveOrDropped,
       OneDownload
  <2>7. CASE EndCancelled(d)
    BY <2>7 DEF EndCancelled, Step, SetStatus, Finish, diskVars,
       downloadHistory, DownloadTypes, DownloadTypeOK, TasksTyped, Running,
       ActiveOrDropped, OneDownload
  <2>8. CASE EndFailed(d)
    BY <2>8 DEF EndFailed, Step, SetStatus, Finish, ErrorStatus, diskVars,
       downloadHistory, DownloadTypes, DownloadTypeOK, TasksTyped, Running,
       ActiveOrDropped, OneDownload
  <2> QED BY <1>2, <2>1, <2>2, <2>3, <2>4, <2>5, <2>6, <2>7, <2>8 DEF TaskStep
<1>3. ASSUME NEW m \in Managers, NEW f \in ModelsOf(m), NEW d \in Downloads, Begin(d, m,
             f)
      PROVE  ActiveOrDropped' /\ OneDownload'
  <2>1. CASE Admits(m, f)
    <3>1. /\ dpc' = [dpc EXCEPT ![d] = IF m = "engine" THEN "request" ELSE "prepare"]
          /\ by' = [by EXCEPT ![d] = m] /\ of' = [of EXCEPT ![d] = f]
          /\ guarded' = [guarded EXCEPT ![m] = guarded[m] \cup {f}]
          /\ dropped' = dropped
      BY <1>3, <2>1 DEF Begin, Step
    <3>2. f \notin guarded[m] /\ f \in Models
      BY <2>1, ModelsOfManager DEF Admits
    <3>3. ActiveOrDropped'
      BY <3>1, <3>2 DEF DownloadTypes, DownloadTypeOK, TasksTyped, Running,
         ActiveOrDropped
    <3>4. OneDownload'
      BY <3>1, <3>2 DEF DownloadTypes, DownloadTypeOK, TasksTyped, Running,
         ActiveOrDropped, OneDownload
    <3> QED BY <3>3, <3>4
  <2>2. CASE ~Admits(m, f)
    BY <1>3, <2>2 DEF Begin, Step, guardVars, taskVars, DownloadTypes,
       DownloadTypeOK, Running, ActiveOrDropped, OneDownload
  <2> QED BY <2>1, <2>2
<1>4. ASSUME NEW m \in Managers, NEW f \in ModelsOf(m), CancelDownload(m, f)
      PROVE  ActiveOrDropped' /\ OneDownload'
  BY <1>4, ModelsOfManager DEF CancelDownload, SetStatus, taskVars,
     DownloadTypes, DownloadTypeOK, TasksTyped, Running, ActiveOrDropped,
     OneDownload
<1>5. ASSUME NEW m \in Managers, NEW f \in ModelsOf(m), DeleteModel(m, f)
      PROVE  ActiveOrDropped' /\ OneDownload'
  BY <1>5 DEF DeleteModel, SetStatus, Remove, guardVars, DownloadTypes,
     DownloadTypeOK, TasksTyped, Running, ActiveOrDropped, OneDownload
<1>6. ASSUME NEW m \in Managers, ScanFiles(m)
      PROVE  ActiveOrDropped' /\ OneDownload'
  BY <1>6 DEF ScanFiles, diskVars, guardVars, taskVars, downloadHistory,
     DownloadTypes, DownloadTypeOK, TasksTyped, Running, ActiveOrDropped,
     OneDownload
<1>7. ASSUME NEW m \in Managers, StoreScan(m)
      PROVE  ActiveOrDropped' /\ OneDownload'
  BY <1>7 DEF StoreScan, diskVars, guardVars, taskVars, DownloadTypes,
     DownloadTypeOK, TasksTyped, Running, ActiveOrDropped, OneDownload
<1>8. ASSUME RemoveCancelled
      PROVE  ActiveOrDropped' /\ OneDownload'
  BY <1>8 DEF RemoveCancelled, Remove, guardVars, DownloadTypes,
     DownloadTypeOK, TasksTyped, Running, ActiveOrDropped, OneDownload
<1>9. CASE UNCHANGED downloadVars
  BY <1>9 DEF downloadVars, diskVars, guardVars, taskVars, downloadHistory,
     DownloadTypes, DownloadTypeOK, TasksTyped, Running, ActiveOrDropped,
     OneDownload
<1> QED BY <1>1, <1>2, <1>3, <1>4, <1>5, <1>6, <1>7, <1>8, <1>9 DEF
   DownloadNext

(* Who ends as cancelled was cancelled. *)
CancelledIsDropped ==
    /\ \A m \in Managers : cancelFlag[m] # NONE => <<m, cancelFlag[m]>> \in dropped
    /\ \A d \in Downloads : dpc[d] = "cancelled" => <<by[d], of[d]>> \in dropped

(* The flag and the label of a cancelled download. *)
LEMMA CancelledStep ==
    ASSUME DownloadTypes, CancelledIsDropped, [DownloadNext]_downloadVars
    PROVE  CancelledIsDropped'
<1>1. ASSUME NEW d \in Downloads, NetworkStep(d) PROVE CancelledIsDropped'
  <2>1. CASE Resumes(d)
    BY <2>1 DEF Resumes, Step, SetStatus, diskVars, guardVars,
       downloadHistory, DownloadTypes, DownloadTypeOK, TasksTyped, Running,
       CancelledIsDropped
  <2>2. CASE StartsOver(d)
    BY <2>2 DEF StartsOver, Step, SetStatus, guardVars, DownloadTypes,
       DownloadTypeOK, TasksTyped, Running, CancelledIsDropped
  <2>3. CASE Chunk(d)
    BY <2>3 DEF Chunk, Step, SetStatus, guardVars, downloadHistory,
       DownloadTypes, DownloadTypeOK, TasksTyped, Running, CancelledIsDropped
  <2>4. CASE StreamEnds(d)
    BY <2>4 DEF StreamEnds, Step, SetStatus, Remove, guardVars, DownloadTypes,
       DownloadTypeOK, TasksTyped, Running, CancelledIsDropped
  <2>5. CASE NetworkFails(d)
    BY <2>5 DEF NetworkFails, Step, diskVars, guardVars, downloadHistory,
       DownloadTypes, DownloadTypeOK, TasksTyped, Running, CancelledIsDropped
  <2> QED BY <1>1, <2>1, <2>2, <2>3, <2>4, <2>5 DEF NetworkStep
<1>2. ASSUME NEW d \in Downloads, TaskStep(d) PROVE CancelledIsDropped'
  <2>1. CASE AlreadyThere(d)
    BY <2>1 DEF AlreadyThere, Step, SetStatus, Finish, diskVars,
       downloadHistory, DownloadTypes, DownloadTypeOK, TasksTyped, Running,
       CancelledIsDropped
  <2>2. CASE Prepare(d)
    BY <2>2 DEF Prepare, Step, Remove, guardVars, downloadHistory,
       DownloadTypes, DownloadTypeOK, TasksTyped, Running, CancelledIsDropped
  <2>3. CASE Request(d)
    BY <2>3 DEF Request, Step, diskVars, guardVars, downloadHistory,
       DownloadTypes, DownloadTypeOK, TasksTyped, Running, CancelledIsDropped
  <2>4. CASE CheckFlag(d)
    <3>1. by[d] \in Managers /\ of[d] \in Models /\ of[d] /= NONE
      BY <2>4, TaskOfManager, DownloadsAssumption DEF CheckFlag, Running,
         DownloadTypes
    <3>2. UNCHANGED <<cancelFlag, by, of, dropped>>
      BY <2>4 DEF CheckFlag, guardVars, downloadHistory
    <3>3. dpc'[d] = "cancelled" => <<by[d], of[d]>> \in dropped
      BY <2>4, <3>1 DEF CheckFlag, Step, DownloadTypes, DownloadTypeOK,
         CancelledIsDropped
    <3>4. \A e \in Downloads \ {d} : dpc'[e] = dpc[e]
      BY <2>4 DEF CheckFlag, Step, DownloadTypes, DownloadTypeOK
    <3> QED BY <3>2, <3>3, <3>4 DEF CancelledIsDropped
  <2>5. CASE TimesOut(d)
    <3>1. dropped' = dropped
      BY <2>5 DEF TimesOut
    <3> QED BY <2>5, <3>1 DEF TimesOut, Step, guardVars, DownloadTypes,
               DownloadTypeOK, CancelledIsDropped
  <2>6. CASE Validate(d)
    BY <2>6 DEF Validate, Step, SetStatus, Remove, Finish, ErrorStatus,
       DownloadTypes, DownloadTypeOK, TasksTyped, Running, CancelledIsDropped
  <2>7. CASE EndCancelled(d)
    BY <2>7 DEF EndCancelled, Step, SetStatus, Finish, diskVars,
       downloadHistory, DownloadTypes, DownloadTypeOK, TasksTyped, Running,
       CancelledIsDropped
  <2>8. CASE EndFailed(d)
    BY <2>8 DEF EndFailed, Step, SetStatus, Finish, ErrorStatus, diskVars,
       downloadHistory, DownloadTypes, DownloadTypeOK, TasksTyped, Running,
       CancelledIsDropped
  <2> QED BY <1>2, <2>1, <2>2, <2>3, <2>4, <2>5, <2>6, <2>7, <2>8 DEF TaskStep
<1>3. ASSUME NEW m \in Managers, NEW f \in ModelsOf(m), NEW d \in Downloads, Begin(d, m,
             f)
      PROVE  CancelledIsDropped'
  BY <1>3 DEF Begin, Step, SetStatus, diskVars, guardVars, DownloadTypes,
     DownloadTypeOK, TasksTyped, Running, CancelledIsDropped
<1>4. ASSUME NEW m \in Managers, NEW f \in ModelsOf(m), CancelDownload(m, f)
      PROVE  CancelledIsDropped'
  BY <1>4, ModelsOfManager DEF CancelDownload, SetStatus, taskVars,
     DownloadTypes, DownloadTypeOK, TasksTyped, Running, CancelledIsDropped
<1>5. ASSUME NEW m \in Managers, NEW f \in ModelsOf(m), DeleteModel(m, f)
      PROVE  CancelledIsDropped'
  BY <1>5 DEF DeleteModel, SetStatus, Remove, guardVars, DownloadTypes,
     DownloadTypeOK, TasksTyped, Running, CancelledIsDropped
<1>6. ASSUME NEW m \in Managers, ScanFiles(m)
      PROVE  CancelledIsDropped'
  BY <1>6 DEF ScanFiles, diskVars, guardVars, taskVars, downloadHistory,
     DownloadTypes, DownloadTypeOK, TasksTyped, Running, CancelledIsDropped
<1>7. ASSUME NEW m \in Managers, StoreScan(m)
      PROVE  CancelledIsDropped'
  BY <1>7 DEF StoreScan, diskVars, guardVars, taskVars, DownloadTypes,
     DownloadTypeOK, TasksTyped, Running, CancelledIsDropped
<1>8. ASSUME RemoveCancelled
      PROVE  CancelledIsDropped'
  BY <1>8 DEF RemoveCancelled, Remove, guardVars, DownloadTypes,
     DownloadTypeOK, TasksTyped, Running, CancelledIsDropped
<1>9. CASE UNCHANGED downloadVars
  BY <1>9 DEF downloadVars, diskVars, guardVars, taskVars, downloadHistory,
     DownloadTypes, DownloadTypeOK, TasksTyped, Running, CancelledIsDropped
<1> QED BY <1>1, <1>2, <1>3, <1>4, <1>5, <1>6, <1>7, <1>8, <1>9 DEF
   DownloadNext

(* A scan only keeps the status of a download. *)
LEMMA DownloadingIsNotFound ==
    ASSUME NEW m \in Managers, NEW f \in ModelsOf(m),
           Finds(m)[f] = "downloading"
    PROVE  status[m][f] = "downloading"
BY ModelsOfManager DEF Finds, EngineFinds, ManagerFinds

(* A download that shows itself as downloading is the explanation. *)
LEMMA OwnDownloading ==
    ASSUME DownloadTypes, NoPhantomDownload, NEW d \in Downloads,
           by[d] \in Managers, of[d] \in ModelsOf(by[d]),
           SetStatus(by[d], of[d], "downloading"), Running(d)',
           \A e \in Downloads : Running(e) => Running(e)',
           UNCHANGED <<by, of, dropped, outdated>>
    PROVE  NoPhantomDownload'
BY ModelsOfManager DEF SetStatus, DownloadTypes, DownloadTypeOK,
   NoPhantomDownload

(* A status says downloading as long as a download, or a cancellation, explains it. *)
LEMMA PhantomStep ==
    ASSUME DownloadTypes, CancelledIsDropped, OneDownload, NoPhantomDownload,
           [DownloadNext]_downloadVars
    PROVE  NoPhantomDownload'
<1>1. ASSUME NEW d \in Downloads, NetworkStep(d) PROVE NoPhantomDownload'
  <2>1. CASE Resumes(d)
    <3>1. of[d] \in ModelsOf(by[d]) /\ by[d] \in Managers
      BY <2>1, TaskOfManager DEF Resumes, Running, DownloadTypes
    <3>2. CASE Present(of[d])
      <4>1. Running(d)' /\ \A e \in Downloads : Running(e) => Running(e)'
        BY <2>1, <3>2 DEF Resumes, Step, Running, DownloadTypes,
           DownloadTypeOK
      <4> QED BY <2>1, <3>1, <3>2, <4>1, OwnDownloading DEF Resumes,
                 downloadHistory
    <3>3. CASE ~Present(of[d])
      BY <2>1, <3>1, <3>3, ModelsOfManager DEF Resumes, Step, diskVars,
         guardVars, downloadHistory, DownloadTypes, DownloadTypeOK,
         TasksTyped, Running, CancelledIsDropped, OneDownload,
         NoPhantomDownload
    <3> QED BY <3>2, <3>3
  <2>2. CASE StartsOver(d)
    BY <2>2, ModelsOfManager DEF StartsOver, Step, SetStatus, guardVars,
       DownloadTypes, DownloadTypeOK, TasksTyped, Running, CancelledIsDropped,
       OneDownload, NoPhantomDownload
  <2>3. CASE Chunk(d)
    BY <2>3, ModelsOfManager DEF Chunk, Step, SetStatus, guardVars,
       downloadHistory, DownloadTypes, DownloadTypeOK, TasksTyped, Running,
       CancelledIsDropped, OneDownload, NoPhantomDownload
  <2>4. CASE StreamEnds(d)
    <3>1. of[d] \in ModelsOf(by[d]) /\ by[d] \in Managers
      BY <2>4, TaskOfManager DEF StreamEnds, Running, DownloadTypes
    <3>2. CASE CameWhole(d)
      <4>1. Running(d)' /\ \A e \in Downloads : Running(e) => Running(e)'
        BY <2>4, <3>2 DEF StreamEnds, Step, Running, DownloadTypes,
           DownloadTypeOK
      <4> QED BY <2>4, <3>1, <3>2, <4>1, OwnDownloading DEF StreamEnds
    <3>3. CASE ~CameWhole(d)
      BY <2>4, <3>1, <3>3, ModelsOfManager DEF StreamEnds, Step, diskVars,
         guardVars, downloadHistory, DownloadTypes, DownloadTypeOK,
         TasksTyped, Running, CancelledIsDropped, OneDownload,
         NoPhantomDownload
    <3> QED BY <3>2, <3>3
  <2>5. CASE NetworkFails(d)
    BY <2>5, ModelsOfManager DEF NetworkFails, Step, diskVars, guardVars,
       downloadHistory, DownloadTypes, DownloadTypeOK, TasksTyped, Running,
       CancelledIsDropped, OneDownload, NoPhantomDownload
  <2> QED BY <1>1, <2>1, <2>2, <2>3, <2>4, <2>5 DEF NetworkStep
<1>2. ASSUME NEW d \in Downloads, TaskStep(d) PROVE NoPhantomDownload'
  <2>1. CASE AlreadyThere(d)
    BY <2>1, ModelsOfManager DEF AlreadyThere, Step, SetStatus, Finish,
       diskVars, downloadHistory, DownloadTypes, DownloadTypeOK, TasksTyped,
       Running, CancelledIsDropped, OneDownload, NoPhantomDownload
  <2>2. CASE Prepare(d)
    BY <2>2, ModelsOfManager DEF Prepare, Step, Remove, guardVars,
       downloadHistory, DownloadTypes, DownloadTypeOK, TasksTyped, Running,
       CancelledIsDropped, OneDownload, NoPhantomDownload
  <2>3. CASE Request(d)
    BY <2>3, ModelsOfManager DEF Request, Step, diskVars, guardVars,
       downloadHistory, DownloadTypes, DownloadTypeOK, TasksTyped, Running,
       CancelledIsDropped, OneDownload, NoPhantomDownload
  <2>4. CASE CheckFlag(d)
    BY <2>4, ModelsOfManager DEF CheckFlag, Step, diskVars, guardVars,
       downloadHistory, DownloadTypes, DownloadTypeOK, TasksTyped, Running,
       CancelledIsDropped, OneDownload, NoPhantomDownload
  <2>5. CASE TimesOut(d)
    BY <2>5, ModelsOfManager DEF TimesOut, Step, diskVars, guardVars,
       downloadHistory, DownloadTypes, DownloadTypeOK, TasksTyped, Running,
       CancelledIsDropped, OneDownload, NoPhantomDownload
  <2>6. CASE Validate(d)
    <3>1. by[d] \in Managers /\ of[d] \in Models
      BY <2>6, ModelsOfManager DEF Validate, DownloadTypes, TasksTyped, Running
    <3>2. /\ dpc' = [dpc EXCEPT ![d] = "done"]
          /\ UNCHANGED <<by, of, dropped, outdated>>
      BY <2>6 DEF Validate, Step
    <3>3. PICK s \in {"available", "missing", "error"} :
              status' = [status EXCEPT ![by[d]][of[d]] = s]
      BY <2>6 DEF Validate, SetStatus, ErrorStatus
    <3>4. status'[by[d]][of[d]] # "downloading"
      BY <3>1, <3>3 DEF DownloadTypes, DownloadTypeOK
    <3>5. ASSUME NEW m \in Managers, NEW f \in Models, status'[m][f] = "downloading"
          PROVE  status[m][f] = "downloading" /\ ~(m = by[d] /\ f = of[d])
      BY <3>1, <3>3, <3>4, <3>5 DEF DownloadTypes, DownloadTypeOK
    <3>6. ASSUME NEW e \in Downloads, Running(e), e # d PROVE Running(e)'
      BY <3>2, <3>6 DEF Running, DownloadTypes, DownloadTypeOK
    <3>7. \A m \in Managers : ModelsOf(m)' = ModelsOf(m) /\ ModelsOf(m) \subseteq Models
      BY ModelsOfManager DEF ModelsOf
    <3> QED BY <3>2, <3>5, <3>6, <3>7 DEF NoPhantomDownload
  <2>7. CASE EndCancelled(d)
    BY <2>7, ModelsOfManager DEF EndCancelled, Step, SetStatus, Finish,
       diskVars, downloadHistory, DownloadTypes, DownloadTypeOK, TasksTyped,
       Running, CancelledIsDropped, OneDownload, NoPhantomDownload
  <2>8. CASE EndFailed(d)
    BY <2>8, ModelsOfManager DEF EndFailed, Step, SetStatus, Finish,
       ErrorStatus, diskVars, downloadHistory, DownloadTypes, DownloadTypeOK,
       TasksTyped, Running, CancelledIsDropped, OneDownload, NoPhantomDownload
  <2> QED BY <1>2, <2>1, <2>2, <2>3, <2>4, <2>5, <2>6, <2>7, <2>8 DEF TaskStep
<1>3. ASSUME NEW m \in Managers, NEW f \in ModelsOf(m), NEW d \in Downloads, Begin(d, m,
             f)
      PROVE  NoPhantomDownload'
  <2>1. CASE Admits(m, f)
    <3>1. /\ dpc' = [dpc EXCEPT ![d] = IF m = "engine" THEN "request" ELSE "prepare"]
          /\ by' = [by EXCEPT ![d] = m] /\ of' = [of EXCEPT ![d] = f]
          /\ status' = [status EXCEPT ![m][f] = "downloading"]
          /\ dropped' = dropped /\ outdated' = outdated /\ dpc[d] = "idle"
      BY <1>3, <2>1 DEF Begin, Step, SetStatus
    <3> QED BY <3>1, ModelsOfManager DEF DownloadTypes, DownloadTypeOK,
               Running, NoPhantomDownload
  <2>2. CASE ~Admits(m, f)
    <3>1. /\ dpc' = [dpc EXCEPT ![d] = "done"] /\ dpc[d] = "idle"
          /\ UNCHANGED <<by, of, status, dropped, outdated>>
      BY <1>3, <2>2 DEF Begin, Step
    <3>2. ASSUME NEW e \in Downloads, Running(e)
          PROVE  Running(e)' /\ by'[e] = by[e] /\ of'[e] = of[e]
      BY <3>1, <3>2 DEF Running, DownloadTypes, DownloadTypeOK
    <3> QED BY <3>1, <3>2 DEF NoPhantomDownload, ModelsOf
  <2> QED BY <2>1, <2>2
<1>4. ASSUME NEW m \in Managers, NEW f \in ModelsOf(m), CancelDownload(m, f)
      PROVE  NoPhantomDownload'
  BY <1>4, ModelsOfManager DEF CancelDownload, SetStatus, taskVars,
     DownloadTypes, DownloadTypeOK, TasksTyped, Running, CancelledIsDropped,
     OneDownload, NoPhantomDownload
<1>5. ASSUME NEW m \in Managers, NEW f \in ModelsOf(m), DeleteModel(m, f)
      PROVE  NoPhantomDownload'
  BY <1>5, ModelsOfManager DEF DeleteModel, SetStatus, Remove, guardVars,
     DownloadTypes, DownloadTypeOK, TasksTyped, Running, CancelledIsDropped,
     OneDownload, NoPhantomDownload
<1>6. ASSUME NEW m \in Managers, ScanFiles(m)
      PROVE  NoPhantomDownload'
  BY <1>6, ModelsOfManager DEF ScanFiles, diskVars, guardVars, taskVars,
     downloadHistory, DownloadTypes, DownloadTypeOK, TasksTyped, Running,
     CancelledIsDropped, OneDownload, NoPhantomDownload
<1>7. ASSUME NEW m \in Managers, StoreScan(m)
      PROVE  NoPhantomDownload'
  <2>1. dpc' = dpc /\ by' = by /\ of' = of /\ dropped' = dropped
    BY <1>7 DEF StoreScan, taskVars
  <2>2. outdated \subseteq outdated'
    BY <1>7 DEF StoreScan
  <2>3. SUFFICES ASSUME NEW n \in Managers, NEW f \in ModelsOf(n), status'[n][f] = "downloading"
                 PROVE  status[n][f] = "downloading" \/ n \in outdated'
    BY <2>1, <2>2 DEF NoPhantomDownload, Running
  <2>4. CASE n /= m
    BY <1>7, <2>3, <2>4 DEF StoreScan, DownloadTypes, DownloadTypeOK
  <2>5. CASE n = m /\ scan[m] /= Finds(m)
    BY <1>7, <2>5 DEF StoreScan
  <2>6. CASE n = m /\ scan[m] = Finds(m)
    BY <1>7, <2>3, <2>6, DownloadingIsNotFound DEF StoreScan, DownloadTypes,
       DownloadTypeOK
  <2> QED BY <2>4, <2>5, <2>6
<1>8. ASSUME RemoveCancelled
      PROVE  NoPhantomDownload'
  BY <1>8, ModelsOfManager DEF RemoveCancelled, Remove, guardVars,
     DownloadTypes, DownloadTypeOK, TasksTyped, Running, CancelledIsDropped,
     OneDownload, NoPhantomDownload
<1>9. CASE UNCHANGED downloadVars
  BY <1>9, ModelsOfManager DEF downloadVars, diskVars, guardVars, taskVars,
     downloadHistory, DownloadTypes, DownloadTypeOK, TasksTyped, Running,
     CancelledIsDropped, OneDownload, NoPhantomDownload
<1> QED BY <1>1, <1>2, <1>3, <1>4, <1>5, <1>6, <1>7, <1>8, <1>9 DEF
   DownloadNext

(***************************************************************************)
(* AvailableIsIntact: as long as nobody else has worked on its file, a     *)
(* download is alone on it and has written a prefix of the model.          *)
(***************************************************************************)
CleanFiles == \A f \in Models \ meddled : Present(f) => IsPrefix(file[f])

Alone ==
    /\ \A d, e \in Downloads :
          d /= e /\ Running(d) /\ Running(e) /\ of[d] = of[e] => of[d] \in meddled
    /\ removal /= NONE => removal \in WhisperModels

ProgressOf(d) ==
    /\ dpc[d] \in {"prepare", "request", "response"} => fd[d] = "none"
    /\ dpc[d] = "response" /\ Present(of[d]) => Len(file[of[d]]) = got[d]
    /\ dpc[d] \in {"loop", "chunk", "validate"} =>
          /\ fd[d] = "named" => Len(file[of[d]]) = got[d]
          /\ fd[d] /= "named" => ~Present(of[d])
    /\ dpc[d] = "validate" => got[d] = Size
Progress == \A d \in Downloads : of[d] \notin meddled => ProgressOf(d)

(* The first n chunks of a model are a prefix of it. *)
LEMMA PrefixOfLength ==
    ASSUME NEW n \in 0..Size
    PROVE  /\ Len([k \in 1..n |-> k]) = n
           /\ IsPrefix([k \in 1..n |-> k])
           /\ [k \in 1..n |-> k] \in Seq(0..Size)
<1> DEFINE s == [k \in 1..n |-> k]
<1>1. n \in Nat /\ s \in [1..n -> 0..Size]
  BY DownloadsAssumption
<1>2. s \in Seq(0..Size) /\ Len(s) = n
  BY <1>1, SeqOfChunks
<1> QED BY <1>2 DEF IsPrefix

(* A clean file of the right size is the model, and has its magic number. *)
LEMMA WholePrefix ==
    ASSUME DownloadTypes, CleanFiles, NEW f \in Models \ meddled,
           Length(f) >= Size
    PROVE  Present(f) /\ file[f] = Whole
<1>1. Present(f)
  BY DownloadsAssumption DEF Length
<1>2. IsPrefix(file[f]) /\ Length(f) = Len(file[f]) /\ Len(file[f]) \in Nat
  BY <1>1, LengthIsNat DEF CleanFiles, DownloadTypes
<1>3. Len(file[f]) = Size
  BY <1>2, DownloadsAssumption DEF IsPrefix
<1> QED BY <1>1, <1>2, <1>3 DEF IsPrefix, Whole

(* The whole file passes the checks. *)
LEMMA WholeHasMagic ==
    ASSUME NEW f \in Models, file[f] = Whole
    PROVE  Present(f) /\ Length(f) = Size /\ HasMagic(f)
<1>1. Size \in 0..Size /\ Size > 0 /\ 1 \in 1..Size
  BY DownloadsAssumption
<1>2. Whole \in Seq(0..Size) /\ Len(Whole) = Size /\ Whole[1] = 1
  BY <1>1, PrefixOfLength DEF Whole
<1>3. Present(f)
  BY <1>2, DownloadsAssumption DEF Present
<1> QED BY <1>1, <1>2, <1>3 DEF Length, HasMagic

(* What is validated with its magic number is the model. *)
LEMMA ValidatedIsWhole ==
    ASSUME DownloadTypes, CleanFiles, Progress, NEW d \in Downloads,
           dpc[d] = "validate", of[d] \in Models \ meddled, HasMagic(of[d])
    PROVE  file[of[d]] = Whole
<1>1. Present(of[d])
  BY DEF HasMagic, Length
<1>2. Len(file[of[d]]) = Size
  BY <1>1 DEF Progress, ProgressOf
<1> QED BY <1>1, <1>2, WholePrefix, DownloadsAssumption DEF Length

(* The next chunk goes behind the prefix, however the file was opened. *)
LEMMA WrittenExtends ==
    ASSUME NEW d \in Downloads, got[d] \in Nat, IsPrefix(file[of[d]]),
           Len(file[of[d]]) = got[d]
    PROVE  Written(d) = [k \in 1..got[d] + 1 |-> k]
<1> DEFINE old == file[of[d]]
<1>1. old = [k \in 1..got[d] |-> k]
  BY DEF IsPrefix
<1>2. Written(d) = [k \in 1..got[d] + 1 |->
                       IF k = got[d] + 1 THEN got[d] + 1
                       ELSE IF k <= got[d] THEN old[k] ELSE 0]
  BY DEF Written
<1> QED BY <1>1, <1>2

(* Who joins another download marks the file. *)
LEMMA AloneStep ==
    ASSUME DownloadTypes, Alone, [DownloadNext]_downloadVars
    PROVE  Alone'
<1>1. ASSUME NEW d \in Downloads, NetworkStep(d) PROVE Alone'
  <2>1. CASE Resumes(d)
    BY <2>1 DEF Resumes, Step, SetStatus, diskVars, guardVars,
       downloadHistory, DownloadTypes, DownloadTypeOK, TasksTyped, Running,
       Alone
  <2>2. CASE StartsOver(d)
    BY <2>2 DEF StartsOver, Step, SetStatus, guardVars, DownloadTypes,
       DownloadTypeOK, TasksTyped, Running, Alone
  <2>3. CASE Chunk(d)
    BY <2>3 DEF Chunk, Step, SetStatus, guardVars, downloadHistory,
       DownloadTypes, DownloadTypeOK, TasksTyped, Running, Alone
  <2>4. CASE StreamEnds(d)
    BY <2>4 DEF StreamEnds, Step, SetStatus, Remove, guardVars, DownloadTypes,
       DownloadTypeOK, TasksTyped, Running, Alone
  <2>5. CASE NetworkFails(d)
    BY <2>5 DEF NetworkFails, Step, diskVars, guardVars, downloadHistory,
       DownloadTypes, DownloadTypeOK, TasksTyped, Running, Alone
  <2> QED BY <1>1, <2>1, <2>2, <2>3, <2>4, <2>5 DEF NetworkStep
<1>2. ASSUME NEW d \in Downloads, TaskStep(d) PROVE Alone'
  <2>1. CASE AlreadyThere(d)
    BY <2>1 DEF AlreadyThere, Step, SetStatus, Finish, diskVars,
       downloadHistory, DownloadTypes, DownloadTypeOK, TasksTyped, Running,
       Alone
  <2>2. CASE Prepare(d)
    BY <2>2 DEF Prepare, Step, Remove, guardVars, downloadHistory,
       DownloadTypes, DownloadTypeOK, TasksTyped, Running, Alone
  <2>3. CASE Request(d)
    BY <2>3 DEF Request, Step, diskVars, guardVars, downloadHistory,
       DownloadTypes, DownloadTypeOK, TasksTyped, Running, Alone
  <2>4. CASE CheckFlag(d)
    BY <2>4 DEF CheckFlag, Step, diskVars, guardVars, downloadHistory,
       DownloadTypes, DownloadTypeOK, TasksTyped, Running, Alone
  <2>5. CASE TimesOut(d)
    BY <2>5 DEF TimesOut, Step, diskVars, guardVars, downloadHistory,
       DownloadTypes, DownloadTypeOK, TasksTyped, Running, Alone
  <2>6. CASE Validate(d)
    BY <2>6 DEF Validate, Step, SetStatus, Remove, Finish, ErrorStatus,
       DownloadTypes, DownloadTypeOK, TasksTyped, Running, Alone
  <2>7. CASE EndCancelled(d)
    BY <2>7 DEF EndCancelled, Step, SetStatus, Finish, diskVars,
       downloadHistory, DownloadTypes, DownloadTypeOK, TasksTyped, Running,
       Alone
  <2>8. CASE EndFailed(d)
    BY <2>8 DEF EndFailed, Step, SetStatus, Finish, ErrorStatus, diskVars,
       downloadHistory, DownloadTypes, DownloadTypeOK, TasksTyped, Running,
       Alone
  <2> QED BY <1>2, <2>1, <2>2, <2>3, <2>4, <2>5, <2>6, <2>7, <2>8 DEF TaskStep
<1>3. ASSUME NEW m \in Managers, NEW f \in ModelsOf(m), NEW d \in Downloads, Begin(d, m,
             f)
      PROVE  Alone'
  <2>1. CASE Admits(m, f)
    <3>1. /\ dpc' = [dpc EXCEPT ![d] = IF m = "engine" THEN "request" ELSE "prepare"]
          /\ of' = [of EXCEPT ![d] = f] /\ removal' = removal
          /\ meddled' = IF \E e \in Downloads : Running(e) /\ of[e] = f
                        THEN meddled \cup {f} ELSE meddled
      BY <1>3, <2>1 DEF Begin, Step, diskVars
    <3> QED BY <3>1 DEF DownloadTypes, DownloadTypeOK, Running, Alone
  <2>2. CASE ~Admits(m, f)
    BY <1>3, <2>2 DEF Begin, Step, diskVars, DownloadTypes, DownloadTypeOK,
       Running, Alone
  <2> QED BY <2>1, <2>2
<1>4. ASSUME NEW m \in Managers, NEW f \in ModelsOf(m), CancelDownload(m, f)
      PROVE  Alone'
  BY <1>4, DownloadsAssumption DEF CancelDownload, SetStatus, taskVars,
     DownloadTypes, DownloadTypeOK, TasksTyped, Running, Alone, ModelsOf
<1>5. ASSUME NEW m \in Managers, NEW f \in ModelsOf(m), DeleteModel(m, f)
      PROVE  Alone'
  BY <1>5 DEF DeleteModel, SetStatus, Remove, guardVars, DownloadTypes,
     DownloadTypeOK, TasksTyped, Running, Alone
<1>6. ASSUME NEW m \in Managers, ScanFiles(m)
      PROVE  Alone'
  BY <1>6 DEF ScanFiles, diskVars, guardVars, taskVars, downloadHistory,
     DownloadTypes, DownloadTypeOK, TasksTyped, Running, Alone
<1>7. ASSUME NEW m \in Managers, StoreScan(m)
      PROVE  Alone'
  BY <1>7 DEF StoreScan, diskVars, guardVars, taskVars, DownloadTypes,
     DownloadTypeOK, TasksTyped, Running, Alone
<1>8. ASSUME RemoveCancelled
      PROVE  Alone'
  BY <1>8 DEF RemoveCancelled, Remove, guardVars, DownloadTypes,
     DownloadTypeOK, TasksTyped, Running, Alone
<1>9. CASE UNCHANGED downloadVars
  BY <1>9 DEF downloadVars, diskVars, guardVars, taskVars, downloadHistory,
     DownloadTypes, DownloadTypeOK, TasksTyped, Running, Alone
<1> QED BY <1>1, <1>2, <1>3, <1>4, <1>5, <1>6, <1>7, <1>8, <1>9 DEF
   DownloadNext

(* A name that goes: who wrote to it goes on without it, or is over. *)
LEMMA RemoveKeepsClean ==
    ASSUME DownloadTypes, CleanFiles, Progress, NEW f \in Models, Remove(f),
           UNCHANGED <<of, got>>, meddled \subseteq meddled',
           \A d \in Downloads :
              \/ dpc'[d] = dpc[d]
              \/ dpc'[d] \in {"failed", "done"}
              \/ dpc'[d] = "request" /\ dpc[d] = "prepare"
    PROVE  CleanFiles' /\ Progress'
<1>1. CleanFiles'
  BY DEF DownloadTypes, DownloadTypeOK, CleanFiles, Remove, Present, IsPrefix
<1>2. ASSUME NEW d \in Downloads, of[d] \notin meddled'
      PROVE  ProgressOf(d)'
  <2>1. of[d] \notin meddled
    BY <1>2
  <2>2. fd'[d] = IF of[d] = f /\ fd[d] = "named" THEN "removed" ELSE fd[d]
    BY DEF Remove
  <2>3. CASE of[d] = f
    BY <2>1, <2>2, <2>3 DEF Progress, ProgressOf, Remove, Present,
       DownloadTypes, DownloadTypeOK
  <2>4. CASE of[d] /= f /\ Running(d)
    <3>1. of[d] \in Models
      BY <2>4, TaskOfManager DEF DownloadTypes
    <3>2. file'[of[d]] = file[of[d]]
      BY <2>4, <3>1 DEF Remove, DownloadTypes, DownloadTypeOK
    <3> QED BY <2>1, <2>2, <2>4, <3>2 DEF Progress, ProgressOf, Present
  <2>5. CASE ~Running(d)
    BY <2>5 DEF Running, ProgressOf
  <2> QED BY <2>3, <2>4, <2>5
<1> QED BY <1>1, <1>2 DEF Progress

(* Every step keeps the files clean that only one has worked on. *)
LEMMA CleanStep ==
    ASSUME DownloadTypes, CleanFiles, Alone, Progress,
           [DownloadNext]_downloadVars
    PROVE  CleanFiles' /\ Progress'
<1>1. ASSUME NEW d \in Downloads, NetworkStep(d) PROVE CleanFiles' /\ Progress'
  <2>1. CASE Resumes(d)
    BY <2>1 DEF Resumes, Step, SetStatus, diskVars, guardVars,
       downloadHistory, DownloadTypes, DownloadTypeOK, TasksTyped, Running,
       CleanFiles, Progress, ProgressOf, Present
  <2>2. CASE StartsOver(d)
    <3>1. of[d] \in Models /\ Running(d)
      BY <2>2, TaskOfManager DEF StartsOver, Running, DownloadTypes
    <3>2. /\ file' = [file EXCEPT ![of[d]] = <<>>] /\ got' = [got EXCEPT ![d] = 0]
          /\ fd' = [fd EXCEPT ![d] = "named"] /\ dpc' = [dpc EXCEPT ![d] = "loop"]
          /\ of' = of /\ meddled \subseteq meddled'
      BY <2>2 DEF StartsOver, Step
    <3>3. Len(<<>>) = 0 /\ IsPrefix(<<>>)
      BY PrefixOfLength, DownloadsAssumption DEF IsPrefix
    <3>4. CleanFiles'
      BY <3>1, <3>2, <3>3 DEF CleanFiles, Present, IsPrefix, DownloadTypes,
         DownloadTypeOK
    <3>5. Progress'
      BY <3>1, <3>2, <3>3 DEF Progress, ProgressOf, Alone, Running, Present,
         DownloadTypes, DownloadTypeOK
    <3> QED BY <3>4, <3>5
  <2>3. CASE Chunk(d)
    <3>1. of[d] \in Models /\ Running(d) /\ got[d] \in Nat /\ got[d] < Size
      BY <2>3, TaskOfManager DEF Chunk, Running, DownloadTypes, DownloadTypeOK
    <3>2. /\ file' = IF fd[d] = "named" THEN [file EXCEPT ![of[d]] = Written(d)] ELSE file
          /\ got' = [got EXCEPT ![d] = got[d] + 1] /\ fd' = fd
          /\ dpc' = [dpc EXCEPT ![d] = "loop"] /\ dpc[d] = "chunk"
          /\ of' = of /\ meddled' = meddled
      BY <2>3 DEF Chunk, Step, downloadHistory
    <3>3. ASSUME NEW e \in Downloads, e /= d, of[e] \notin meddled
          PROVE  ProgressOf(e)'
      <4>1. CASE Running(e)
        <5>1. of[e] \in Models /\ of[e] /= of[d]
          BY <3>1, <3>3, <4>1, TaskOfManager DEF DownloadTypes, Alone
        <5> QED BY <3>1, <3>2, <3>3, <5>1
              DEF Progress, ProgressOf, Present, DownloadTypes, DownloadTypeOK
      <4>2. CASE ~Running(e)
        BY <3>2, <3>3, <4>2 DEF ProgressOf, Running
      <4> QED BY <4>1, <4>2
    <3>4. CASE fd[d] = "named" /\ of[d] \notin meddled
      <4>1. Present(of[d]) /\ Len(file[of[d]]) = got[d]
        BY <3>2, <3>4 DEF Progress, ProgressOf, DownloadTypes, NamedIsThere
      <4>2. Written(d) = [k \in 1..got[d] + 1 |-> k]
        BY <3>1, <3>4, <4>1, WrittenExtends DEF CleanFiles
      <4>3. IsPrefix(Written(d)) /\ Len(Written(d)) = got[d] + 1
        BY <3>1, <4>2, PrefixOfLength, DownloadsAssumption
      <4>4. CleanFiles'
        BY <3>1, <3>2, <3>4, <4>3 DEF CleanFiles, Present, IsPrefix,
           DownloadTypes, DownloadTypeOK
      <4>5. ProgressOf(d)'
        BY <3>1, <3>2, <3>4, <4>3 DEF ProgressOf, DownloadTypes,
           DownloadTypeOK
      <4> QED BY <3>2, <3>3, <4>4, <4>5 DEF Progress
    <3>5. CASE fd[d] /= "named"
      BY <3>1, <3>2, <3>5 DEF CleanFiles, Progress, ProgressOf, Present,
         IsPrefix, DownloadTypes, DownloadTypeOK
    <3>6. CASE fd[d] = "named" /\ of[d] \in meddled
      <4>1. CleanFiles'
        BY <3>1, <3>2, <3>6 DEF CleanFiles, Present, IsPrefix, DownloadTypes,
           DownloadTypeOK
      <4> QED BY <3>2, <3>3, <3>6, <4>1 DEF Progress
    <3> QED BY <3>4, <3>5, <3>6
  <2>4. CASE StreamEnds(d)
    <3>1. of[d] \in Models
      BY <2>4, TaskOfManager DEF StreamEnds, Running, DownloadTypes
    <3>2. CASE CameWhole(d)
      BY <2>4, <3>1, <3>2 DEF StreamEnds, CameWhole, Step, DownloadTypes,
         DownloadTypeOK, CleanFiles, Progress, ProgressOf, Present
    <3>3. CASE ~CameWhole(d)
      BY <2>4, <3>1, <3>3, RemoveKeepsClean DEF StreamEnds, Step,
         DownloadTypes, DownloadTypeOK
    <3> QED BY <3>2, <3>3
  <2>5. CASE NetworkFails(d)
    BY <2>5 DEF NetworkFails, Step, diskVars, guardVars, downloadHistory,
       DownloadTypes, DownloadTypeOK, TasksTyped, Running, CleanFiles,
       Progress, ProgressOf, Present
  <2> QED BY <1>1, <2>1, <2>2, <2>3, <2>4, <2>5 DEF NetworkStep
<1>2. ASSUME NEW d \in Downloads, TaskStep(d) PROVE CleanFiles' /\ Progress'
  <2>1. CASE AlreadyThere(d)
    BY <2>1 DEF AlreadyThere, Step, SetStatus, Finish, diskVars,
       downloadHistory, DownloadTypes, DownloadTypeOK, TasksTyped, Running,
       CleanFiles, Progress, ProgressOf, Present
  <2>2. CASE Prepare(d)
    <3>1. of[d] \in Models
      BY <2>2, TaskOfManager DEF Prepare, Running, DownloadTypes
    <3>2. CASE Length(of[d]) > Most
      BY <2>2, <3>1, <3>2, RemoveKeepsClean DEF Prepare, Step,
         downloadHistory, DownloadTypes, DownloadTypeOK
    <3>3. CASE ~(Length(of[d]) > Most)
      BY <2>2, <3>1, <3>3 DEF Prepare, Step, downloadHistory, DownloadTypes,
         DownloadTypeOK, CleanFiles, Progress, ProgressOf, Present
    <3> QED BY <3>2, <3>3
  <2>3. CASE Request(d)
    BY <2>3 DEF Request, Step, diskVars, guardVars, downloadHistory,
       DownloadTypes, DownloadTypeOK, TasksTyped, Running, CleanFiles,
       Progress, ProgressOf, Present, Length
  <2>4. CASE CheckFlag(d)
    BY <2>4 DEF CheckFlag, Step, diskVars, guardVars, downloadHistory,
       DownloadTypes, DownloadTypeOK, TasksTyped, Running, CleanFiles,
       Progress, ProgressOf, Present
  <2>5. CASE TimesOut(d)
    BY <2>5 DEF TimesOut, Step, diskVars, guardVars, downloadHistory,
       DownloadTypes, DownloadTypeOK, TasksTyped, Running, CleanFiles,
       Progress, ProgressOf, Present
  <2>6. CASE Validate(d)
    <3>1. of[d] \in Models
      BY <2>6, TaskOfManager DEF Validate, Running, DownloadTypes
    <3>2. CASE HasMagic(of[d])
      BY <2>6, <3>1, <3>2 DEF Validate, Step, DownloadTypes, DownloadTypeOK,
         CleanFiles, Progress, ProgressOf, Present
    <3>3. CASE ~HasMagic(of[d])
      BY <2>6, <3>1, <3>3, RemoveKeepsClean DEF Validate, Step, DownloadTypes,
         DownloadTypeOK
    <3> QED BY <3>2, <3>3
  <2>7. CASE EndCancelled(d)
    BY <2>7 DEF EndCancelled, Step, SetStatus, Finish, diskVars,
       downloadHistory, DownloadTypes, DownloadTypeOK, TasksTyped, Running,
       CleanFiles, Progress, ProgressOf, Present
  <2>8. CASE EndFailed(d)
    BY <2>8 DEF EndFailed, Step, SetStatus, Finish, ErrorStatus, diskVars,
       downloadHistory, DownloadTypes, DownloadTypeOK, TasksTyped, Running,
       CleanFiles, Progress, ProgressOf, Present
  <2> QED BY <1>2, <2>1, <2>2, <2>3, <2>4, <2>5, <2>6, <2>7, <2>8 DEF TaskStep
<1>3. ASSUME NEW m \in Managers, NEW f \in ModelsOf(m), NEW d \in Downloads, Begin(d, m,
             f)
      PROVE  CleanFiles' /\ Progress'
  <2>1. CASE Admits(m, f)
    <3>1. /\ dpc' = [dpc EXCEPT ![d] = IF m = "engine" THEN "request" ELSE "prepare"]
          /\ of' = [of EXCEPT ![d] = f] /\ UNCHANGED <<file, fd, got>> /\ dpc[d] = "idle"
          /\ meddled \subseteq meddled'
      BY <1>3, <2>1 DEF Begin, Step, diskVars
    <3>2. fd[d] = "none"
      BY <3>1 DEF DownloadTypes, TasksTyped
    <3> QED BY <3>1, <3>2 DEF DownloadTypes, DownloadTypeOK, CleanFiles,
               Progress, ProgressOf, Present
  <2>2. CASE ~Admits(m, f)
    BY <1>3, <2>2 DEF Begin, Step, diskVars, DownloadTypes, DownloadTypeOK,
       CleanFiles, Progress, ProgressOf, Present
  <2> QED BY <2>1, <2>2
<1>4. ASSUME NEW m \in Managers, NEW f \in ModelsOf(m), CancelDownload(m, f)
      PROVE  CleanFiles' /\ Progress'
  BY <1>4 DEF CancelDownload, SetStatus, taskVars, DownloadTypes,
     DownloadTypeOK, TasksTyped, Running, CleanFiles, Progress, ProgressOf,
     Present
<1>5. ASSUME NEW m \in Managers, NEW f \in ModelsOf(m), DeleteModel(m, f)
      PROVE  CleanFiles' /\ Progress'
  <2>1. f \in Models
    BY ModelsOfManager
  <2> QED BY <1>5, <2>1, RemoveKeepsClean DEF DeleteModel
<1>6. ASSUME NEW m \in Managers, ScanFiles(m)
      PROVE  CleanFiles' /\ Progress'
  BY <1>6 DEF ScanFiles, diskVars, guardVars, taskVars, downloadHistory,
     DownloadTypes, DownloadTypeOK, TasksTyped, Running, CleanFiles, Progress,
     ProgressOf, Present
<1>7. ASSUME NEW m \in Managers, StoreScan(m)
      PROVE  CleanFiles' /\ Progress'
  BY <1>7 DEF StoreScan, diskVars, guardVars, taskVars, DownloadTypes,
     DownloadTypeOK, TasksTyped, Running, CleanFiles, Progress, ProgressOf,
     Present
<1>8. ASSUME RemoveCancelled
      PROVE  CleanFiles' /\ Progress'
  <2>1. removal \in Models
    BY <1>8 DEF RemoveCancelled, DownloadTypes, DownloadTypeOK
  <2> QED BY <1>8, <2>1, RemoveKeepsClean DEF RemoveCancelled
<1>9. CASE UNCHANGED downloadVars
  BY <1>9 DEF downloadVars, diskVars, guardVars, taskVars, downloadHistory,
     DownloadTypes, DownloadTypeOK, TasksTyped, Running, CleanFiles, Progress,
     ProgressOf, Present
<1> QED BY <1>1, <1>2, <1>3, <1>4, <1>5, <1>6, <1>7, <1>8, <1>9 DEF
   DownloadNext

(***************************************************************************)
(* Whose file lacks its end: a cancellation or a broken stream marks it,   *)
(* and only the download that completes it takes the mark away.            *)
(***************************************************************************)

(* A download that its manager has let go of was cancelled. *)
LetGo ==
    \A d \in Downloads :
        /\ Running(d)
        /\ \/ of[d] \notin guarded[by[d]]
           \/ cancelFlag[by[d]] = of[d]
           \/ dpc[d] = "cancelled"
        => of[d] \in interrupted \cup meddled

(* One that failed while it wrote has left its part. *)
BrokenOff ==
    \A d \in Downloads :
        dpc[d] = "failed" /\ fd[d] = "named" => of[d] \in interrupted \cup meddled

(* The download that writes a file under its name. *)
Writes(d, f) == Running(d) /\ of[d] = f /\ fd[d] = "named"

(* A file that is not whole has been left, or is being written. *)
PartHasCause ==
    \A f \in Models \ meddled :
        Present(f) /\ file[f] /= Whole =>
            f \in interrupted \/ \E d \in Downloads : Writes(d, f)

(* A file on its way that is let go of stays marked: nobody else is on it. *)
LEMMA InterruptedStep ==
    ASSUME DownloadTypes, Alone, Progress, LetGo, BrokenOff,
           [DownloadNext]_downloadVars
    PROVE  LetGo' /\ BrokenOff'
<1>1. ASSUME NEW d \in Downloads, NetworkStep(d) PROVE LetGo' /\ BrokenOff'
  <2>1. CASE Resumes(d)
    <3>1. fd[d] = "named" => of[d] \in meddled
      BY <2>1 DEF Resumes, Progress, ProgressOf
    <3>2. /\ \/ dpc' = [dpc EXCEPT ![d] = "loop"]
             \/ dpc' = [dpc EXCEPT ![d] = "failed"] /\ fd' = fd
          /\ \A e \in Downloads \ {d} : fd'[e] = fd[e]
          /\ UNCHANGED <<guarded, cancelFlag, by, of, meddled, interrupted>>
          /\ Running(d)
      BY <2>1 DEF Resumes, Step, guardVars, downloadHistory, Running,
         DownloadTypes, DownloadTypeOK
    <3>3. LetGo'
      BY <3>2 DEF DownloadTypes, DownloadTypeOK, Running, LetGo
    <3>4. BrokenOff'
      BY <3>1, <3>2 DEF DownloadTypes, DownloadTypeOK, BrokenOff
    <3> QED BY <3>3, <3>4
  <2>2. CASE StartsOver(d)
    BY <2>2 DEF StartsOver, Step, SetStatus, guardVars, DownloadTypes,
       DownloadTypeOK, TasksTyped, Running, LetGo, BrokenOff
  <2>3. CASE Chunk(d)
    BY <2>3 DEF Chunk, Step, SetStatus, guardVars, downloadHistory,
       DownloadTypes, DownloadTypeOK, TasksTyped, Running, LetGo, BrokenOff
  <2>4. CASE StreamEnds(d)
    <3>1. /\ \/ dpc' = [dpc EXCEPT ![d] = "validate"] /\ fd' = fd
             \/ dpc' = [dpc EXCEPT ![d] = "failed"] /\ fd'[d] /= "named"
          /\ \A e \in Downloads : fd'[e] = "named" => fd[e] = "named"
          /\ UNCHANGED <<guarded, cancelFlag, by, of, interrupted>>
          /\ meddled \subseteq meddled' /\ Running(d)
      BY <2>4 DEF StreamEnds, Step, Remove, guardVars, Running
    <3>2. LetGo'
      BY <3>1 DEF DownloadTypes, DownloadTypeOK, Running, LetGo
    <3>3. BrokenOff'
      BY <3>1 DEF DownloadTypes, DownloadTypeOK, BrokenOff
    <3> QED BY <3>2, <3>3
  <2>5. CASE NetworkFails(d)
    BY <2>5 DEF NetworkFails, LeavesPart, Step, diskVars, guardVars,
       DownloadTypes, DownloadTypeOK, TasksTyped, Running, LetGo, BrokenOff
  <2> QED BY <1>1, <2>1, <2>2, <2>3, <2>4, <2>5 DEF NetworkStep
<1>2. ASSUME NEW d \in Downloads, TaskStep(d) PROVE LetGo' /\ BrokenOff'
  <2>1. CASE AlreadyThere(d)
    BY <2>1 DEF AlreadyThere, Step, SetStatus, Finish, diskVars,
       downloadHistory, DownloadTypes, DownloadTypeOK, TasksTyped, Running,
       Alone, LetGo, BrokenOff
  <2>2. CASE Prepare(d)
    BY <2>2 DEF Prepare, Step, Remove, guardVars, downloadHistory,
       DownloadTypes, DownloadTypeOK, TasksTyped, Running, LetGo, BrokenOff
  <2>3. CASE Request(d)
    BY <2>3 DEF Request, Step, diskVars, guardVars, downloadHistory,
       DownloadTypes, DownloadTypeOK, TasksTyped, Running, LetGo, BrokenOff
  <2>4. CASE CheckFlag(d)
    BY <2>4 DEF CheckFlag, Step, diskVars, guardVars, downloadHistory,
       DownloadTypes, DownloadTypeOK, TasksTyped, Running, LetGo, BrokenOff
  <2>5. CASE TimesOut(d)
    BY <2>5 DEF TimesOut, LeavesPart, Step, diskVars, guardVars,
       DownloadTypes, DownloadTypeOK, TasksTyped, Running, LetGo, BrokenOff
  <2>6. CASE Validate(d)
    <3>1. /\ guarded' = [guarded EXCEPT ![by[d]] = guarded[by[d]] \ {of[d]}]
          /\ dpc' = [dpc EXCEPT ![d] = "done"] /\ dpc[d] = "validate"
          /\ UNCHANGED <<cancelFlag, by, of>>
          /\ interrupted \ {of[d]} \subseteq interrupted'
          /\ meddled \subseteq meddled'
          /\ \A e \in Downloads : fd'[e] = "named" => fd[e] = "named"
      BY <2>6 DEF Validate, Step, Finish, Remove
    <3>2. ASSUME NEW e \in Downloads, e /= d, Running(e), of[e] = of[d]
          PROVE  of[e] \in meddled'
      BY <3>1, <3>2 DEF Alone, Running
    <3>3. \A e \in Downloads : e /= d /\ dpc[e] = "failed" => Running(e)
      BY DEF Running
    <3>4. LetGo'
      <4> SUFFICES ASSUME NEW e \in Downloads, Running(e)', of[e] /= of[d],
                          \/ of[e] \notin guarded'[by[e]]
                          \/ cancelFlag[by[e]] = of[e]
                          \/ dpc'[e] = "cancelled"
                   PROVE  of[e] \in interrupted' \cup meddled'
        BY <3>1, <3>2 DEF LetGo, Running, DownloadTypes, DownloadTypeOK
      <4>1. Running(e) /\ dpc'[e] = dpc[e]
        BY <3>1 DEF Running, DownloadTypes, DownloadTypeOK
      <4>2. by[e] \in Managers
        BY <4>1, TaskOfManager DEF DownloadTypes
      <4>3. of[e] \in guarded[by[e]] => of[e] \in guarded'[by[e]]
        BY <3>1, <4>2 DEF DownloadTypes, DownloadTypeOK
      <4> QED BY <3>1, <4>1, <4>3 DEF LetGo
    <3>5. BrokenOff'
      BY <3>1, <3>2, <3>3 DEF BrokenOff, DownloadTypes, DownloadTypeOK
    <3> QED BY <3>4, <3>5
  <2>7. CASE EndCancelled(d)
    BY <2>7 DEF EndCancelled, Step, SetStatus, Finish, diskVars,
       downloadHistory, DownloadTypes, DownloadTypeOK, TasksTyped, Running,
       Alone, LetGo, BrokenOff
  <2>8. CASE EndFailed(d)
    BY <2>8 DEF EndFailed, Step, SetStatus, Finish, diskVars,
       downloadHistory, DownloadTypes, DownloadTypeOK, TasksTyped, Running,
       Alone, LetGo, BrokenOff
  <2> QED BY <1>2, <2>1, <2>2, <2>3, <2>4, <2>5, <2>6, <2>7, <2>8 DEF TaskStep
<1>3. ASSUME NEW m \in Managers, NEW f \in ModelsOf(m), NEW d \in Downloads, Begin(d, m,
             f)
      PROVE  LetGo' /\ BrokenOff'
  <2>1. CASE Admits(m, f)
    <3>1. /\ dpc' = [dpc EXCEPT ![d] = IF m = "engine" THEN "request" ELSE "prepare"]
          /\ dpc[d] = "idle" /\ by' = [by EXCEPT ![d] = m] /\ of' = [of EXCEPT ![d] = f]
          /\ guarded' = [guarded EXCEPT ![m] = guarded[m] \cup {f}]
          /\ cancelFlag' = [cancelFlag EXCEPT ![m] = NONE]
          /\ interrupted' = interrupted /\ meddled \subseteq meddled' /\ fd' = fd
      BY <1>3, <2>1 DEF Begin, Step
    <3>2. f \in Models /\ f /= NONE
      BY ModelsOfManager, DownloadsAssumption
    <3>3. ASSUME NEW e \in Downloads, e /= d, Running(e)
          PROVE  /\ of'[e] = of[e] /\ by'[e] = by[e] /\ dpc'[e] = dpc[e]
                 /\ of[e] \in guarded[by[e]] => of[e] \in guarded'[by[e]]
                 /\ cancelFlag'[by[e]] = of[e] => cancelFlag[by[e]] = of[e]
      <4>1. of[e] /= NONE /\ by[e] \in Managers
        BY <3>3, TaskOfManager, DownloadsAssumption DEF DownloadTypes
      <4> QED BY <3>1, <3>3, <4>1 DEF DownloadTypes, DownloadTypeOK
    <3>4. LetGo'
      <4> SUFFICES ASSUME NEW e \in Downloads, Running(e)',
                          \/ of'[e] \notin guarded'[by'[e]]
                          \/ cancelFlag'[by'[e]] = of'[e]
                          \/ dpc'[e] = "cancelled"
                   PROVE  of'[e] \in interrupted' \cup meddled'
        BY DEF LetGo
      <4>1. e /= d
        BY <3>1, <3>2 DEF DownloadTypes, DownloadTypeOK
      <4>2. Running(e)
        BY <3>1, <4>1 DEF Running, DownloadTypes, DownloadTypeOK
      <4> QED BY <3>1, <3>3, <4>1, <4>2 DEF LetGo
    <3>5. BrokenOff'
      BY <3>1, <3>3 DEF BrokenOff, Running, DownloadTypes, DownloadTypeOK
    <3> QED BY <3>4, <3>5
  <2>2. CASE ~Admits(m, f)
    BY <1>3, <2>2 DEF Begin, Step, diskVars, guardVars, DownloadTypes,
       DownloadTypeOK, Running, LetGo, BrokenOff
  <2> QED BY <2>1, <2>2
<1>4. ASSUME NEW m \in Managers, NEW f \in ModelsOf(m), CancelDownload(m, f)
      PROVE  LetGo' /\ BrokenOff'
  BY <1>4, ModelsOfManager DEF CancelDownload, SetStatus, taskVars,
     DownloadTypes, DownloadTypeOK, TasksTyped, Running, LetGo, BrokenOff
<1>5. ASSUME NEW m \in Managers, NEW f \in ModelsOf(m), DeleteModel(m, f)
      PROVE  LetGo' /\ BrokenOff'
  BY <1>5, ModelsOfManager DEF DeleteModel, Remove, guardVars, DownloadTypes,
     DownloadTypeOK, TasksTyped, Running, LetGo, BrokenOff
<1>6. ASSUME NEW m \in Managers, ScanFiles(m) \/ StoreScan(m)
      PROVE  LetGo' /\ BrokenOff'
  BY <1>6 DEF ScanFiles, StoreScan, diskVars, guardVars, taskVars,
     downloadHistory, Running, LetGo, BrokenOff
<1>7. ASSUME RemoveCancelled
      PROVE  LetGo' /\ BrokenOff'
  BY <1>7 DEF RemoveCancelled, Remove, guardVars, DownloadTypes,
     DownloadTypeOK, TasksTyped, Running, LetGo, BrokenOff
<1>8. CASE UNCHANGED downloadVars
  BY <1>8 DEF downloadVars, diskVars, guardVars, taskVars, downloadHistory,
     Running, LetGo, BrokenOff
<1> QED BY <1>1, <1>2, <1>3, <1>4, <1>5, <1>6, <1>7, <1>8 DEF DownloadNext

(* A file that goes has no part left, and the others keep their cause. *)
LEMMA RemoveKeepsCause ==
    ASSUME DownloadTypes, PartHasCause, NEW f \in Models, Remove(f), of' = of,
           meddled \subseteq meddled', interrupted' = interrupted,
           \A d \in Downloads : Running(d) /\ of[d] /= f => Running(d)'
    PROVE  PartHasCause'
<1> SUFFICES ASSUME NEW g \in Models, g \notin meddled', Present(g)',
                    file'[g] /= Whole, g \notin interrupted
             PROVE  \E d \in Downloads : Writes(d, g)'
  BY DEF PartHasCause
<1>1. g /= f /\ file'[g] = file[g]
  BY DEF Remove, Present, DownloadTypes, DownloadTypeOK
<1>2. PICK d \in Downloads : Writes(d, g)
  BY <1>1 DEF PartHasCause, Present
<1>3. fd'[d] = fd[d]
  BY <1>1, <1>2 DEF Writes, Remove
<1> QED BY <1>1, <1>2, <1>3 DEF Writes

(* Nothing is removed or finished: what a file lacks has the same cause. *)
LEMMA SameCause ==
    ASSUME PartHasCause, file' = file, meddled \subseteq meddled',
           interrupted \subseteq interrupted',
           NEW d \in Downloads,
           Running(d) =>
              \/ of[d] \in interrupted' \cup meddled' \/ fd[d] /= "named"
              \/ Running(d)' /\ of'[d] = of[d] /\ fd'[d] = "named",
           \A e \in Downloads \ {d} :
              Running(e) => Running(e)' /\ of'[e] = of[e] /\ fd'[e] = fd[e]
    PROVE  PartHasCause'
<1> SUFFICES ASSUME NEW f \in Models, f \notin meddled', Present(f),
                    file[f] /= Whole, f \notin interrupted'
             PROVE  \E e \in Downloads : Writes(e, f)'
  BY DEF PartHasCause, Present
<1>1. PICK e \in Downloads : Writes(e, f)
  BY DEF PartHasCause
<1>2. Writes(e, f)'
  BY <1>1 DEF Writes
<1> QED BY <1>2

(* Every step keeps the causes. *)
LEMMA CauseStep ==
    ASSUME DownloadTypes, CleanFiles, Alone, Progress, LetGo, BrokenOff,
           PartHasCause, [DownloadNext]_downloadVars
    PROVE  PartHasCause'
<1>1. ASSUME NEW d \in Downloads, NetworkStep(d) PROVE PartHasCause'
  <2>1. CASE Resumes(d)
    BY <2>1, SameCause DEF Resumes, Step, diskVars, downloadHistory,
       DownloadTypes, DownloadTypeOK, Running, Writes
  <2>2. CASE StartsOver(d)
    <3>1. of[d] \in Models /\ Running(d)
      BY <2>2, TaskOfManager DEF StartsOver, Running, DownloadTypes
    <3>2. /\ file' = [file EXCEPT ![of[d]] = <<>>] /\ of' = of
          /\ fd' = [fd EXCEPT ![d] = "named"] /\ dpc' = [dpc EXCEPT ![d] = "loop"]
          /\ meddled \subseteq meddled' /\ interrupted' = interrupted
      BY <2>2 DEF StartsOver, Step
    <3>3. Writes(d, of[d])'
      BY <3>2 DEF Writes, Running, DownloadTypes, DownloadTypeOK
    <3>4. \A e \in Downloads, f \in Models : Writes(e, f) => Writes(e, f)'
      BY <3>2 DEF Writes, Running, DownloadTypes, DownloadTypeOK
    <3> QED BY <3>1, <3>2, <3>3, <3>4 DEF PartHasCause, Present,
               DownloadTypes, DownloadTypeOK
  <2>3. CASE Chunk(d)
    <3>1. of[d] \in Models /\ Running(d)
      BY <2>3, TaskOfManager DEF Chunk, Running, DownloadTypes
    <3>2. /\ file' = IF fd[d] = "named" THEN [file EXCEPT ![of[d]] = Written(d)] ELSE file
          /\ of' = of /\ fd' = fd /\ dpc' = [dpc EXCEPT ![d] = "loop"]
          /\ meddled' = meddled /\ interrupted' = interrupted
      BY <2>3 DEF Chunk, Step, downloadHistory
    <3>3. \A e \in Downloads, f \in Models : Writes(e, f) => Writes(e, f)'
      BY <3>2 DEF Writes, Running, DownloadTypes, DownloadTypeOK
    <3>4. fd[d] = "named" => Writes(d, of[d])
      BY <3>1 DEF Writes
    <3> QED BY <3>1, <3>2, <3>3, <3>4 DEF PartHasCause, Present,
               DownloadTypes, DownloadTypeOK
  <2>4. CASE StreamEnds(d)
    <3>1. of[d] \in Models
      BY <2>4, TaskOfManager DEF StreamEnds, Running, DownloadTypes
    <3>2. CASE CameWhole(d)
      BY <2>4, <3>2, SameCause DEF StreamEnds, Step, DownloadTypes,
         DownloadTypeOK, Running, Writes
    <3>3. CASE ~CameWhole(d)
      BY <2>4, <3>1, <3>3, RemoveKeepsCause DEF StreamEnds, Step,
         DownloadTypes, DownloadTypeOK, Running
    <3> QED BY <3>2, <3>3
  <2>5. CASE NetworkFails(d)
    BY <2>5, SameCause DEF NetworkFails, LeavesPart, Step, diskVars,
       DownloadTypes, DownloadTypeOK, Running, Writes
  <2> QED BY <1>1, <2>1, <2>2, <2>3, <2>4, <2>5 DEF NetworkStep
<1>2. ASSUME NEW d \in Downloads, TaskStep(d) PROVE PartHasCause'
  <2>1. CASE AlreadyThere(d)
    <3>1. fd[d] = "none" \/ of[d] \in meddled
      BY <2>1 DEF AlreadyThere, Progress, ProgressOf
    <3> QED BY <2>1, <3>1, SameCause DEF AlreadyThere, Step, diskVars,
               downloadHistory, DownloadTypes, DownloadTypeOK, Running
  <2>2. CASE Prepare(d)
    <3>1. of[d] \in Models
      BY <2>2, TaskOfManager DEF Prepare, Running, DownloadTypes
    <3>2. CASE Length(of[d]) > Most
      BY <2>2, <3>1, <3>2, RemoveKeepsCause DEF Prepare, Step,
         downloadHistory, DownloadTypes, DownloadTypeOK, Running
    <3>3. CASE ~(Length(of[d]) > Most)
      BY <2>2, <3>3, SameCause DEF Prepare, Step, downloadHistory,
         DownloadTypes, DownloadTypeOK, Running, Writes
    <3> QED BY <3>2, <3>3
  <2>3. CASE Request(d)
    BY <2>3, SameCause DEF Request, Step, diskVars, downloadHistory,
       DownloadTypes, DownloadTypeOK, Running, Writes
  <2>4. CASE CheckFlag(d)
    BY <2>4, SameCause DEF CheckFlag, Step, diskVars, downloadHistory,
       DownloadTypes, DownloadTypeOK, Running, Writes
  <2>5. CASE TimesOut(d)
    BY <2>5, SameCause DEF TimesOut, LeavesPart, Step, diskVars,
       DownloadTypes, DownloadTypeOK, Running, Writes
  <2>6. CASE Validate(d)
    <3>1. of[d] \in Models
      BY <2>6, TaskOfManager DEF Validate, Running, DownloadTypes
    <3>2. CASE HasMagic(of[d])
      <4>1. of[d] \in meddled \/ file[of[d]] = Whole
        BY <2>6, <3>1, <3>2, ValidatedIsWhole DEF Validate
      <4>2. /\ file' = file /\ fd' = fd /\ of' = of /\ meddled' = meddled
            /\ interrupted' = interrupted \ {of[d]}
            /\ dpc' = [dpc EXCEPT ![d] = "done"]
        BY <2>6, <3>2 DEF Validate, Step
      <4>3. \A e \in Downloads, f \in Models :
               Writes(e, f) /\ f /= of[d] => Writes(e, f)'
        BY <4>2 DEF Writes, Running, DownloadTypes, DownloadTypeOK
      <4> QED BY <4>1, <4>2, <4>3 DEF PartHasCause, Present
    <3>3. CASE ~HasMagic(of[d])
      BY <2>6, <3>1, <3>3, RemoveKeepsCause DEF Validate, Step,
         DownloadTypes, DownloadTypeOK, Running
    <3> QED BY <3>2, <3>3
  <2>7. CASE EndCancelled(d)
    <3>1. of[d] \in interrupted \cup meddled
      BY <2>7 DEF EndCancelled, LetGo, Running
    <3> QED BY <2>7, <3>1, SameCause DEF EndCancelled, Step, diskVars,
               downloadHistory, DownloadTypes, DownloadTypeOK, Running
  <2>8. CASE EndFailed(d)
    <3>1. of[d] \in interrupted \cup meddled \/ fd[d] /= "named"
      BY <2>8 DEF EndFailed, BrokenOff
    <3> QED BY <2>8, <3>1, SameCause DEF EndFailed, Step, diskVars,
               downloadHistory, DownloadTypes, DownloadTypeOK, Running
  <2> QED BY <1>2, <2>1, <2>2, <2>3, <2>4, <2>5, <2>6, <2>7, <2>8 DEF TaskStep
<1>3. ASSUME NEW m \in Managers, NEW f \in ModelsOf(m), NEW d \in Downloads, Begin(d, m,
             f)
      PROVE  PartHasCause'
  <2>1. ~Running(d) /\ meddled \subseteq meddled'
    BY <1>3 DEF Begin, Running
  <2>2. \A e \in Downloads \ {d} :
           dpc'[e] = dpc[e] /\ of'[e] = of[e] /\ fd'[e] = fd[e]
    BY <1>3 DEF Begin, Step, DownloadTypes, DownloadTypeOK
  <2> QED BY <1>3, <2>1, <2>2, SameCause DEF Begin, diskVars, Running
<1>4. ASSUME NEW m \in Managers, NEW f \in ModelsOf(m), CancelDownload(m, f)
      PROVE  PartHasCause'
  BY <1>4 DEF CancelDownload, taskVars, PartHasCause, Present, Writes, Running
<1>5. ASSUME NEW m \in Managers, NEW f \in ModelsOf(m), DeleteModel(m, f)
      PROVE  PartHasCause'
  BY <1>5, ModelsOfManager, RemoveKeepsCause DEF DeleteModel, Running
<1>6. ASSUME NEW m \in Managers, ScanFiles(m) \/ StoreScan(m)
      PROVE  PartHasCause'
  BY <1>6 DEF ScanFiles, StoreScan, diskVars, taskVars, downloadHistory,
     PartHasCause, Present, Writes, Running
<1>7. ASSUME RemoveCancelled
      PROVE  PartHasCause'
  <2>1. removal \in Models
    BY <1>7 DEF RemoveCancelled, DownloadTypes, DownloadTypeOK
  <2> QED BY <1>7, <2>1, RemoveKeepsCause DEF RemoveCancelled, Running
<1>8. CASE UNCHANGED downloadVars
  BY <1>8 DEF downloadVars, diskVars, taskVars, downloadHistory,
     PartHasCause, Present, Writes, Running
<1> QED BY <1>1, <1>2, <1>3, <1>4, <1>5, <1>6, <1>7, <1>8 DEF DownloadNext

(***************************************************************************)
(* AvailableIsIntact: what is shown as available passed the size check, or *)
(* its download is about to say that it failed.                            *)
(***************************************************************************)
AvailableIsLarge ==
    \A m \in Managers : \A f \in ModelsOf(m) :
        status[m][f] = "available" =>
            Length(f) >= Least \/ Excused(m, f) \/ AboutToFail(m, f)

(* A file that is large enough, clean and not whole lacks its end. *)
LEMMA IntactFromLarge ==
    ASSUME DownloadTypes, CleanFiles, PartHasCause, AvailableIsLarge
    PROVE  AvailableIsIntact
<1> SUFFICES ASSUME NEW m \in Managers, NEW f \in ModelsOf(m),
                    Length(f) >= Least, f \notin meddled, file[f] /= Whole
             PROVE  PassesForWhole(f)
  BY DEF AvailableIsIntact, AvailableIsLarge, Excused
<1>1. f \in Models /\ Present(f)
  BY ModelsOfManager, DownloadsAssumption DEF Length
<1>2. IsPrefix(file[f])
  BY <1>1 DEF CleanFiles
<1>3. MayLackItsEnd(f)
  BY <1>1 DEF PartHasCause, Writes, MayLackItsEnd
<1> QED BY <1>2, <1>3 DEF PassesForWhole

(* A removal marks what another manager shows. *)
LEMMA RemoveKeepsLarge ==
    ASSUME DownloadTypes, AvailableIsLarge, NEW m \in Managers,
           NEW f \in ModelsOf(m), Remove(f),
           meddled' = meddled \cup Meddling(m, f), outdated' = outdated,
           \A n \in Managers : \A g \in ModelsOf(n) :
              status'[n][g] = "available" =>
                 /\ status[n][g] = "available"
                 /\ n = m /\ g = f => AboutToFail(m, f)',
           \A n \in Managers : \A g \in ModelsOf(n) \ {f} :
              AboutToFail(n, g) => AboutToFail(n, g)'
    PROVE  AvailableIsLarge'
<1> SUFFICES ASSUME NEW n \in Managers, NEW g \in ModelsOf(n),
                    status'[n][g] = "available"
             PROVE  Length(g)' >= Least \/ Excused(n, g)' \/ AboutToFail(n, g)'
  BY DEF AvailableIsLarge
<1>1. status[n][g] = "available" /\ g \in Models /\ f \in Models
  BY ModelsOfManager
<1>2. CASE g /= f
  <2>1. Length(g)' = Length(g)
    BY <1>1, <1>2 DEF Length, Present, Remove, DownloadTypes, DownloadTypeOK
  <2> QED BY <1>1, <1>2, <2>1 DEF AvailableIsLarge, Excused
<1>3. CASE g = f /\ n /= m
  BY <1>1, <1>3 DEF Meddling, Excused
<1>4. CASE g = f /\ n = m
  BY <1>4
<1> QED BY <1>2, <1>3, <1>4

(* A task that touches neither files nor statuses, and has not failed yet. *)
LEMMA TaskKeepsLarge ==
    ASSUME DownloadTypes, AvailableIsLarge, NEW d \in Downloads,
           dpc[d] /= "failed",
           \A e \in Downloads \ {d} : dpc'[e] = dpc[e],
           UNCHANGED <<file, status, by, of, meddled, outdated>>
    PROVE  AvailableIsLarge'
BY DEF AvailableIsLarge, Excused, AboutToFail, Length, Present

(* A task sets the status of its model: rightly, or to something else. *)
LEMMA OwnStatusKeepsLarge ==
    ASSUME DownloadTypes, AvailableIsLarge, NEW d \in Downloads,
           by[d] \in Managers, of[d] \in ModelsOf(by[d]), NEW s \in Statuses,
           SetStatus(by[d], of[d], s),
           s = "available" =>
              Length(of[d]) >= Least \/ Excused(by[d], of[d]),
           \A e \in Downloads \ {d} : dpc'[e] = dpc[e],
           UNCHANGED <<file, by, of, meddled, outdated>>
    PROVE  AvailableIsLarge'
<1> SUFFICES ASSUME NEW n \in Managers, NEW g \in ModelsOf(n),
                    status'[n][g] = "available"
             PROVE  Length(g) >= Least \/ Excused(n, g) \/ AboutToFail(n, g)'
  BY DEF AvailableIsLarge, Excused, Length, Present
<1>1. g \in Models /\ of[d] \in Models
  BY ModelsOfManager
<1>2. CASE n = by[d] /\ g = of[d]
  BY <1>1, <1>2 DEF SetStatus, DownloadTypes, DownloadTypeOK
<1>3. CASE ~(n = by[d] /\ g = of[d])
  <2>1. status[n][g] = "available"
    BY <1>1, <1>3 DEF SetStatus, DownloadTypes, DownloadTypeOK
  <2>2. AboutToFail(n, g) => AboutToFail(n, g)'
    BY <1>3 DEF AboutToFail
  <2> QED BY <2>1, <2>2 DEF AvailableIsLarge
<1> QED BY <1>2, <1>3

(* A chunk makes a clean file longer. *)
LEMMA ChunkLengthens ==
    ASSUME DownloadTypes, CleanFiles, Progress, NEW d \in Downloads,
           NEW f \in Models \ meddled, of[d] = f, dpc[d] = "chunk",
           fd[d] = "named", got[d] < Size,
           file' = [file EXCEPT ![f] = Written(d)]
    PROVE  /\ Length(f) \in Nat /\ Length(f)' \in Nat
           /\ Length(f)' >= Length(f)
<1>1. Present(f) /\ Len(file[f]) = got[d] /\ IsPrefix(file[f])
  BY DEF DownloadTypes, NamedIsThere, CleanFiles, Progress, ProgressOf
<1>2. got[d] \in Nat /\ got[d] + 1 \in 0..Size
  BY DownloadsAssumption DEF DownloadTypes, DownloadTypeOK
<1>3. Len(Written(d)) = got[d] + 1 /\ Written(d) \in Seq(0..Size)
  BY <1>1, <1>2, WrittenExtends, PrefixOfLength
<1>4. Written(d) /= NONE
  BY <1>3, DownloadsAssumption
<1>5. file'[f] = Written(d)
  BY DEF DownloadTypes, DownloadTypeOK
<1>6. Length(f)' = got[d] + 1
  BY <1>3, <1>4, <1>5 DEF Length, Present
<1>7. Length(f) = got[d]
  BY <1>1 DEF Length
<1> QED BY <1>2, <1>6, <1>7

(* Every step keeps what is shown as available large enough. *)
LEMMA LargeStep ==
    ASSUME DownloadTypes, CleanFiles, Alone, Progress, AvailableIsLarge,
           [DownloadNext]_downloadVars
    PROVE  AvailableIsLarge'
<1>1. ASSUME NEW d \in Downloads, NetworkStep(d) PROVE AvailableIsLarge'
  <2>1. CASE Resumes(d)
    <3>1. by[d] \in Managers /\ of[d] \in ModelsOf(by[d]) /\ of[d] \in Models
      BY <2>1, TaskOfManager DEF Resumes, Running, DownloadTypes
    <3>2. /\ UNCHANGED <<file, by, of, meddled, outdated>> /\ dpc[d] = "response"
          /\ \A e \in Downloads \ {d} : dpc'[e] = dpc[e]
      BY <2>1 DEF Resumes, Step, diskVars, downloadHistory, DownloadTypes,
         DownloadTypeOK
    <3>3. CASE Present(of[d])
      <4>1. SetStatus(by[d], of[d], "downloading") /\ "downloading" \in Statuses
        BY <2>1, <3>3 DEF Resumes, Statuses
      <4> QED BY <3>1, <3>2, <4>1, OwnStatusKeepsLarge
    <3>4. CASE ~Present(of[d])
      BY <2>1, <3>2, <3>4, TaskKeepsLarge DEF Resumes
    <3> QED BY <3>3, <3>4
  <2>2. CASE StartsOver(d)
    <3>1. by[d] \in Managers /\ of[d] \in ModelsOf(by[d]) /\ of[d] \in Models
      BY <2>2, TaskOfManager DEF StartsOver, Running, DownloadTypes
    <3>2. /\ file' = [file EXCEPT ![of[d]] = <<>>] /\ outdated' = outdated
          /\ SetStatus(by[d], of[d], "downloading")
          /\ meddled' = meddled \cup Meddling(by[d], of[d])
          /\ UNCHANGED <<by, of>> /\ dpc' = [dpc EXCEPT ![d] = "loop"]
          /\ dpc[d] = "response"
      BY <2>2 DEF StartsOver, Step
    <3> SUFFICES ASSUME NEW n \in Managers, NEW g \in ModelsOf(n),
                        status'[n][g] = "available"
                 PROVE  Length(g)' >= Least \/ Excused(n, g)' \/ AboutToFail(n, g)'
      BY DEF AvailableIsLarge
    <3>3. status[n][g] = "available" /\ g \in Models /\ ~(n = by[d] /\ g = of[d])
      BY <3>1, <3>2, ModelsOfManager DEF SetStatus, DownloadTypes,
         DownloadTypeOK
    <3>4. CASE g /= of[d]
      <4>1. Length(g)' = Length(g)
        BY <3>1, <3>2, <3>3, <3>4 DEF Length, Present, DownloadTypes,
           DownloadTypeOK
      <4>2. AboutToFail(n, g) => AboutToFail(n, g)'
        BY <3>2 DEF AboutToFail, DownloadTypes, DownloadTypeOK
      <4> QED BY <3>2, <3>3, <4>1, <4>2 DEF AvailableIsLarge, Excused
    <3>5. CASE g = of[d]
      BY <3>2, <3>3, <3>5 DEF Meddling, Excused
    <3> QED BY <3>4, <3>5
  <2>3. CASE Chunk(d)
    <3>1. by[d] \in Managers /\ of[d] \in ModelsOf(by[d]) /\ of[d] \in Models
      BY <2>3, TaskOfManager DEF Chunk, Running, DownloadTypes
    <3>2. /\ file' = IF fd[d] = "named" THEN [file EXCEPT ![of[d]] = Written(d)] ELSE file
          /\ SetStatus(by[d], of[d], "downloading") /\ UNCHANGED <<by, of, meddled, outdated>>
          /\ dpc[d] = "chunk" /\ got[d] < Size /\ dpc' = [dpc EXCEPT ![d] = "loop"]
      BY <2>3 DEF Chunk, Step, downloadHistory
    <3> SUFFICES ASSUME NEW n \in Managers, NEW g \in ModelsOf(n),
                        status'[n][g] = "available"
                 PROVE  Length(g)' >= Least \/ Excused(n, g)' \/ AboutToFail(n, g)'
      BY DEF AvailableIsLarge
    <3>3. status[n][g] = "available" /\ g \in Models
      BY <3>1, <3>2, ModelsOfManager DEF SetStatus, DownloadTypes,
         DownloadTypeOK
    <3>4. AboutToFail(n, g) => AboutToFail(n, g)'
      BY <3>2 DEF AboutToFail, DownloadTypes, DownloadTypeOK
    <3>5. CASE g /= of[d] \/ fd[d] /= "named"
      <4>1. Length(g)' = Length(g)
        BY <3>1, <3>2, <3>3, <3>5 DEF Length, Present, DownloadTypes,
           DownloadTypeOK
      <4> QED BY <3>2, <3>3, <3>4, <4>1 DEF AvailableIsLarge, Excused
    <3>6. CASE g = of[d] /\ fd[d] = "named" /\ g \in meddled
      BY <3>2, <3>6 DEF Excused
    <3>7. CASE g = of[d] /\ fd[d] = "named" /\ g \notin meddled
      <4>1. Length(g)' >= Length(g) /\ Length(g)' \in Nat /\ Length(g) \in Nat
        BY <3>2, <3>3, <3>7, ChunkLengthens
      <4> QED BY <3>2, <3>3, <3>4, <4>1, DownloadsAssumption
            DEF AvailableIsLarge, Excused
    <3> QED BY <3>5, <3>6, <3>7
  <2>4. CASE StreamEnds(d)
    <3>1. by[d] \in Managers /\ of[d] \in ModelsOf(by[d]) /\ of[d] \in Models
      BY <2>4, TaskOfManager DEF StreamEnds, Running, DownloadTypes
    <3>2. CASE CameWhole(d)
      <4>1. /\ UNCHANGED <<file, by, of, meddled, outdated>>
            /\ \A e \in Downloads \ {d} : dpc'[e] = dpc[e]
            /\ SetStatus(by[d], of[d], "downloading")
        BY <2>4, <3>2 DEF StreamEnds, Step, DownloadTypes, DownloadTypeOK
      <4> QED BY <3>1, <4>1, OwnStatusKeepsLarge DEF Statuses
    <3>3. CASE ~CameWhole(d)
      <4>1. /\ Remove(of[d]) /\ meddled' = meddled \cup Meddling(by[d], of[d])
            /\ outdated' = outdated /\ status' = status /\ UNCHANGED <<by, of>>
            /\ dpc' = [dpc EXCEPT ![d] = "failed"]
        BY <2>4, <3>3 DEF StreamEnds, Step
      <4>2. AboutToFail(by[d], of[d])'
        BY <4>1 DEF AboutToFail, DownloadTypes, DownloadTypeOK
      <4>3. \A n \in Managers : \A g \in ModelsOf(n) :
               AboutToFail(n, g) => AboutToFail(n, g)'
        BY <4>1 DEF AboutToFail, DownloadTypes, DownloadTypeOK
      <4> QED BY <3>1, <4>1, <4>2, <4>3, RemoveKeepsLarge
    <3> QED BY <3>2, <3>3
  <2>5. CASE NetworkFails(d)
    BY <2>5, TaskKeepsLarge DEF NetworkFails, Step, diskVars
  <2> QED BY <1>1, <2>1, <2>2, <2>3, <2>4, <2>5 DEF NetworkStep
<1>2. ASSUME NEW d \in Downloads, TaskStep(d) PROVE AvailableIsLarge'
  <2>1. CASE AlreadyThere(d)
    <3>1. by[d] \in Managers /\ of[d] \in ModelsOf(by[d]) /\ of[d] \in Models
      BY <2>1, TaskOfManager DEF AlreadyThere, Running, DownloadTypes
    <3>2. Length(of[d]) >= Least
      BY <2>1, DownloadsAssumption DEF AlreadyThere, RightSize
    <3> QED BY <2>1, <3>1, <3>2, OwnStatusKeepsLarge DEF AlreadyThere, Step,
               diskVars, downloadHistory, Statuses
  <2>2. CASE Prepare(d)
    <3>1. by[d] \in Managers /\ of[d] \in ModelsOf(by[d]) /\ of[d] \in Models
      BY <2>2, TaskOfManager DEF Prepare, Running, DownloadTypes
    <3>2. /\ UNCHANGED <<status, by, of, meddled, outdated>>
          /\ dpc' = [dpc EXCEPT ![d] = "request"] /\ dpc[d] = "prepare"
      BY <2>2 DEF Prepare, Step, downloadHistory
    <3>3. CASE Length(of[d]) > Most
      <4>1. of[d] \in meddled
        <5>1. SUFFICES ASSUME of[d] \notin meddled PROVE FALSE
          OBVIOUS
        <5>2. Present(of[d])
          BY <3>3, DownloadsAssumption DEF Length
        <5>3. Length(of[d]) <= Size /\ Length(of[d]) \in Nat
          BY <3>1, <5>1, <5>2, LengthIsNat DEF CleanFiles, IsPrefix,
             DownloadTypes
        <5> QED BY <3>3, <5>3, DownloadsAssumption
      <4>2. \A g \in Models : Length(g)' = Length(g) \/ g \in meddled
        BY <2>2, <3>3, <4>1 DEF Prepare, Remove, Length, Present,
           DownloadTypes, DownloadTypeOK
      <4>3. \A n \in Managers : \A g \in ModelsOf(n) :
               AboutToFail(n, g) => AboutToFail(n, g)'
        BY <3>2 DEF AboutToFail, DownloadTypes, DownloadTypeOK
      <4> QED BY <3>2, <4>2, <4>3, ModelsOfManager DEF AvailableIsLarge, Excused
    <3>4. CASE ~(Length(of[d]) > Most)
      BY <2>2, <3>2, <3>4, TaskKeepsLarge DEF Prepare
    <3> QED BY <3>3, <3>4
  <2>3. CASE Request(d)
    BY <2>3, TaskKeepsLarge DEF Request, Step, diskVars, downloadHistory
  <2>4. CASE CheckFlag(d)
    BY <2>4, TaskKeepsLarge DEF CheckFlag, Step, diskVars, downloadHistory
  <2>5. CASE TimesOut(d)
    BY <2>5, TaskKeepsLarge DEF TimesOut, Step, diskVars
  <2>6. CASE Validate(d)
    <3>1. by[d] \in Managers /\ of[d] \in ModelsOf(by[d]) /\ of[d] \in Models
      BY <2>6, TaskOfManager DEF Validate, Running, DownloadTypes
    <3>2. CASE HasMagic(of[d])
      <4>1. of[d] \in meddled \/ Length(of[d]) >= Least
        BY <2>6, <3>1, <3>2, ValidatedIsWhole, WholeHasMagic,
           DownloadsAssumption DEF Validate
      <4> QED BY <2>6, <3>1, <3>2, <4>1, OwnStatusKeepsLarge
            DEF Validate, Step, Statuses, Excused
    <3>3. CASE ~HasMagic(of[d])
      <4>1. /\ Remove(of[d]) /\ meddled' = meddled \cup Meddling(by[d], of[d])
            /\ outdated' = outdated /\ SetStatus(by[d], of[d], ErrorStatus(by[d]))
            /\ UNCHANGED <<by, of>> /\ dpc[d] = "validate"
            /\ dpc' = [dpc EXCEPT ![d] = "done"]
        BY <2>6, <3>3 DEF Validate, Step
      <4>2. \A n \in Managers : \A g \in ModelsOf(n) :
               status'[n][g] = "available" =>
                  status[n][g] = "available" /\ ~(n = by[d] /\ g = of[d])
        BY <3>1, <4>1, ModelsOfManager DEF SetStatus, ErrorStatus,
           DownloadTypes, DownloadTypeOK
      <4>3. \A n \in Managers : \A g \in ModelsOf(n) :
               AboutToFail(n, g) => AboutToFail(n, g)'
        BY <4>1 DEF AboutToFail, DownloadTypes, DownloadTypeOK
      <4> QED BY <3>1, <4>1, <4>2, <4>3, RemoveKeepsLarge
    <3> QED BY <3>2, <3>3
  <2>7. CASE EndCancelled(d)
    <3>1. by[d] \in Managers /\ of[d] \in ModelsOf(by[d]) /\ of[d] \in Models
      BY <2>7, TaskOfManager DEF EndCancelled, Running, DownloadTypes
    <3>2. CASE by[d] = "engine"
      BY <2>7, <3>2, TaskKeepsLarge DEF EndCancelled, Step, diskVars,
         downloadHistory
    <3>3. CASE by[d] /= "engine"
      BY <2>7, <3>1, <3>3, OwnStatusKeepsLarge DEF EndCancelled, Step,
         diskVars, downloadHistory, Statuses
    <3> QED BY <3>2, <3>3
  <2>8. CASE EndFailed(d)
    <3>1. by[d] \in Managers /\ of[d] \in ModelsOf(by[d]) /\ of[d] \in Models
      BY <2>8, TaskOfManager DEF EndFailed, Running, DownloadTypes
    <3> QED BY <2>8, <3>1, OwnStatusKeepsLarge DEF EndFailed, Step,
               ErrorStatus, diskVars, downloadHistory, Statuses
  <2> QED BY <1>2, <2>1, <2>2, <2>3, <2>4, <2>5, <2>6, <2>7, <2>8 DEF TaskStep
<1>3. ASSUME NEW m \in Managers, NEW f \in ModelsOf(m), NEW d \in Downloads, Begin(d, m,
             f)
      PROVE  AvailableIsLarge'
  <2>1. /\ file' = file /\ outdated' = outdated /\ meddled \subseteq meddled'
        /\ dpc[d] = "idle"
    BY <1>3 DEF Begin, diskVars
  <2>2. \A n \in Managers : \A g \in ModelsOf(n) :
           /\ status'[n][g] = "available" => status[n][g] = "available"
           /\ AboutToFail(n, g) => AboutToFail(n, g)'
    <3>1. \A n \in Managers : \A g \in ModelsOf(n) :
             status'[n][g] = "available" => status[n][g] = "available"
      <4>1. status' = status \/ status' = [status EXCEPT ![m][f] = "downloading"]
        BY <1>3 DEF Begin, SetStatus
      <4>2. status \in [Managers -> [Models -> Statuses]]
        BY DEF DownloadTypes, DownloadTypeOK
      <4> QED BY <4>1, <4>2, ModelsOfManager
    <3>2. \A e \in Downloads \ {d} :
             dpc'[e] = dpc[e] /\ by'[e] = by[e] /\ of'[e] = of[e]
      BY <1>3 DEF Begin, Step, DownloadTypes, DownloadTypeOK
    <3> QED BY <2>1, <3>1, <3>2 DEF AboutToFail
  <2> QED BY <2>1, <2>2 DEF AvailableIsLarge, Excused, Length, Present
<1>4. ASSUME NEW m \in Managers, NEW f \in ModelsOf(m), CancelDownload(m, f)
      PROVE  AvailableIsLarge'
  <2>1. /\ UNCHANGED <<file, dpc, by, of, meddled, outdated>>
        /\ SetStatus(m, f, "missing")
    BY <1>4 DEF CancelDownload, taskVars
  <2>2. \A n \in Managers : \A g \in ModelsOf(n) :
           status'[n][g] = "available" => status[n][g] = "available"
    BY <2>1, ModelsOfManager DEF SetStatus, DownloadTypes, DownloadTypeOK
  <2> QED BY <2>1, <2>2 DEF AvailableIsLarge, Excused, AboutToFail, Length, Present
<1>5. ASSUME NEW m \in Managers, NEW f \in ModelsOf(m), DeleteModel(m, f)
      PROVE  AvailableIsLarge'
  <2>1. \A n \in Managers : \A g \in ModelsOf(n) :
           status'[n][g] = "available" =>
              status[n][g] = "available" /\ ~(n = m /\ g = f)
    BY <1>5, ModelsOfManager DEF DeleteModel, SetStatus, DownloadTypes,
       DownloadTypeOK
  <2>2. \A n \in Managers : \A g \in ModelsOf(n) :
           AboutToFail(n, g) => AboutToFail(n, g)'
    BY <1>5 DEF DeleteModel, AboutToFail
  <2> QED BY <1>5, <2>1, <2>2, RemoveKeepsLarge DEF DeleteModel
<1>6. ASSUME NEW m \in Managers, ScanFiles(m)
      PROVE  AvailableIsLarge'
  BY <1>6 DEF ScanFiles, diskVars, taskVars, downloadHistory,
     AvailableIsLarge, Excused, AboutToFail, Length, Present
<1>7. ASSUME NEW m \in Managers, StoreScan(m)
      PROVE  AvailableIsLarge'
  <2>1. /\ UNCHANGED <<file, dpc, by, of, meddled>> /\ outdated \subseteq outdated'
    BY <1>7 DEF StoreScan, diskVars, taskVars
  <2>2. SUFFICES ASSUME NEW n \in Managers, NEW f \in ModelsOf(n),
                        status'[n][f] = "available", n \notin outdated'
                 PROVE  Length(f) >= Least \/ status[n][f] = "available"
    BY <2>1 DEF AvailableIsLarge, Excused, AboutToFail, Length, Present
  <2>3. CASE n /= m
    BY <1>7, <2>2, <2>3 DEF StoreScan, DownloadTypes, DownloadTypeOK
  <2>4. CASE n = m
    <3>1. Finds(m)[f] = "available" /\ f \in Models
      BY <1>7, <2>2, <2>4, ModelsOfManager DEF StoreScan, DownloadTypes,
         DownloadTypeOK
    <3> QED BY <2>2, <2>4, <3>1, DownloadsAssumption DEF Finds, EngineFinds,
               ManagerFinds, RightSize
  <2> QED BY <2>3, <2>4
<1>8. ASSUME RemoveCancelled
      PROVE  AvailableIsLarge'
  <2>1. removal \in WhisperModels /\ removal \in Models
    BY <1>8 DEF RemoveCancelled, Alone, Models
  <2>2. \A n \in Managers : removal \in ModelsOf(n) => n = "engine"
    BY <2>1, DownloadsAssumption DEF ModelsOf, Managers
  <2>3. /\ Remove(removal) /\ UNCHANGED <<status, dpc, by, of, outdated>>
        /\ meddled' = IF status["engine"][removal] = "available"
                      THEN meddled \cup {removal} ELSE meddled
    BY <1>8 DEF RemoveCancelled
  <2>4. \A g \in Models : g /= removal => Length(g)' = Length(g)
    BY <2>3 DEF Remove, Length, Present, DownloadTypes, DownloadTypeOK
  <2> QED BY <2>2, <2>3, <2>4, ModelsOfManager
        DEF AvailableIsLarge, Excused, AboutToFail
<1>9. CASE UNCHANGED downloadVars
  BY <1>9 DEF downloadVars, diskVars, taskVars, downloadHistory,
     AvailableIsLarge, Excused, AboutToFail, Length, Present
<1> QED BY <1>1, <1>2, <1>3, <1>4, <1>5, <1>6, <1>7, <1>8, <1>9 DEF
   DownloadNext

(***************************************************************************)
(* Together.                                                               *)
(***************************************************************************)
DownloadInv ==
    /\ DownloadTypes
    /\ ActiveOrDropped /\ OneDownload
    /\ CancelledIsDropped /\ NoPhantomDownload
    /\ CleanFiles /\ Alone /\ Progress
    /\ LetGo /\ BrokenOff /\ PartHasCause /\ AvailableIsLarge

(* The invariant holds at the start, whichever models are there. *)
LEMMA DownloadsStart ==
    ASSUME NEW there, DownloadInitWith(there)
    PROVE  DownloadInv
<1>1. DownloadTypes
  BY InitDownloadTypes
<1>2. ActiveOrDropped /\ OneDownload /\ CancelledIsDropped /\ NoPhantomDownload
  BY ModelsOfManager
     DEF DownloadInitWith, ActiveOrDropped, OneDownload, CancelledIsDropped,
         NoPhantomDownload, Running
<1>3. Alone /\ Progress /\ LetGo /\ BrokenOff
  BY DEF DownloadInitWith, Alone, Progress, ProgressOf, LetGo, BrokenOff,
     Running
<1>4. CleanFiles
  <2>1. IsPrefix(Whole)
    BY PrefixOfLength, DownloadsAssumption DEF Whole
  <2> QED BY <2>1 DEF DownloadInitWith, CleanFiles, Present
<1>5. PartHasCause
  BY DEF DownloadInitWith, PartHasCause, Present
<1>6. AvailableIsLarge
  <2> SUFFICES ASSUME NEW m \in Managers, NEW f \in ModelsOf(m),
                      status[m][f] = "available"
               PROVE  Length(f) >= Least
    BY DEF AvailableIsLarge
  <2>1. f \in Models /\ file[f] = Whole
    BY ModelsOfManager DEF DownloadInitWith
  <2> QED BY <2>1, WholeHasMagic, DownloadsAssumption
<1> QED BY <1>1, <1>2, <1>3, <1>4, <1>5, <1>6 DEF DownloadInv

(* And every step of the downloads keeps it. *)
LEMMA DownloadsStep ==
    ASSUME DownloadInv, [DownloadNext]_downloadVars
    PROVE  DownloadInv'
BY TypesStep, OneDownloadStep, CancelledStep, PhantomStep, AloneStep,
   CleanStep, InterruptedStep, CauseStep, LargeStep
   DEF DownloadInv
============================================================================
