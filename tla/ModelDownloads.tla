--------------------------- MODULE ModelDownloads ---------------------------
(***************************************************************************)
(* The downloads of model files: DownloadGuard and download_file of        *)
(* utils/download.rs with its two users, WhisperEngine                     *)
(* (whisper_engine/whisper_engine.rs) and ModelManager                     *)
(* (summary/summary_engine/model_manager.rs).                              *)
(*                                                                         *)
(* The settings and the onboarding window each make a ModelManager of      *)
(* their own over the same directory: two guards and two status maps for   *)
(* one file.  A file is the chunks found in it, in order: chunk k is the   *)
(* k-th part of the model, 0 a hole.  The code compares sizes with a       *)
(* tolerance: from nine tenths of the catalogue's size on, and for a       *)
(* ModelManager up to eleven tenths, a file counts as the model; Least and *)
(* Most are those bounds in chunks.  A writer keeps the file it opened     *)
(* when the name is removed.  A download is its task, from begin() on; a   *)
(* step ends where the server, the disk or a delay is waited for, and the  *)
(* short locks of the guard and the status map are part of it.             *)
(***************************************************************************)
EXTENDS Naturals, Sequences, FiniteSets, BuiltinCatalog

CONSTANTS
    Downloads,       \* calls of download_model (bound: their number)
    WhisperModels,   \* models of the engine
    Size,            \* chunks of a model file
    Least, Most      \* the sizes that pass for it: size_mb * 0.9, size_mb * 1.1

Managers == {"engine", "settings", "onboarding"}
Models == BuiltinModels \cup WhisperModels
ModelsOf(m) == IF m = "engine" THEN WhisperModels ELSE BuiltinModels

ASSUME DownloadsAssumption ==
    /\ Size \in Nat \ {0}
    /\ Least \in 1..Size
    /\ Most \in Nat /\ Size <= Most
    /\ BuiltinModels \cap WhisperModels = {}
    /\ NONE \notin Models \cup Seq(0..Size)

Statuses == {"missing", "downloading", "available", "corrupted", "error"}
DownloadLabels == {"idle", "prepare", "request", "response", "loop", "chunk",
                   "validate", "cancelled", "failed", "done"}

VARIABLES
    file,        \* the chunks of each file, NONE when there is none
    guarded,     \* DownloadGuard.active of each manager
    cancelFlag,  \* DownloadGuard.cancel_flag of each manager: one name
    status,      \* available_models of each manager
    dpc,         \* where each download is
    by, of,      \* its manager and its model
    got,         \* downloaded
    fd,          \* the file it writes: "none", the named one or one removed
    append,      \* whether it resumes
    removal,     \* the model whose file a cancelled engine download removes
    scan,        \* what a scan of a manager has found and not stored yet
    \* ---- history, for the properties
    dropped,     \* <<manager, model>>: a download of it was cancelled
    meddled,     \* models whose file two parties worked on
    interrupted, \* models a cancelled or broken download left in part
    outdated     \* managers that stored a scan no longer true

diskVars == <<file, removal>>
guardVars == <<guarded, cancelFlag>>
taskVars == <<dpc, by, of, got, fd, append>>
downloadHistory == <<dropped, meddled, interrupted, outdated>>
downloadVars == <<diskVars, guardVars, status, taskVars, scan, downloadHistory>>

Whole == [k \in 1..Size |-> k]
IsPrefix(s) == Len(s) <= Size /\ s = [k \in 1..Len(s) |-> k]

DownloadTypeOK ==
    /\ file \in [Models -> Seq(0..Size) \cup {NONE}]
    /\ guarded \in [Managers -> SUBSET Models]
    /\ cancelFlag \in [Managers -> Models \cup {NONE}]
    /\ status \in [Managers -> [Models -> Statuses]]
    /\ dpc \in [Downloads -> DownloadLabels]
    /\ by \in [Downloads -> Managers \cup {NONE}]
    /\ of \in [Downloads -> Models \cup {NONE}]
    /\ got \in [Downloads -> Nat]
    /\ fd \in [Downloads -> {"none", "named", "removed"}]
    /\ append \in [Downloads -> BOOLEAN]
    /\ removal \in Models \cup {NONE}
    /\ scan \in [Managers -> [Models -> Statuses] \cup {NONE}]
    /\ dropped \subseteq Managers \X Models
    /\ meddled \subseteq Models /\ interrupted \subseteq Models
    /\ outdated \subseteq Managers

(* The managers have scanned a directory with the models that are there. *)
DownloadInitWith(there) ==
    /\ file = [f \in Models |-> IF f \in there THEN Whole ELSE NONE]
    /\ removal = NONE
    /\ guarded = [m \in Managers |-> {}]
    /\ cancelFlag = [m \in Managers |-> NONE]
    /\ status = [m \in Managers |-> [f \in Models |->
                    IF f \in there \cap ModelsOf(m) THEN "available" ELSE "missing"]]
    /\ dpc = [d \in Downloads |-> "idle"]
    /\ by = [d \in Downloads |-> NONE] /\ of = [d \in Downloads |-> NONE]
    /\ got = [d \in Downloads |-> 0] /\ fd = [d \in Downloads |-> "none"]
    /\ append = [d \in Downloads |-> FALSE]
    /\ scan = [m \in Managers |-> NONE]
    /\ dropped = {} /\ meddled = {} /\ interrupted = {} /\ outdated = {}

Running(d) == dpc[d] \notin {"idle", "done"}
Step(d, label) == dpc' = [dpc EXCEPT ![d] = label]
SetStatus(m, f, s) == status' = [status EXCEPT ![m][f] = s]

Present(f) == file[f] # NONE
Length(f) == IF Present(f) THEN Len(file[f]) ELSE 0

(* ModelManager's size check, with its tolerance. *)
RightSize(f) == Length(f) \in Least..Most

(* The magic number is in the first chunk. *)
HasMagic(f) == Length(f) > 0 /\ file[f][1] = 1

(* A manager removes or truncates what another one has as available. *)
Meddling(m, f) ==
    IF \E n \in Managers \ {m} : status[n][f] = "available" THEN {f} ELSE {}

(* A download that stops while it writes leaves what it has written. *)
LeavesPart(d) ==
    interrupted' = IF fd[d] = "named" THEN interrupted \cup {of[d]} ELSE interrupted

(* The name goes; those who write keep the file without it. *)
Remove(f) ==
    /\ file' = [file EXCEPT ![f] = NONE]
    /\ fd' = [d \in Downloads |->
                IF of[d] = f /\ fd[d] = "named" THEN "removed" ELSE fd[d]]

(***************************************************************************)
(* download_model and download_model_detailed.                             *)
(***************************************************************************)

(* Mutant: begin() does not look whether the name is active. *)
AlwaysAdmits(m, f) == TRUE

Admits(m, f) == f \notin guarded[m]

(* begin(), and the status of a download that was let in. *)
Begin(d, m, f) ==
    /\ dpc[d] = "idle" /\ f \in ModelsOf(m)
    /\ IF Admits(m, f)
       THEN /\ guarded' = [guarded EXCEPT ![m] = @ \cup {f}]
            /\ cancelFlag' = [cancelFlag EXCEPT ![m] = NONE]
            /\ by' = [by EXCEPT ![d] = m] /\ of' = [of EXCEPT ![d] = f]
            /\ SetStatus(m, f, "downloading")
            /\ Step(d, IF m = "engine" THEN "request" ELSE "prepare")
            /\ meddled' = IF \E e \in Downloads : Running(e) /\ of[e] = f
                          THEN meddled \cup {f} ELSE meddled
       ELSE Step(d, "done") /\ UNCHANGED <<guardVars, by, of, status, meddled>>
    /\ UNCHANGED <<diskVars, got, fd, append, scan, dropped, interrupted,
                   outdated>>

Finish(d) == guarded' = [guarded EXCEPT ![by[d]] = @ \ {of[d]}]

(* ModelManager looks at the file first.  One that is large enough is      *)
(* taken for the model, whether or not its download had come to an end;    *)
(* one that is too large is removed, and only a smaller one is resumed.    *)
AlreadyThere(d) ==
    /\ dpc[d] = "prepare" /\ RightSize(of[d])
    /\ SetStatus(by[d], of[d], "available")
    /\ Finish(d)
    /\ Step(d, "done")
    /\ UNCHANGED <<diskVars, cancelFlag, by, of, got, fd, append, scan,
                   downloadHistory>>

Prepare(d) ==
    /\ dpc[d] = "prepare" /\ ~RightSize(of[d])
    /\ IF Length(of[d]) > Most THEN Remove(of[d]) ELSE UNCHANGED <<file, fd>>
    /\ Step(d, "request")
    /\ UNCHANGED <<removal, guardVars, status, by, of, got, append, scan,
                   downloadHistory>>

(* download_file: the size that is there goes into the Range header. *)
Request(d) ==
    /\ dpc[d] = "request"
    /\ got' = [got EXCEPT ![d] = Length(of[d])]
    /\ Step(d, "response")
    /\ UNCHANGED <<diskVars, guardVars, status, by, of, fd, append, scan,
                   downloadHistory>>

(* 206: the file is opened for append, if it is still there. *)
Resumes(d) ==
    /\ dpc[d] = "response" /\ got[d] \in 1..Size - 1
    /\ IF Present(of[d])
       THEN /\ fd' = [fd EXCEPT ![d] = "named"]
            /\ append' = [append EXCEPT ![d] = TRUE]
            /\ SetStatus(by[d], of[d], "downloading")
            /\ Step(d, "loop")
       ELSE Step(d, "failed") /\ UNCHANGED <<fd, append, status>>
    /\ UNCHANGED <<diskVars, guardVars, by, of, got, scan, downloadHistory>>

(* 200: File::create, which truncates the file that is there. *)
StartsOver(d) ==
    /\ dpc[d] = "response"
    /\ file' = [file EXCEPT ![of[d]] = <<>>]
    /\ got' = [got EXCEPT ![d] = 0]
    /\ fd' = [fd EXCEPT ![d] = "named"]
    /\ SetStatus(by[d], of[d], "downloading")
    /\ Step(d, "loop")
    /\ meddled' = meddled \cup Meddling(by[d], of[d])
    /\ UNCHANGED <<removal, guardVars, by, of, append, scan, dropped,
                   interrupted, outdated>>

(* The check of the flag before each chunk. *)
CheckFlag(d) ==
    /\ dpc[d] = "loop"
    /\ Step(d, IF cancelFlag[by[d]] = of[d] THEN "cancelled" ELSE "chunk")
    /\ UNCHANGED <<diskVars, guardVars, status, by, of, got, fd, append, scan,
                   downloadHistory>>

(* write_all: at the end of the file, or at the writer's own offset.  Its  *)
(* progress callback sets the status again.                                *)
Written(d) ==
    LET old == file[of[d]]
        at == IF append[d] THEN Len(old) + 1 ELSE got[d] + 1
        end == IF at > Len(old) THEN at ELSE Len(old)
    IN [k \in 1..end |-> IF k = at THEN got[d] + 1
                         ELSE IF k <= Len(old) THEN old[k] ELSE 0]

Chunk(d) ==
    /\ dpc[d] = "chunk" /\ got[d] < Size
    /\ file' = IF fd[d] = "named" THEN [file EXCEPT ![of[d]] = Written(d)] ELSE file
    /\ got' = [got EXCEPT ![d] = @ + 1]
    /\ SetStatus(by[d], of[d], "downloading")
    /\ Step(d, "loop")
    /\ UNCHANGED <<removal, guardVars, by, of, fd, append, scan, downloadHistory>>

(* Mutant: the bytes that came are not counted. *)
TrustsTheEnd(d) == TRUE

CameWhole(d) == got[d] = Size

(* The stream ends: what is short of the announced size is removed. *)
StreamEnds(d) ==
    /\ dpc[d] = "chunk"
    /\ IF CameWhole(d)
       THEN /\ SetStatus(by[d], of[d], "downloading")
            /\ Step(d, "validate")
            /\ UNCHANGED <<file, fd, meddled>>
       ELSE /\ Remove(of[d])
            /\ Step(d, "failed")
            /\ meddled' = meddled \cup Meddling(by[d], of[d])
            /\ UNCHANGED status
    /\ UNCHANGED <<removal, guardVars, by, of, got, append, scan, dropped,
                   interrupted, outdated>>

(* No connection, a bad status, an error in the stream.  What came so far  *)
(* stays on disk.                                                          *)
NetworkFails(d) ==
    /\ dpc[d] \in {"response", "chunk"}
    /\ Step(d, "failed")
    /\ LeavesPart(d)
    /\ UNCHANGED <<diskVars, guardVars, status, by, of, got, fd, append, scan,
                   dropped, meddled, outdated>>

(* Mutant: no timeout is asked for. *)
WaitsForever(d) == dpc[d] = "chunk" /\ FALSE /\ UNCHANGED downloadVars

(* Thirty seconds without a chunk, or an hour in all: limits that only     *)
(* ModelManager sets.                                                      *)
TimesOut(d) ==
    /\ dpc[d] \in {"response", "chunk"} /\ by[d] # "engine"
    /\ Step(d, "failed")
    /\ LeavesPart(d)
    /\ UNCHANGED <<diskVars, guardVars, status, by, of, got, fd, append, scan,
                   dropped, meddled, outdated>>

ErrorStatus(m) == IF m = "engine" THEN "missing" ELSE "error"

Validate(d) ==
    /\ dpc[d] = "validate"
    /\ IF HasMagic(of[d])
       THEN /\ SetStatus(by[d], of[d], "available")
            /\ interrupted' = interrupted \ {of[d]}
            /\ UNCHANGED <<file, fd, meddled>>
       ELSE /\ Remove(of[d])
            /\ UNCHANGED interrupted
            /\ SetStatus(by[d], of[d], ErrorStatus(by[d]))
            /\ meddled' = meddled \cup Meddling(by[d], of[d])
    /\ Finish(d)
    /\ Step(d, "done")
    /\ UNCHANGED <<removal, cancelFlag, by, of, got, append, scan, dropped,
                   outdated>>

(* WhisperEngine leaves the status to cancel_download. *)
EndCancelled(d) ==
    /\ dpc[d] = "cancelled"
    /\ Finish(d)
    /\ IF by[d] = "engine" THEN UNCHANGED status
       ELSE SetStatus(by[d], of[d], "missing")
    /\ Step(d, "done")
    /\ UNCHANGED <<diskVars, cancelFlag, by, of, got, fd, append, scan,
                   downloadHistory>>

(* Mutant: a failed download leaves its status as it is. *)
EndFailedSilently(d) ==
    /\ dpc[d] = "failed"
    /\ Finish(d)
    /\ Step(d, "done")
    /\ UNCHANGED <<diskVars, cancelFlag, status, by, of, got, fd, append, scan,
                   downloadHistory>>

EndFailed(d) ==
    /\ dpc[d] = "failed"
    /\ Finish(d)
    /\ SetStatus(by[d], of[d], ErrorStatus(by[d]))
    /\ Step(d, "done")
    /\ UNCHANGED <<diskVars, cancelFlag, by, of, got, fd, append, scan,
                   downloadHistory>>

(***************************************************************************)
(* cancel_download, delete_model and the scans.                            *)
(***************************************************************************)
CancelDownload(m, f) ==
    /\ f \in ModelsOf(m) /\ status[m][f] = "downloading"
    /\ cancelFlag' = [cancelFlag EXCEPT ![m] = f]
    /\ guarded' = [guarded EXCEPT ![m] = @ \ {f}]
    /\ SetStatus(m, f, "missing")
    /\ dropped' = dropped \cup {<<m, f>>}
    /\ interrupted' = interrupted \cup {f}
    /\ removal' = IF m = "engine" THEN f ELSE removal
    /\ UNCHANGED <<file, taskVars, scan, meddled, outdated>>

(* WhisperEngine removes the file a tenth of a second later. *)
RemoveCancelled ==
    /\ removal # NONE
    /\ Remove(removal)
    /\ removal' = NONE
    /\ meddled' = IF status["engine"][removal] = "available"
                  THEN meddled \cup {removal} ELSE meddled
    /\ UNCHANGED <<guardVars, status, dpc, by, of, got, append, scan, dropped,
                   interrupted, outdated>>

(* WhisperEngine deletes what it has as available or corrupted; a          *)
(* ModelManager deletes whatever is there, if anything is.                 *)
DeleteModel(m, f) ==
    /\ f \in ModelsOf(m)
    /\ m = "engine" => status[m][f] \in {"available", "corrupted"}
    /\ Remove(f)
    /\ SetStatus(m, f, "missing")
    /\ meddled' = meddled \cup Meddling(m, f)
    /\ UNCHANGED <<removal, guardVars, dpc, by, of, got, append, scan, dropped,
                   interrupted, outdated>>

(* scan_catalog_entry: no upper limit, but the magic number; from nine     *)
(* tenths on it does not matter whether a download is still writing.       *)
EngineFinds(f) ==
    IF Length(f) = 0 THEN "missing"
    ELSE IF Length(f) >= Least
         THEN IF HasMagic(f) THEN "available" ELSE "corrupted"
    ELSE IF status["engine"][f] = "downloading" THEN "downloading"
    ELSE "corrupted"

(* scan_models: the status of an active download is kept, and sizes count. *)
ManagerFinds(m, f) ==
    IF f \in guarded[m] THEN status[m][f]
    ELSE IF ~Present(f) THEN "missing"
    ELSE IF RightSize(f) THEN "available" ELSE "corrupted"

Finds(m) ==
    [f \in Models |-> IF f \notin ModelsOf(m) THEN status[m][f]
                      ELSE IF m = "engine" THEN EngineFinds(f)
                      ELSE ManagerFinds(m, f)]

ScanFiles(m) ==
    /\ scan[m] = NONE
    /\ scan' = [scan EXCEPT ![m] = Finds(m)]
    /\ UNCHANGED <<diskVars, guardVars, status, taskVars, downloadHistory>>

(* The whole map is replaced, whatever happened while the files were read. *)
StoreScan(m) ==
    /\ scan[m] # NONE
    /\ status' = [status EXCEPT ![m] = scan[m]]
    /\ scan' = [scan EXCEPT ![m] = NONE]
    /\ outdated' = IF scan[m] = Finds(m) THEN outdated ELSE outdated \cup {m}
    /\ UNCHANGED <<diskVars, guardVars, taskVars, dropped, meddled, interrupted>>

(* What needs the server, and what the task does by itself. *)
NetworkStep(d) ==
    Resumes(d) \/ StartsOver(d) \/ Chunk(d) \/ StreamEnds(d) \/ NetworkFails(d)
TaskStep(d) ==
    \/ AlreadyThere(d) \/ Prepare(d) \/ Request(d) \/ CheckFlag(d) \/ TimesOut(d)
    \/ Validate(d) \/ EndCancelled(d) \/ EndFailed(d)

(***************************************************************************)
(* Properties.                                                             *)
(***************************************************************************)

(* A model shown as available is the whole file, unless two downloads, or  *)
(* two managers, or a cancellation's removal met on it, or a scan was      *)
(* stored late (validation looks at the magic number only).  Otherwise it  *)
(* lacks at most the last tenth, and no other part: the tolerance of the   *)
(* size checks lets a file pass whose download was interrupted there, or   *)
(* is still writing (WhisperEngine's scan, or that of another window).     *)
(* A download that fails has removed the file a moment before it says so.  *)
MayLackItsEnd(f) ==
    f \in interrupted \/ \E d \in Downloads : Running(d) /\ of[d] = f

PassesForWhole(f) ==
    MayLackItsEnd(f) /\ Length(f) >= Least /\ IsPrefix(file[f])

AboutToFail(m, f) ==
    \E d \in Downloads : dpc[d] = "failed" /\ by[d] = m /\ of[d] = f

Excused(m, f) == f \in meddled \/ m \in outdated

AvailableIsIntact ==
    \A m \in Managers : \A f \in ModelsOf(m) :
        status[m][f] = "available" =>
            \/ file[f] = Whole \/ Excused(m, f)
            \/ PassesForWhole(f) \/ AboutToFail(m, f)

(* The same without the tolerance: an error removes the partial file, and  *)
(* the one a cancellation leaves is resumed by a later call, as the doc of *)
(* download_file has it.                                                   *)
AvailableIsWhole ==
    \A m \in Managers : \A f \in ModelsOf(m) :
        status[m][f] = "available" => file[f] = Whole \/ Excused(m, f)

(* One manager downloads a model twice at a time only if it cancelled a    *)
(* download of it: request_cancel lets a retry in before the loop ends.    *)
OneDownload ==
    \A d, e \in Downloads :
        d # e /\ Running(d) /\ Running(e) /\ by[d] = by[e] /\ of[d] = of[e] =>
            <<by[d], of[d]>> \in dropped

(* "Downloading" is shown while a download runs; after a cancellation, a   *)
(* chunk on its way sets it again and WhisperEngine never takes it back.   *)
NoPhantomDownload ==
    \A m \in Managers : \A f \in ModelsOf(m) :
        status[m][f] = "downloading" =>
            \/ \E d \in Downloads : Running(d) /\ by[d] = m /\ of[d] = f
            \/ m = "engine" /\ <<m, f>> \in dropped
            \/ m \in outdated

(* A download of the built-in models ends: a stalled stream is given up.   *)
DownloadsEnd ==
    \A d \in Downloads :
        (Running(d) /\ by[d] # "engine") ~> ~Running(d)
=============================================================================
