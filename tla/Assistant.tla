----------------------------- MODULE Assistant -----------------------------
(***************************************************************************)
(* Summaries and action items of one meeting, and what they run on.        *)
(*   - SummaryService::process_transcript_background (summary/service.rs)  *)
(*     with its cancellation registry, generate_meeting_summary            *)
(*     (processor.rs) and generate_summary (llm_client.rs);                *)
(*   - the extraction of action items that a summary spawns                *)
(*     (transcript_action_items.rs);                                       *)
(*   - the row of summary_processes, which the service, the meeting view   *)
(*     of the shell and an agent at the MCP server all write;              *)
(*   - the built-in provider, Sidecar, and the model file it needs,        *)
(*     ModelDownloads.                                                     *)
(* A call of the sidecar is the pass of a run or an extraction.            *)
(***************************************************************************)
EXTENDS Sidecar, ModelDownloads

CONSTANTS
    Runs,          \* process_transcript_background calls (bound)
    Extractions,   \* extractions those runs spawn
    Long,          \* runs whose transcript exceeds token_threshold
    MapPasses,     \* chunks of such a transcript
    Scenarios      \* bound: who takes part, and on which provider

ASSUME AssistantAssumption ==
    /\ Calls = Runs \cup Extractions /\ Runs \cap Extractions = {}
    /\ MapPasses \in Nat \ {0} /\ Long \subseteq Runs
    /\ {"agent", "edited"} \cap Calls = {}

VARIABLES
    made,         \* the scenario
    registry,     \* CANCELLATION_REGISTRY: the run whose token it holds
    rpc,          \* where each run is
    left,         \* map passes it has still to make
    useful,       \* whether a map pass gave a summary
    outcome,      \* of generate_meeting_summary
    xpc,          \* where each extraction is
    parent,       \* the run that spawned it
    rowStatus,    \* summary_processes.status, "none" without a row
    rowText,      \* summary_processes.result: who wrote it
    items,        \* whose items the meeting has: NONE none, of the extractor
    view,         \* summary_phase of the meeting view
    \* ---- history, for the properties
    newest,       \* the run that registered last
    doomed        \* runs cancelled before their last pass was asked for

runVars == <<registry, rpc, left, useful, outcome>>
extractVars == <<xpc, parent, items>>
rowVars == <<rowStatus, rowText>>
runHistory == <<newest, doomed>>
serviceVars == <<made, runVars, extractVars, rowVars, view, runHistory>>
vars == <<sidecarVars, downloadVars, serviceVars>>

RunLabels == {"idle", "register", "resolve", "pass", "calling", "cleanup",
              "store", "refused", "lastCleanup", "done"}

TypeOK ==
    /\ SidecarTypeOK /\ DownloadTypeOK
    /\ made \in Scenarios
    /\ registry \in Runs \cup {NONE}
    /\ rpc \in [Runs -> RunLabels]
    /\ left \in [Runs -> 0..MapPasses] /\ useful \in [Runs -> BOOLEAN]
    /\ outcome \in [Runs -> {"none", "ok", "err", "cancelled"}]
    /\ xpc \in [Extractions -> {"idle", "load", "calling", "replace", "done"}]
    /\ parent \in [Extractions -> Runs \cup {NONE}]
    /\ rowStatus \in {"none", "completed", "failed", "cancelled"}
    /\ rowText \in Runs \cup {"agent", "edited", NONE}
    /\ items \in Extractions \cup {NONE}
    /\ view \in {"idle", "generating", "error"}
    /\ newest \in Runs \cup {NONE} /\ doomed \subseteq Runs

Init ==
    /\ SidecarInit
    /\ made \in Scenarios
    /\ LET there == IF "installed" \in made THEN BuiltinModels ELSE {} IN
       DownloadInitWith(there)
    /\ registry = NONE
    /\ rpc = [r \in Runs |-> "idle"]
    /\ left = [r \in Runs |-> IF r \in Long THEN MapPasses ELSE 0]
    /\ useful = [r \in Runs |-> r \notin Long]
    /\ outcome = [r \in Runs |-> "none"]
    /\ xpc = [x \in Extractions |-> "idle"]
    /\ parent = [x \in Extractions |-> NONE]
    /\ rowStatus = "none" /\ rowText = NONE /\ items = NONE
    /\ view = "idle"
    /\ newest = NONE /\ doomed = {}

Builtin == "builtin" \in made
GotoRun(r, label) == rpc' = [rpc EXCEPT ![r] = label]
HasRow == rowStatus # "none"

(***************************************************************************)
(* process_transcript_background.                                          *)
(***************************************************************************)

(* The click: enabled unless the view believes a run is going on. *)
GenerateSummary(r) ==
    /\ r \in made /\ rpc[r] = "idle" /\ view # "generating"
    /\ view' = "generating"
    /\ GotoRun(r, "register")
    /\ UNCHANGED <<sidecarVars, downloadVars, made, registry, left, useful,
                   outcome, extractVars, rowVars, runHistory>>

Register(r) ==
    /\ rpc[r] = "register"
    /\ registry' = r
    /\ newest' = r
    /\ GotoRun(r, "resolve")
    /\ UNCHANGED <<sidecarVars, downloadVars, made, left, useful, outcome,
                   extractVars, rowVars, view, doomed>>

(* LlmConfig::resolve. *)
Resolve(r) ==
    /\ rpc[r] = "resolve"
    /\ \/ GotoRun(r, "pass") /\ UNCHANGED outcome
       \/ GotoRun(r, "refused") /\ outcome' = [outcome EXCEPT ![r] = "err"]
    /\ UNCHANGED <<sidecarVars, downloadVars, made, registry, left, useful,
                   extractVars, rowVars, view, runHistory>>

EndRun(r, end) ==
    /\ outcome' = [outcome EXCEPT ![r] = end]
    /\ GotoRun(r, "cleanup")

(* A pass is over: a failed map pass is only counted, the last is the      *)
(* result, and reduce_summaries needs something to reduce.                 *)
PassEnds(r, end) ==
    IF end = "cancelled" THEN EndRun(r, end) /\ UNCHANGED <<left, useful>>
    ELSE IF left[r] = 0 THEN EndRun(r, end) /\ UNCHANGED <<left, useful>>
    ELSE /\ left' = [left EXCEPT ![r] = @ - 1]
         /\ useful' = [useful EXCEPT ![r] = @ \/ end = "ok"]
         /\ IF left[r] = 1 /\ ~useful'[r]
            THEN EndRun(r, "err")
            ELSE GotoRun(r, "pass") /\ UNCHANGED outcome

(* Mutant: the token is not looked at before a pass. *)
NeverStops(r) == FALSE

StopsHere(r) == r \in cancelled

PassIsStopped(r) ==
    /\ rpc[r] = "pass" /\ StopsHere(r)
    /\ EndRun(r, "cancelled")
    /\ UNCHANGED <<sidecarVars, downloadVars, made, registry, left, useful,
                   extractVars, rowVars, view, runHistory>>

(* resolve_model_path asks only whether the file exists. *)
AskBuiltin(r) ==
    /\ rpc[r] = "pass" /\ ~StopsHere(r) /\ Builtin
    /\ \E f \in BuiltinModels :
          IF Present(f)
          THEN /\ EnsureRunning(r, f)
               /\ GotoRun(r, "calling")
               /\ UNCHANGED <<outcome, left, useful>>
          ELSE PassEnds(r, "err") /\ UNCHANGED sidecarVars
    /\ UNCHANGED <<downloadVars, made, registry, extractVars, rowVars, view,
                   runHistory>>

BuiltinAnswers(r) ==
    /\ rpc[r] = "calling" /\ Builtin /\ pc[r] = "answered"
    /\ PassEnds(r, result[r])
    /\ pc' = IF rpc'[r] = "pass" THEN [pc EXCEPT ![r] = "idle"] ELSE pc
    /\ UNCHANGED <<helperVars, handleVars, stateVars, back, mine, callVars,
                   cancelled, sidecarHistory, downloadVars, made, registry,
                   extractVars, rowVars, view, runHistory>>

AskRemote(r) ==
    /\ rpc[r] = "pass" /\ ~StopsHere(r) /\ ~Builtin
    /\ GotoRun(r, "calling")
    /\ UNCHANGED <<sidecarVars, downloadVars, made, registry, left, useful,
                   outcome, extractVars, rowVars, view, runHistory>>

(* send_chat_request with its retries: an answer, an error, a timeout, or  *)
(* the token, which is not looked at once the response is there.           *)
RemoteAnswers(r) ==
    /\ rpc[r] = "calling" /\ ~Builtin
    /\ \E end \in {"ok", "err"} \cup (IF r \in cancelled THEN {"cancelled"} ELSE {}) :
          PassEnds(r, end)
    /\ UNCHANGED <<sidecarVars, downloadVars, made, registry, extractVars,
                   rowVars, view, runHistory>>

(* Mutant: the entry is removed whoever's it is. *)
RemovesAny(r) == TRUE

OwnsEntry(r) == registry = r

Cleanup(r) ==
    /\ rpc[r] \in {"cleanup", "lastCleanup"}
    /\ registry' = IF OwnsEntry(r) THEN NONE ELSE registry
    /\ GotoRun(r, IF rpc[r] = "cleanup" THEN "store" ELSE "done")
    /\ UNCHANGED <<sidecarVars, downloadVars, made, left, useful, outcome,
                   extractVars, rowVars, view, runHistory>>

(* Mutant: the outcome's own name goes into the status column. *)
StoresTheName(r) ==
    IF ~HasRow THEN UNCHANGED rowVars
    ELSE rowStatus' = outcome[r] /\ UNCHANGED rowText

(* update_process_*: an UPDATE, which a meeting without a row survives.    *)
(* The backup it restores is never made, so a failure keeps the text.      *)
StoreOutcome(r) ==
    IF ~HasRow THEN UNCHANGED rowVars
    ELSE /\ rowStatus' = CASE outcome[r] = "ok" -> "completed"
                         [] outcome[r] = "cancelled" -> "cancelled"
                         [] OTHER -> "failed"
         /\ rowText' = IF outcome[r] = "ok" THEN r ELSE rowText

(* A success spawns the extraction, if the scenario has one for it. *)
Store(r) ==
    /\ rpc[r] = "store"
    /\ StoreOutcome(r)
    /\ LET free == {x \in Extractions \cap made : xpc[x] = "idle"} IN
       IF outcome[r] = "ok" /\ free # {}
       THEN LET x == CHOOSE x \in free : TRUE IN
            /\ xpc' = [xpc EXCEPT ![x] = "load"]
            /\ parent' = [parent EXCEPT ![x] = r]
       ELSE UNCHANGED <<xpc, parent>>
    /\ GotoRun(r, "done")
    /\ UNCHANGED <<sidecarVars, downloadVars, made, registry, left, useful,
                   outcome, items, view, runHistory>>

(* Without a configuration the row comes first, then the registry. *)
StoreRefused(r) ==
    /\ rpc[r] = "refused"
    /\ StoreOutcome(r)
    /\ GotoRun(r, "lastCleanup")
    /\ UNCHANGED <<sidecarVars, downloadVars, made, registry, left, useful,
                   outcome, extractVars, view, runHistory>>

(* cancel_summary, for the run that is in the registry. *)
CancelSummary ==
    /\ "cancel" \in made /\ registry # NONE /\ registry \notin cancelled
    /\ cancelled' = cancelled \cup {registry}
    /\ doomed' = IF rpc[registry] \in {"resolve", "pass"} \/ left[registry] > 0
                 THEN doomed \cup {registry} ELSE doomed
    /\ UNCHANGED <<helperVars, handleVars, stateVars, pc, back, mine, callVars,
                   sidecarHistory, downloadVars, made, runVars, extractVars,
                   rowVars, view, newest>>

(***************************************************************************)
(* extract_from_transcript, in one window and without a token.             *)
(***************************************************************************)
GotoExtraction(x, label) == xpc' = [xpc EXCEPT ![x] = label]

(* The button of the action items, disabled while it extracts. *)
Reextract(x) ==
    /\ "reextract" \in made /\ x \in made /\ xpc[x] = "idle"
    /\ \A y \in Extractions :
          parent[y] = NONE => xpc[y] \in {"idle", "done"}
    /\ GotoExtraction(x, "load")
    /\ UNCHANGED <<sidecarVars, downloadVars, made, runVars, parent, items,
                   rowVars, view, runHistory>>

(* No segments, or no configuration: the earlier items stay. *)
ExtractionRefused(x) ==
    /\ xpc[x] = "load"
    /\ GotoExtraction(x, "done")
    /\ UNCHANGED <<sidecarVars, downloadVars, made, runVars, parent, items,
                   rowVars, view, runHistory>>

AskExtraction(x) ==
    /\ xpc[x] = "load"
    /\ IF Builtin
       THEN \E f \in BuiltinModels :
               IF Present(f)
               THEN EnsureRunning(x, f) /\ GotoExtraction(x, "calling")
               ELSE UNCHANGED sidecarVars /\ GotoExtraction(x, "replace")
       ELSE UNCHANGED sidecarVars /\ GotoExtraction(x, "calling")
    /\ UNCHANGED <<downloadVars, made, runVars, parent, items, rowVars, view,
                   runHistory>>

ExtractionAnswered(x) ==
    /\ xpc[x] = "calling" /\ (Builtin => pc[x] = "answered")
    /\ GotoExtraction(x, "replace")
    /\ UNCHANGED <<sidecarVars, downloadVars, made, runVars, parent, items,
                   rowVars, view, runHistory>>

(* replace_summary_items: a window that failed counts as one without items *)
(* and the ones of an earlier extraction are deleted all the same.         *)
ReplaceItems(x) ==
    /\ xpc[x] = "replace"
    /\ items' \in IF Builtin /\ result[x] # "ok" THEN {NONE} ELSE {x, NONE}
    /\ GotoExtraction(x, "done")
    /\ UNCHANGED <<sidecarVars, downloadVars, made, runVars, parent, rowVars,
                   view, runHistory>>

(***************************************************************************)
(* The other writers of the row, and the view.                             *)
(***************************************************************************)

(* update_summary of the MCP server: the only INSERT there is. *)
AgentWrites ==
    /\ "agent" \in made /\ rowText # "agent"
    /\ rowStatus' = IF HasRow THEN rowStatus ELSE "completed"
    /\ rowText' = "agent"
    /\ UNCHANGED <<sidecarVars, downloadVars, made, runVars, extractVars, view,
                   runHistory>>

(* save_summary: an UPDATE too, answered with true whether or not there is *)
(* a row.  A text can be edited when the view has one to show.             *)
SaveEdit ==
    /\ "edit" \in made /\ HasRow /\ rowText \in Runs
    /\ view # "generating"
    /\ rowText' = "edited"
    /\ UNCHANGED <<sidecarVars, downloadVars, made, runVars, extractVars,
                   rowStatus, view, runHistory>>

(* refresh_summary, by the poll of a generation or by load(): no row, and  *)
(* every status but a failure, is read as an idle meeting.                 *)
RefreshView ==
    /\ "view" \in made
    /\ view' = IF rowStatus = "failed" THEN "error" ELSE "idle"
    /\ view' # view
    /\ UNCHANGED <<sidecarVars, downloadVars, made, runVars, extractVars,
                   rowVars, runHistory>>

(***************************************************************************)
(* The specification.                                                      *)
(***************************************************************************)
ServiceStep(r) ==
    \/ Register(r) \/ Resolve(r) \/ PassIsStopped(r) \/ AskBuiltin(r)
    \/ BuiltinAnswers(r) \/ AskRemote(r) \/ RemoteAnswers(r) \/ Cleanup(r)
    \/ Store(r) \/ StoreRefused(r)

ExtractionStep(x) ==
    \/ ExtractionRefused(x) \/ AskExtraction(x) \/ ExtractionAnswered(x)
    \/ ReplaceItems(x)

SidecarCall(c) == CallStep(c) /\ UNCHANGED <<downloadVars, serviceVars>>

(* The loops of spawn g, which a scenario may leave out. *)
HealthLoopStep(g) ==
    /\ \/ "health" \in made /\ HealthTick(g)
       \/ PingStep(HealthLoop(g))
    /\ UNCHANGED <<downloadVars, serviceVars>>

IdleLoopStep(g) ==
    /\ "idle" \in made
    /\ IdleTick(g) \/ IdleTickBusy(g) \/ ShutdownStep(IdleLoop(g))
    /\ UNCHANGED <<downloadVars, serviceVars>>

IdleTimePasses ==
    "idle" \in made /\ TimePasses /\ UNCHANGED <<downloadVars, serviceVars>>

Helper(h) == HelperStep(h) /\ UNCHANGED <<downloadVars, serviceVars>>
Ails(h) ==
    "ail" \in made /\ HelperAils(h) /\ UNCHANGED <<downloadVars, serviceVars>>

DownloadTask(d) == TaskStep(d) /\ UNCHANGED <<sidecarVars, serviceVars>>
DownloadNetwork(d) == NetworkStep(d) /\ UNCHANGED <<sidecarVars, serviceVars>>

(* What a user does at a window: a manager is used through its own.  A     *)
(* cancellation, a deletion and a scan happen once in a behaviour (bound). *)
AtTheWindow(m) ==
    /\ m \in made
    /\ \E f \in ModelsOf(m) :
          \/ \E d \in Downloads \cap made : Begin(d, m, f)
          \/ "drop" \in made /\ dropped = {} /\ CancelDownload(m, f)
          \/ "delete" \in made /\ DeleteModel(m, f)
    /\ UNCHANGED <<sidecarVars, serviceVars>>

Scans(m) ==
    /\ m \in made /\ "scan" \in made
    /\ ScanFiles(m) \/ StoreScan(m)
    /\ UNCHANGED <<sidecarVars, serviceVars>>

RemovesCancelled == RemoveCancelled /\ UNCHANGED <<sidecarVars, serviceVars>>

Next ==
    \/ \E r \in Runs : GenerateSummary(r) \/ ServiceStep(r)
    \/ \E x \in Extractions : Reextract(x) \/ ExtractionStep(x)
    \/ \E c \in Calls : SidecarCall(c)
    \/ \E h \in Helpers :
          HealthLoopStep(h) \/ IdleLoopStep(h) \/ Helper(h) \/ Ails(h)
    \/ IdleTimePasses
    \/ CancelSummary \/ AgentWrites \/ SaveEdit \/ RefreshView
    \/ \E d \in Downloads : DownloadTask(d) \/ DownloadNetwork(d)
    \/ \E m \in Managers : AtTheWindow(m) \/ Scans(m)
    \/ RemovesCancelled

Spec == Init /\ [][Next]_vars

(* Tasks of the runtime are scheduled, timers fire, and a helper that is   *)
(* not stuck gets through its lines.  Servers and users owe nothing; an    *)
(* HTTP request of an LLM provider has a timeout.                          *)
FairSpec ==
    /\ Spec
    /\ \A r \in Runs : WF_vars(ServiceStep(r))
    /\ \A x \in Extractions : WF_vars(ExtractionStep(x))
    /\ \A c \in Calls : WF_vars(SidecarCall(c))
    /\ \A h \in Helpers :
          /\ WF_vars(PingStep(HealthLoop(h)) /\ UNCHANGED <<downloadVars, serviceVars>>)
          /\ WF_vars(IdleLoopStep(h))
          /\ WF_vars(Helper(h))
    /\ WF_vars(IdleTimePasses)
    /\ \A d \in Downloads : WF_vars(DownloadTask(d))

(***************************************************************************)
(* Properties.                                                             *)
(***************************************************************************)

(* A text a generation is given is the one it asked for, unless the helper *)
(* was left with an answer that somebody stopped waiting for: request_lock *)
(* is released by a cancellation before the helper is stopped.             *)
OwnAnswer == \A c \in Calls : answer[c] \in {NONE, c} \/ mine[c] \in stale

(* The same without the exception, as the comment on request_lock has it.  *)
AnswerIsOwn == \A c \in Calls : answer[c] \in {NONE, c}

(* While no generation has met another user of the manager and no helper   *)
(* has failed, none finds a pipe missing or at its end: a helper that a    *)
(* ping has given up on is replaced first.  Two that met can leave it      *)
(* marked healthy without a stdin, and the next one alone fails on that.   *)
BrokenHasCause == broken # {} => met # {} \/ ailing

(* The idle loop of the last spawn stops the helper in the end, also after *)
(* shutdowns and spawns of a call and of the loops overlapped; a stuck one *)
(* may have lost its parent.                                               *)
HelperStops == "idle" \in made => <>[](alive \subseteq stuck \ {child})

(* A summary run ends: generations, shutdowns and the locks they wait for. *)
RunsEnd == \A r \in Runs : rpc[r] = "register" ~> rpc[r] = "done"

(* The run registered last can be cancelled as long as it generates: the   *)
(* cleanup of an earlier run on the meeting leaves its token alone.        *)
NewestRunCancellable ==
    newest # NONE /\ rpc[newest] \in {"resolve", "pass", "calling"} =>
        registry = newest

(* A run cancelled before its last pass never replaces the row's summary.  *)
CancelledRunKeepsSummary == rowText \notin doomed
============================================================================
