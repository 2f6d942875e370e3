------------------------------ MODULE Sidecar ------------------------------
(***************************************************************************)
(* The manager of the llama-helper child: SidecarManager of                *)
(* summary/summary_engine/sidecar.rs, with generate_with_builtin of        *)
(* client.rs, the only caller of it.                                       *)
(*                                                                         *)
(* The manager is shared by every generation and by two loops per spawn.   *)
(* Its state is behind a lock per field, and spawn() and shutdown() take   *)
(* them one after the other: two of them overlap freely.  Two of the locks *)
(* are kept across an await, that of stdout by the read of an answer and   *)
(* that of the child by the wait for its exit; a step ends where one of    *)
(* them, request_lock, a pipe or the process may have to be waited for.    *)
(* The helper itself is LlamaHelper.                                       *)
(***************************************************************************)
EXTENDS Naturals, FiniteSets, LlamaHelper

CONSTANT MaxSpawns   \* bound: processes spawned

IdleLoop(g) == <<"idle check", g>>
HealthLoop(g) == <<"health check", g>>
Loops == {"idle check", "health check"} \X Helpers
Actors == Calls \cup Loops

ASSUME SidecarAssumption ==
    /\ MaxSpawns \in Nat /\ Helpers = 1..MaxSpawns
    /\ NONE \notin Calls \cup Helpers \cup BuiltinModels \cup Loops
    /\ Calls \cap Loops = {}
    /\ IsFiniteSet(Calls)

ShutdownLabels == {"take", "wait", "dropStdout"}
SpawnLabels == {"spawn", "putChild", "putStdout", "putLoops"}
SendLabels == {"queue", "open", "read"}
CallLabels == {"idle", "ready", "answered"}
LoopLabels == {"sleep", "pingOpen", "pingRead", "pingFailed", "ended"}

VARIABLES
    child, stdin, stdout,   \* child_process, stdin_writer, stdout_reader
    currentModel,           \* current_model_path
    healthy,                \* is_healthy
    shouldShutdown,         \* should_shutdown
    generation,             \* spawn_generation
    idleLong,               \* last_activity is older than the timeout
    spawned,                \* processes spawned so far
    pc,                     \* where each actor is
    back,                   \* what it does after shutdown()
    mine,                   \* the process it has in its hands
    model,                  \* the model a call asks for
    cancelled,              \* calls whose token is cancelled
    result,                 \* of a call
    answer,                 \* the call whose text it was given
    \* ---- history, for the properties
    stale,                  \* helpers left with an answer nobody waits for
    met,                    \* calls that met another user of the manager
    ailing,                 \* a helper crashed or got stuck
    broken                  \* calls that failed on the helper, not in it

handleVars == <<child, stdin, stdout>>
stateVars == <<currentModel, healthy, shouldShutdown, generation, idleLong,
               spawned>>
callVars == <<model, result, answer>>
sidecarHistory == <<stale, met, ailing, broken>>
sidecarVars == <<helperVars, handleVars, stateVars, pc, back, mine, callVars,
                 cancelled, sidecarHistory>>

SidecarTypeOK ==
    /\ HelperTypeOK
    /\ {child, stdin, stdout} \subseteq Helpers \cup {NONE}
    /\ currentModel \in BuiltinModels \cup {NONE}
    /\ healthy \in BOOLEAN /\ shouldShutdown \in BOOLEAN /\ idleLong \in BOOLEAN
    /\ generation \in Nat /\ spawned \in 0..MaxSpawns
    /\ pc \in [Actors -> ShutdownLabels \cup SpawnLabels \cup SendLabels
                           \cup CallLabels \cup LoopLabels]
    /\ back \in [Actors -> {"spawn", "timedOut", "cancelled", "ended"}]
    /\ mine \in [Actors -> Helpers \cup {NONE}]
    /\ model \in [Calls -> BuiltinModels \cup {NONE}]
    /\ cancelled \subseteq Calls
    /\ result \in [Calls -> {"none", "ok", "err", "cancelled"}]
    /\ answer \in [Calls -> Calls \cup {NONE}]
    /\ stale \subseteq Helpers /\ met \subseteq Calls /\ broken \subseteq Calls
    /\ ailing \in BOOLEAN

(* SidecarManager::new; the loops of a spawn not made yet sleep. *)
SidecarInit ==
    /\ HelperInit
    /\ child = NONE /\ stdin = NONE /\ stdout = NONE
    /\ currentModel = NONE /\ healthy = FALSE /\ shouldShutdown = FALSE
    /\ generation = 0 /\ idleLong = FALSE /\ spawned = 0
    /\ pc = [a \in Actors |-> IF a \in Calls THEN "idle" ELSE "sleep"]
    /\ back = [a \in Actors |-> "ended"]
    /\ mine = [a \in Actors |-> NONE]
    /\ model = [c \in Calls |-> NONE] /\ cancelled = {}
    /\ result = [c \in Calls |-> "none"] /\ answer = [c \in Calls |-> NONE]
    /\ stale = {} /\ met = {} /\ ailing = FALSE /\ broken = {}

Goto(a, label) == pc' = [pc EXCEPT ![a] = label]

(***************************************************************************)
(* Locks and counters, read off from where the actors are.                 *)
(***************************************************************************)
TimingOut(c) == pc[c] \in ShutdownLabels /\ back[c] = "timedOut"

(* active_request_count: one RequestGuard per send_request. *)
Active == {c \in Calls : pc[c] \in SendLabels \/ TimingOut(c)}

(* Mutant: request_lock is not held while the answer is read. *)
RequestLockForWriteOnly == TRUE

(* request_lock: by a request until it is dropped, by a ping. *)
RequestLockFree ==
    /\ \A c \in Calls : pc[c] \notin SendLabels \ {"queue"} /\ ~TimingOut(c)
    /\ \A l \in Loops : pc[l] \notin {"pingOpen", "pingRead"}

(* stdout_reader: while a line is read. *)
StdoutFree == \A a \in Actors : pc[a] \notin {"read", "pingRead"}

(* child_process: across the wait for the exit. *)
ChildFree == \A a \in Actors : pc[a] # "wait"

(* A process's end of a pipe is open while the manager has the other end, *)
(* or a spawn that is about to store it.                                  *)
StdinOpen(h) ==
    stdin = h \/ \E c \in Calls : mine[c] = h /\ pc[c] = "putChild"
StdoutOpen(h) ==
    stdout = h \/ \E c \in Calls : mine[c] = h /\ pc[c] \in {"putChild", "putStdout"}

(* Who is using the manager, and who meets whom when one more comes. *)
Busy == {a \in Actors : pc[a] \notin {"idle", "sleep", "answered", "ended"}}
Enters(a) ==
    met' = IF Busy \ {a} = {} THEN met ELSE met \cup ((Busy \cup {a}) \cap Calls)

(***************************************************************************)
(* shutdown(), run by a spawn, a timed-out or cancelled request, the idle  *)
(* loop: one lock after another.                                           *)
(***************************************************************************)

(* The flag, and the request, whose errors are ignored. *)
BeginShutdown(a, next) ==
    /\ shouldShutdown' = TRUE
    /\ IF healthy /\ stdin # NONE /\ CanWrite(stdin)
       THEN Write(stdin, Shutdown)
       ELSE UNCHANGED helperVars
    /\ Goto(a, "take")
    /\ back' = [back EXCEPT ![a] = next]

(* The child is taken out, for the wait; without one stdin is dropped. *)
TakeChild(a) ==
    /\ pc[a] = "take" /\ ChildFree
    /\ child' = NONE
    /\ mine' = [mine EXCEPT ![a] = child]
    /\ IF child = NONE
       THEN stdin' = NONE /\ Goto(a, "dropStdout")
       ELSE Goto(a, "wait") /\ UNCHANGED stdin
    /\ UNCHANGED <<helperVars, stdout, stateVars, back, callVars, cancelled,
                   sidecarHistory>>

(* It has exited, or it is killed when three seconds are over. *)
AwaitExit(a) ==
    /\ pc[a] = "wait"
    /\ Terminate(mine[a])
    /\ mine' = [mine EXCEPT ![a] = NONE]
    /\ stdin' = NONE
    /\ Goto(a, "dropStdout")
    /\ UNCHANGED <<child, stdout, stateVars, back, callVars, cancelled,
                   sidecarHistory>>

(* The rest of it, and the return to whoever called shutdown(). *)
EndShutdown(a) ==
    /\ pc[a] = "dropStdout" /\ StdoutFree
    /\ stdout' = NONE /\ CloseStdout(stdout)
    /\ currentModel' = NONE
    /\ healthy' = FALSE
    /\ Goto(a, CASE back[a] = "spawn" -> "spawn"
                 [] back[a] = "ended" -> "ended"
                 [] OTHER -> "answered")
    /\ back' = [back EXCEPT ![a] = "ended"]
    /\ result' = CASE back[a] = "timedOut" -> [result EXCEPT ![a] = "err"]
                  [] back[a] = "cancelled" -> [result EXCEPT ![a] = "cancelled"]
                  [] OTHER -> result
    /\ UNCHANGED <<child, stdin, shouldShutdown, generation,
                   idleLong, spawned, mine, model, answer, cancelled,
                   sidecarHistory>>

ShutdownStep(a) == TakeChild(a) \/ AwaitExit(a) \/ EndShutdown(a)

(***************************************************************************)
(* ensure_running() and spawn().                                           *)
(***************************************************************************)

(* Mutant: is_healthy is not asked. *)
ReusesUnhealthy(m) == currentModel = m

Reuses(m) == currentModel = m /\ healthy

EnsureRunning(c, m) ==
    /\ pc[c] = "idle"
    /\ model' = [model EXCEPT ![c] = m]
    /\ answer' = [answer EXCEPT ![c] = NONE]
    /\ Enters(c)
    /\ IF Reuses(m)
       THEN /\ idleLong' = FALSE
            /\ Goto(c, "ready")
            /\ UNCHANGED <<helperVars, shouldShutdown, back>>
       ELSE BeginShutdown(c, "spawn") /\ UNCHANGED idleLong
    /\ UNCHANGED <<handleVars, currentModel, healthy, generation, spawned, mine,
                   result, cancelled, stale, ailing, broken>>

SpawnHelper(c) ==
    /\ pc[c] = "spawn" /\ spawned < MaxSpawns
    /\ spawned' = spawned + 1
    /\ Launch(spawned + 1)
    /\ mine' = [mine EXCEPT ![c] = spawned + 1]
    /\ Goto(c, "putChild")
    /\ UNCHANGED <<handleVars, currentModel, healthy, shouldShutdown, generation,
                   idleLong, back, callVars, cancelled, sidecarHistory>>

SpawnFails(c) ==
    /\ pc[c] = "spawn"
    /\ result' = [result EXCEPT ![c] = "err"]
    /\ Goto(c, "answered")
    /\ UNCHANGED <<helperVars, handleVars, stateVars, back, mine, model, answer,
                   cancelled, sidecarHistory>>

(* A Child that is overwritten is dropped, which does not kill the process. *)
PutChild(c) ==
    /\ pc[c] = "putChild" /\ ChildFree
    /\ child' = mine[c] /\ stdin' = mine[c]
    /\ Goto(c, "putStdout")
    /\ UNCHANGED <<helperVars, stdout, stateVars, back, mine, callVars,
                   cancelled, sidecarHistory>>

(* Mutant: should_shutdown is left as shutdown() set it. *)
PutStdoutOnly(c) ==
    /\ pc[c] = "putStdout" /\ StdoutFree
    /\ stdout' = mine[c] /\ CloseStdout(stdout)
    /\ mine' = [mine EXCEPT ![c] = NONE]
    /\ currentModel' = model[c] /\ healthy' = TRUE
    /\ Goto(c, "putLoops")
    /\ UNCHANGED <<child, stdin, shouldShutdown, generation, idleLong, spawned,
                   back, callVars, cancelled, sidecarHistory>>

PutStdout(c) ==
    /\ pc[c] = "putStdout" /\ StdoutFree
    /\ stdout' = mine[c] /\ CloseStdout(stdout)
    /\ mine' = [mine EXCEPT ![c] = NONE]
    /\ currentModel' = model[c]
    /\ healthy' = TRUE /\ shouldShutdown' = FALSE
    /\ Goto(c, "putLoops")
    /\ UNCHANGED <<child, stdin, generation, idleLong, spawned, back, callVars,
                   cancelled, sidecarHistory>>

(* Past the await of update_activity: the generation retires the old loops. *)
PutLoops(c) ==
    /\ pc[c] = "putLoops"
    /\ idleLong' = FALSE
    /\ generation' = generation + 1
    /\ Goto(c, "ready")
    /\ UNCHANGED <<helperVars, handleVars, currentModel, healthy,
                   shouldShutdown, spawned, back, mine, callVars, cancelled,
                   sidecarHistory>>

SpawnStep(c) ==
    \/ SpawnHelper(c) \/ SpawnFails(c) \/ PutChild(c) \/ PutStdout(c)
    \/ PutLoops(c)

(***************************************************************************)
(* generate_with_builtin() from there on, and send_request().              *)
(***************************************************************************)
StartRequest(c) ==
    /\ pc[c] = "ready"
    /\ IF c \in cancelled
       THEN Goto(c, "answered") /\ result' = [result EXCEPT ![c] = "cancelled"]
       ELSE Goto(c, "queue") /\ UNCHANGED result
    /\ UNCHANGED <<helperVars, handleVars, stateVars, back, mine, model, answer,
                   cancelled, sidecarHistory>>

(* No process at the other end, or not the answer to a generation.  What  *)
(* was asked for may still be answered.                                    *)
TransportFails(c) ==
    /\ broken' = broken \cup {c}
    /\ stale' = stale \cup ({mine[c]} \ {NONE})
    /\ result' = [result EXCEPT ![c] = IF c \in cancelled THEN "cancelled" ELSE "err"]
    /\ Goto(c, "answered")
    /\ UNCHANGED answer

WriteRequest(c) ==
    /\ pc[c] = "queue" /\ RequestLockFree
    /\ IF stdin # NONE /\ CanWrite(stdin)
       THEN /\ Write(stdin, Generate(c))
            /\ mine' = [mine EXCEPT ![c] = stdin]
            /\ Goto(c, "open")
            /\ UNCHANGED <<result, answer, broken, stale>>
       ELSE TransportFails(c) /\ UNCHANGED <<helperVars, mine>>
    /\ UNCHANGED <<handleVars, stateVars, back, model, cancelled, met, ailing>>

OpenStdout(c) ==
    /\ pc[c] = "open" /\ StdoutFree
    /\ IF stdout # NONE
       THEN Goto(c, "read") /\ UNCHANGED <<result, answer, broken, stale>>
       ELSE TransportFails(c)
    /\ UNCHANGED <<helperVars, handleVars, stateVars, back, mine, model,
                   cancelled, met, ailing>>

(* The terminal line, and the last check of the token. *)
ReadAnswer(c) ==
    /\ pc[c] = "read" /\ HasLine(stdout)
    /\ TakeLine(stdout)
    /\ mine' = [mine EXCEPT ![c] = stdout]
    /\ idleLong' = FALSE
    /\ LET line == Line(stdout) IN
       IF line[1] \in {"text", "error"}
       THEN /\ Goto(c, "answered")
            /\ answer' = [answer EXCEPT ![c] =
                              IF line[1] = "text" THEN line[2] ELSE NONE]
            /\ result' = [result EXCEPT ![c] =
                              IF c \in cancelled THEN "cancelled"
                              ELSE IF line[1] = "text" THEN "ok" ELSE "err"]
            /\ stale' = stale \cup ({mine[c]} \ {stdout})
            /\ UNCHANGED broken
       ELSE TransportFails(c)
    /\ UNCHANGED <<handleVars, currentModel, healthy, shouldShutdown, generation,
                   spawned, back, model, cancelled, met, ailing>>

ReadNothing(c) ==
    /\ pc[c] = "read" /\ AtEof(stdout)
    /\ TransportFails(c)
    /\ UNCHANGED <<helperVars, handleVars, stateVars, back, mine, model,
                   cancelled, met, ailing>>

(* Mutant: the read of the answer has no deadline. *)
NoDeadline(c) == pc[c] = "answered" /\ FALSE

(* GENERATION_TIMEOUT_SECS: the lock is kept while the helper is stopped. *)
RequestTimeout(c) ==
    /\ pc[c] \in {"open", "read"}
    /\ BeginShutdown(c, "timedOut")
    /\ stale' = stale \cup {mine[c]}
    /\ mine' = [mine EXCEPT ![c] = NONE]
    /\ UNCHANGED <<handleVars, currentModel, healthy, generation, idleLong,
                   spawned, callVars, cancelled, met, ailing, broken>>

(* select! drops the request wherever it is, which frees its locks and its *)
(* count, and lets go of a child it waits for; then the helper is stopped. *)
CancelRequest(c) ==
    /\ c \in cancelled /\ c \in Active
    /\ BeginShutdown(c, "cancelled")
    /\ stale' = IF pc[c] \in {"open", "read"} THEN stale \cup {mine[c]} ELSE stale
    /\ mine' = [mine EXCEPT ![c] = NONE]
    /\ UNCHANGED <<handleVars, currentModel, healthy, generation, idleLong,
                   spawned, callVars, cancelled, met, ailing, broken>>

RequestStep(c) ==
    \/ StartRequest(c) \/ WriteRequest(c) \/ OpenStdout(c) \/ ReadAnswer(c)
    \/ ReadNothing(c) \/ RequestTimeout(c) \/ CancelRequest(c)

CallStep(c) == ShutdownStep(c) \/ SpawnStep(c) \/ RequestStep(c)

(***************************************************************************)
(* The two loops of spawn g.  One that is not current is at its end.       *)
(***************************************************************************)
LoopIsCurrent(g) == ~shouldShutdown /\ generation = g

(* A tick that pings: try_lock of request_lock, and the write. *)
HealthTick(g) ==
    /\ pc[HealthLoop(g)] = "sleep" /\ LoopIsCurrent(g) /\ healthy
    /\ Active = {} /\ RequestLockFree
    /\ Enters(HealthLoop(g))
    /\ IF stdin # NONE /\ CanWrite(stdin)
       THEN /\ Write(stdin, Ping)
            /\ mine' = [mine EXCEPT ![HealthLoop(g)] = stdin]
            /\ Goto(HealthLoop(g), "pingOpen")
       ELSE Goto(HealthLoop(g), "pingFailed") /\ UNCHANGED <<helperVars, mine>>
    /\ UNCHANGED <<handleVars, stateVars, back, callVars, cancelled, stale,
                   ailing, broken>>

(* No Pong: the helper may still send one. *)
PingFails(l) ==
    /\ Goto(l, "pingFailed")
    /\ stale' = stale \cup {mine[l]}
    /\ mine' = [mine EXCEPT ![l] = NONE]

PingOpen(l) ==
    /\ pc[l] = "pingOpen" /\ StdoutFree
    /\ IF stdout # NONE
       THEN Goto(l, "pingRead") /\ UNCHANGED <<mine, stale>>
       ELSE PingFails(l)
    /\ UNCHANGED <<helperVars, handleVars, stateVars, back, callVars, cancelled,
                   met, ailing, broken>>

PingRead(l) ==
    /\ pc[l] = "pingRead"
    /\ \/ /\ HasLine(stdout)
          /\ TakeLine(stdout)
          /\ IF Line(stdout) = Pong
             THEN /\ Goto(l, "sleep")
                  /\ mine' = [mine EXCEPT ![l] = NONE]
                  /\ UNCHANGED stale
             ELSE PingFails(l)
       \/ AtEof(stdout) /\ PingFails(l) /\ UNCHANGED helperVars
    /\ UNCHANGED <<handleVars, stateVars, back, callVars, cancelled, met, ailing,
                   broken>>

(* Five seconds; the lock is released, the Pong still comes. *)
PingTimeout(l) ==
    /\ pc[l] \in {"pingOpen", "pingRead"}
    /\ PingFails(l)
    /\ UNCHANGED <<helperVars, handleVars, stateVars, back, callVars, cancelled,
                   met, ailing, broken>>

PingFailed(l) ==
    /\ pc[l] = "pingFailed"
    /\ healthy' = FALSE
    /\ Goto(l, "sleep")
    /\ UNCHANGED <<helperVars, handleVars, currentModel, shouldShutdown,
                   generation, idleLong, spawned, back, mine, callVars,
                   cancelled, sidecarHistory>>

IdleTick(g) ==
    /\ pc[IdleLoop(g)] = "sleep" /\ LoopIsCurrent(g)
    /\ Active = {} /\ idleLong
    /\ BeginShutdown(IdleLoop(g), "ended")
    /\ Enters(IdleLoop(g))
    /\ UNCHANGED <<handleVars, currentModel, healthy, generation, idleLong,
                   spawned, mine, callVars, cancelled, stale, ailing, broken>>

IdleTickBusy(g) ==
    /\ pc[IdleLoop(g)] = "sleep" /\ LoopIsCurrent(g)
    /\ Active # {} /\ idleLong
    /\ idleLong' = FALSE
    /\ UNCHANGED <<helperVars, handleVars, currentModel, healthy,
                   shouldShutdown, generation, spawned, pc, back, mine,
                   callVars, cancelled, sidecarHistory>>

(* The idle timeout goes by. *)
TimePasses ==
    /\ generation > 0 /\ ~idleLong
    /\ idleLong' = TRUE
    /\ UNCHANGED <<helperVars, handleVars, currentModel, healthy,
                   shouldShutdown, generation, spawned, pc, back, mine,
                   callVars, cancelled, sidecarHistory>>

PingStep(l) == PingOpen(l) \/ PingRead(l) \/ PingTimeout(l) \/ PingFailed(l)

(***************************************************************************)
(* The helper at the other end.                                            *)
(***************************************************************************)
HelperStep(h) ==
    /\ \/ StdoutOpen(h) /\ \E c \in Calls : \E line \in Answers(c) :
              Serve(h, Generate(c), line)
       \/ StdoutOpen(h) /\ Serve(h, Ping, Pong)
       \/ StdoutOpen(h) /\ ServeShutdown(h)
       \/ ~StdoutOpen(h) /\ BreakPipe(h)
       \/ ~StdinOpen(h) /\ ReadEof(h)
    /\ UNCHANGED <<handleVars, stateVars, pc, back, mine, callVars, cancelled,
                   sidecarHistory>>

(* Bound: one process in a behaviour goes wrong. *)
HelperAils(h) ==
    /\ ~ailing /\ (Crash(h) \/ Stick(h))
    /\ ailing' = TRUE
    /\ UNCHANGED <<handleVars, stateVars, pc, back, mine, callVars, cancelled,
                   stale, met, broken>>
============================================================================
