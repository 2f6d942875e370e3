--------------------------- MODULE Sidecar_proofs ---------------------------
(***************************************************************************)
(* What Sidecar promises for any number of calls, helpers and spawns: the  *)
(* types, and that an answer goes to the call that asked for it as long as *)
(* nobody has stopped waiting for one.                                     *)
(*                                                                         *)
(* The argument is about the pipes of a helper that is not stale: the      *)
(* lines that belong to a generation are at most one, in whichever pipe,   *)
(* and the call of it is still waiting, which request_lock allows to one   *)
(* call at a time.                                                         *)
(***************************************************************************)
EXTENDS Sidecar, SequenceTheorems, TLAPS

(* What the users of the manager do to it between its own steps: a text is *)
(* taken to ask again, a token is cancelled.                               *)
AnswerTaken(c) ==
    /\ pc[c] = "answered" /\ pc' = [pc EXCEPT ![c] = "idle"]
    /\ UNCHANGED <<helperVars, handleVars, stateVars, back, mine, callVars,
                   cancelled, sidecarHistory>>

TokenSet(c) ==
    /\ cancelled' = cancelled \cup {c}
    /\ UNCHANGED <<helperVars, handleVars, stateVars, pc, back, mine, callVars,
                   sidecarHistory>>

(* The steps of the calls, the loops and the helpers. *)
SidecarNext ==
    \/ \E a \in Actors : ShutdownStep(a)
    \/ \E c \in Calls :
          \/ SpawnStep(c) \/ RequestStep(c) \/ AnswerTaken(c) \/ TokenSet(c)
          \/ \E m \in BuiltinModels : EnsureRunning(c, m)
    \/ \E g \in Helpers : HealthTick(g) \/ IdleTick(g) \/ IdleTickBusy(g)
    \/ \E l \in Loops : PingStep(l)
    \/ TimePasses
    \/ \E h \in Helpers : HelperStep(h) \/ HelperAils(h)

Requests == {"generate", "ping", "shutdown"} \X (Calls \cup {NONE})
Replies == {"text", "error", "pong", "goodbye"} \X (Calls \cup {NONE})

(***************************************************************************)
(* Types.                                                                  *)
(***************************************************************************)

(* Calls and loops keep to their labels. *)
KindsOK ==
    /\ \A c \in Calls :
          /\ pc[c] \in ShutdownLabels \cup SpawnLabels \cup SendLabels \cup CallLabels
          /\ pc[c] \in ShutdownLabels => back[c] /= "ended"
    /\ \A l \in Loops : pc[l] \in ShutdownLabels \cup LoopLabels /\ back[l] = "ended"

(* A process that is in somebody's hands is one, and who reads has stdout. *)
HandsOK ==
    \A a \in Actors :
        /\ pc[a] \in {"wait", "putChild", "putStdout", "open", "read",
                      "pingOpen", "pingRead"} => mine[a] \in Helpers
        /\ pc[a] \in {"read", "pingRead"} => stdout \in Helpers

SidecarTypes == SidecarTypeOK /\ KindsOK /\ HandsOK

(* An actor is a call or a loop, and not both. *)
LEMMA ActorKinds ==
    /\ Actors = Calls \cup Loops /\ Calls \cap Loops = {}
    /\ \A g \in Helpers : IdleLoop(g) \in Loops /\ HealthLoop(g) \in Loops
BY SidecarAssumption DEF Actors, Loops, IdleLoop, HealthLoop

(* What the operators of the pipes do to their types. *)
LEMMA WriteTyped ==
    ASSUME HelperTypeOK, NEW h \in Helpers, NEW line \in Requests, Write(h,
           line)
    PROVE  HelperTypeOK'
BY DEF HelperTypeOK, Write, Requests

LEMMA SayTyped ==
    ASSUME HelperTypeOK, NEW h \in Helpers, inbox[h] /= <<>>,
           NEW line \in Replies, Say(h, line)
    PROVE  HelperTypeOK'
<1>1. Tail(inbox[h]) \in Seq(Requests)
  BY HeadTailProperties DEF HelperTypeOK, Requests
<1>2. Append(outbox[h], line) \in Seq(Replies)
  BY DEF HelperTypeOK, Replies
<1> QED BY <1>1, <1>2 DEF HelperTypeOK, Say, Requests, Replies

LEMMA TakeLineTyped ==
    ASSUME HelperTypeOK, NEW h \in Helpers, HasLine(h), TakeLine(h)
    PROVE  HelperTypeOK'
<1>1. Tail(outbox[h]) \in Seq(Replies)
  BY HeadTailProperties DEF HelperTypeOK, HasLine, Replies
<1> QED BY <1>1 DEF HelperTypeOK, TakeLine, Replies

LEMMA CloseStdoutTyped ==
    ASSUME HelperTypeOK, NEW h \in Helpers \cup {NONE}, CloseStdout(h)
    PROVE  HelperTypeOK'
BY EmptySeq DEF HelperTypeOK, CloseStdout

LEMMA TerminateTyped ==
    ASSUME HelperTypeOK, NEW h \in Helpers, Terminate(h)
    PROVE  HelperTypeOK'
BY EmptySeq DEF HelperTypeOK, Terminate

(* A shutdown request: the flag, and perhaps a line. *)
LEMMA BeginShutdownTyped ==
    ASSUME SidecarTypeOK, NEW a \in Actors, NEW next, BeginShutdown(a, next)
    PROVE  HelperTypeOK'
<1>1. Shutdown \in Requests
  BY DEF Shutdown, Requests
<1>2. stdin /= NONE => stdin \in Helpers
  BY DEF SidecarTypeOK
<1> QED BY <1>1, <1>2, WriteTyped
      DEF BeginShutdown, SidecarTypeOK, HelperTypeOK, helperVars

(* The manager before its first call. *)
LEMMA SidecarTypesInit ==
    ASSUME SidecarInit
    PROVE  SidecarTypes
<1>1. HelperTypeOK
  BY EmptySeq DEF SidecarInit, HelperInit, HelperTypeOK
<1>2. MaxSpawns \in Nat
  BY SidecarAssumption
<1>3. /\ pc \in [Actors -> {"idle", "sleep"}] /\ back \in [Actors -> {"ended"}]
      /\ mine \in [Actors -> {NONE}]
  BY DEF SidecarInit
<1>5. generation \in Nat /\ spawned \in 0..MaxSpawns
  BY <1>2 DEF SidecarInit
<1>6. SidecarTypeOK
  BY <1>1, <1>3, <1>5 DEF SidecarInit, SidecarTypeOK, CallLabels, LoopLabels
<1>4. KindsOK /\ HandsOK
  BY ActorKinds
     DEF SidecarInit, KindsOK, HandsOK, ShutdownLabels, CallLabels, LoopLabels
<1> QED BY <1>4, <1>6 DEF SidecarTypes

(* The processes and their pipes. *)
LEMMA HelperTypesStep ==
    ASSUME SidecarTypes, [SidecarNext]_sidecarVars
    PROVE  HelperTypeOK'
<1>1. ASSUME NEW a \in Actors, ShutdownStep(a) PROVE HelperTypeOK'
  <2>1. CASE TakeChild(a)
    BY <2>1 DEF TakeChild, Goto, stateVars, callVars, sidecarHistory,
       SidecarTypes, SidecarTypeOK, HelperTypeOK, helperVars
  <2>2. CASE AwaitExit(a)
    BY <2>2, TerminateTyped DEF AwaitExit, SidecarTypes, SidecarTypeOK,
       HandsOK
  <2>3. CASE EndShutdown(a)
    BY <2>3, CloseStdoutTyped DEF EndShutdown, SidecarTypes, SidecarTypeOK
  <2> QED BY <1>1, <2>1, <2>2, <2>3 DEF ShutdownStep
<1>2. ASSUME NEW c \in Calls, SpawnStep(c) PROVE HelperTypeOK'
  <2>1. CASE SpawnHelper(c)
    <3>1. spawned + 1 \in Helpers
      BY <2>1, SidecarAssumption DEF SpawnHelper, SidecarTypes, SidecarTypeOK
    <3> QED BY <2>1, <3>1 DEF SpawnHelper, Launch, SidecarTypes,
               SidecarTypeOK, HelperTypeOK
  <2>2. CASE SpawnFails(c)
    BY <2>2 DEF SpawnFails, Goto, handleVars, stateVars, sidecarHistory,
       SidecarTypes, SidecarTypeOK, HelperTypeOK, helperVars
  <2>3. CASE PutChild(c)
    BY <2>3 DEF PutChild, Goto, stateVars, callVars, sidecarHistory,
       SidecarTypes, SidecarTypeOK, HelperTypeOK, helperVars
  <2>4. CASE PutStdout(c)
    BY <2>4, CloseStdoutTyped DEF PutStdout, SidecarTypes, SidecarTypeOK
  <2>5. CASE PutLoops(c)
    BY <2>5 DEF PutLoops, Goto, handleVars, callVars, sidecarHistory,
       SidecarTypes, SidecarTypeOK, HelperTypeOK, helperVars
  <2> QED BY <1>2, <2>1, <2>2, <2>3, <2>4, <2>5 DEF SpawnStep
<1>3. ASSUME NEW c \in Calls, RequestStep(c) PROVE HelperTypeOK'
  <2>1. CASE StartRequest(c)
    BY <2>1 DEF StartRequest, Goto, handleVars, stateVars, sidecarHistory,
       SidecarTypes, SidecarTypeOK, HelperTypeOK, helperVars
  <2>2. CASE WriteRequest(c)
    <3>1. Generate(c) \in Requests
      BY DEF Generate, Requests
    <3> QED BY <2>2, <3>1, WriteTyped DEF WriteRequest, TransportFails,
               SidecarTypes, SidecarTypeOK, HelperTypeOK, helperVars
  <2>3. CASE OpenStdout(c)
    BY <2>3 DEF OpenStdout, Goto, TransportFails, handleVars, stateVars,
       SidecarTypes, SidecarTypeOK, HelperTypeOK, helperVars
  <2>4. CASE ReadAnswer(c)
    BY <2>4, TakeLineTyped, ActorKinds DEF ReadAnswer, SidecarTypes,
       SidecarTypeOK, HandsOK
  <2>5. CASE ReadNothing(c)
    BY <2>5 DEF ReadNothing, Goto, TransportFails, handleVars, stateVars,
       SidecarTypes, SidecarTypeOK, HelperTypeOK, helperVars
  <2>6. CASE RequestTimeout(c)
    BY <2>6, BeginShutdownTyped, ActorKinds DEF RequestTimeout, SidecarTypes
  <2>7. CASE CancelRequest(c)
    BY <2>7, BeginShutdownTyped, ActorKinds DEF CancelRequest, SidecarTypes
  <2> QED BY <1>3, <2>1, <2>2, <2>3, <2>4, <2>5, <2>6, <2>7 DEF RequestStep
<1>4. ASSUME NEW l \in Loops, PingStep(l) PROVE HelperTypeOK'
  <2>1. CASE PingOpen(l)
    BY <2>1 DEF PingOpen, Goto, PingFails, handleVars, stateVars, callVars,
       SidecarTypes, SidecarTypeOK, HelperTypeOK, helperVars
  <2>2. CASE PingRead(l)
    BY <2>2, TakeLineTyped, ActorKinds DEF PingRead, SidecarTypes,
       SidecarTypeOK, HandsOK, HelperTypeOK, helperVars
  <2>3. CASE PingTimeout(l)
    BY <2>3 DEF PingTimeout, Goto, PingFails, handleVars, stateVars, callVars,
       SidecarTypes, SidecarTypeOK, HelperTypeOK, helperVars
  <2>4. CASE PingFailed(l)
    BY <2>4 DEF PingFailed, Goto, handleVars, callVars, sidecarHistory,
       SidecarTypes, SidecarTypeOK, HelperTypeOK, helperVars
  <2> QED BY <1>4, <2>1, <2>2, <2>3, <2>4 DEF PingStep
<1>5. ASSUME NEW c \in Calls, NEW m \in BuiltinModels, EnsureRunning(c, m)
      PROVE HelperTypeOK'
  BY <1>5, BeginShutdownTyped, ActorKinds DEF EnsureRunning, SidecarTypes,
     SidecarTypeOK, HelperTypeOK, helperVars
<1>6. ASSUME NEW c \in Calls, AnswerTaken(c) PROVE HelperTypeOK'
  BY <1>6 DEF AnswerTaken, handleVars, stateVars, callVars, sidecarHistory,
     SidecarTypes, SidecarTypeOK, HelperTypeOK, helperVars
<1>7. ASSUME NEW c \in Calls, TokenSet(c) PROVE HelperTypeOK'
  BY <1>7 DEF TokenSet, handleVars, stateVars, callVars, sidecarHistory,
     SidecarTypes, SidecarTypeOK, HelperTypeOK, helperVars
<1>8. ASSUME NEW g \in Helpers, HealthTick(g) PROVE HelperTypeOK'
  <2>1. Ping \in Requests
    BY DEF Ping, Requests
  <2> QED BY <1>8, <2>1, WriteTyped DEF HealthTick, SidecarTypes,
             SidecarTypeOK, HelperTypeOK, helperVars
<1>9. ASSUME NEW g \in Helpers, IdleTick(g) PROVE HelperTypeOK'
  BY <1>9, BeginShutdownTyped, ActorKinds DEF IdleTick, SidecarTypes
<1>10. ASSUME NEW g \in Helpers, IdleTickBusy(g) PROVE HelperTypeOK'
  BY <1>10 DEF IdleTickBusy, handleVars, callVars, sidecarHistory,
     SidecarTypes, SidecarTypeOK, HelperTypeOK, helperVars
<1>11. ASSUME TimePasses PROVE HelperTypeOK'
  BY <1>11 DEF TimePasses, handleVars, callVars, sidecarHistory, SidecarTypes,
     SidecarTypeOK, HelperTypeOK, helperVars
<1>12. ASSUME NEW h \in Helpers, HelperStep(h) PROVE HelperTypeOK'
  <2>1. \A c \in Calls : Answers(c) \subseteq Replies
    BY DEF Answers, Text, Failed, Replies
  <2>2. Pong \in Replies /\ Goodbye \in Replies
    BY DEF Pong, Goodbye, Replies
  <2>3. ASSUME NEW c \in Calls, NEW line \in Answers(c), Serve(h, Generate(c),
               line)
        PROVE  HelperTypeOK'
    BY <2>1, <2>3, SayTyped DEF Serve, SidecarTypes, SidecarTypeOK
  <2>4. CASE Serve(h, Ping, Pong)
    BY <2>2, <2>4, SayTyped DEF Serve, SidecarTypes, SidecarTypeOK
  <2>5. CASE ServeShutdown(h)
    <3>1. Append(outbox[h], Goodbye) \in Seq(Replies)
      BY <2>2 DEF SidecarTypes, SidecarTypeOK, HelperTypeOK, Replies
    <3> QED BY <2>5, <3>1, EmptySeq DEF ServeShutdown, SidecarTypes,
               SidecarTypeOK, HelperTypeOK, Replies
  <2>6. CASE BreakPipe(h) \/ ReadEof(h)
    BY <2>6, TerminateTyped DEF BreakPipe, ReadEof, SidecarTypes,
       SidecarTypeOK
  <2> QED BY <1>12, <2>3, <2>4, <2>5, <2>6 DEF HelperStep
<1>13. ASSUME NEW h \in Helpers, HelperAils(h) PROVE HelperTypeOK'
  BY <1>13, TerminateTyped DEF HelperAils, Crash, Stick, SidecarTypes,
     SidecarTypeOK, HelperTypeOK
<1>14. CASE UNCHANGED sidecarVars
  BY <1>14 DEF sidecarVars, helperVars, handleVars, stateVars, callVars,
     sidecarHistory, SidecarTypes, SidecarTypeOK, HelperTypeOK
<1> QED BY <1>1, <1>2, <1>3, <1>4, <1>5, <1>6, <1>7, <1>8, <1>9, <1>10, <1>11,
   <1>12, <1>13, <1>14 DEF SidecarNext

(* The types in three parts: where the actors are, what they have in their  *)
(* hands, and the fields. *)
ControlOK ==
    /\ pc \in [Actors -> ShutdownLabels \cup SpawnLabels \cup SendLabels
                           \cup CallLabels \cup LoopLabels]
    /\ back \in [Actors -> {"spawn", "timedOut", "cancelled", "ended"}]
    /\ KindsOK

PipesOK ==
    /\ {child, stdin, stdout} \subseteq Helpers \cup {NONE}
    /\ mine \in [Actors -> Helpers \cup {NONE}]
    /\ HandsOK

FieldsOK ==
    /\ currentModel \in BuiltinModels \cup {NONE}
    /\ healthy \in BOOLEAN /\ shouldShutdown \in BOOLEAN /\ idleLong \in BOOLEAN
    /\ generation \in Nat /\ spawned \in 0..MaxSpawns
    /\ model \in [Calls -> BuiltinModels \cup {NONE}]
    /\ cancelled \subseteq Calls
    /\ result \in [Calls -> {"none", "ok", "err", "cancelled"}]
    /\ answer \in [Calls -> Calls \cup {NONE}]
    /\ stale \subseteq Helpers /\ met \subseteq Calls /\ broken \subseteq Calls
    /\ ailing \in BOOLEAN

(* The types, part by part. *)
LEMMA TypesInParts ==
    SidecarTypes <=> HelperTypeOK /\ ControlOK /\ PipesOK /\ FieldsOK
BY DEF SidecarTypes, SidecarTypeOK, ControlOK, PipesOK, FieldsOK

(* Where the actors are. *)
LEMMA ControlStep ==
    ASSUME SidecarTypes, [SidecarNext]_sidecarVars
    PROVE  ControlOK'
<1>1. ASSUME NEW a \in Actors, ShutdownStep(a) PROVE ControlOK'
  <2>1. CASE TakeChild(a)
    BY <2>1, TypesInParts, ActorKinds DEF TakeChild, Goto, stateVars,
       callVars, sidecarHistory, ControlOK, KindsOK, ShutdownLabels,
       SpawnLabels, SendLabels, CallLabels, LoopLabels
  <2>2. CASE AwaitExit(a)
    BY <2>2, TypesInParts, ActorKinds DEF AwaitExit, Goto, stateVars,
       callVars, sidecarHistory, ControlOK, KindsOK, ShutdownLabels,
       SpawnLabels, SendLabels, CallLabels, LoopLabels
  <2>3. CASE EndShutdown(a)
    BY <2>3, TypesInParts, ActorKinds DEF EndShutdown, Goto, sidecarHistory,
       ControlOK, KindsOK, ShutdownLabels, SpawnLabels, SendLabels,
       CallLabels, LoopLabels
  <2> QED BY <1>1, <2>1, <2>2, <2>3 DEF ShutdownStep
<1>2. ASSUME NEW c \in Calls, SpawnStep(c) PROVE ControlOK'
  <2>1. CASE SpawnHelper(c)
    BY <2>1, TypesInParts, ActorKinds DEF SpawnHelper, Goto, handleVars,
       callVars, sidecarHistory, ControlOK, KindsOK, ShutdownLabels,
       SpawnLabels, SendLabels, CallLabels, LoopLabels
  <2>2. CASE SpawnFails(c)
    BY <2>2, TypesInParts, ActorKinds DEF SpawnFails, Goto, handleVars,
       stateVars, sidecarHistory, ControlOK, KindsOK, ShutdownLabels,
       SpawnLabels, SendLabels, CallLabels, LoopLabels
  <2>3. CASE PutChild(c)
    BY <2>3, TypesInParts, ActorKinds DEF PutChild, Goto, stateVars, callVars,
       sidecarHistory, ControlOK, KindsOK, ShutdownLabels, SpawnLabels,
       SendLabels, CallLabels, LoopLabels
  <2>4. CASE PutStdout(c)
    BY <2>4, TypesInParts, ActorKinds DEF PutStdout, Goto, callVars,
       sidecarHistory, ControlOK, KindsOK, ShutdownLabels, SpawnLabels,
       SendLabels, CallLabels, LoopLabels
  <2>5. CASE PutLoops(c)
    BY <2>5, TypesInParts, ActorKinds DEF PutLoops, Goto, handleVars,
       callVars, sidecarHistory, ControlOK, KindsOK, ShutdownLabels,
       SpawnLabels, SendLabels, CallLabels, LoopLabels
  <2> QED BY <1>2, <2>1, <2>2, <2>3, <2>4, <2>5 DEF SpawnStep
<1>3. ASSUME NEW c \in Calls, RequestStep(c) PROVE ControlOK'
  <2>1. CASE StartRequest(c)
    BY <2>1, TypesInParts, ActorKinds DEF StartRequest, Goto, handleVars,
       stateVars, sidecarHistory, ControlOK, KindsOK, ShutdownLabels,
       SpawnLabels, SendLabels, CallLabels, LoopLabels
  <2>2. CASE WriteRequest(c)
    BY <2>2, TypesInParts, ActorKinds DEF WriteRequest, Goto, TransportFails,
       handleVars, stateVars, ControlOK, KindsOK, ShutdownLabels, SpawnLabels,
       SendLabels, CallLabels, LoopLabels
  <2>3. CASE OpenStdout(c)
    BY <2>3, TypesInParts, ActorKinds DEF OpenStdout, Goto, TransportFails,
       handleVars, stateVars, ControlOK, KindsOK, ShutdownLabels, SpawnLabels,
       SendLabels, CallLabels, LoopLabels
  <2>4. CASE ReadAnswer(c)
    BY <2>4, TypesInParts, ActorKinds DEF ReadAnswer, Goto, TransportFails,
       handleVars, ControlOK, KindsOK, ShutdownLabels, SpawnLabels,
       SendLabels, CallLabels, LoopLabels
  <2>5. CASE ReadNothing(c)
    BY <2>5, TypesInParts, ActorKinds DEF ReadNothing, Goto, TransportFails,
       handleVars, stateVars, ControlOK, KindsOK, ShutdownLabels, SpawnLabels,
       SendLabels, CallLabels, LoopLabels
  <2>6. CASE RequestTimeout(c)
    BY <2>6, TypesInParts, ActorKinds DEF RequestTimeout, Goto, BeginShutdown,
       handleVars, callVars, ControlOK, KindsOK, ShutdownLabels, SpawnLabels,
       SendLabels, CallLabels, LoopLabels
  <2>7. CASE CancelRequest(c)
    BY <2>7, TypesInParts, ActorKinds DEF CancelRequest, Goto, BeginShutdown,
       handleVars, callVars, ControlOK, KindsOK, ShutdownLabels, SpawnLabels,
       SendLabels, CallLabels, LoopLabels
  <2> QED BY <1>3, <2>1, <2>2, <2>3, <2>4, <2>5, <2>6, <2>7 DEF RequestStep
<1>4. ASSUME NEW l \in Loops, PingStep(l) PROVE ControlOK'
  <2>1. CASE PingOpen(l)
    BY <2>1, TypesInParts, ActorKinds DEF PingOpen, Goto, PingFails,
       handleVars, stateVars, callVars, ControlOK, KindsOK, ShutdownLabels,
       SpawnLabels, SendLabels, CallLabels, LoopLabels
  <2>2. CASE PingRead(l)
    BY <2>2, TypesInParts, ActorKinds DEF PingRead, Goto, PingFails,
       handleVars, stateVars, callVars, ControlOK, KindsOK, ShutdownLabels,
       SpawnLabels, SendLabels, CallLabels, LoopLabels
  <2>3. CASE PingTimeout(l)
    BY <2>3, TypesInParts, ActorKinds DEF PingTimeout, Goto, PingFails,
       handleVars, stateVars, callVars, ControlOK, KindsOK, ShutdownLabels,
       SpawnLabels, SendLabels, CallLabels, LoopLabels
  <2>4. CASE PingFailed(l)
    BY <2>4, TypesInParts, ActorKinds DEF PingFailed, Goto, handleVars,
       callVars, sidecarHistory, ControlOK, KindsOK, ShutdownLabels,
       SpawnLabels, SendLabels, CallLabels, LoopLabels
  <2> QED BY <1>4, <2>1, <2>2, <2>3, <2>4 DEF PingStep
<1>5. ASSUME NEW c \in Calls, NEW m \in BuiltinModels, EnsureRunning(c, m)
      PROVE ControlOK'
  BY <1>5, TypesInParts, ActorKinds DEF EnsureRunning, Goto, BeginShutdown,
     Enters, handleVars, ControlOK, KindsOK, ShutdownLabels, SpawnLabels,
     SendLabels, CallLabels, LoopLabels
<1>6. ASSUME NEW c \in Calls, AnswerTaken(c) PROVE ControlOK'
  BY <1>6, TypesInParts, ActorKinds DEF AnswerTaken, handleVars, stateVars,
     callVars, sidecarHistory, ControlOK, KindsOK, ShutdownLabels,
     SpawnLabels, SendLabels, CallLabels, LoopLabels
<1>7. ASSUME NEW c \in Calls, TokenSet(c) PROVE ControlOK'
  BY <1>7, TypesInParts, ActorKinds DEF TokenSet, handleVars, stateVars,
     callVars, sidecarHistory, ControlOK, KindsOK, ShutdownLabels,
     SpawnLabels, SendLabels, CallLabels, LoopLabels
<1>8. ASSUME NEW g \in Helpers, HealthTick(g) PROVE ControlOK'
  BY <1>8, TypesInParts, ActorKinds DEF HealthTick, Goto, Enters, handleVars,
     stateVars, callVars, ControlOK, KindsOK, ShutdownLabels, SpawnLabels,
     SendLabels, CallLabels, LoopLabels
<1>9. ASSUME NEW g \in Helpers, IdleTick(g) PROVE ControlOK'
  BY <1>9, TypesInParts, ActorKinds DEF IdleTick, Goto, BeginShutdown, Enters,
     handleVars, callVars, ControlOK, KindsOK, ShutdownLabels, SpawnLabels,
     SendLabels, CallLabels, LoopLabels
<1>10. ASSUME NEW g \in Helpers, IdleTickBusy(g) PROVE ControlOK'
  BY <1>10, TypesInParts, ActorKinds DEF IdleTickBusy, handleVars, callVars,
     sidecarHistory, ControlOK, KindsOK, ShutdownLabels, SpawnLabels,
     SendLabels, CallLabels, LoopLabels
<1>11. ASSUME TimePasses PROVE ControlOK'
  BY <1>11, TypesInParts, ActorKinds DEF TimePasses, handleVars, callVars,
     sidecarHistory, ControlOK, KindsOK, ShutdownLabels, SpawnLabels,
     SendLabels, CallLabels, LoopLabels
<1>12. ASSUME NEW h \in Helpers, HelperStep(h) PROVE ControlOK'
  BY <1>12, TypesInParts, ActorKinds DEF HelperStep, handleVars, stateVars,
     callVars, sidecarHistory, ControlOK, KindsOK, ShutdownLabels,
     SpawnLabels, SendLabels, CallLabels, LoopLabels
<1>13. ASSUME NEW h \in Helpers, HelperAils(h) PROVE ControlOK'
  BY <1>13, TypesInParts, ActorKinds DEF HelperAils, handleVars, stateVars,
     callVars, ControlOK, KindsOK, ShutdownLabels, SpawnLabels, SendLabels,
     CallLabels, LoopLabels
<1>14. CASE UNCHANGED sidecarVars
  BY <1>14, TypesInParts, ActorKinds DEF sidecarVars, helperVars, handleVars,
     stateVars, callVars, sidecarHistory, ControlOK, KindsOK, ShutdownLabels,
     SpawnLabels, SendLabels, CallLabels, LoopLabels
<1> QED BY <1>1, <1>2, <1>3, <1>4, <1>5, <1>6, <1>7, <1>8, <1>9, <1>10, <1>11,
   <1>12, <1>13, <1>14 DEF SidecarNext

(* What the actors have in their hands. *)
LEMMA PipesStep ==
    ASSUME SidecarTypes, [SidecarNext]_sidecarVars
    PROVE  PipesOK'
<1>1. ASSUME NEW a \in Actors, ShutdownStep(a) PROVE PipesOK'
  <2>1. CASE TakeChild(a)
    BY <2>1, TypesInParts, ActorKinds DEF TakeChild, Goto, stateVars,
       callVars, sidecarHistory, PipesOK, HandsOK, ControlOK
  <2>2. CASE AwaitExit(a)
    BY <2>2, TypesInParts, ActorKinds DEF AwaitExit, Goto, stateVars,
       callVars, sidecarHistory, PipesOK, HandsOK, ControlOK
  <2>3. CASE EndShutdown(a)
    BY <2>3, TypesInParts, ActorKinds DEF EndShutdown, Goto, sidecarHistory,
       PipesOK, HandsOK, ControlOK, StdoutFree
  <2> QED BY <1>1, <2>1, <2>2, <2>3 DEF ShutdownStep
<1>2. ASSUME NEW c \in Calls, SpawnStep(c) PROVE PipesOK'
  <2>1. CASE SpawnHelper(c)
    BY <2>1, TypesInParts, ActorKinds, SidecarAssumption DEF SpawnHelper,
       Goto, handleVars, callVars, sidecarHistory, PipesOK, HandsOK,
       ControlOK, FieldsOK
  <2>2. CASE SpawnFails(c)
    BY <2>2, TypesInParts, ActorKinds DEF SpawnFails, Goto, handleVars,
       stateVars, sidecarHistory, PipesOK, HandsOK, ControlOK
  <2>3. CASE PutChild(c)
    BY <2>3, TypesInParts, ActorKinds DEF PutChild, Goto, stateVars, callVars,
       sidecarHistory, PipesOK, HandsOK, ControlOK
  <2>4. CASE PutStdout(c)
    BY <2>4, TypesInParts, ActorKinds DEF PutStdout, Goto, callVars,
       sidecarHistory, PipesOK, HandsOK, ControlOK, StdoutFree
  <2>5. CASE PutLoops(c)
    BY <2>5, TypesInParts, ActorKinds DEF PutLoops, Goto, handleVars,
       callVars, sidecarHistory, PipesOK, HandsOK, ControlOK
  <2> QED BY <1>2, <2>1, <2>2, <2>3, <2>4, <2>5 DEF SpawnStep
<1>3. ASSUME NEW c \in Calls, RequestStep(c) PROVE PipesOK'
  <2>1. CASE StartRequest(c)
    BY <2>1, TypesInParts, ActorKinds DEF StartRequest, Goto, handleVars,
       stateVars, sidecarHistory, PipesOK, HandsOK, ControlOK
  <2>2. CASE WriteRequest(c)
    BY <2>2, TypesInParts, ActorKinds DEF WriteRequest, Goto, TransportFails,
       handleVars, stateVars, PipesOK, HandsOK, ControlOK
  <2>3. CASE OpenStdout(c)
    BY <2>3, TypesInParts, ActorKinds DEF OpenStdout, Goto, TransportFails,
       handleVars, stateVars, PipesOK, HandsOK, ControlOK
  <2>4. CASE ReadAnswer(c)
    BY <2>4, TypesInParts, ActorKinds DEF ReadAnswer, Goto, TransportFails,
       handleVars, PipesOK, HandsOK, ControlOK
  <2>5. CASE ReadNothing(c)
    BY <2>5, TypesInParts, ActorKinds DEF ReadNothing, Goto, TransportFails,
       handleVars, stateVars, PipesOK, HandsOK, ControlOK
  <2>6. CASE RequestTimeout(c)
    BY <2>6, TypesInParts, ActorKinds DEF RequestTimeout, Goto, BeginShutdown,
       handleVars, callVars, PipesOK, HandsOK, ControlOK
  <2>7. CASE CancelRequest(c)
    BY <2>7, TypesInParts, ActorKinds DEF CancelRequest, Goto, BeginShutdown,
       handleVars, callVars, PipesOK, HandsOK, ControlOK
  <2> QED BY <1>3, <2>1, <2>2, <2>3, <2>4, <2>5, <2>6, <2>7 DEF RequestStep
<1>4. ASSUME NEW l \in Loops, PingStep(l) PROVE PipesOK'
  <2>1. CASE PingOpen(l)
    BY <2>1, TypesInParts, ActorKinds DEF PingOpen, Goto, PingFails,
       handleVars, stateVars, callVars, PipesOK, HandsOK, ControlOK
  <2>2. CASE PingRead(l)
    BY <2>2, TypesInParts, ActorKinds DEF PingRead, Goto, PingFails,
       handleVars, stateVars, callVars, PipesOK, HandsOK, ControlOK
  <2>3. CASE PingTimeout(l)
    BY <2>3, TypesInParts, ActorKinds DEF PingTimeout, Goto, PingFails,
       handleVars, stateVars, callVars, PipesOK, HandsOK, ControlOK
  <2>4. CASE PingFailed(l)
    BY <2>4, TypesInParts, ActorKinds DEF PingFailed, Goto, handleVars,
       callVars, sidecarHistory, PipesOK, HandsOK, ControlOK
  <2> QED BY <1>4, <2>1, <2>2, <2>3, <2>4 DEF PingStep
<1>5. ASSUME NEW c \in Calls, NEW m \in BuiltinModels, EnsureRunning(c, m)
      PROVE PipesOK'
  BY <1>5, TypesInParts, ActorKinds DEF EnsureRunning, Goto, BeginShutdown,
     Enters, handleVars, PipesOK, HandsOK, ControlOK
<1>6. ASSUME NEW c \in Calls, AnswerTaken(c) PROVE PipesOK'
  BY <1>6, TypesInParts, ActorKinds DEF AnswerTaken, handleVars, stateVars,
     callVars, sidecarHistory, PipesOK, HandsOK, ControlOK
<1>7. ASSUME NEW c \in Calls, TokenSet(c) PROVE PipesOK'
  BY <1>7, TypesInParts, ActorKinds DEF TokenSet, handleVars, stateVars,
     callVars, sidecarHistory, PipesOK, HandsOK, ControlOK
<1>8. ASSUME NEW g \in Helpers, HealthTick(g) PROVE PipesOK'
  BY <1>8, TypesInParts, ActorKinds DEF HealthTick, Goto, Enters, handleVars,
     stateVars, callVars, PipesOK, HandsOK, ControlOK
<1>9. ASSUME NEW g \in Helpers, IdleTick(g) PROVE PipesOK'
  BY <1>9, TypesInParts, ActorKinds DEF IdleTick, Goto, BeginShutdown, Enters,
     handleVars, callVars, PipesOK, HandsOK, ControlOK
<1>10. ASSUME NEW g \in Helpers, IdleTickBusy(g) PROVE PipesOK'
  BY <1>10, TypesInParts, ActorKinds DEF IdleTickBusy, handleVars, callVars,
     sidecarHistory, PipesOK, HandsOK, ControlOK
<1>11. ASSUME TimePasses PROVE PipesOK'
  BY <1>11, TypesInParts, ActorKinds DEF TimePasses, handleVars, callVars,
     sidecarHistory, PipesOK, HandsOK, ControlOK
<1>12. ASSUME NEW h \in Helpers, HelperStep(h) PROVE PipesOK'
  BY <1>12, TypesInParts, ActorKinds DEF HelperStep, handleVars, stateVars,
     callVars, sidecarHistory, PipesOK, HandsOK, ControlOK
<1>13. ASSUME NEW h \in Helpers, HelperAils(h) PROVE PipesOK'
  BY <1>13, TypesInParts, ActorKinds DEF HelperAils, handleVars, stateVars,
     callVars, PipesOK, HandsOK, ControlOK
<1>14. CASE UNCHANGED sidecarVars
  BY <1>14, TypesInParts, ActorKinds DEF sidecarVars, helperVars, handleVars,
     stateVars, callVars, sidecarHistory, PipesOK, HandsOK, ControlOK
<1> QED BY <1>1, <1>2, <1>3, <1>4, <1>5, <1>6, <1>7, <1>8, <1>9, <1>10, <1>11,
   <1>12, <1>13, <1>14 DEF SidecarNext

(* The fields. *)
LEMMA FieldsStep ==
    ASSUME SidecarTypes, [SidecarNext]_sidecarVars
    PROVE  FieldsOK'
<1>1. ASSUME NEW a \in Actors, ShutdownStep(a) PROVE FieldsOK'
  <2>1. CASE TakeChild(a)
    BY <2>1, TypesInParts, ActorKinds, SidecarAssumption DEF TakeChild, Goto,
       stateVars, callVars, sidecarHistory, FieldsOK, PipesOK, HandsOK
  <2>2. CASE AwaitExit(a)
    BY <2>2, TypesInParts, ActorKinds, SidecarAssumption DEF AwaitExit, Goto,
       stateVars, callVars, sidecarHistory, FieldsOK, PipesOK, HandsOK
  <2>3. CASE EndShutdown(a)
    BY <2>3, TypesInParts, ActorKinds, SidecarAssumption DEF EndShutdown,
       Goto, sidecarHistory, FieldsOK, PipesOK, HandsOK
  <2> QED BY <1>1, <2>1, <2>2, <2>3 DEF ShutdownStep
<1>2. ASSUME NEW c \in Calls, SpawnStep(c) PROVE FieldsOK'
  <2>1. CASE SpawnHelper(c)
    BY <2>1, TypesInParts, ActorKinds, SidecarAssumption DEF SpawnHelper,
       Goto, handleVars, callVars, sidecarHistory, FieldsOK, PipesOK, HandsOK
  <2>2. CASE SpawnFails(c)
    BY <2>2, TypesInParts, ActorKinds, SidecarAssumption DEF SpawnFails, Goto,
       handleVars, stateVars, sidecarHistory, FieldsOK, PipesOK, HandsOK
  <2>3. CASE PutChild(c)
    BY <2>3, TypesInParts, ActorKinds, SidecarAssumption DEF PutChild, Goto,
       stateVars, callVars, sidecarHistory, FieldsOK, PipesOK, HandsOK
  <2>4. CASE PutStdout(c)
    BY <2>4, TypesInParts, ActorKinds, SidecarAssumption DEF PutStdout, Goto,
       callVars, sidecarHistory, FieldsOK, PipesOK, HandsOK
  <2>5. CASE PutLoops(c)
    <3>1. generation' \in Nat
      BY <2>5, TypesInParts DEF PutLoops, FieldsOK
    <3>2. idleLong' \in BOOLEAN
      BY <2>5 DEF PutLoops
    <3> QED BY <2>5, <3>1, <3>2, TypesInParts DEF PutLoops, callVars,
               sidecarHistory, FieldsOK
  <2> QED BY <1>2, <2>1, <2>2, <2>3, <2>4, <2>5 DEF SpawnStep
<1>3. ASSUME NEW c \in Calls, RequestStep(c) PROVE FieldsOK'
  <2>1. CASE StartRequest(c)
    BY <2>1, TypesInParts, ActorKinds, SidecarAssumption DEF StartRequest,
       Goto, handleVars, stateVars, sidecarHistory, FieldsOK, PipesOK, HandsOK
  <2>2. CASE WriteRequest(c)
    BY <2>2, TypesInParts, ActorKinds, SidecarAssumption DEF WriteRequest,
       Goto, TransportFails, handleVars, stateVars, FieldsOK, PipesOK, HandsOK
  <2>3. CASE OpenStdout(c)
    BY <2>3, TypesInParts, ActorKinds, SidecarAssumption DEF OpenStdout, Goto,
       TransportFails, handleVars, stateVars, FieldsOK, PipesOK, HandsOK
  <2>4. CASE ReadAnswer(c)
    <3>1. stdout \in Helpers /\ mine[c] \in Helpers
      BY <2>4, TypesInParts, ActorKinds DEF ReadAnswer, PipesOK, HandsOK
    <3>2. Line(stdout)[2] \in Calls \cup {NONE}
      <4>1. Line(stdout) \in Replies
        BY <2>4, <3>1, TypesInParts, HeadTailProperties DEF ReadAnswer,
           HasLine, Line, HelperTypeOK, Replies
      <4> QED BY <4>1 DEF Replies
    <3>3. /\ answer' \in [Calls -> Calls \cup {NONE}]
          /\ result' \in [Calls -> {"none", "ok", "err", "cancelled"}]
      BY <2>4, <3>2, TypesInParts DEF ReadAnswer, TransportFails, FieldsOK
    <3>4. stale' \subseteq Helpers /\ broken' \subseteq Calls
      BY <2>4, <3>1, TypesInParts DEF ReadAnswer, TransportFails, FieldsOK
    <3> QED BY <2>4, <3>3, <3>4, TypesInParts DEF ReadAnswer, FieldsOK
  <2>5. CASE ReadNothing(c)
    BY <2>5, TypesInParts, ActorKinds, SidecarAssumption DEF ReadNothing,
       Goto, TransportFails, handleVars, stateVars, FieldsOK, PipesOK, HandsOK
  <2>6. CASE RequestTimeout(c)
    BY <2>6, TypesInParts, ActorKinds, SidecarAssumption DEF RequestTimeout,
       Goto, BeginShutdown, handleVars, callVars, FieldsOK, PipesOK, HandsOK
  <2>7. CASE CancelRequest(c)
    BY <2>7, TypesInParts, ActorKinds, SidecarAssumption DEF CancelRequest,
       Goto, BeginShutdown, handleVars, callVars, FieldsOK, PipesOK, HandsOK
  <2> QED BY <1>3, <2>1, <2>2, <2>3, <2>4, <2>5, <2>6, <2>7 DEF RequestStep
<1>4. ASSUME NEW l \in Loops, PingStep(l) PROVE FieldsOK'
  <2>1. CASE PingOpen(l)
    BY <2>1, TypesInParts, ActorKinds, SidecarAssumption DEF PingOpen, Goto,
       PingFails, handleVars, stateVars, callVars, FieldsOK, PipesOK, HandsOK
  <2>2. CASE PingRead(l)
    BY <2>2, TypesInParts, ActorKinds, SidecarAssumption DEF PingRead, Goto,
       PingFails, handleVars, stateVars, callVars, FieldsOK, PipesOK, HandsOK
  <2>3. CASE PingTimeout(l)
    BY <2>3, TypesInParts, ActorKinds, SidecarAssumption DEF PingTimeout,
       Goto, PingFails, handleVars, stateVars, callVars, FieldsOK, PipesOK,
       HandsOK
  <2>4. CASE PingFailed(l)
    BY <2>4, TypesInParts, ActorKinds, SidecarAssumption DEF PingFailed, Goto,
       handleVars, callVars, sidecarHistory, FieldsOK, PipesOK, HandsOK
  <2> QED BY <1>4, <2>1, <2>2, <2>3, <2>4 DEF PingStep
<1>5. ASSUME NEW c \in Calls, NEW m \in BuiltinModels, EnsureRunning(c, m)
      PROVE FieldsOK'
  BY <1>5, TypesInParts, ActorKinds, SidecarAssumption DEF EnsureRunning,
     Goto, BeginShutdown, Enters, handleVars, FieldsOK, PipesOK, HandsOK
<1>6. ASSUME NEW c \in Calls, AnswerTaken(c) PROVE FieldsOK'
  BY <1>6, TypesInParts, ActorKinds, SidecarAssumption DEF AnswerTaken,
     handleVars, stateVars, callVars, sidecarHistory, FieldsOK, PipesOK,
     HandsOK
<1>7. ASSUME NEW c \in Calls, TokenSet(c) PROVE FieldsOK'
  BY <1>7, TypesInParts, ActorKinds, SidecarAssumption DEF TokenSet,
     handleVars, stateVars, callVars, sidecarHistory, FieldsOK, PipesOK,
     HandsOK
<1>8. ASSUME NEW g \in Helpers, HealthTick(g) PROVE FieldsOK'
  BY <1>8, TypesInParts, ActorKinds, SidecarAssumption DEF HealthTick, Goto,
     Enters, handleVars, stateVars, callVars, FieldsOK, PipesOK, HandsOK
<1>9. ASSUME NEW g \in Helpers, IdleTick(g) PROVE FieldsOK'
  BY <1>9, TypesInParts, ActorKinds, SidecarAssumption DEF IdleTick, Goto,
     BeginShutdown, Enters, handleVars, callVars, FieldsOK, PipesOK, HandsOK
<1>10. ASSUME NEW g \in Helpers, IdleTickBusy(g) PROVE FieldsOK'
  BY <1>10, TypesInParts, ActorKinds, SidecarAssumption DEF IdleTickBusy,
     handleVars, callVars, sidecarHistory, FieldsOK, PipesOK, HandsOK
<1>11. ASSUME TimePasses PROVE FieldsOK'
  BY <1>11, TypesInParts, ActorKinds, SidecarAssumption DEF TimePasses,
     handleVars, callVars, sidecarHistory, FieldsOK, PipesOK, HandsOK
<1>12. ASSUME NEW h \in Helpers, HelperStep(h) PROVE FieldsOK'
  BY <1>12, TypesInParts, ActorKinds, SidecarAssumption DEF HelperStep,
     handleVars, stateVars, callVars, sidecarHistory, FieldsOK, PipesOK,
     HandsOK
<1>13. ASSUME NEW h \in Helpers, HelperAils(h) PROVE FieldsOK'
  BY <1>13, TypesInParts, ActorKinds, SidecarAssumption DEF HelperAils,
     handleVars, stateVars, callVars, FieldsOK, PipesOK, HandsOK
<1>14. CASE UNCHANGED sidecarVars
  BY <1>14, TypesInParts, ActorKinds, SidecarAssumption DEF sidecarVars,
     helperVars, handleVars, stateVars, callVars, sidecarHistory, FieldsOK,
     PipesOK, HandsOK
<1> QED BY <1>1, <1>2, <1>3, <1>4, <1>5, <1>6, <1>7, <1>8, <1>9, <1>10, <1>11,
   <1>12, <1>13, <1>14 DEF SidecarNext

(* Every step of the manager keeps the types. *)
LEMMA SidecarTypesStep ==
    ASSUME SidecarTypes, [SidecarNext]_sidecarVars
    PROVE  SidecarTypes'
BY HelperTypesStep, ControlStep, PipesStep, FieldsStep, TypesInParts
   DEF SidecarTypes, SidecarTypeOK, ControlOK, PipesOK, FieldsOK

(***************************************************************************)
(* Who is answered.  A pair of pipes is clean when it holds at most one    *)
(* line of a generation, of a call in some set.                            *)
(***************************************************************************)
Asks(line) == line[1] = "generate"
Answering(line) == line[1] \in {"text", "error"}

SingleIn(in, out) ==
    /\ \A i, j \in 1..Len(in) : Asks(in[i]) /\ Asks(in[j]) => i = j
    /\ \A i, j \in 1..Len(out) : Answering(out[i]) /\ Answering(out[j]) => i = j
    /\ \A i \in 1..Len(in), j \in 1..Len(out) : ~(Asks(in[i]) /\ Answering(out[j]))

OwnedBy(in, out, C) ==
    /\ \A i \in 1..Len(in) : Asks(in[i]) => in[i][2] \in C
    /\ \A i \in 1..Len(out) : Answering(out[i]) => out[i][2] \in C

Clean(in, out, C) == SingleIn(in, out) /\ OwnedBy(in, out, C)

(* The lines of a queue one by one. *)
LEMMA TailLines ==
    ASSUME NEW S, NEW s \in Seq(S), s /= <<>>
    PROVE  /\ Len(s) \in Nat \ {0} /\ Head(s) = s[1]
           /\ Tail(s) \in Seq(S) /\ Len(Tail(s)) = Len(s) - 1
           /\ \A i \in 1..Len(s) - 1 : Tail(s)[i] = s[i + 1]
BY EmptySeq

LEMMA AppendLines ==
    ASSUME NEW S, NEW s \in Seq(S), NEW e \in S
    PROVE  /\ Len(s) \in Nat /\ Len(Append(s, e)) = Len(s) + 1
           /\ \A i \in 1..Len(s) : Append(s, e)[i] = s[i]
           /\ Append(s, e)[Len(s) + 1] = e
OBVIOUS

(* More calls may wait. *)
LEMMA CleanSubset ==
    ASSUME NEW in, NEW out, NEW C, NEW D, Clean(in, out, C), C \subseteq D
    PROVE  Clean(in, out, D)
BY DEF Clean, OwnedBy

(* A generation is written to pipes that hold none. *)
LEMMA AskedOnce ==
    ASSUME NEW in \in Seq(Requests), NEW out \in Seq(Replies), Clean(in, out,
           {}),
           NEW line \in Requests
    PROVE  Clean(Append(in, line), out, {line[2]})
<1>1. \A i \in 1..Len(in) : ~Asks(in[i])
  BY DEF Clean, OwnedBy
<1>2. \A i \in 1..Len(out) : ~Answering(out[i])
  BY DEF Clean, OwnedBy
<1>3. \A i \in 1..Len(Append(in, line)) : Asks(Append(in, line)[i]) => i = Len(in) + 1
  BY <1>1, AppendLines
<1> QED BY <1>2, <1>3, AppendLines DEF Clean, SingleIn, OwnedBy

(* Another line is written. *)
LEMMA WroteOther ==
    ASSUME NEW in \in Seq(Requests), NEW out \in Seq(Replies), NEW C,
           Clean(in, out, C), NEW line \in Requests, ~Asks(line)
    PROVE  Clean(Append(in, line), out, C)
<1>1. \A i \in 1..Len(Append(in, line)) :
         Asks(Append(in, line)[i]) => i \in 1..Len(in) /\ Append(in, line)[i] = in[i]
  BY AppendLines
<1> QED BY <1>1 DEF Clean, SingleIn, OwnedBy

(* A line is read: when it is an answer, no other is left. *)
LEMMA TookLine ==
    ASSUME NEW in \in Seq(Requests), NEW out \in Seq(Replies), NEW C,
           Clean(in, out, C), out /= <<>>
    PROVE  /\ Clean(in, Tail(out), C)
           /\ Answering(Head(out)) => Head(out)[2] \in C /\ Clean(in, Tail(out), {})
<1>1. \A i \in 1..Len(Tail(out)) : i + 1 \in 1..Len(out) /\ Tail(out)[i] = out[i + 1]
  BY TailLines
<1>2. SingleIn(in, Tail(out))
  BY <1>1 DEF Clean, SingleIn
<1>3. OwnedBy(in, Tail(out), C)
  BY <1>1 DEF Clean, OwnedBy
<1>4. ASSUME Answering(Head(out))
      PROVE  Head(out)[2] \in C /\ OwnedBy(in, Tail(out), {})
  <2>1. 1 \in 1..Len(out) /\ Head(out) = out[1]
    BY TailLines
  <2>2. \A i \in 1..Len(in) : ~Asks(in[i])
    BY <1>4, <2>1 DEF Clean, SingleIn
  <2>3. \A i \in 1..Len(Tail(out)) : ~Answering(Tail(out)[i])
    BY <1>1, <1>4, <2>1, TailLines DEF Clean, SingleIn
  <2> QED BY <1>4, <2>1, <2>2, <2>3 DEF Clean, OwnedBy
<1> QED BY <1>2, <1>3, <1>4 DEF Clean

(* The helper answers a line. *)
LEMMA Served ==
    ASSUME NEW in \in Seq(Requests), NEW out \in Seq(Replies), NEW C,
           Clean(in, out, C), in /= <<>>, NEW line \in Replies,
           Answering(line) => Asks(Head(in)) /\ line[2] = Head(in)[2]
    PROVE  Clean(Tail(in), Append(out, line), C)
<1>1. \A i \in 1..Len(Tail(in)) : i + 1 \in 1..Len(in) /\ Tail(in)[i] = in[i + 1]
  BY TailLines
<1>2. 1 \in 1..Len(in) /\ Head(in) = in[1]
  BY TailLines
<1>3. CASE Answering(line)
  <2>1. \A i \in 1..Len(Tail(in)) : ~Asks(Tail(in)[i])
    BY <1>1, <1>2, <1>3, TailLines DEF Clean, SingleIn
  <2>2. \A i \in 1..Len(out) : ~Answering(out[i])
    BY <1>2, <1>3 DEF Clean, SingleIn
  <2>3. line[2] \in C
    BY <1>2, <1>3 DEF Clean, OwnedBy
  <2>4. \A i \in 1..Len(Append(out, line)) :
           Answering(Append(out, line)[i]) =>
              i = Len(out) + 1 /\ Append(out, line)[i] = line
    BY <2>2, AppendLines
  <2> QED BY <2>1, <2>3, <2>4 DEF Clean, SingleIn, OwnedBy
<1>4. CASE ~Answering(line)
  <2>1. \A i \in 1..Len(Append(out, line)) :
           Answering(Append(out, line)[i]) =>
              i \in 1..Len(out) /\ Append(out, line)[i] = out[i]
    BY <1>4, AppendLines
  <2> QED BY <1>1, <2>1 DEF Clean, SingleIn, OwnedBy
<1> QED BY <1>3, <1>4

(* A pipe that is emptied leaves the other as it was. *)
LEMMA Emptied ==
    ASSUME NEW in \in Seq(Requests), NEW out \in Seq(Replies), NEW C,
           Clean(in, out, C)
    PROVE  Clean(<<>>, out, C) /\ Clean(in, <<>>, C)
BY EmptySeq DEF Clean, SingleIn, OwnedBy

(***************************************************************************)
(* The pipes of a helper that is not stale hold at most the line of the    *)
(* one call that waits for its answer.                                     *)
(***************************************************************************)
Waits(c) == pc[c] \in {"open", "read"}
AskedFrom(h) == {c \in Calls : Waits(c) /\ mine[c] = h}

OneWaits == \A c, e \in Calls : Waits(c) /\ Waits(e) => c = e
PipesClean == \A h \in Helpers \ stale : Clean(inbox[h], outbox[h], AskedFrom(h))
NoAnswerYet == \A c \in Calls : pc[c] \notin {"answered", "idle"} => answer[c] = NONE
OwnOrStale == \A c \in Calls : answer[c] \in {NONE, c} \/ mine[c] \in stale

AnswerInv == OneWaits /\ PipesClean /\ NoAnswerYet /\ OwnOrStale

(* What BeginShutdown does to the pipes. *)
LEMMA ShutdownIsQuiet ==
    ASSUME SidecarTypes, NEW a \in Actors, NEW next, BeginShutdown(a, next)
    PROVE  /\ outbox' = outbox
           /\ \A h \in Helpers : inbox'[h] \in {inbox[h], Append(inbox[h], Shutdown)}
           /\ pc' = [pc EXCEPT ![a] = "take"]
BY DEF BeginShutdown, Goto, Write, helperVars, SidecarTypes, SidecarTypeOK,
   HelperTypeOK

(* request_lock lets one call at a time write and wait. *)
LEMMA OneWaitsStep ==
    ASSUME SidecarTypes, OneWaits, [SidecarNext]_sidecarVars
    PROVE  OneWaits'
<1>1. ASSUME NEW a \in Actors, ShutdownStep(a) PROVE OneWaits'
  <2>1. CASE TakeChild(a)
    BY <2>1, ActorKinds DEF TakeChild, Goto, stateVars, callVars,
       sidecarHistory, SidecarTypes, SidecarTypeOK, OneWaits, Waits
  <2>2. CASE AwaitExit(a)
    BY <2>2, ActorKinds DEF AwaitExit, Goto, stateVars, callVars,
       sidecarHistory, SidecarTypes, SidecarTypeOK, OneWaits, Waits
  <2>3. CASE EndShutdown(a)
    BY <2>3, ActorKinds DEF EndShutdown, Goto, sidecarHistory, SidecarTypes,
       SidecarTypeOK, OneWaits, Waits
  <2> QED BY <1>1, <2>1, <2>2, <2>3 DEF ShutdownStep
<1>2. ASSUME NEW c \in Calls, SpawnStep(c) PROVE OneWaits'
  <2>1. CASE SpawnHelper(c)
    BY <2>1, ActorKinds DEF SpawnHelper, Goto, handleVars, callVars,
       sidecarHistory, SidecarTypes, SidecarTypeOK, OneWaits, Waits
  <2>2. CASE SpawnFails(c)
    BY <2>2, ActorKinds DEF SpawnFails, Goto, handleVars, stateVars,
       sidecarHistory, SidecarTypes, SidecarTypeOK, OneWaits, Waits
  <2>3. CASE PutChild(c)
    BY <2>3, ActorKinds DEF PutChild, Goto, stateVars, callVars,
       sidecarHistory, SidecarTypes, SidecarTypeOK, OneWaits, Waits
  <2>4. CASE PutStdout(c)
    BY <2>4, ActorKinds DEF PutStdout, Goto, callVars, sidecarHistory,
       SidecarTypes, SidecarTypeOK, OneWaits, Waits
  <2>5. CASE PutLoops(c)
    BY <2>5, ActorKinds DEF PutLoops, Goto, handleVars, callVars,
       sidecarHistory, SidecarTypes, SidecarTypeOK, OneWaits, Waits
  <2> QED BY <1>2, <2>1, <2>2, <2>3, <2>4, <2>5 DEF SpawnStep
<1>3. ASSUME NEW c \in Calls, RequestStep(c) PROVE OneWaits'
  <2>1. CASE StartRequest(c)
    BY <2>1, ActorKinds DEF StartRequest, Goto, handleVars, stateVars,
       sidecarHistory, SidecarTypes, SidecarTypeOK, OneWaits, Waits
  <2>2. CASE WriteRequest(c)
    BY <2>2, ActorKinds DEF WriteRequest, Goto, TransportFails, handleVars,
       stateVars, SidecarTypes, SidecarTypeOK, OneWaits, Waits,
       RequestLockFree, SendLabels
  <2>3. CASE OpenStdout(c)
    BY <2>3, ActorKinds DEF OpenStdout, Goto, TransportFails, handleVars,
       stateVars, SidecarTypes, SidecarTypeOK, OneWaits, Waits
  <2>4. CASE ReadAnswer(c)
    BY <2>4, ActorKinds DEF ReadAnswer, Goto, TransportFails, handleVars,
       SidecarTypes, SidecarTypeOK, OneWaits, Waits
  <2>5. CASE ReadNothing(c)
    BY <2>5, ActorKinds DEF ReadNothing, Goto, TransportFails, handleVars,
       stateVars, SidecarTypes, SidecarTypeOK, OneWaits, Waits
  <2>6. CASE RequestTimeout(c)
    BY <2>6, ActorKinds DEF RequestTimeout, Goto, BeginShutdown, handleVars,
       callVars, SidecarTypes, SidecarTypeOK, OneWaits, Waits
  <2>7. CASE CancelRequest(c)
    BY <2>7, ShutdownIsQuiet, ActorKinds DEF CancelRequest, SidecarTypes,
       SidecarTypeOK, OneWaits, Waits
  <2> QED BY <1>3, <2>1, <2>2, <2>3, <2>4, <2>5, <2>6, <2>7 DEF RequestStep
<1>4. ASSUME NEW l \in Loops, PingStep(l) PROVE OneWaits'
  <2>1. CASE PingOpen(l)
    BY <2>1, ActorKinds DEF PingOpen, Goto, PingFails, handleVars, stateVars,
       callVars, SidecarTypes, SidecarTypeOK, OneWaits, Waits
  <2>2. CASE PingRead(l)
    BY <2>2, ActorKinds DEF PingRead, Goto, PingFails, handleVars, stateVars,
       callVars, SidecarTypes, SidecarTypeOK, OneWaits, Waits
  <2>3. CASE PingTimeout(l)
    BY <2>3, ActorKinds DEF PingTimeout, Goto, PingFails, handleVars,
       stateVars, callVars, SidecarTypes, SidecarTypeOK, OneWaits, Waits
  <2>4. CASE PingFailed(l)
    BY <2>4, ActorKinds DEF PingFailed, Goto, handleVars, callVars,
       sidecarHistory, SidecarTypes, SidecarTypeOK, OneWaits, Waits
  <2> QED BY <1>4, <2>1, <2>2, <2>3, <2>4 DEF PingStep
<1>5. ASSUME NEW c \in Calls, NEW m \in BuiltinModels, EnsureRunning(c, m)
      PROVE OneWaits'
  BY <1>5, ActorKinds DEF EnsureRunning, Goto, BeginShutdown, Enters,
     handleVars, SidecarTypes, SidecarTypeOK, OneWaits, Waits
<1>6. ASSUME NEW c \in Calls, AnswerTaken(c) PROVE OneWaits'
  BY <1>6, ActorKinds DEF AnswerTaken, handleVars, stateVars, callVars,
     sidecarHistory, SidecarTypes, SidecarTypeOK, OneWaits, Waits
<1>7. ASSUME NEW c \in Calls, TokenSet(c) PROVE OneWaits'
  BY <1>7, ActorKinds DEF TokenSet, handleVars, stateVars, callVars,
     sidecarHistory, SidecarTypes, SidecarTypeOK, OneWaits, Waits
<1>8. ASSUME NEW g \in Helpers, HealthTick(g) PROVE OneWaits'
  BY <1>8, ActorKinds DEF HealthTick, Goto, Enters, handleVars, stateVars,
     callVars, SidecarTypes, SidecarTypeOK, OneWaits, Waits
<1>9. ASSUME NEW g \in Helpers, IdleTick(g) PROVE OneWaits'
  BY <1>9, ActorKinds DEF IdleTick, Goto, BeginShutdown, Enters, handleVars,
     callVars, SidecarTypes, SidecarTypeOK, OneWaits, Waits
<1>10. ASSUME NEW g \in Helpers, IdleTickBusy(g) PROVE OneWaits'
  BY <1>10, ActorKinds DEF IdleTickBusy, handleVars, callVars, sidecarHistory,
     SidecarTypes, SidecarTypeOK, OneWaits, Waits
<1>11. ASSUME TimePasses PROVE OneWaits'
  BY <1>11, ActorKinds DEF TimePasses, handleVars, callVars, sidecarHistory,
     SidecarTypes, SidecarTypeOK, OneWaits, Waits
<1>12. ASSUME NEW h \in Helpers, HelperStep(h) PROVE OneWaits'
  BY <1>12, ActorKinds DEF HelperStep, handleVars, stateVars, callVars,
     sidecarHistory, SidecarTypes, SidecarTypeOK, OneWaits, Waits
<1>13. ASSUME NEW h \in Helpers, HelperAils(h) PROVE OneWaits'
  BY <1>13, ActorKinds DEF HelperAils, handleVars, stateVars, callVars,
     SidecarTypes, SidecarTypeOK, OneWaits, Waits
<1>14. CASE UNCHANGED sidecarVars
  BY <1>14, ActorKinds DEF sidecarVars, helperVars, handleVars, stateVars,
     callVars, sidecarHistory, SidecarTypes, SidecarTypeOK, OneWaits, Waits
<1> QED BY <1>1, <1>2, <1>3, <1>4, <1>5, <1>6, <1>7, <1>8, <1>9, <1>10, <1>11,
   <1>12, <1>13, <1>14 DEF SidecarNext

(* A call has no answer before it has read one. *)
LEMMA NoAnswerYetStep ==
    ASSUME SidecarTypes, NoAnswerYet, [SidecarNext]_sidecarVars
    PROVE  NoAnswerYet'
<1>1. ASSUME NEW a \in Actors, ShutdownStep(a) PROVE NoAnswerYet'
  <2>1. CASE TakeChild(a)
    BY <2>1, ActorKinds DEF TakeChild, Goto, stateVars, callVars,
       sidecarHistory, SidecarTypes, SidecarTypeOK, KindsOK, NoAnswerYet,
       ShutdownLabels, SpawnLabels, SendLabels, CallLabels, LoopLabels
  <2>2. CASE AwaitExit(a)
    BY <2>2, ActorKinds DEF AwaitExit, Goto, stateVars, callVars,
       sidecarHistory, SidecarTypes, SidecarTypeOK, KindsOK, NoAnswerYet,
       ShutdownLabels, SpawnLabels, SendLabels, CallLabels, LoopLabels
  <2>3. CASE EndShutdown(a)
    BY <2>3, ActorKinds DEF EndShutdown, Goto, sidecarHistory, SidecarTypes,
       SidecarTypeOK, KindsOK, NoAnswerYet, ShutdownLabels, SpawnLabels,
       SendLabels, CallLabels, LoopLabels
  <2> QED BY <1>1, <2>1, <2>2, <2>3 DEF ShutdownStep
<1>2. ASSUME NEW c \in Calls, SpawnStep(c) PROVE NoAnswerYet'
  <2>1. CASE SpawnHelper(c)
    BY <2>1, ActorKinds DEF SpawnHelper, Goto, handleVars, callVars,
       sidecarHistory, SidecarTypes, SidecarTypeOK, KindsOK, NoAnswerYet,
       ShutdownLabels, SpawnLabels, SendLabels, CallLabels, LoopLabels
  <2>2. CASE SpawnFails(c)
    BY <2>2, ActorKinds DEF SpawnFails, Goto, handleVars, stateVars,
       sidecarHistory, SidecarTypes, SidecarTypeOK, KindsOK, NoAnswerYet,
       ShutdownLabels, SpawnLabels, SendLabels, CallLabels, LoopLabels
  <2>3. CASE PutChild(c)
    BY <2>3, ActorKinds DEF PutChild, Goto, stateVars, callVars,
       sidecarHistory, SidecarTypes, SidecarTypeOK, KindsOK, NoAnswerYet,
       ShutdownLabels, SpawnLabels, SendLabels, CallLabels, LoopLabels
  <2>4. CASE PutStdout(c)
    BY <2>4, ActorKinds DEF PutStdout, Goto, callVars, sidecarHistory,
       SidecarTypes, SidecarTypeOK, KindsOK, NoAnswerYet, ShutdownLabels,
       SpawnLabels, SendLabels, CallLabels, LoopLabels
  <2>5. CASE PutLoops(c)
    BY <2>5, ActorKinds DEF PutLoops, Goto, handleVars, callVars,
       sidecarHistory, SidecarTypes, SidecarTypeOK, KindsOK, NoAnswerYet,
       ShutdownLabels, SpawnLabels, SendLabels, CallLabels, LoopLabels
  <2> QED BY <1>2, <2>1, <2>2, <2>3, <2>4, <2>5 DEF SpawnStep
<1>3. ASSUME NEW c \in Calls, RequestStep(c) PROVE NoAnswerYet'
  <2>1. CASE StartRequest(c)
    BY <2>1, ActorKinds DEF StartRequest, Goto, handleVars, stateVars,
       sidecarHistory, SidecarTypes, SidecarTypeOK, KindsOK, NoAnswerYet,
       ShutdownLabels, SpawnLabels, SendLabels, CallLabels, LoopLabels
  <2>2. CASE WriteRequest(c)
    BY <2>2, ActorKinds DEF WriteRequest, Goto, TransportFails, handleVars,
       stateVars, SidecarTypes, SidecarTypeOK, KindsOK, NoAnswerYet,
       ShutdownLabels, SpawnLabels, SendLabels, CallLabels, LoopLabels
  <2>3. CASE OpenStdout(c)
    BY <2>3, ActorKinds DEF OpenStdout, Goto, TransportFails, handleVars,
       stateVars, SidecarTypes, SidecarTypeOK, KindsOK, NoAnswerYet,
       ShutdownLabels, SpawnLabels, SendLabels, CallLabels, LoopLabels
  <2>4. CASE ReadAnswer(c)
    BY <2>4, ActorKinds DEF ReadAnswer, Goto, TransportFails, handleVars,
       SidecarTypes, SidecarTypeOK, KindsOK, NoAnswerYet, ShutdownLabels,
       SpawnLabels, SendLabels, CallLabels, LoopLabels
  <2>5. CASE ReadNothing(c)
    BY <2>5, ActorKinds DEF ReadNothing, Goto, TransportFails, handleVars,
       stateVars, SidecarTypes, SidecarTypeOK, KindsOK, NoAnswerYet,
       ShutdownLabels, SpawnLabels, SendLabels, CallLabels, LoopLabels
  <2>6. CASE RequestTimeout(c)
    BY <2>6, ActorKinds DEF RequestTimeout, Goto, BeginShutdown, handleVars,
       callVars, SidecarTypes, SidecarTypeOK, KindsOK, NoAnswerYet,
       ShutdownLabels, SpawnLabels, SendLabels, CallLabels, LoopLabels
  <2>7. CASE CancelRequest(c)
    <3>1. pc[c] \in ShutdownLabels \cup SendLabels
      BY <2>7 DEF CancelRequest, Active, TimingOut
    <3>2. answer' = answer /\ pc' = [pc EXCEPT ![c] = "take"]
      BY <2>7, ShutdownIsQuiet, ActorKinds DEF CancelRequest, callVars
    <3> QED BY <3>1, <3>2, ActorKinds DEF SidecarTypes, SidecarTypeOK,
               NoAnswerYet, ShutdownLabels, SendLabels
  <2> QED BY <1>3, <2>1, <2>2, <2>3, <2>4, <2>5, <2>6, <2>7 DEF RequestStep
<1>4. ASSUME NEW l \in Loops, PingStep(l) PROVE NoAnswerYet'
  <2>1. CASE PingOpen(l)
    BY <2>1, ActorKinds DEF PingOpen, Goto, PingFails, handleVars, stateVars,
       callVars, SidecarTypes, SidecarTypeOK, KindsOK, NoAnswerYet,
       ShutdownLabels, SpawnLabels, SendLabels, CallLabels, LoopLabels
  <2>2. CASE PingRead(l)
    BY <2>2, ActorKinds DEF PingRead, Goto, PingFails, handleVars, stateVars,
       callVars, SidecarTypes, SidecarTypeOK, KindsOK, NoAnswerYet,
       ShutdownLabels, SpawnLabels, SendLabels, CallLabels, LoopLabels
  <2>3. CASE PingTimeout(l)
    BY <2>3, ActorKinds DEF PingTimeout, Goto, PingFails, handleVars,
       stateVars, callVars, SidecarTypes, SidecarTypeOK, KindsOK, NoAnswerYet,
       ShutdownLabels, SpawnLabels, SendLabels, CallLabels, LoopLabels
  <2>4. CASE PingFailed(l)
    BY <2>4, ActorKinds DEF PingFailed, Goto, handleVars, callVars,
       sidecarHistory, SidecarTypes, SidecarTypeOK, KindsOK, NoAnswerYet,
       ShutdownLabels, SpawnLabels, SendLabels, CallLabels, LoopLabels
  <2> QED BY <1>4, <2>1, <2>2, <2>3, <2>4 DEF PingStep
<1>5. ASSUME NEW c \in Calls, NEW m \in BuiltinModels, EnsureRunning(c, m)
      PROVE NoAnswerYet'
  BY <1>5, ActorKinds DEF EnsureRunning, Goto, BeginShutdown, Enters,
     handleVars, SidecarTypes, SidecarTypeOK, KindsOK, NoAnswerYet,
     ShutdownLabels, SpawnLabels, SendLabels, CallLabels, LoopLabels
<1>6. ASSUME NEW c \in Calls, AnswerTaken(c) PROVE NoAnswerYet'
  BY <1>6, ActorKinds DEF AnswerTaken, handleVars, stateVars, callVars,
     sidecarHistory, SidecarTypes, SidecarTypeOK, KindsOK, NoAnswerYet,
     ShutdownLabels, SpawnLabels, SendLabels, CallLabels, LoopLabels
<1>7. ASSUME NEW c \in Calls, TokenSet(c) PROVE NoAnswerYet'
  BY <1>7, ActorKinds DEF TokenSet, handleVars, stateVars, callVars,
     sidecarHistory, SidecarTypes, SidecarTypeOK, KindsOK, NoAnswerYet,
     ShutdownLabels, SpawnLabels, SendLabels, CallLabels, LoopLabels
<1>8. ASSUME NEW g \in Helpers, HealthTick(g) PROVE NoAnswerYet'
  BY <1>8, ActorKinds DEF HealthTick, Goto, Enters, handleVars, stateVars,
     callVars, SidecarTypes, SidecarTypeOK, KindsOK, NoAnswerYet,
     ShutdownLabels, SpawnLabels, SendLabels, CallLabels, LoopLabels
<1>9. ASSUME NEW g \in Helpers, IdleTick(g) PROVE NoAnswerYet'
  BY <1>9, ActorKinds DEF IdleTick, Goto, BeginShutdown, Enters, handleVars,
     callVars, SidecarTypes, SidecarTypeOK, KindsOK, NoAnswerYet,
     ShutdownLabels, SpawnLabels, SendLabels, CallLabels, LoopLabels
<1>10. ASSUME NEW g \in Helpers, IdleTickBusy(g) PROVE NoAnswerYet'
  BY <1>10, ActorKinds DEF IdleTickBusy, handleVars, callVars, sidecarHistory,
     SidecarTypes, SidecarTypeOK, KindsOK, NoAnswerYet, ShutdownLabels,
     SpawnLabels, SendLabels, CallLabels, LoopLabels
<1>11. ASSUME TimePasses PROVE NoAnswerYet'
  BY <1>11, ActorKinds DEF TimePasses, handleVars, callVars, sidecarHistory,
     SidecarTypes, SidecarTypeOK, KindsOK, NoAnswerYet, ShutdownLabels,
     SpawnLabels, SendLabels, CallLabels, LoopLabels
<1>12. ASSUME NEW h \in Helpers, HelperStep(h) PROVE NoAnswerYet'
  BY <1>12, ActorKinds DEF HelperStep, handleVars, stateVars, callVars,
     sidecarHistory, SidecarTypes, SidecarTypeOK, KindsOK, NoAnswerYet,
     ShutdownLabels, SpawnLabels, SendLabels, CallLabels, LoopLabels
<1>13. ASSUME NEW h \in Helpers, HelperAils(h) PROVE NoAnswerYet'
  BY <1>13, ActorKinds DEF HelperAils, handleVars, stateVars, callVars,
     SidecarTypes, SidecarTypeOK, KindsOK, NoAnswerYet, ShutdownLabels,
     SpawnLabels, SendLabels, CallLabels, LoopLabels
<1>14. CASE UNCHANGED sidecarVars
  BY <1>14, ActorKinds DEF sidecarVars, helperVars, handleVars, stateVars,
     callVars, sidecarHistory, SidecarTypes, SidecarTypeOK, KindsOK,
     NoAnswerYet, ShutdownLabels, SpawnLabels, SendLabels, CallLabels,
     LoopLabels
<1> QED BY <1>1, <1>2, <1>3, <1>4, <1>5, <1>6, <1>7, <1>8, <1>9, <1>10, <1>11,
   <1>12, <1>13, <1>14 DEF SidecarNext

(* Steps that write no generation and read no answer, and after which a    *)
(* call waits as before, or for a helper that is stale now.                *)
LEMMA QuietSteps ==
    ASSUME SidecarTypes, PipesClean, stale \subseteq stale',
           \A h \in Helpers \ stale' :
              /\ \/ inbox'[h] \in {inbox[h], <<>>}
                 \/ \E line \in {Ping, Shutdown} : inbox'[h] = Append(inbox[h], line)
              /\ \/ outbox'[h] \in {outbox[h], <<>>}
                 \/ outbox[h] /= <<>> /\ outbox'[h] = Tail(outbox[h]),
           \A c \in Calls : Waits(c) =>
              (Waits(c)' /\ mine'[c] = mine[c]) \/ mine[c] \in stale'
    PROVE  PipesClean'
<1> SUFFICES ASSUME NEW h \in Helpers \ stale'
             PROVE  Clean(inbox'[h], outbox'[h], AskedFrom(h)')
  BY DEF PipesClean
<1>1. Clean(inbox[h], outbox[h], AskedFrom(h)) /\ h \in Helpers
  BY DEF PipesClean
<1>2. AskedFrom(h) \subseteq AskedFrom(h)'
  BY DEF AskedFrom
<1>3. inbox[h] \in Seq(Requests) /\ outbox[h] \in Seq(Replies)
  BY DEF SidecarTypes, SidecarTypeOK, HelperTypeOK, Requests, Replies
<1>4. Clean(inbox'[h], outbox[h], AskedFrom(h)) /\ inbox'[h] \in Seq(Requests)
  <2>1. \A line \in {Ping, Shutdown} : line \in Requests /\ ~Asks(line)
    BY DEF Ping, Shutdown, Requests, Asks
  <2>2. CASE inbox'[h] \in {inbox[h], <<>>}
    BY <1>1, <1>3, <2>2, Emptied, EmptySeq
  <2>3. ASSUME NEW line \in {Ping, Shutdown}, inbox'[h] = Append(inbox[h],
               line)
        PROVE  Clean(inbox'[h], outbox[h], AskedFrom(h)) /\ inbox'[h] \in Seq(Requests)
    <3>1. Clean(Append(inbox[h], line), outbox[h], AskedFrom(h))
      BY <1>1, <1>3, <2>1, WroteOther
    <3>2. Append(inbox[h], line) \in Seq(Requests)
      BY <1>3, <2>1
    <3> QED BY <2>3, <3>1, <3>2
  <2> QED BY <2>2, <2>3
<1>5. Clean(inbox'[h], outbox'[h], AskedFrom(h))
  BY <1>3, <1>4, TookLine, Emptied
<1> QED BY <1>2, <1>5, CleanSubset

(* Who waits does so for a helper. *)
LEMMA WaitsForHelper ==
    ASSUME SidecarTypes, NEW c \in Calls, Waits(c)
    PROVE  mine[c] \in Helpers /\ mine[c] /= NONE
BY ActorKinds, SidecarAssumption DEF Waits, SidecarTypes, HandsOK

(* The pipes stay clean. *)
LEMMA PipesCleanStep ==
    ASSUME SidecarTypes, OneWaits, PipesClean, [SidecarNext]_sidecarVars
    PROVE  PipesClean'
<1>1. ASSUME NEW a \in Actors, ShutdownStep(a) PROVE PipesClean'
  <2>1. CASE TakeChild(a)
    BY <2>1, QuietSteps, ActorKinds DEF TakeChild, Goto, stateVars, callVars,
       sidecarHistory, SidecarTypes, SidecarTypeOK, HelperTypeOK, helperVars,
       Waits
  <2>2. CASE AwaitExit(a)
    BY <2>2, QuietSteps, ActorKinds DEF AwaitExit, Goto, stateVars, callVars,
       sidecarHistory, SidecarTypes, SidecarTypeOK, HelperTypeOK, helperVars,
       Waits, Terminate, HandsOK
  <2>3. CASE EndShutdown(a)
    BY <2>3, QuietSteps, ActorKinds DEF EndShutdown, Goto, sidecarHistory,
       SidecarTypes, SidecarTypeOK, HelperTypeOK, helperVars, Waits,
       CloseStdout
  <2> QED BY <1>1, <2>1, <2>2, <2>3 DEF ShutdownStep
<1>2. ASSUME NEW c \in Calls, SpawnStep(c) PROVE PipesClean'
  <2>1. CASE SpawnHelper(c)
    BY <2>1, QuietSteps, ActorKinds DEF SpawnHelper, Goto, handleVars,
       callVars, sidecarHistory, SidecarTypes, SidecarTypeOK, HelperTypeOK,
       helperVars, Waits, Launch
  <2>2. CASE SpawnFails(c)
    BY <2>2, QuietSteps, ActorKinds DEF SpawnFails, Goto, handleVars,
       stateVars, sidecarHistory, SidecarTypes, SidecarTypeOK, HelperTypeOK,
       helperVars, Waits
  <2>3. CASE PutChild(c)
    BY <2>3, QuietSteps, ActorKinds DEF PutChild, Goto, stateVars, callVars,
       sidecarHistory, SidecarTypes, SidecarTypeOK, HelperTypeOK, helperVars,
       Waits
  <2>4. CASE PutStdout(c)
    BY <2>4, QuietSteps, ActorKinds DEF PutStdout, Goto, callVars,
       sidecarHistory, SidecarTypes, SidecarTypeOK, HelperTypeOK, helperVars,
       Waits, CloseStdout
  <2>5. CASE PutLoops(c)
    BY <2>5, QuietSteps, ActorKinds DEF PutLoops, Goto, handleVars, callVars,
       sidecarHistory, SidecarTypes, SidecarTypeOK, HelperTypeOK, helperVars,
       Waits
  <2> QED BY <1>2, <2>1, <2>2, <2>3, <2>4, <2>5 DEF SpawnStep
<1>3. ASSUME NEW c \in Calls, RequestStep(c) PROVE PipesClean'
  <2>1. CASE StartRequest(c)
    BY <2>1, QuietSteps, ActorKinds DEF StartRequest, Goto, handleVars,
       stateVars, sidecarHistory, SidecarTypes, SidecarTypeOK, HelperTypeOK,
       helperVars, Waits
  <2>2. CASE WriteRequest(c)
    <3>1. CASE stdin /= NONE /\ CanWrite(stdin)
      <4>1. /\ stdin \in Helpers /\ inbox' = [inbox EXCEPT ![stdin] = Append(inbox[stdin], Generate(c))]
            /\ outbox' = outbox /\ stale' = stale /\ mine' = [mine EXCEPT ![c] = stdin]
            /\ pc' = [pc EXCEPT ![c] = "open"]
        BY <2>2, <3>1 DEF WriteRequest, Write, Goto, SidecarTypes,
           SidecarTypeOK
      <4>2. \A e \in Calls : ~Waits(e)
        BY <2>2 DEF WriteRequest, RequestLockFree, SendLabels, Waits
      <4> SUFFICES ASSUME NEW h \in Helpers \ stale
                   PROVE  Clean(inbox'[h], outbox'[h], AskedFrom(h)')
        BY <4>1 DEF PipesClean
      <4>3. Clean(inbox[h], outbox[h], {}) /\ inbox[h] \in Seq(Requests) /\ outbox[h] \in Seq(Replies)
        <5>1. AskedFrom(h) = {}
          BY <4>2 DEF AskedFrom
        <5> QED BY <5>1 DEF PipesClean, SidecarTypes, SidecarTypeOK,
                   HelperTypeOK, Requests, Replies
      <4>4. CASE h = stdin
        <5>1. Generate(c) \in Requests /\ Generate(c)[2] = c
          BY DEF Generate, Requests
        <5>2. Clean(Append(inbox[h], Generate(c)), outbox[h], {c})
          BY <4>3, <5>1, AskedOnce
        <5>3. inbox'[h] = Append(inbox[h], Generate(c))
          BY <4>1, <4>4 DEF SidecarTypes, SidecarTypeOK, HelperTypeOK
        <5>4. {c} \subseteq AskedFrom(h)'
          BY <4>1, <4>4, ActorKinds DEF AskedFrom, Waits, SidecarTypes,
             SidecarTypeOK
        <5> QED BY <4>1, <5>2, <5>3, <5>4, CleanSubset
      <4>5. CASE h /= stdin
        <5>1. inbox'[h] = inbox[h]
          BY <4>1, <4>5 DEF SidecarTypes, SidecarTypeOK, HelperTypeOK
        <5> QED BY <4>1, <4>3, <5>1, CleanSubset
      <4> QED BY <4>4, <4>5
    <3>2. CASE ~(stdin /= NONE /\ CanWrite(stdin))
      <4>1. /\ UNCHANGED <<inbox, outbox, mine>> /\ stale \subseteq stale'
            /\ pc' = [pc EXCEPT ![c] = "answered"] /\ pc[c] = "queue"
        BY <2>2, <3>2 DEF WriteRequest, TransportFails, Goto, helperVars
      <4> QED BY <4>1, QuietSteps, ActorKinds DEF Waits, SidecarTypes,
                 SidecarTypeOK
    <3> QED BY <3>1, <3>2
  <2>3. CASE OpenStdout(c)
    <3>1. UNCHANGED <<inbox, outbox, mine>> /\ pc[c] = "open"
      BY <2>3 DEF OpenStdout, helperVars
    <3>2. \/ pc' = [pc EXCEPT ![c] = "read"] /\ stale' = stale
          \/ pc' = [pc EXCEPT ![c] = "answered"] /\ stale' = stale \cup ({mine[c]} \ {NONE})
      BY <2>3 DEF OpenStdout, TransportFails, Goto
    <3> QED BY <3>1, <3>2, WaitsForHelper, QuietSteps, ActorKinds DEF Waits,
               SidecarTypes, SidecarTypeOK
  <2>4. CASE ReadAnswer(c)
    <3>1. /\ pc[c] = "read" /\ Waits(c) /\ stdout \in Helpers /\ mine[c] \in Helpers
          /\ outbox[stdout] /= <<>> /\ inbox' = inbox
          /\ outbox' = [outbox EXCEPT ![stdout] = Tail(outbox[stdout])]
          /\ mine' = [mine EXCEPT ![c] = stdout] /\ pc' = [pc EXCEPT ![c] = "answered"]
      BY <2>4, ActorKinds DEF ReadAnswer, HasLine, TakeLine, TransportFails,
         Goto, Waits, SidecarTypes, HandsOK
    <3>2. stale \subseteq stale' /\ (mine[c] /= stdout => mine[c] \in stale')
      BY <2>4, <3>1, SidecarAssumption DEF ReadAnswer, TransportFails
    <3>3. ~Answering(Head(outbox[stdout])) => mine[c] \in stale'
      BY <2>4, <3>1, SidecarAssumption DEF ReadAnswer, TransportFails,
         Answering, Line
    <3> SUFFICES ASSUME NEW h \in Helpers \ stale'
                 PROVE  Clean(inbox'[h], outbox'[h], AskedFrom(h)')
      BY DEF PipesClean
    <3>4. /\ Clean(inbox[h], outbox[h], AskedFrom(h)) /\ h \notin stale
          /\ inbox[h] \in Seq(Requests) /\ outbox[h] \in Seq(Replies)
      BY <3>2 DEF PipesClean, SidecarTypes, SidecarTypeOK, HelperTypeOK,
         Requests, Replies
    <3>5. AskedFrom(h) \ {c} \subseteq AskedFrom(h)'
      BY <3>1, ActorKinds DEF AskedFrom, Waits, SidecarTypes, SidecarTypeOK
    <3>6. CASE h /= stdout
      <4>1. c \notin AskedFrom(h)
        BY <3>2, <3>6 DEF AskedFrom
      <4>2. outbox'[h] = outbox[h]
        BY <3>1, <3>6 DEF SidecarTypes, SidecarTypeOK, HelperTypeOK
      <4> QED BY <3>1, <3>4, <3>5, <4>1, <4>2, CleanSubset
    <3>7. CASE h = stdout
      <4>1. outbox'[h] = Tail(outbox[h])
        BY <3>1, <3>7 DEF SidecarTypes, SidecarTypeOK, HelperTypeOK
      <4>2. CASE Answering(Head(outbox[h]))
        <5>1. Clean(inbox[h], Tail(outbox[h]), {})
          BY <3>1, <3>4, <3>7, <4>2, TookLine
        <5> QED BY <3>1, <4>1, <5>1, CleanSubset
      <4>3. CASE ~Answering(Head(outbox[h]))
        <5>1. c \notin AskedFrom(h)
          BY <3>3, <3>7, <4>3 DEF AskedFrom
        <5>2. Clean(inbox[h], Tail(outbox[h]), AskedFrom(h))
          BY <3>1, <3>4, <3>7, TookLine
        <5> QED BY <3>1, <3>5, <4>1, <5>1, <5>2, CleanSubset
      <4> QED BY <4>2, <4>3
    <3> QED BY <3>6, <3>7
  <2>5. CASE ReadNothing(c)
    <3>1. UNCHANGED <<inbox, outbox, mine>> /\ pc[c] = "read"
      BY <2>5 DEF ReadNothing, helperVars
    <3>2. pc' = [pc EXCEPT ![c] = "answered"] /\ stale' = stale \cup ({mine[c]} \ {NONE})
      BY <2>5 DEF ReadNothing, TransportFails, Goto
    <3> QED BY <3>1, <3>2, WaitsForHelper, QuietSteps, ActorKinds DEF Waits,
               SidecarTypes, SidecarTypeOK
  <2>6. CASE RequestTimeout(c)
    <3>1. /\ outbox' = outbox /\ pc' = [pc EXCEPT ![c] = "take"]
          /\ \A h \in Helpers : inbox'[h] \in {inbox[h], Append(inbox[h], Shutdown)}
      BY <2>6, ShutdownIsQuiet, ActorKinds DEF RequestTimeout
    <3>2. stale' = stale \cup {mine[c]} /\ mine' = [mine EXCEPT ![c] = NONE]
      BY <2>6 DEF RequestTimeout
    <3> QED BY <3>1, <3>2, QuietSteps, ActorKinds DEF Waits, SidecarTypes,
               SidecarTypeOK
  <2>7. CASE CancelRequest(c)
    <3>1. /\ outbox' = outbox /\ pc' = [pc EXCEPT ![c] = "take"]
          /\ \A h \in Helpers : inbox'[h] \in {inbox[h], Append(inbox[h], Shutdown)}
      BY <2>7, ShutdownIsQuiet, ActorKinds DEF CancelRequest
    <3>2. /\ stale' = IF pc[c] \in {"open", "read"} THEN stale \cup {mine[c]} ELSE stale
          /\ mine' = [mine EXCEPT ![c] = NONE]
      BY <2>7 DEF CancelRequest
    <3> QED BY <3>1, <3>2, QuietSteps, ActorKinds DEF Waits, SidecarTypes,
               SidecarTypeOK
  <2> QED BY <1>3, <2>1, <2>2, <2>3, <2>4, <2>5, <2>6, <2>7 DEF RequestStep
<1>4. ASSUME NEW l \in Loops, PingStep(l) PROVE PipesClean'
  <2>1. CASE PingOpen(l)
    BY <2>1, QuietSteps, ActorKinds DEF PingOpen, Goto, PingFails, handleVars,
       stateVars, callVars, SidecarTypes, SidecarTypeOK, HelperTypeOK,
       helperVars, Waits
  <2>2. CASE PingRead(l)
    BY <2>2, QuietSteps, ActorKinds DEF PingRead, Goto, PingFails, handleVars,
       stateVars, callVars, SidecarTypes, SidecarTypeOK, HelperTypeOK,
       helperVars, Waits, TakeLine, HasLine, HandsOK
  <2>3. CASE PingTimeout(l)
    BY <2>3, QuietSteps, ActorKinds DEF PingTimeout, Goto, PingFails,
       handleVars, stateVars, callVars, SidecarTypes, SidecarTypeOK,
       HelperTypeOK, helperVars, Waits
  <2>4. CASE PingFailed(l)
    BY <2>4, QuietSteps, ActorKinds DEF PingFailed, Goto, handleVars,
       callVars, sidecarHistory, SidecarTypes, SidecarTypeOK, HelperTypeOK,
       helperVars, Waits
  <2> QED BY <1>4, <2>1, <2>2, <2>3, <2>4 DEF PingStep
<1>5. ASSUME NEW c \in Calls, NEW m \in BuiltinModels, EnsureRunning(c, m)
      PROVE PipesClean'
  <2>1. stale' = stale /\ mine' = mine /\ pc[c] = "idle"
    BY <1>5 DEF EnsureRunning
  <2>2. CASE Reuses(m)
    <3>1. UNCHANGED <<inbox, outbox>> /\ pc' = [pc EXCEPT ![c] = "ready"]
      BY <1>5, <2>2 DEF EnsureRunning, Goto, helperVars
    <3> QED BY <2>1, <3>1, QuietSteps, ActorKinds DEF Waits, SidecarTypes,
               SidecarTypeOK
  <2>3. CASE ~Reuses(m)
    <3>1. /\ outbox' = outbox /\ pc' = [pc EXCEPT ![c] = "take"]
          /\ \A h \in Helpers : inbox'[h] \in {inbox[h], Append(inbox[h], Shutdown)}
      BY <1>5, <2>3, ShutdownIsQuiet, ActorKinds DEF EnsureRunning
    <3> QED BY <2>1, <3>1, QuietSteps, ActorKinds DEF Waits, SidecarTypes,
               SidecarTypeOK
  <2> QED BY <2>2, <2>3
<1>6. ASSUME NEW c \in Calls, AnswerTaken(c) PROVE PipesClean'
  BY <1>6, QuietSteps, ActorKinds DEF AnswerTaken, handleVars, stateVars,
     callVars, sidecarHistory, SidecarTypes, SidecarTypeOK, HelperTypeOK,
     helperVars, Waits
<1>7. ASSUME NEW c \in Calls, TokenSet(c) PROVE PipesClean'
  BY <1>7, QuietSteps, ActorKinds DEF TokenSet, handleVars, stateVars,
     callVars, sidecarHistory, SidecarTypes, SidecarTypeOK, HelperTypeOK,
     helperVars, Waits
<1>8. ASSUME NEW g \in Helpers, HealthTick(g) PROVE PipesClean'
  <2>1. stale' = stale /\ outbox' = outbox /\ HealthLoop(g) \in Loops
    BY <1>8, ActorKinds DEF HealthTick, Write, helperVars
  <2>2. \A h \in Helpers : inbox'[h] \in {inbox[h], Append(inbox[h], Ping)}
    BY <1>8 DEF HealthTick, Write, helperVars, SidecarTypes, SidecarTypeOK,
       HelperTypeOK
  <2>3. \A c \in Calls : pc'[c] = pc[c] /\ mine'[c] = mine[c]
    BY <1>8, <2>1, ActorKinds DEF HealthTick, Goto, SidecarTypes,
       SidecarTypeOK
  <2> QED BY <2>1, <2>2, <2>3, QuietSteps DEF Waits
<1>9. ASSUME NEW g \in Helpers, IdleTick(g) PROVE PipesClean'
  <2>1. stale' = stale /\ mine' = mine /\ IdleLoop(g) \in Loops
    BY <1>9, ActorKinds DEF IdleTick
  <2>2. /\ outbox' = outbox /\ pc' = [pc EXCEPT ![IdleLoop(g)] = "take"]
        /\ \A h \in Helpers : inbox'[h] \in {inbox[h], Append(inbox[h], Shutdown)}
    BY <1>9, <2>1, ShutdownIsQuiet, ActorKinds DEF IdleTick
  <2>3. \A c \in Calls : pc'[c] = pc[c]
    BY <2>1, <2>2, ActorKinds DEF SidecarTypes, SidecarTypeOK
  <2> QED BY <2>1, <2>2, <2>3, QuietSteps DEF Waits
<1>10. ASSUME NEW g \in Helpers, IdleTickBusy(g) PROVE PipesClean'
  BY <1>10, QuietSteps, ActorKinds DEF IdleTickBusy, handleVars, callVars,
     sidecarHistory, SidecarTypes, SidecarTypeOK, HelperTypeOK, helperVars,
     Waits
<1>11. ASSUME TimePasses PROVE PipesClean'
  BY <1>11, QuietSteps, ActorKinds DEF TimePasses, handleVars, callVars,
     sidecarHistory, SidecarTypes, SidecarTypeOK, HelperTypeOK, helperVars,
     Waits
<1>12. ASSUME NEW h \in Helpers, HelperStep(h) PROVE PipesClean'
  <2>1. UNCHANGED <<pc, mine, stale>>
    BY <1>12 DEF HelperStep, sidecarHistory
  <2>2. CASE BreakPipe(h) \/ ReadEof(h)
    BY <2>1, <2>2, QuietSteps DEF BreakPipe, ReadEof, Terminate, Waits,
       SidecarTypes, SidecarTypeOK, HelperTypeOK
  <2>3. ASSUME NEW request \in Requests, NEW line \in Replies, Serve(h, request,
               line),
               Answering(line) => Asks(request) /\ line[2] = request[2]
        PROVE  PipesClean'
    <3>1. /\ inbox[h] /= <<>> /\ Head(inbox[h]) = request
          /\ inbox' = [inbox EXCEPT ![h] = Tail(inbox[h])]
          /\ outbox' = [outbox EXCEPT ![h] = Append(outbox[h], line)]
      BY <2>3 DEF Serve, Say
    <3>2. h \notin stale => Clean(Tail(inbox[h]), Append(outbox[h], line), AskedFrom(h))
      <4>1. inbox[h] \in Seq(Requests) /\ outbox[h] \in Seq(Replies)
        BY DEF SidecarTypes, SidecarTypeOK, HelperTypeOK, Requests, Replies
      <4> QED BY <2>3, <3>1, <4>1, Served DEF PipesClean
    <3> QED BY <2>1, <3>1, <3>2
          DEF PipesClean, AskedFrom, Waits, SidecarTypes, SidecarTypeOK, HelperTypeOK
  <2>4. ASSUME NEW c \in Calls, NEW line \in Answers(c), Serve(h, Generate(c),
               line)
        PROVE  PipesClean'
    <3>1. Generate(c) \in Requests /\ line \in Replies /\ Asks(Generate(c)) /\ line[2] = Generate(c)[2]
      BY <2>4 DEF Answers, Text, Failed, Generate, Requests, Replies, Asks
    <3> QED BY <2>3, <2>4, <3>1
  <2>5. CASE Serve(h, Ping, Pong)
    <3>1. Ping \in Requests /\ Pong \in Replies /\ ~Answering(Pong)
      BY DEF Ping, Pong, Requests, Replies, Answering
    <3> QED BY <2>3, <2>5, <3>1
  <2>6. CASE ServeShutdown(h)
    <3>1. /\ inbox[h] /= <<>> /\ inbox' = [inbox EXCEPT ![h] = <<>>]
          /\ outbox' = [outbox EXCEPT ![h] = Append(outbox[h], Goodbye)]
      BY <2>6 DEF ServeShutdown
    <3>2. h \notin stale => Clean(<<>>, Append(outbox[h], Goodbye), AskedFrom(h))
      <4>1. inbox[h] \in Seq(Requests) /\ outbox[h] \in Seq(Replies)
        BY DEF SidecarTypes, SidecarTypeOK, HelperTypeOK, Requests, Replies
      <4>2. Goodbye \in Replies /\ ~Answering(Goodbye)
        BY DEF Goodbye, Replies, Answering
      <4>3. h \notin stale => Clean(Tail(inbox[h]), Append(outbox[h], Goodbye), AskedFrom(h))
        BY <3>1, <4>1, <4>2, Served DEF PipesClean
      <4>4. Tail(inbox[h]) \in Seq(Requests) /\ Append(outbox[h], Goodbye) \in Seq(Replies)
        BY <3>1, <4>1, <4>2, TailLines
      <4> QED BY <4>3, <4>4, Emptied
    <3> QED BY <2>1, <3>1, <3>2
          DEF PipesClean, AskedFrom, Waits, SidecarTypes, SidecarTypeOK, HelperTypeOK
  <2> QED BY <1>12, <2>2, <2>4, <2>5, <2>6 DEF HelperStep
<1>13. ASSUME NEW h \in Helpers, HelperAils(h) PROVE PipesClean'
  <2>1. UNCHANGED <<pc, mine, stale>>
    BY <1>13 DEF HelperAils
  <2>2. outbox' = outbox /\ \A k \in Helpers : inbox'[k] \in {inbox[k], <<>>}
    BY <1>13 DEF HelperAils, Crash, Stick, Terminate, SidecarTypes,
       SidecarTypeOK, HelperTypeOK
  <2> QED BY <2>1, <2>2, QuietSteps DEF Waits
<1>14. CASE UNCHANGED sidecarVars
  BY <1>14, QuietSteps, ActorKinds DEF sidecarVars, helperVars, handleVars,
     stateVars, callVars, sidecarHistory, SidecarTypes, SidecarTypeOK,
     HelperTypeOK, Waits
<1> QED BY <1>1, <1>2, <1>3, <1>4, <1>5, <1>6, <1>7, <1>8, <1>9, <1>10, <1>11,
   <1>12, <1>13, <1>14 DEF SidecarNext

(* A text goes to the call that asked for it, or came from a stale helper. *)
LEMMA OwnOrStaleStep ==
    ASSUME SidecarTypes, AnswerInv, [SidecarNext]_sidecarVars
    PROVE  OwnOrStale'
<1>1. ASSUME NEW a \in Actors, ShutdownStep(a) PROVE OwnOrStale'
  <2>1. CASE TakeChild(a)
    BY <2>1, ActorKinds DEF TakeChild, Goto, stateVars, callVars,
       sidecarHistory, AnswerInv, OwnOrStale, NoAnswerYet, SidecarTypes,
       SidecarTypeOK
  <2>2. CASE AwaitExit(a)
    BY <2>2, ActorKinds DEF AwaitExit, Goto, stateVars, callVars,
       sidecarHistory, AnswerInv, OwnOrStale, NoAnswerYet, SidecarTypes,
       SidecarTypeOK
  <2>3. CASE EndShutdown(a)
    BY <2>3, ActorKinds DEF EndShutdown, Goto, sidecarHistory, AnswerInv,
       OwnOrStale, NoAnswerYet, SidecarTypes, SidecarTypeOK
  <2> QED BY <1>1, <2>1, <2>2, <2>3 DEF ShutdownStep
<1>2. ASSUME NEW c \in Calls, SpawnStep(c) PROVE OwnOrStale'
  <2>1. CASE SpawnHelper(c)
    BY <2>1, ActorKinds DEF SpawnHelper, Goto, handleVars, callVars,
       sidecarHistory, AnswerInv, OwnOrStale, NoAnswerYet, SidecarTypes,
       SidecarTypeOK
  <2>2. CASE SpawnFails(c)
    BY <2>2, ActorKinds DEF SpawnFails, Goto, handleVars, stateVars,
       sidecarHistory, AnswerInv, OwnOrStale, NoAnswerYet, SidecarTypes,
       SidecarTypeOK
  <2>3. CASE PutChild(c)
    BY <2>3, ActorKinds DEF PutChild, Goto, stateVars, callVars,
       sidecarHistory, AnswerInv, OwnOrStale, NoAnswerYet, SidecarTypes,
       SidecarTypeOK
  <2>4. CASE PutStdout(c)
    BY <2>4, ActorKinds DEF PutStdout, Goto, callVars, sidecarHistory,
       AnswerInv, OwnOrStale, NoAnswerYet, SidecarTypes, SidecarTypeOK
  <2>5. CASE PutLoops(c)
    BY <2>5, ActorKinds DEF PutLoops, Goto, handleVars, callVars,
       sidecarHistory, AnswerInv, OwnOrStale, NoAnswerYet, SidecarTypes,
       SidecarTypeOK
  <2> QED BY <1>2, <2>1, <2>2, <2>3, <2>4, <2>5 DEF SpawnStep
<1>3. ASSUME NEW c \in Calls, RequestStep(c) PROVE OwnOrStale'
  <2>1. CASE StartRequest(c)
    BY <2>1, ActorKinds DEF StartRequest, Goto, handleVars, stateVars,
       sidecarHistory, AnswerInv, OwnOrStale, NoAnswerYet, SidecarTypes,
       SidecarTypeOK
  <2>2. CASE WriteRequest(c)
    BY <2>2, ActorKinds DEF WriteRequest, Goto, TransportFails, handleVars,
       stateVars, AnswerInv, OwnOrStale, NoAnswerYet, SidecarTypes,
       SidecarTypeOK
  <2>3. CASE OpenStdout(c)
    BY <2>3, ActorKinds DEF OpenStdout, Goto, TransportFails, handleVars,
       stateVars, AnswerInv, OwnOrStale, NoAnswerYet, SidecarTypes,
       SidecarTypeOK
  <2>4. CASE ReadAnswer(c)
    <3>1. /\ pc[c] = "read" /\ Waits(c) /\ stdout \in Helpers /\ stale \subseteq stale'
          /\ outbox[stdout] /= <<>> /\ mine' = [mine EXCEPT ![c] = stdout]
          /\ \/ answer' = answer
             \/ answer' = [answer EXCEPT ![c] = NONE]
             \/ /\ Head(outbox[stdout])[1] = "text"
                /\ answer' = [answer EXCEPT ![c] = Head(outbox[stdout])[2]]
      BY <2>4, ActorKinds DEF ReadAnswer, HasLine, Line, TransportFails,
         Waits, SidecarTypes, HandsOK
    <3>2. answer[c] = NONE
      BY <3>1 DEF AnswerInv, NoAnswerYet
    <3>3. Head(outbox[stdout])[1] = "text" => Head(outbox[stdout])[2] = c \/ stdout \in stale
      <4>1. SUFFICES ASSUME Head(outbox[stdout])[1] = "text", stdout \notin stale
                     PROVE  Head(outbox[stdout])[2] = c
        OBVIOUS
      <4>2. Answering(Head(outbox[stdout]))
        BY <4>1 DEF Answering
      <4>3. inbox[stdout] \in Seq(Requests) /\ outbox[stdout] \in Seq(Replies)
        BY <3>1 DEF SidecarTypes, SidecarTypeOK, HelperTypeOK, Requests,
           Replies
      <4>4. Head(outbox[stdout])[2] \in AskedFrom(stdout)
        BY <3>1, <4>1, <4>2, <4>3, TookLine DEF AnswerInv, PipesClean
      <4> QED BY <3>1, <4>4 DEF AskedFrom, AnswerInv, OneWaits
    <3> QED BY <3>1, <3>2, <3>3, ActorKinds DEF AnswerInv, OwnOrStale,
               SidecarTypes, SidecarTypeOK
  <2>5. CASE ReadNothing(c)
    BY <2>5, ActorKinds DEF ReadNothing, Goto, TransportFails, handleVars,
       stateVars, AnswerInv, OwnOrStale, NoAnswerYet, SidecarTypes,
       SidecarTypeOK
  <2>6. CASE RequestTimeout(c)
    BY <2>6, ActorKinds DEF RequestTimeout, Goto, BeginShutdown, handleVars,
       callVars, AnswerInv, OwnOrStale, NoAnswerYet, SidecarTypes,
       SidecarTypeOK
  <2>7. CASE CancelRequest(c)
    <3>1. pc[c] \in ShutdownLabels \cup SendLabels
      BY <2>7 DEF CancelRequest, Active, TimingOut
    <3>2. answer' = answer /\ mine' = [mine EXCEPT ![c] = NONE] /\ stale \subseteq stale'
      BY <2>7 DEF CancelRequest, callVars
    <3>3. answer[c] = NONE
      BY <3>1 DEF AnswerInv, NoAnswerYet, ShutdownLabels, SendLabels
    <3> QED BY <3>2, <3>3, ActorKinds DEF AnswerInv, OwnOrStale, SidecarTypes,
               SidecarTypeOK
  <2> QED BY <1>3, <2>1, <2>2, <2>3, <2>4, <2>5, <2>6, <2>7 DEF RequestStep
<1>4. ASSUME NEW l \in Loops, PingStep(l) PROVE OwnOrStale'
  <2>1. CASE PingOpen(l)
    BY <2>1, ActorKinds DEF PingOpen, Goto, PingFails, handleVars, stateVars,
       callVars, AnswerInv, OwnOrStale, NoAnswerYet, SidecarTypes,
       SidecarTypeOK
  <2>2. CASE PingRead(l)
    BY <2>2, ActorKinds DEF PingRead, Goto, PingFails, handleVars, stateVars,
       callVars, AnswerInv, OwnOrStale, NoAnswerYet, SidecarTypes,
       SidecarTypeOK
  <2>3. CASE PingTimeout(l)
    BY <2>3, ActorKinds DEF PingTimeout, Goto, PingFails, handleVars,
       stateVars, callVars, AnswerInv, OwnOrStale, NoAnswerYet, SidecarTypes,
       SidecarTypeOK
  <2>4. CASE PingFailed(l)
    BY <2>4, ActorKinds DEF PingFailed, Goto, handleVars, callVars,
       sidecarHistory, AnswerInv, OwnOrStale, NoAnswerYet, SidecarTypes,
       SidecarTypeOK
  <2> QED BY <1>4, <2>1, <2>2, <2>3, <2>4 DEF PingStep
<1>5. ASSUME NEW c \in Calls, NEW m \in BuiltinModels, EnsureRunning(c, m)
      PROVE OwnOrStale'
  BY <1>5, ActorKinds DEF EnsureRunning, Goto, BeginShutdown, Enters,
     handleVars, AnswerInv, OwnOrStale, NoAnswerYet, SidecarTypes,
     SidecarTypeOK
<1>6. ASSUME NEW c \in Calls, AnswerTaken(c) PROVE OwnOrStale'
  BY <1>6, ActorKinds DEF AnswerTaken, handleVars, stateVars, callVars,
     sidecarHistory, AnswerInv, OwnOrStale, NoAnswerYet, SidecarTypes,
     SidecarTypeOK
<1>7. ASSUME NEW c \in Calls, TokenSet(c) PROVE OwnOrStale'
  BY <1>7, ActorKinds DEF TokenSet, handleVars, stateVars, callVars,
     sidecarHistory, AnswerInv, OwnOrStale, NoAnswerYet, SidecarTypes,
     SidecarTypeOK
<1>8. ASSUME NEW g \in Helpers, HealthTick(g) PROVE OwnOrStale'
  BY <1>8, ActorKinds DEF HealthTick, Goto, Enters, handleVars, stateVars,
     callVars, AnswerInv, OwnOrStale, NoAnswerYet, SidecarTypes, SidecarTypeOK
<1>9. ASSUME NEW g \in Helpers, IdleTick(g) PROVE OwnOrStale'
  BY <1>9, ActorKinds DEF IdleTick, Goto, BeginShutdown, Enters, handleVars,
     callVars, AnswerInv, OwnOrStale, NoAnswerYet, SidecarTypes, SidecarTypeOK
<1>10. ASSUME NEW g \in Helpers, IdleTickBusy(g) PROVE OwnOrStale'
  BY <1>10, ActorKinds DEF IdleTickBusy, handleVars, callVars, sidecarHistory,
     AnswerInv, OwnOrStale, NoAnswerYet, SidecarTypes, SidecarTypeOK
<1>11. ASSUME TimePasses PROVE OwnOrStale'
  BY <1>11, ActorKinds DEF TimePasses, handleVars, callVars, sidecarHistory,
     AnswerInv, OwnOrStale, NoAnswerYet, SidecarTypes, SidecarTypeOK
<1>12. ASSUME NEW h \in Helpers, HelperStep(h) PROVE OwnOrStale'
  BY <1>12, ActorKinds DEF HelperStep, handleVars, stateVars, callVars,
     sidecarHistory, AnswerInv, OwnOrStale, NoAnswerYet, SidecarTypes,
     SidecarTypeOK
<1>13. ASSUME NEW h \in Helpers, HelperAils(h) PROVE OwnOrStale'
  BY <1>13, ActorKinds DEF HelperAils, handleVars, stateVars, callVars,
     AnswerInv, OwnOrStale, NoAnswerYet, SidecarTypes, SidecarTypeOK
<1>14. CASE UNCHANGED sidecarVars
  BY <1>14, ActorKinds DEF sidecarVars, helperVars, handleVars, stateVars,
     callVars, sidecarHistory, AnswerInv, OwnOrStale, NoAnswerYet,
     SidecarTypes, SidecarTypeOK
<1> QED BY <1>1, <1>2, <1>3, <1>4, <1>5, <1>6, <1>7, <1>8, <1>9, <1>10, <1>11,
   <1>12, <1>13, <1>14 DEF SidecarNext

(* The invariant holds at the start. *)
LEMMA AnswersStart ==
    ASSUME SidecarInit
    PROVE  AnswerInv
<1>1. \A c \in Calls : pc[c] = "idle" /\ answer[c] = NONE
  BY ActorKinds DEF SidecarInit
<1>2. \A h \in Helpers : Clean(inbox[h], outbox[h], AskedFrom(h))
  BY EmptySeq DEF SidecarInit, HelperInit, Clean, SingleIn, OwnedBy
<1> QED BY <1>1, <1>2 DEF AnswerInv, OneWaits, Waits, PipesClean, NoAnswerYet,
           OwnOrStale

(* And every step of the manager keeps it. *)
LEMMA AnswersStep ==
    ASSUME SidecarTypes, AnswerInv, [SidecarNext]_sidecarVars
    PROVE  AnswerInv'
BY OneWaitsStep, NoAnswerYetStep, PipesCleanStep, OwnOrStaleStep DEF AnswerInv

============================================================================
