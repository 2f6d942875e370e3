----------------------- MODULE SidecarFailures_proofs -----------------------
(***************************************************************************)
(* Why a generation may find a pipe of its helper missing or at its end:   *)
(* it met another user of the manager, or a helper has crashed or got      *)
(* stuck.  For any number of calls, helpers and spawns.                    *)
(*                                                                         *)
(* The argument follows a manager that nobody has met at, step by step:    *)
(* a call at work is the only actor there, and what it finds was left by   *)
(* itself or by the last one there.  A manager that believes in its helper *)
(* has both ends of a running one whose pipes are empty, but while a loop  *)
(* pings it or is about to give up on it; and a call that comes then has   *)
(* met that loop.                                                          *)
(***************************************************************************)
EXTENDS Sidecar_proofs

(* A helper that has nothing to read and has written nothing; both ends    *)
(* with the manager; one exchange with it, half way or all the way.        *)
Quiet(h) == h \in alive /\ inbox[h] = <<>> /\ outbox[h] = <<>>
Wired == stdin \in Helpers /\ stdout = stdin
Exchanges(h, request, replies) ==
    /\ h \in alive
    /\ \/ inbox[h] = <<request>> /\ outbox[h] = <<>>
       \/ inbox[h] = <<>> /\ \E line \in replies : outbox[h] = <<line>>

Pings(l) == pc[l] \in {"pingOpen", "pingRead"}
Stopping(l) == pc[l] \in ShutdownLabels \cup {"pingFailed"}
NoCallBusy == \A c \in Calls : pc[c] \in {"idle", "answered"}

(* request_lock lets one loop at a time ping.                              *)
OnePings == \A k, l \in Loops : Pings(k) /\ Pings(l) => k = l

(* A helper that was not spawned yet has no lines.                         *)
Unborn ==
    \A h \in Helpers : h > spawned =>
        h \notin alive /\ inbox[h] = <<>> /\ outbox[h] = <<>>

Untroubled == met = {} /\ ~ailing

(* A call at work is the only one, and no loop is at work with it.         *)
WorksAlone == \A c \in Calls, a \in Actors : {c, a} \subseteq Busy => a = c

(* How it finds the manager and the helper, from the spawn to the answer.  *)
Prepared(c) ==
    /\ pc[c] = "spawn" => ~healthy /\ stdout = NONE
    /\ pc[c] = "putChild" => ~healthy /\ stdout = NONE /\ Quiet(mine[c])
    /\ pc[c] = "putStdout" =>
          ~healthy /\ stdout = NONE /\ Quiet(mine[c]) /\ stdin = mine[c]
    /\ pc[c] \in {"putLoops", "ready", "queue"} => Wired /\ Quiet(stdin)
    /\ pc[c] \in {"open", "read"} =>
          Wired /\ Exchanges(stdin, Generate(c), Answers(c))

(* Between two calls a manager that believes in its helper has one that is *)
(* ready, or that is being pinged, or a loop is about to disbelieve it.    *)
Rested ==
    \/ ~healthy
    \/ \E l \in Loops : Stopping(l)
    \/ /\ Wired
       /\ \/ Quiet(stdin) /\ \A l \in Loops : ~Pings(l)
          \/ Exchanges(stdin, Ping, {Pong}) /\ \E l \in Loops : Pings(l)

Solo ==
    /\ WorksAlone
    /\ \A c \in Calls : Prepared(c)
    /\ NoCallBusy => Rested

FailureInv ==
    /\ OnePings /\ Unborn
    /\ Untroubled => Solo /\ broken = {}

(***************************************************************************)
(* Actors.                                                                 *)
(***************************************************************************)

(* Where who is not busy is. *)
LEMMA AtEase ==
    ASSUME SidecarTypes
    PROVE  /\ \A c \in Calls : c \notin Busy <=> pc[c] \in {"idle", "answered"}
           /\ \A l \in Loops : l \notin Busy <=> pc[l] \in {"sleep", "ended"}
           /\ NoCallBusy <=> \A c \in Calls : c \notin Busy
<1>1. ASSUME NEW c \in Calls
      PROVE  c \notin Busy <=> pc[c] \in {"idle", "answered"}
  BY ActorKinds DEF SidecarTypes, KindsOK, Busy, ShutdownLabels, SpawnLabels,
     SendLabels, CallLabels
<1>2. ASSUME NEW l \in Loops
      PROVE  l \notin Busy <=> pc[l] \in {"sleep", "ended"}
  BY ActorKinds DEF SidecarTypes, KindsOK, Busy, ShutdownLabels, LoopLabels
<1> QED BY <1>1, <1>2 DEF NoCallBusy

(* Who comes without a meeting comes alone, or to loops only. *)
LEMMA EntersAlone ==
    ASSUME SidecarTypes, NEW a \in Actors, Enters(a), met' = {}
    PROVE  /\ a \in Calls => Busy \subseteq {a}
           /\ a \in Loops => NoCallBusy
<1>1. Busy \ {a} = {} \/ (Busy \cup {a}) \cap Calls = {}
  BY DEF Enters
<1> QED BY <1>1, AtEase, ActorKinds

LEMMA BusyAlone ==
    ASSUME SidecarTypes, Solo
    PROVE  /\ \A c \in Calls : c \in Busy => Busy \subseteq {c}
           /\ \A l \in Loops : l \in Busy => NoCallBusy
<1>1. Busy \subseteq Actors
  BY DEF Busy
<1> QED BY <1>1, AtEase, ActorKinds DEF Solo, WorksAlone

(* A step of the only actor, when it is a call. *)
LEMMA CallMoves ==
    ASSUME SidecarTypes, SidecarTypes', NEW c \in Calls, Busy \subseteq {c}, NEW label,
           pc' = [pc EXCEPT ![c] = label], Prepared(c)',
           label \in {"idle", "answered"} => ~healthy' \/ (Wired /\ Quiet(stdin))'
    PROVE  Solo'
<1>1. \A a \in Actors \ {c} : pc'[a] = pc[a] /\ a \notin Busy /\ a \notin Busy'
  BY DEF SidecarTypes, SidecarTypeOK, Busy
<1>2. pc'[c] = label
  BY ActorKinds DEF SidecarTypes, SidecarTypeOK
<1>3. WorksAlone'
  BY <1>1, ActorKinds DEF WorksAlone
<1>4. ASSUME NEW e \in Calls
      PROVE  Prepared(e)'
  <2>1. CASE e = c
    BY <2>1
  <2>2. CASE e /= c
    <3>1. pc'[e] \in {"idle", "answered"}
      BY <1>1, <2>2, AtEase, ActorKinds
    <3> QED BY <3>1 DEF Prepared
  <2> QED BY <2>1, <2>2
<1>5. \A l \in Loops : ~Pings(l)'
  BY <1>1, AtEase, ActorKinds DEF Pings
<1>6. NoCallBusy' => Rested'
  BY <1>2, <1>5 DEF NoCallBusy, Rested
<1> QED BY <1>3, <1>4, <1>6 DEF Solo

(* A step of a loop, with no call at work. *)
LEMMA LoopMoves ==
    ASSUME SidecarTypes, SidecarTypes', NoCallBusy, NEW l \in Loops, NEW label,
           pc' = [pc EXCEPT ![l] = label], Rested'
    PROVE  Solo'
<1>1. \A c \in Calls : pc'[c] \in {"idle", "answered"}
  BY ActorKinds DEF SidecarTypes, SidecarTypeOK, NoCallBusy
<1>2. \A c \in Calls : c \notin Busy'
  BY <1>1 DEF Busy
<1> QED BY <1>1, <1>2 DEF Solo, WorksAlone, Prepared

(* A step that leaves the manager and the pipes alone. *)
LEMMA PipesRest ==
    ASSUME SidecarTypes, Solo,
           UNCHANGED <<helperVars, stdin, stdout, healthy, mine>>,
           \/ pc' = pc
           \/ \E c \in Calls : pc[c] = "answered" /\ pc' = [pc EXCEPT ![c] = "idle"]
    PROVE  Solo'
<1>1. Busy' = Busy
  BY ActorKinds DEF Busy, SidecarTypes, SidecarTypeOK
<1>2. WorksAlone'
  BY <1>1 DEF Solo, WorksAlone
<1>3. \A c \in Calls : pc'[c] = pc[c] \/ {pc[c], pc'[c]} \subseteq {"idle", "answered"}
  BY ActorKinds DEF SidecarTypes, SidecarTypeOK
<1>4. \A l \in Loops : pc'[l] = pc[l]
  BY ActorKinds DEF SidecarTypes, SidecarTypeOK
<1>5. ASSUME NEW c \in Calls
      PROVE  Prepared(c)'
  <2>1. CASE pc'[c] = pc[c]
    <3>1. Prepared(c)
      BY DEF Solo
    <3> QED BY <2>1, <3>1 DEF Prepared, Wired, Quiet, Exchanges, helperVars
  <2>2. CASE pc'[c] \in {"idle", "answered"}
    BY <2>2 DEF Prepared
  <2> QED BY <1>3, <2>1, <2>2
<1>6. NoCallBusy' => NoCallBusy
  BY <1>3 DEF NoCallBusy
<1>7. Rested => Rested'
  BY <1>4 DEF Rested, Stopping, Pings, Wired, Quiet, Exchanges, helperVars
<1> QED BY <1>2, <1>5, <1>6, <1>7 DEF Solo

(***************************************************************************)
(* Pipes.                                                                  *)
(***************************************************************************)

(* A line of a queue of one. *)
LEMMA OneLine ==
    ASSUME NEW line
    PROVE  /\ <<line>> /= <<>> /\ Head(<<line>>) = line /\ Tail(<<line>>) = <<>>
           /\ Append(<<>>, line) = <<line>>
OBVIOUS

(* The handles are the manager's, whoever has them. *)
LEMMA Handles ==
    ASSUME SidecarTypes
    PROVE  /\ \A h \in Helpers : h /= NONE
           /\ stdin \in Helpers \cup {NONE} /\ stdout \in Helpers \cup {NONE}
           /\ alive \subseteq Helpers
           /\ inbox \in [Helpers -> Seq(Requests)] /\ outbox \in [Helpers -> Seq(Replies)]
           /\ mine \in [Actors -> Helpers \cup {NONE}]
BY SidecarAssumption
   DEF SidecarTypes, SidecarTypeOK, HelperTypeOK, Requests, Replies

(* No two requests are the same. *)
LEMMA RequestsDiffer ==
    ASSUME NEW c \in Calls, NEW e \in Calls
    PROVE  /\ Generate(c) = Generate(e) => c = e
           /\ Generate(c) /= Ping /\ Generate(c) /= Shutdown /\ Ping /= Shutdown
BY DEF Generate, Ping, Shutdown

(* The helper of a manager that holds both ends only answers. *)
LEMMA HelperStaysQuiet ==
    ASSUME SidecarTypes, NEW h \in Helpers, HelperStep(h), NEW k \in Helpers,
           StdinOpen(k), StdoutOpen(k), Quiet(k)
    PROVE  Quiet(k)'
<1>1. CASE h = k
  <2>1. ~ \E request, line : Serve(h, request, line)
    BY <1>1 DEF Serve, Quiet
  <2>2. ~ServeShutdown(h) /\ ~BreakPipe(h)
    BY <1>1 DEF ServeShutdown, BreakPipe, Quiet
  <2> QED BY <1>1, <2>1, <2>2 DEF HelperStep
<1>2. CASE h /= k
  <2>1. ASSUME NEW request, NEW line, Serve(h, request, line)
        PROVE  Quiet(k)'
    BY <1>2, <2>1, Handles DEF Serve, Say, Quiet
  <2>2. CASE ServeShutdown(h)
    BY <1>2, <2>2, Handles DEF ServeShutdown, Quiet
  <2>3. CASE BreakPipe(h) \/ ReadEof(h)
    BY <1>2, <2>3, Handles DEF BreakPipe, ReadEof, Terminate, Quiet
  <2> QED BY <2>1, <2>2, <2>3 DEF HelperStep
<1> QED BY <1>1, <1>2

LEMMA HelperExchanges ==
    ASSUME SidecarTypes, NEW h \in Helpers, HelperStep(h), NEW k \in Helpers,
           StdinOpen(k), StdoutOpen(k),
           NEW request, NEW replies,
           \/ request = Ping /\ replies = {Pong}
           \/ \E c \in Calls : request = Generate(c) /\ replies = Answers(c),
           Exchanges(k, request, replies)
    PROVE  Exchanges(k, request, replies)'
<1>1. CASE h = k
  <2>1. inbox[h] /= <<>> => inbox[h] = <<request>> /\ outbox[h] = <<>>
    BY <1>1 DEF Exchanges
  <2>2. ASSUME NEW line, Serve(h, request, line), line \in replies
        PROVE  Exchanges(k, request, replies)'
    <3>1. inbox[h] = <<request>> /\ outbox[h] = <<>>
      BY <2>1, <2>2 DEF Serve
    <3>2. inbox'[h] = <<>> /\ outbox'[h] = <<line>> /\ h \in alive'
      BY <2>2, <3>1, OneLine, Handles DEF Serve, Say
    <3> QED BY <1>1, <2>2, <3>2 DEF Exchanges
  <2>3. ASSUME NEW other, NEW line, Serve(h, other, line)
        PROVE  other = request
    BY <2>1, <2>3, OneLine DEF Serve
  <2>4. CASE \E c \in Calls : \E line \in Answers(c) : Serve(h, Generate(c), line)
    <3>0. PICK c \in Calls : \E line \in Answers(c) : Serve(h, Generate(c), line)
      BY <2>4
    <3>1. PICK line \in Answers(c) : Serve(h, Generate(c), line)
      BY <3>0
    <3>2. line \in replies
      BY <2>3, <3>1, RequestsDiffer
    <3> QED BY <2>2, <2>3, <3>1, <3>2
  <2>5. CASE Serve(h, Ping, Pong)
    <3>1. Pong \in replies
      BY <2>3, <2>5, RequestsDiffer
    <3> QED BY <2>2, <2>3, <2>5, <3>1
  <2>6. ~ServeShutdown(h)
    BY <2>1, OneLine, RequestsDiffer, SidecarAssumption
       DEF ServeShutdown, Ping, Shutdown, Generate
  <2> QED BY <1>1, <2>4, <2>5, <2>6 DEF HelperStep
<1>2. CASE h /= k
  <2>1. ASSUME NEW other, NEW line, Serve(h, other, line)
        PROVE  Exchanges(k, request, replies)'
    BY <1>2, <2>1, Handles DEF Serve, Say, Exchanges
  <2>2. CASE ServeShutdown(h)
    BY <1>2, <2>2, Handles DEF ServeShutdown, Exchanges
  <2>3. CASE BreakPipe(h) \/ ReadEof(h)
    BY <1>2, <2>3, Handles DEF BreakPipe, ReadEof, Terminate, Exchanges
  <2> QED BY <2>1, <2>2, <2>3 DEF HelperStep
<1> QED BY <1>1, <1>2

(* A step of a helper, as far as the manager goes. *)
LEMMA HelperMoves ==
    ASSUME SidecarTypes, Solo, NEW h \in Helpers, HelperStep(h)
    PROVE  Solo'
<1>1. UNCHANGED <<pc, mine, healthy, stdin, stdout>>
  BY DEF HelperStep, handleVars, stateVars
<1>2. WorksAlone'
  BY <1>1 DEF Solo, WorksAlone, Busy
<1>3. Wired => StdinOpen(stdin) /\ StdoutOpen(stdin) /\ stdin \in Helpers
  BY DEF Wired, StdinOpen, StdoutOpen
<1>4. Wired /\ Quiet(stdin) => (Wired /\ Quiet(stdin))'
  <2>1. ASSUME NEW k \in Helpers, stdin = k, Wired, Quiet(k)
        PROVE  Quiet(k)'
    BY <1>3, <2>1, HelperStaysQuiet
  <2> QED BY <1>1, <1>3, <2>1 DEF Wired, Quiet
<1>5. ASSUME NEW request, NEW replies,
             \/ request = Ping /\ replies = {Pong}
             \/ \E c \in Calls : request = Generate(c) /\ replies = Answers(c),
             Wired, Exchanges(stdin, request, replies)
      PROVE  (Wired /\ Exchanges(stdin, request, replies))'
  <2>1. PICK k \in Helpers : k = stdin
    BY <1>5 DEF Wired
  <2>2. Exchanges(k, request, replies)'
    BY <1>3, <1>5, <2>1, HelperExchanges
  <2> QED BY <1>1, <1>5, <2>1, <2>2 DEF Wired, Exchanges
<1>6. ASSUME NEW c \in Calls
      PROVE  Prepared(c)'
  <2>1. Prepared(c)
    BY DEF Solo
  <2>2. ASSUME pc[c] \in {"putChild", "putStdout"}
        PROVE  Quiet(mine[c])'
    <3>1. PICK k \in Helpers : k = mine[c]
      BY <2>2, ActorKinds DEF SidecarTypes, HandsOK
    <3>2. StdinOpen(k) /\ StdoutOpen(k) /\ Quiet(k)
      BY <2>1, <2>2, <3>1 DEF StdinOpen, StdoutOpen, Prepared
    <3>3. Quiet(k)'
      BY <3>2, HelperStaysQuiet
    <3> QED BY <1>1, <3>1, <3>3 DEF Quiet
  <2>3. ASSUME pc[c] \in {"open", "read"}
        PROVE  (Wired /\ Exchanges(stdin, Generate(c), Answers(c)))'
    BY <1>5, <2>1, <2>3 DEF Prepared
  <2> QED BY <1>1, <1>4, <2>1, <2>2, <2>3 DEF Prepared
<1>7. NoCallBusy' => NoCallBusy
  BY <1>1 DEF NoCallBusy
<1>8. Rested => Rested'
  <2>1. Wired /\ Exchanges(stdin, Ping, {Pong}) =>
           (Wired /\ Exchanges(stdin, Ping, {Pong}))'
    BY <1>5
  <2> QED BY <1>1, <1>4, <2>1 DEF Rested, Stopping, Pings
<1> QED BY <1>2, <1>6, <1>7, <1>8 DEF Solo

(***************************************************************************)
(* What holds whoever meets.                                               *)
(***************************************************************************)

(* Who does not begin a ping here, pings no more than before. *)
LEMMA NoPingBegins ==
    ASSUME SidecarTypes, OnePings, NEW a \in Actors, NEW label,
           pc' = [pc EXCEPT ![a] = label] \/ pc' = pc,
           \/ label \notin {"pingOpen", "pingRead"}
           \/ a \in Calls
           \/ pc[a] \in {"pingOpen", "pingRead"}
    PROVE  OnePings'
<1>1. \A l \in Loops : Pings(l)' => Pings(l)
  BY ActorKinds DEF Pings, SidecarTypes, SidecarTypeOK
<1> QED BY <1>1 DEF OnePings

(* request_lock: a ping begins when nobody pings. *)
LEMMA OnePingsStep ==
    ASSUME SidecarTypes, OnePings, [SidecarNext]_sidecarVars
    PROVE  OnePings'
<1>1. ASSUME NEW a \in Actors, ShutdownStep(a) PROVE OnePings'
  <2>1. PICK label \in {"wait", "dropStdout", "spawn", "ended", "answered"} :
           pc' = [pc EXCEPT ![a] = label]
    BY <1>1 DEF ShutdownStep, TakeChild, AwaitExit, EndShutdown, Goto
  <2> QED BY <2>1, NoPingBegins
<1>2. ASSUME NEW c \in Calls,
             \/ SpawnStep(c) \/ RequestStep(c) \/ AnswerTaken(c) \/ TokenSet(c)
             \/ \E m \in BuiltinModels : EnsureRunning(c, m)
      PROVE  OnePings'
  <2>1. c \in Actors
    BY ActorKinds
  <2>2. pc' = pc \/ \E label : pc' = [pc EXCEPT ![c] = label]
    BY <1>2
       DEF SpawnStep, SpawnHelper, SpawnFails, PutChild, PutStdout, PutLoops,
           RequestStep, StartRequest, WriteRequest, OpenStdout, ReadAnswer,
           ReadNothing, TransportFails, RequestTimeout, CancelRequest,
           BeginShutdown, AnswerTaken, TokenSet, EnsureRunning, Goto
  <2>3. CASE pc' = pc
    BY <2>1, <2>3, NoPingBegins
  <2>4. ASSUME NEW label, pc' = [pc EXCEPT ![c] = label]
        PROVE  OnePings'
    BY <2>1, <2>4, NoPingBegins
  <2> QED BY <2>2, <2>3, <2>4
<1>3. ASSUME NEW g \in Helpers, HealthTick(g) PROVE OnePings'
  <2>1. \A l \in Loops : ~Pings(l)
    BY <1>3 DEF HealthTick, RequestLockFree, Pings
  <2>2. \E label : pc' = [pc EXCEPT ![HealthLoop(g)] = label]
    BY <1>3 DEF HealthTick, Goto
  <2>3. \A l \in Loops : Pings(l)' => l = HealthLoop(g)
    BY <2>1, <2>2, ActorKinds DEF Pings, SidecarTypes, SidecarTypeOK
  <2> QED BY <2>3 DEF OnePings
<1>4. ASSUME NEW g \in Helpers, IdleTick(g) PROVE OnePings'
  <2>1. pc' = [pc EXCEPT ![IdleLoop(g)] = "take"]
    BY <1>4 DEF IdleTick, BeginShutdown, Goto
  <2> QED BY <2>1, NoPingBegins, ActorKinds
<1>5. ASSUME NEW l \in Loops, PingStep(l) PROVE OnePings'
  <2>1. CASE PingOpen(l) \/ PingRead(l) \/ PingTimeout(l)
    <3>1. pc[l] \in {"pingOpen", "pingRead"}
      BY <2>1 DEF PingOpen, PingRead, PingTimeout
    <3>2. \E label : pc' = [pc EXCEPT ![l] = label]
      BY <2>1 DEF PingOpen, PingRead, PingTimeout, PingFails, Goto
    <3> QED BY <3>1, <3>2, NoPingBegins, ActorKinds
  <2>2. CASE PingFailed(l)
    <3>1. pc' = [pc EXCEPT ![l] = "sleep"]
      BY <2>2 DEF PingFailed, Goto
    <3> QED BY <3>1, NoPingBegins, ActorKinds
  <2> QED BY <1>5, <2>1, <2>2 DEF PingStep
<1>6. CASE \/ \E g \in Helpers : IdleTickBusy(g)
           \/ TimePasses
           \/ \E h \in Helpers : HelperStep(h) \/ HelperAils(h)
           \/ UNCHANGED sidecarVars
  <2>1. pc' = pc
    BY <1>6 DEF IdleTickBusy, TimePasses, HelperStep, HelperAils, sidecarVars
  <2> QED BY <2>1 DEF OnePings, Pings
<1> QED BY <1>1, <1>2, <1>3, <1>4, <1>5, <1>6 DEF SidecarNext

(* Lines are written to running processes, and taken where there are some. *)
LEMMA UnbornQuiet ==
    ASSUME SidecarTypes, Unborn, spawned' = spawned, alive' \subseteq alive,
           \A h \in Helpers \ alive :
              /\ inbox'[h] = inbox[h] \/ inbox'[h] = <<>>
              /\ \/ outbox'[h] = outbox[h] \/ outbox'[h] = <<>>
                 \/ outbox[h] /= <<>>
    PROVE  Unborn'
BY DEF Unborn

LEMMA UnbornHelpers ==
    ASSUME SidecarTypes, Unborn, spawned' = spawned,
           \/ UNCHANGED helperVars
           \/ \E h \in alive : \E line : Write(h, line)
           \/ \E h \in Helpers : HasLine(h) /\ TakeLine(h)
           \/ \E h \in Helpers \cup {NONE} : CloseStdout(h)
           \/ \E h \in Helpers : Terminate(h)
           \/ \E h \in alive : \E line : Say(h, line)
           \/ \E h \in Helpers : ServeShutdown(h) \/ Stick(h)
    PROVE  Unborn'
<1>1. alive' \subseteq alive
  BY DEF helperVars, Write, TakeLine, CloseStdout, Terminate, Say,
     ServeShutdown, Stick
<1>2. ASSUME NEW k \in Helpers \ alive
      PROVE  /\ inbox'[k] = inbox[k] \/ inbox'[k] = <<>>
             /\ \/ outbox'[k] = outbox[k] \/ outbox'[k] = <<>>
                \/ outbox[k] /= <<>>
  <2>1. CASE UNCHANGED helperVars
    BY <2>1 DEF helperVars
  <2>2. CASE \E h \in alive : \E line : Write(h, line) \/ Say(h, line)
    BY <2>2, Handles DEF Write, Say
  <2>3. CASE \E h \in Helpers : HasLine(h) /\ TakeLine(h)
    BY <2>3, Handles DEF HasLine, TakeLine
  <2>4. CASE \E h \in Helpers \cup {NONE} : CloseStdout(h)
    BY <2>4, Handles DEF CloseStdout
  <2>5. CASE \E h \in Helpers : Terminate(h)
    BY <2>5, Handles DEF Terminate
  <2>6. CASE \E h \in Helpers : ServeShutdown(h) \/ Stick(h)
    BY <2>6, Handles DEF ServeShutdown, Stick
  <2> QED BY <2>1, <2>2, <2>3, <2>4, <2>5, <2>6
<1> QED BY <1>1, <1>2, UnbornQuiet

LEMMA BeginsQuietly ==
    ASSUME SidecarTypes, NEW a, NEW next, BeginShutdown(a, next)
    PROVE  UNCHANGED helperVars \/ \E h \in alive : \E line : Write(h, line)
BY DEF BeginShutdown, CanWrite

(* No process is there before its spawn. *)
LEMMA UnbornStep ==
    ASSUME SidecarTypes, Unborn, [SidecarNext]_sidecarVars
    PROVE  Unborn'
<1>1. ASSUME NEW a \in Actors, ShutdownStep(a) PROVE Unborn'
  <2>1. CASE TakeChild(a)
    BY <2>1, UnbornHelpers DEF TakeChild, stateVars
  <2>2. CASE AwaitExit(a)
    BY <2>2, UnbornHelpers DEF AwaitExit, stateVars, SidecarTypes, HandsOK
  <2>3. CASE EndShutdown(a)
    <3>1. spawned' = spawned /\ CloseStdout(stdout)
      BY <2>3 DEF EndShutdown
    <3> QED BY <3>1, UnbornHelpers, Handles
  <2> QED BY <1>1, <2>1, <2>2, <2>3 DEF ShutdownStep
<1>2. ASSUME NEW c \in Calls, SpawnStep(c) PROVE Unborn'
  <2>1. CASE SpawnHelper(c)
    <3>1. spawned \in Nat /\ Helpers \subseteq Nat
      BY SidecarAssumption DEF SidecarTypes, SidecarTypeOK
    <3> QED BY <2>1, <3>1 DEF SpawnHelper, Launch, Unborn
  <2>2. CASE SpawnFails(c) \/ PutChild(c) \/ PutLoops(c)
    BY <2>2, UnbornHelpers DEF SpawnFails, PutChild, PutLoops, stateVars
  <2>3. CASE PutStdout(c)
    <3>1. spawned' = spawned /\ CloseStdout(stdout)
      BY <2>3 DEF PutStdout
    <3> QED BY <3>1, UnbornHelpers, Handles
  <2> QED BY <1>2, <2>1, <2>2, <2>3 DEF SpawnStep
<1>3. ASSUME NEW c \in Calls, RequestStep(c) PROVE Unborn'
  <2>1. spawned' = spawned
    BY <1>3
       DEF RequestStep, StartRequest, WriteRequest, OpenStdout, ReadAnswer,
           ReadNothing, RequestTimeout, CancelRequest, stateVars, BeginShutdown
  <2>2. CASE StartRequest(c) \/ OpenStdout(c) \/ ReadNothing(c)
    BY <2>1, <2>2, UnbornHelpers DEF StartRequest, OpenStdout, ReadNothing
  <2>3. CASE WriteRequest(c)
    BY <2>1, <2>3, UnbornHelpers DEF WriteRequest, CanWrite
  <2>4. CASE ReadAnswer(c)
    <3>1. stdout \in Helpers
      BY <2>4, ActorKinds DEF ReadAnswer, SidecarTypes, HandsOK
    <3> QED BY <2>1, <2>4, <3>1, UnbornHelpers DEF ReadAnswer
  <2>5. CASE RequestTimeout(c) \/ CancelRequest(c)
    BY <2>1, <2>5, BeginsQuietly, UnbornHelpers DEF RequestTimeout, CancelRequest
  <2> QED BY <1>3, <2>2, <2>3, <2>4, <2>5 DEF RequestStep
<1>4. ASSUME NEW l \in Loops, PingStep(l) PROVE Unborn'
  <2>1. CASE PingRead(l)
    <3>1. stdout \in Helpers /\ spawned' = spawned
      BY <2>1, ActorKinds DEF PingRead, SidecarTypes, HandsOK, stateVars
    <3>2. (HasLine(stdout) /\ TakeLine(stdout)) \/ UNCHANGED helperVars
      BY <2>1 DEF PingRead
    <3> QED BY <3>1, <3>2, UnbornHelpers
  <2>2. CASE PingOpen(l) \/ PingTimeout(l) \/ PingFailed(l)
    BY <2>2, UnbornHelpers DEF PingOpen, PingTimeout, PingFailed, stateVars
  <2> QED BY <1>4, <2>1, <2>2 DEF PingStep
<1>5. ASSUME NEW c \in Calls, NEW m \in BuiltinModels, EnsureRunning(c, m)
      PROVE  Unborn'
  BY <1>5, BeginsQuietly, UnbornHelpers DEF EnsureRunning
<1>6. ASSUME NEW g \in Helpers, HealthTick(g) \/ IdleTick(g)
      PROVE  Unborn'
  BY <1>6, BeginsQuietly, UnbornHelpers
     DEF HealthTick, IdleTick, CanWrite, stateVars
<1>7. ASSUME NEW h \in Helpers, HelperStep(h) PROVE Unborn'
  <2>1. spawned' = spawned
    BY <1>7 DEF HelperStep, stateVars
  <2>2. \/ \E line : h \in alive /\ Say(h, line)
        \/ ServeShutdown(h) \/ Terminate(h)
    BY <1>7 DEF HelperStep, Serve, BreakPipe, ReadEof
  <2> QED BY <2>1, <2>2, UnbornHelpers
<1>8. ASSUME NEW h \in Helpers, HelperAils(h) PROVE Unborn'
  BY <1>8, UnbornHelpers DEF HelperAils, Crash, stateVars
<1>9. CASE \/ \E c \in Calls : AnswerTaken(c) \/ TokenSet(c)
           \/ \E g \in Helpers : IdleTickBusy(g)
           \/ TimePasses \/ UNCHANGED sidecarVars
  BY <1>9, UnbornHelpers
     DEF AnswerTaken, TokenSet, IdleTickBusy, TimePasses, sidecarVars, stateVars
<1> QED BY <1>1, <1>2, <1>3, <1>4, <1>5, <1>6, <1>7, <1>8, <1>9 DEF SidecarNext

(***************************************************************************)
(* A call on its own.                                                      *)
(***************************************************************************)

(* shutdown(), of a call or of a loop. *)
LEMMA SoloShutdown ==
    ASSUME SidecarTypes, SidecarTypes', Solo, NEW a \in Actors, ShutdownStep(a)
    PROVE  Solo'
<1>1. pc[a] \in ShutdownLabels /\ a \in Busy
  BY DEF ShutdownStep, TakeChild, AwaitExit, EndShutdown, ShutdownLabels, Busy
<1>2. CASE TakeChild(a) \/ AwaitExit(a)
  <2>1. PICK label \in {"wait", "dropStdout"} : pc' = [pc EXCEPT ![a] = label]
    BY <1>2 DEF TakeChild, AwaitExit, Goto
  <2>2. pc'[a] = label /\ pc'[a] \in ShutdownLabels
    BY <2>1 DEF SidecarTypes, SidecarTypeOK, ShutdownLabels
  <2>3. CASE a \in Calls
    <3>1. Prepared(a)'
      BY <2>2 DEF Prepared, ShutdownLabels
    <3> QED BY <1>1, <2>1, <2>3, <3>1, BusyAlone, CallMoves
  <2>4. CASE a \in Loops
    <3>1. Rested'
      BY <2>2, <2>4 DEF Rested, Stopping
    <3> QED BY <1>1, <2>1, <2>4, <3>1, BusyAlone, LoopMoves
  <2> QED BY <2>3, <2>4, ActorKinds
<1>3. CASE EndShutdown(a)
  <2>1. ~healthy' /\ stdout' = NONE
    BY <1>3 DEF EndShutdown
  <2>2. PICK label \in {"spawn", "ended", "answered"} :
           /\ pc' = [pc EXCEPT ![a] = label]
           /\ label = "ended" => back[a] = "ended"
    <3>1. back[a] = "spawn" => pc' = [pc EXCEPT ![a] = "spawn"]
      BY <1>3 DEF EndShutdown, Goto
    <3>2. back[a] = "ended" => pc' = [pc EXCEPT ![a] = "ended"]
      BY <1>3 DEF EndShutdown, Goto
    <3>3. back[a] \notin {"spawn", "ended"} => pc' = [pc EXCEPT ![a] = "answered"]
      BY <1>3 DEF EndShutdown, Goto
    <3> QED BY <3>1, <3>2, <3>3
  <2>3. pc'[a] = label
    BY <2>2 DEF SidecarTypes, SidecarTypeOK
  <2>4. CASE a \in Calls
    <3>1. label # "ended"
      BY <1>1, <2>2, <2>4 DEF SidecarTypes, KindsOK
    <3>2. Prepared(a)'
      BY <2>1, <2>3, <3>1 DEF Prepared
    <3> QED BY <1>1, <2>1, <2>2, <2>4, <3>2, BusyAlone, CallMoves
  <2>5. CASE a \in Loops
    <3>1. Rested'
      BY <2>1 DEF Rested
    <3> QED BY <1>1, <2>2, <2>5, <3>1, BusyAlone, LoopMoves
  <2> QED BY <2>4, <2>5, ActorKinds
<1> QED BY <1>2, <1>3 DEF ShutdownStep

(* spawn(), to the loops. *)
LEMMA SoloSpawn ==
    ASSUME SidecarTypes, SidecarTypes', Solo, Unborn, NEW c \in Calls, SpawnStep(c)
    PROVE  Solo'
<1>1. c \in Busy /\ c \in Actors
  BY ActorKinds
     DEF SpawnStep, SpawnHelper, SpawnFails, PutChild, PutStdout, PutLoops, Busy
<1>2. Busy \subseteq {c}
  BY <1>1, BusyAlone
<1>3. Prepared(c)
  BY DEF Solo
<1>4. CASE SpawnHelper(c)
  <2>1. pc' = [pc EXCEPT ![c] = "putChild"] /\ pc'[c] = "putChild"
    BY <1>1, <1>4 DEF SpawnHelper, Goto, SidecarTypes, SidecarTypeOK
  <2>2. PICK h \in Helpers : h = spawned + 1
    BY <1>4, SidecarAssumption DEF SpawnHelper, SidecarTypes, SidecarTypeOK
  <2>3. inbox[h] = <<>> /\ outbox[h] = <<>>
    BY <2>2 DEF Unborn, SidecarTypes, SidecarTypeOK
  <2>4. mine'[c] = h
    BY <1>1, <1>4, <2>2, Handles DEF SpawnHelper
  <2>5. Quiet(h)'
    BY <1>4, <2>2, <2>3 DEF SpawnHelper, Launch, Quiet
  <2>6. healthy' = healthy /\ stdout' = stdout
    BY <1>4 DEF SpawnHelper, handleVars
  <2>7. Prepared(c)'
    BY <1>3, <1>4, <2>1, <2>4, <2>5, <2>6 DEF Prepared, SpawnHelper, Quiet
  <2> QED BY <1>2, <2>1, <2>7, CallMoves
<1>5. CASE SpawnFails(c)
  <2>1. pc' = [pc EXCEPT ![c] = "answered"] /\ pc'[c] = "answered"
    BY <1>1, <1>5 DEF SpawnFails, Goto, SidecarTypes, SidecarTypeOK
  <2>2. ~healthy'
    BY <1>3, <1>5 DEF SpawnFails, Prepared, stateVars
  <2>3. Prepared(c)'
    BY <2>1 DEF Prepared
  <2> QED BY <1>2, <2>1, <2>2, <2>3, CallMoves
<1>6. CASE PutChild(c)
  <2>1. pc' = [pc EXCEPT ![c] = "putStdout"] /\ pc'[c] = "putStdout"
    BY <1>1, <1>6 DEF PutChild, Goto, SidecarTypes, SidecarTypeOK
  <2>2. Prepared(c)'
    BY <1>3, <1>6, <2>1
       DEF PutChild, Prepared, Quiet, helperVars, stateVars
  <2> QED BY <1>2, <2>1, <2>2, CallMoves
<1>7. CASE PutStdout(c)
  <2>1. pc' = [pc EXCEPT ![c] = "putLoops"] /\ pc'[c] = "putLoops"
    BY <1>1, <1>7 DEF PutStdout, Goto, SidecarTypes, SidecarTypeOK
  <2>2. PICK h \in Helpers : h = mine[c]
    BY <1>1, <1>7 DEF PutStdout, SidecarTypes, HandsOK
  <2>3. Quiet(h) /\ stdin = h /\ stdout = NONE
    BY <1>3, <1>7, <2>2 DEF PutStdout, Prepared
  <2>4. Quiet(h)' /\ stdin' = h /\ stdout' = h
    BY <1>7, <2>2, <2>3 DEF PutStdout, CloseStdout, Quiet
  <2>5. Prepared(c)'
    BY <2>1, <2>4 DEF Prepared, Wired, Quiet
  <2> QED BY <1>2, <2>1, <2>5, CallMoves
<1>8. CASE PutLoops(c)
  <2>1. pc' = [pc EXCEPT ![c] = "ready"] /\ pc'[c] = "ready"
    BY <1>1, <1>8 DEF PutLoops, Goto, SidecarTypes, SidecarTypeOK
  <2>2. Prepared(c)'
    BY <1>3, <1>8, <2>1
       DEF PutLoops, Prepared, Wired, Quiet, helperVars, handleVars
  <2> QED BY <1>2, <2>1, <2>2, CallMoves
<1> QED BY <1>4, <1>5, <1>6, <1>7, <1>8 DEF SpawnStep

(* A call that finds the helper it believes in, or begins to replace it. *)
LEMMA SoloEntry ==
    ASSUME SidecarTypes, SidecarTypes', Solo, NEW c \in Calls,
           NEW m \in BuiltinModels, EnsureRunning(c, m), met' = {}
    PROVE  Solo'
<1>1. c \in Actors /\ c \notin Busy /\ Busy \subseteq {c} /\ Busy = {}
  BY ActorKinds, EntersAlone DEF EnsureRunning, Busy
<1>2. CASE Reuses(m)
  <2>1. pc' = [pc EXCEPT ![c] = "ready"] /\ pc'[c] = "ready"
    BY <1>1, <1>2 DEF EnsureRunning, Goto, SidecarTypes, SidecarTypeOK
  <2>2. healthy /\ UNCHANGED <<helperVars, handleVars>>
    BY <1>2 DEF EnsureRunning, Reuses
  <2>3. \A l \in Loops : ~Stopping(l) /\ ~Pings(l)
    BY <1>1, AtEase DEF Stopping, Pings, ShutdownLabels
  <2>4. NoCallBusy
    BY <1>1, AtEase
  <2>5. Wired /\ Quiet(stdin)
    BY <2>2, <2>3, <2>4 DEF Solo, Rested
  <2>6. Prepared(c)'
    BY <2>1, <2>2, <2>5 DEF Prepared, Wired, Quiet, helperVars, handleVars
  <2> QED BY <1>1, <2>1, <2>6, CallMoves
<1>3. CASE ~Reuses(m)
  <2>1. pc' = [pc EXCEPT ![c] = "take"] /\ pc'[c] = "take"
    BY <1>1, <1>3
       DEF EnsureRunning, BeginShutdown, Goto, SidecarTypes, SidecarTypeOK
  <2>2. Prepared(c)'
    BY <2>1 DEF Prepared
  <2> QED BY <1>1, <2>1, <2>2, CallMoves
<1> QED BY <1>2, <1>3

(* A request: it finds both pipes, and what comes back is its answer. *)
LEMMA SoloRequest ==
    ASSUME SidecarTypes, SidecarTypes', Solo, NEW c \in Calls, RequestStep(c)
    PROVE  Solo' /\ broken' = broken
<1>1. c \in Busy /\ c \in Actors
  BY ActorKinds
     DEF RequestStep, StartRequest, WriteRequest, OpenStdout, ReadAnswer,
         ReadNothing, RequestTimeout, CancelRequest, Active, TimingOut,
         SendLabels, ShutdownLabels, Busy
<1>2. Busy \subseteq {c}
  BY <1>1, BusyAlone
<1>3. Prepared(c)
  BY DEF Solo
<1>4. Wired => stdin \in Helpers /\ stdin /= NONE /\ stdout = stdin
  BY Handles DEF Wired
<1>5. CASE StartRequest(c)
  <2>1. Wired /\ Quiet(stdin)
    BY <1>3, <1>5 DEF StartRequest, Prepared
  <2>2. (Wired /\ Quiet(stdin))' /\ broken' = broken
    BY <1>5, <2>1
       DEF StartRequest, Wired, Quiet, helperVars, handleVars, sidecarHistory
  <2>3. PICK label \in {"answered", "queue"} : pc' = [pc EXCEPT ![c] = label]
    BY <1>5 DEF StartRequest, Goto
  <2>4. pc'[c] = label
    BY <1>1, <2>3 DEF SidecarTypes, SidecarTypeOK
  <2>5. Prepared(c)'
    BY <2>2, <2>4 DEF Prepared
  <2> QED BY <1>2, <2>2, <2>3, <2>5, CallMoves
<1>6. CASE WriteRequest(c)
  <2>1. PICK h \in Helpers : h = stdin /\ h = stdout /\ Quiet(h)
    BY <1>3, <1>6 DEF WriteRequest, Prepared, Wired
  <2>2. /\ Write(h, Generate(c)) /\ pc' = [pc EXCEPT ![c] = "open"]
        /\ broken' = broken /\ stdin' = h /\ stdout' = h
    BY <1>6, <2>1, Handles
       DEF WriteRequest, CanWrite, Quiet, Goto, handleVars
  <2>3. pc'[c] = "open"
    BY <1>1, <2>2 DEF SidecarTypes, SidecarTypeOK
  <2>4. inbox'[h] = <<Generate(c)>> /\ outbox'[h] = <<>> /\ h \in alive'
    BY <2>1, <2>2, OneLine, Handles DEF Write, Quiet
  <2>5. Prepared(c)'
    BY <2>2, <2>3, <2>4 DEF Prepared, Wired, Exchanges
  <2> QED BY <1>2, <2>2, <2>5, CallMoves
<1>7. CASE OpenStdout(c)
  <2>1. Wired /\ Exchanges(stdin, Generate(c), Answers(c))
    BY <1>3, <1>7 DEF OpenStdout, Prepared
  <2>2. /\ pc' = [pc EXCEPT ![c] = "read"] /\ broken' = broken
        /\ UNCHANGED <<helperVars, handleVars>>
    BY <1>4, <1>7, <2>1 DEF OpenStdout, Goto
  <2>3. pc'[c] = "read"
    BY <1>1, <2>2 DEF SidecarTypes, SidecarTypeOK
  <2>4. Prepared(c)'
    BY <2>1, <2>2, <2>3 DEF Prepared, Wired, Exchanges, helperVars, handleVars
  <2> QED BY <1>2, <2>2, <2>4, CallMoves
<1>8. CASE ReadAnswer(c)
  <2>1. PICK h \in Helpers :
           h = stdin /\ h = stdout /\ Exchanges(h, Generate(c), Answers(c))
    BY <1>3, <1>8 DEF ReadAnswer, Prepared, Wired
  <2>2. inbox[h] = <<>> /\ h \in alive
    BY <1>8, <2>1 DEF ReadAnswer, HasLine, Exchanges
  <2>3. PICK line \in Answers(c) : outbox[h] = <<line>>
    BY <1>8, <2>1 DEF ReadAnswer, HasLine, Exchanges
  <2>4. Line(h)[1] \in {"text", "error"}
    BY <2>3, OneLine DEF Line, Answers, Text, Failed
  <2>5. /\ pc' = [pc EXCEPT ![c] = "answered"] /\ broken' = broken
        /\ TakeLine(h) /\ stdin' = h /\ stdout' = h
    BY <1>8, <2>1, <2>4 DEF ReadAnswer, Goto, handleVars
  <2>6. Quiet(h)'
    BY <2>2, <2>3, <2>5, OneLine, Handles DEF TakeLine, Quiet
  <2>7. (Wired /\ Quiet(stdin))'
    BY <2>5, <2>6 DEF Wired, Quiet
  <2>8. pc'[c] = "answered"
    BY <1>1, <2>5 DEF SidecarTypes, SidecarTypeOK
  <2>9. Prepared(c)'
    BY <2>8 DEF Prepared
  <2> QED BY <1>2, <2>5, <2>7, <2>9, CallMoves
<1>9. ~ReadNothing(c)
  BY <1>3, <1>4 DEF ReadNothing, Prepared, Exchanges, AtEof
<1>10. CASE RequestTimeout(c) \/ CancelRequest(c)
  <2>1. pc' = [pc EXCEPT ![c] = "take"] /\ broken' = broken
    BY <1>10 DEF RequestTimeout, CancelRequest, BeginShutdown, Goto
  <2>2. pc'[c] = "take"
    BY <1>1, <2>1 DEF SidecarTypes, SidecarTypeOK
  <2>3. Prepared(c)'
    BY <2>2 DEF Prepared
  <2> QED BY <1>2, <2>1, <2>3, CallMoves
<1> QED BY <1>5, <1>6, <1>7, <1>8, <1>9, <1>10 DEF RequestStep

(***************************************************************************)
(* The loops, with no call at work.                                        *)
(***************************************************************************)

(* Another loop goes on to give the helper up. *)
LEMMA OtherStops ==
    ASSUME SidecarTypes, NEW l \in Loops, NEW label, pc' = [pc EXCEPT ![l] = label],
           NEW k \in Loops, Stopping(k), k /= l
    PROVE  Rested'
<1>1. pc'[k] = pc[k]
  BY ActorKinds DEF SidecarTypes, SidecarTypeOK
<1> QED BY <1>1 DEF Rested, Stopping

(* The write of a ping to a helper that is ready. *)
LEMMA SoloHealthTick ==
    ASSUME SidecarTypes, SidecarTypes', Solo, NEW g \in Helpers, HealthTick(g),
           met' = {}
    PROVE  Solo'
<1> DEFINE l == HealthLoop(g)
<1>1. l \in Loops /\ l \in Actors /\ NoCallBusy
  BY ActorKinds, EntersAlone DEF HealthTick
<1>2. PICK label : pc' = [pc EXCEPT ![l] = label]
  BY DEF HealthTick, Goto
<1>3. CASE \E k \in Loops : Stopping(k)
  <2>1. ~Stopping(l)
    BY DEF HealthTick, Stopping, ShutdownLabels
  <2>2. Rested'
    BY <1>1, <1>2, <1>3, <2>1, OtherStops
  <2> QED BY <1>1, <1>2, <2>2, LoopMoves
<1>4. CASE \A k \in Loops : ~Stopping(k)
  <2>1. \A k \in Loops : ~Pings(k)
    BY DEF HealthTick, RequestLockFree, Pings
  <2>2. Wired /\ Quiet(stdin)
    BY <1>1, <1>4, <2>1 DEF Solo, Rested, HealthTick
  <2>3. PICK h \in Helpers : h = stdin /\ h = stdout /\ Quiet(h)
    BY <2>2 DEF Wired
  <2>4. /\ Write(h, Ping) /\ pc' = [pc EXCEPT ![l] = "pingOpen"]
        /\ stdin' = h /\ stdout' = h
    BY <2>3, Handles DEF HealthTick, CanWrite, Quiet, Goto, handleVars
  <2>5. inbox'[h] = <<Ping>> /\ outbox'[h] = <<>> /\ h \in alive'
    BY <2>3, <2>4, OneLine, Handles DEF Write, Quiet
  <2>6. Pings(l)'
    BY <1>1, <2>4 DEF Pings, SidecarTypes, SidecarTypeOK
  <2>7. (Wired /\ Exchanges(stdin, Ping, {Pong}))'
    BY <2>4, <2>5 DEF Wired, Exchanges
  <2>8. Rested'
    BY <1>1, <2>6, <2>7 DEF Rested
  <2> QED BY <1>1, <2>4, <2>8, LoopMoves
<1> QED BY <1>3, <1>4

(* A ping goes to its Pong, or the helper is given up. *)
LEMMA SoloPing ==
    ASSUME SidecarTypes, SidecarTypes', OnePings, Solo, NEW l \in Loops, PingStep(l)
    PROVE  Solo'
<1>1. l \in Actors /\ l \in Busy /\ NoCallBusy
  <2>1. l \in Actors /\ l \in Busy
    BY ActorKinds
       DEF PingStep, PingOpen, PingRead, PingTimeout, PingFailed, Busy
  <2> QED BY <2>1, BusyAlone
<1>2. Rested
  BY <1>1 DEF Solo
<1>3. ASSUME pc' = [pc EXCEPT ![l] = "pingFailed"]
      PROVE  Solo'
  <2>1. Stopping(l)'
    BY <1>1, <1>3 DEF Stopping, SidecarTypes, SidecarTypeOK
  <2>2. Rested'
    BY <2>1 DEF Rested
  <2> QED BY <1>1, <1>3, <2>2, LoopMoves
<1>4. CASE PingFailed(l)
  <2>1. pc' = [pc EXCEPT ![l] = "sleep"] /\ ~healthy'
    BY <1>4 DEF PingFailed, Goto
  <2>2. Rested'
    BY <2>1 DEF Rested
  <2> QED BY <1>1, <2>1, <2>2, LoopMoves
<1>5. CASE PingTimeout(l)
  BY <1>3, <1>5 DEF PingTimeout, PingFails, Goto
<1>6. ASSUME PingOpen(l) \/ PingRead(l), NEW label \in {"pingRead", "sleep"},
             pc' = [pc EXCEPT ![l] = label],
             (Wired /\ Exchanges(stdin, Ping, {Pong})) =>
                IF label = "sleep" THEN (Wired /\ Quiet(stdin))'
                ELSE (Wired /\ Exchanges(stdin, Ping, {Pong}))'
      PROVE  Solo'
  <2>1. Pings(l) /\ ~Stopping(l) /\ healthy' = healthy
    BY <1>6
       DEF PingOpen, PingRead, Pings, Stopping, ShutdownLabels, stateVars
  <2>2. pc'[l] = label /\ \A k \in Loops \ {l} : pc'[k] = pc[k] /\ ~Pings(k)
    BY <1>1, <1>6, <2>1, ActorKinds DEF OnePings, SidecarTypes, SidecarTypeOK
  <2>3. CASE \E k \in Loops : Stopping(k)
    <3>1. Rested'
      BY <1>6, <2>1, <2>3, OtherStops
    <3> QED BY <1>1, <1>6, <3>1, LoopMoves
  <2>4. CASE ~healthy
    <3>1. Rested'
      BY <2>1, <2>4 DEF Rested
    <3> QED BY <1>1, <1>6, <3>1, LoopMoves
  <2>5. CASE healthy /\ \A k \in Loops : ~Stopping(k)
    <3>1. Wired /\ Exchanges(stdin, Ping, {Pong})
      BY <1>2, <2>1, <2>5 DEF Rested
    <3>2. CASE label = "sleep"
      <4>1. \A k \in Loops : ~Pings(k)'
        BY <2>2, <3>2 DEF Pings
      <4>2. Rested'
        BY <1>6, <3>1, <3>2, <4>1 DEF Rested
      <4> QED BY <1>1, <1>6, <4>2, LoopMoves
    <3>3. CASE label = "pingRead"
      <4>1. Pings(l)'
        BY <2>2, <3>3 DEF Pings
      <4>2. Rested'
        BY <1>6, <3>1, <3>3, <4>1 DEF Rested
      <4> QED BY <1>1, <1>6, <4>2, LoopMoves
    <3> QED BY <3>2, <3>3
  <2> QED BY <2>3, <2>4, <2>5
<1>7. CASE PingOpen(l)
  <2>1. CASE stdout /= NONE
    <3>1. /\ pc' = [pc EXCEPT ![l] = "pingRead"]
          /\ UNCHANGED <<helperVars, handleVars>>
      BY <1>7, <2>1 DEF PingOpen, Goto
    <3>2. (Wired /\ Exchanges(stdin, Ping, {Pong})) =>
             (Wired /\ Exchanges(stdin, Ping, {Pong}))'
      BY <3>1 DEF Wired, Exchanges, helperVars, handleVars
    <3> QED BY <1>6, <1>7, <3>1, <3>2
  <2>2. CASE stdout = NONE
    BY <1>3, <1>7, <2>2 DEF PingOpen, PingFails, Goto
  <2> QED BY <2>1, <2>2
<1>8. CASE PingRead(l)
  <2>1. CASE /\ HasLine(stdout) /\ TakeLine(stdout) /\ Line(stdout) = Pong
             /\ pc' = [pc EXCEPT ![l] = "sleep"]
    <3>1. ASSUME Wired, Exchanges(stdin, Ping, {Pong})
          PROVE  (Wired /\ Quiet(stdin))'
      <4>1. PICK h \in Helpers :
               h = stdin /\ h = stdout /\ Exchanges(h, Ping, {Pong})
        BY <3>1 DEF Wired
      <4>2. inbox[h] = <<>> /\ outbox[h] = <<Pong>> /\ h \in alive
        BY <2>1, <4>1 DEF Exchanges, HasLine
      <4>3. TakeLine(h) /\ stdin' = h /\ stdout' = h
        BY <1>8, <2>1, <4>1 DEF PingRead, handleVars
      <4>4. Quiet(h)'
        BY <4>2, <4>3, OneLine, Handles DEF TakeLine, Quiet
      <4> QED BY <4>3, <4>4 DEF Wired, Quiet
    <3> QED BY <1>6, <1>8, <2>1, <3>1
  <2>2. CASE pc' = [pc EXCEPT ![l] = "pingFailed"]
    BY <1>3, <2>2
  <2> QED BY <1>8, <2>1, <2>2 DEF PingRead, PingFails, Goto
<1> QED BY <1>4, <1>5, <1>7, <1>8 DEF PingStep

(* The idle loop begins to stop the helper. *)
LEMMA SoloIdleTick ==
    ASSUME SidecarTypes, SidecarTypes', Solo, NEW g \in Helpers, IdleTick(g),
           met' = {}
    PROVE  Solo'
<1>1. /\ IdleLoop(g) \in Loops /\ IdleLoop(g) \in Actors /\ NoCallBusy
      /\ pc' = [pc EXCEPT ![IdleLoop(g)] = "take"]
  BY ActorKinds, EntersAlone DEF IdleTick, BeginShutdown, Goto
<1>2. Stopping(IdleLoop(g))'
  BY <1>1 DEF Stopping, ShutdownLabels, SidecarTypes, SidecarTypeOK
<1>3. Rested'
  BY <1>1, <1>2 DEF Rested
<1> QED BY <1>1, <1>3, LoopMoves

(***************************************************************************)
(* The invariant.                                                          *)
(***************************************************************************)
LEMMA FailuresStart ==
    ASSUME SidecarInit
    PROVE  FailureInv
<1>1. /\ \A c \in Calls : pc[c] = "idle"
      /\ \A l \in Loops : pc[l] = "sleep"
  BY ActorKinds DEF SidecarInit
<1>2. OnePings /\ Unborn
  BY <1>1 DEF OnePings, Pings, Unborn, SidecarInit, HelperInit
<1>3. Solo
  BY <1>1 DEF Solo, WorksAlone, Busy, Prepared, Rested, SidecarInit
<1> QED BY <1>2, <1>3 DEF FailureInv, SidecarInit

(* Who has met has met, and who has failed has failed. *)
LEMMA AloneBefore ==
    ASSUME [SidecarNext]_sidecarVars, Untroubled'
    PROVE  Untroubled /\ met' = {}
<1>1. \A a \in Actors : Enters(a) => met \subseteq met'
  BY DEF Enters
<1>2. met \subseteq met'
  BY <1>1, ActorKinds
     DEF SidecarNext, ShutdownStep, TakeChild, AwaitExit, EndShutdown, SpawnStep,
         SpawnHelper, SpawnFails, PutChild, PutStdout, PutLoops, RequestStep,
         StartRequest, WriteRequest, OpenStdout, ReadAnswer, ReadNothing,
         RequestTimeout, CancelRequest, AnswerTaken, TokenSet, EnsureRunning,
         HealthTick, IdleTick, IdleTickBusy, PingStep, PingOpen, PingRead,
         PingTimeout, PingFailed, TimePasses, HelperStep, HelperAils,
         sidecarHistory, sidecarVars
<1>3. ailing => ailing'
  BY DEF SidecarNext, ShutdownStep, TakeChild, AwaitExit, EndShutdown, SpawnStep,
         SpawnHelper, SpawnFails, PutChild, PutStdout, PutLoops, RequestStep,
         StartRequest, WriteRequest, OpenStdout, ReadAnswer, ReadNothing,
         RequestTimeout, CancelRequest, AnswerTaken, TokenSet, EnsureRunning,
         HealthTick, IdleTick, IdleTickBusy, PingStep, PingOpen, PingRead,
         PingTimeout, PingFailed, TimePasses, HelperStep, HelperAils,
         sidecarHistory, sidecarVars
<1> QED BY <1>2, <1>3 DEF Untroubled

(* While nobody has met and no helper has failed, a step is one of those   *)
(* above.                                                                  *)
LEMMA SoloStep ==
    ASSUME SidecarTypes, OnePings, Unborn, Untroubled, Solo, broken = {},
           [SidecarNext]_sidecarVars, Untroubled'
    PROVE  Solo' /\ broken' = {}
<1>1. SidecarTypes' /\ met' = {}
  BY SidecarTypesStep, AloneBefore
<1>2. ASSUME NEW a \in Actors, ShutdownStep(a)
      PROVE  Solo' /\ broken' = broken
  <2>1. broken' = broken
    BY <1>2
       DEF ShutdownStep, TakeChild, AwaitExit, EndShutdown, sidecarHistory
  <2> QED BY <1>1, <1>2, <2>1, SoloShutdown
<1>3. ASSUME NEW c \in Calls, SpawnStep(c)
      PROVE  Solo' /\ broken' = broken
  <2>1. broken' = broken
    BY <1>3
       DEF SpawnStep, SpawnHelper, SpawnFails, PutChild, PutStdout, PutLoops,
           sidecarHistory
  <2> QED BY <1>1, <1>3, <2>1, SoloSpawn
<1>4. ASSUME NEW c \in Calls, RequestStep(c)
      PROVE  Solo' /\ broken' = broken
  BY <1>1, <1>4, SoloRequest
<1>5. ASSUME NEW c \in Calls, NEW m \in BuiltinModels, EnsureRunning(c, m)
      PROVE  Solo' /\ broken' = broken
  BY <1>1, <1>5, SoloEntry DEF EnsureRunning
<1>6. ASSUME NEW g \in Helpers, HealthTick(g) \/ IdleTick(g)
      PROVE  Solo' /\ broken' = broken
  BY <1>1, <1>6, SoloHealthTick, SoloIdleTick DEF HealthTick, IdleTick
<1>7. ASSUME NEW l \in Loops, PingStep(l)
      PROVE  Solo' /\ broken' = broken
  <2>1. broken' = broken
    BY <1>7
       DEF PingStep, PingOpen, PingRead, PingTimeout, PingFailed, sidecarHistory
  <2> QED BY <1>1, <1>7, <2>1, SoloPing
<1>8. ASSUME NEW h \in Helpers, HelperStep(h)
      PROVE  Solo' /\ broken' = broken
  BY <1>8, HelperMoves DEF HelperStep, sidecarHistory
<1>9. CASE \/ \E c \in Calls : AnswerTaken(c) \/ TokenSet(c)
           \/ \E g \in Helpers : IdleTickBusy(g)
           \/ TimePasses \/ UNCHANGED sidecarVars
  BY <1>9, PipesRest
     DEF AnswerTaken, TokenSet, IdleTickBusy, TimePasses, sidecarVars,
         handleVars, stateVars, sidecarHistory
<1>10. ~ \E h \in Helpers : HelperAils(h)
  BY DEF HelperAils, Untroubled
<1> QED BY <1>2, <1>3, <1>4, <1>5, <1>6, <1>7, <1>8, <1>9, <1>10 DEF SidecarNext

(* Every step of the manager keeps the invariant. *)
LEMMA FailuresStep ==
    ASSUME SidecarTypes, FailureInv, [SidecarNext]_sidecarVars
    PROVE  FailureInv'
BY OnePingsStep, UnbornStep, AloneBefore, SoloStep DEF FailureInv

=============================================================================
