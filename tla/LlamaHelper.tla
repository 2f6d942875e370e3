---------------------------- MODULE LlamaHelper ----------------------------
(***************************************************************************)
(* The llama-helper child process: llama-helper/src/main.rs, with the      *)
(* request and response lines of llama-protocol and the two pipes that     *)
(* carry them.                                                             *)
(*                                                                         *)
(* The helper reads one line at a time and answers it before it reads the  *)
(* next, so what is in its pipes is a queue of requests and a queue of     *)
(* answers.  A request or an answer is its kind and the call it is for.    *)
(* Chunk lines, which precede an answer and go where it goes, are part of  *)
(* it.  Which ends of the pipes are open is the parent's affair: Sidecar   *)
(* passes it in.                                                           *)
(***************************************************************************)
EXTENDS Naturals, Sequences, BuiltinCatalog

CONSTANTS
    Helpers,   \* the processes, in the order of their spawns
    Calls      \* requests for a generation

VARIABLES
    alive,     \* processes that run
    stuck,     \* of these, the ones that do not get through a generation
    inbox,     \* lines written to each stdin and not read yet
    outbox     \* lines written to each stdout and not read yet

helperVars == <<alive, stuck, inbox, outbox>>

Generate(c) == <<"generate", c>>
Ping == <<"ping", NONE>>
Shutdown == <<"shutdown", NONE>>

Text(c) == <<"text", c>>
Failed(c) == <<"error", c>>
Pong == <<"pong", NONE>>
Goodbye == <<"goodbye", NONE>>

HelperInit ==
    /\ alive = {} /\ stuck = {}
    /\ inbox = [h \in Helpers |-> <<>>]
    /\ outbox = [h \in Helpers |-> <<>>]

HelperTypeOK ==
    /\ alive \subseteq Helpers /\ stuck \subseteq Helpers
    /\ inbox \in [Helpers -> Seq({"generate", "ping", "shutdown"}
                                 \X (Calls \cup {NONE}))]
    /\ outbox \in [Helpers -> Seq({"text", "error", "pong", "goodbye"}
                                  \X (Calls \cup {NONE}))]

(* A line is written; a pipe nobody reads from any more refuses it. *)
CanWrite(h) == h \in alive
Write(h, line) ==
    /\ inbox' = [inbox EXCEPT ![h] = Append(@, line)]
    /\ UNCHANGED <<alive, stuck, outbox>>

HasLine(h) == outbox[h] # <<>>
AtEof(h) == outbox[h] = <<>> /\ h \notin alive
Line(h) == Head(outbox[h])
TakeLine(h) ==
    /\ outbox' = [outbox EXCEPT ![h] = Tail(@)]
    /\ UNCHANGED <<alive, stuck, inbox>>

(* The reading end is dropped, with what is in the pipe. *)
CloseStdout(h) ==
    /\ outbox' = IF h = NONE THEN outbox ELSE [outbox EXCEPT ![h] = <<>>]
    /\ UNCHANGED <<alive, stuck, inbox>>

Launch(h) == alive' = alive \cup {h} /\ UNCHANGED <<stuck, inbox, outbox>>

(* The process is gone; what it wrote can still be read. *)
Terminate(h) ==
    /\ alive' = alive \ {h}
    /\ stuck' = stuck \ {h}
    /\ inbox' = [inbox EXCEPT ![h] = <<>>]
    /\ UNCHANGED outbox

Say(h, line) ==
    /\ inbox' = [inbox EXCEPT ![h] = Tail(@)]
    /\ outbox' = [outbox EXCEPT ![h] = Append(@, line)]
    /\ UNCHANGED <<alive, stuck>>

(* load_model_if_needed and generate succeed, or one of them fails: which, *)
(* is left open.                                                           *)
Answers(c) == {Text(c), Failed(c)}

(* One turn of the main loop, for a request that leaves it running. *)
Serve(h, request, line) ==
    /\ h \in alive \ stuck
    /\ inbox[h] # <<>> /\ Head(inbox[h]) = request
    /\ Say(h, line)

(* The turn for a shutdown request: Goodbye, and the loop is left. *)
ServeShutdown(h) ==
    /\ h \in alive \ stuck
    /\ inbox[h] # <<>> /\ Head(inbox[h]) = Shutdown
    /\ alive' = alive \ {h}
    /\ inbox' = [inbox EXCEPT ![h] = <<>>]
    /\ outbox' = [outbox EXCEPT ![h] = Append(@, Goodbye)]
    /\ UNCHANGED stuck

(* read_line returns 0: every line is read and the other end is closed. *)
ReadEof(h) ==
    /\ h \in alive \ stuck
    /\ inbox[h] = <<>>
    /\ Terminate(h)

(* An answer to a stdout nobody holds any more: SIGPIPE, restored to its   *)
(* default, ends the process.                                              *)
BreakPipe(h) ==
    /\ h \in alive \ stuck
    /\ inbox[h] # <<>>
    /\ Terminate(h)

(* The process is killed by the system, or fails inside the library. *)
Crash(h) == h \in alive /\ Terminate(h)

(* A generation that does not come to its end. *)
Stick(h) ==
    /\ h \in alive \ stuck
    /\ inbox[h] # <<>> /\ Head(inbox[h])[1] = "generate"
    /\ stuck' = stuck \cup {h}
    /\ UNCHANGED <<alive, inbox, outbox>>
============================================================================
