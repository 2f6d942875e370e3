-------------------------- MODULE RecordingSession --------------------------
(***************************************************************************)
(* What the recording service promises, without its mechanism: recordings  *)
(* are serial, a meeting id is used for one recording only, and the        *)
(* transcript rows kept for a meeting are that meeting's own segments,     *)
(* written while its recording is live and never afterwards.               *)
(*                                                                         *)
(* RecordingLifecycle implements this specification (see the refinement    *)
(* property SerialSessions there).                                         *)
(***************************************************************************)
EXTENDS Naturals

CONSTANTS
    Meetings,    \* meeting ids (uuids minted by start())
    MaxChunks    \* bound: speech segments cut from one recording

VARIABLES
    live,        \* the recordings in progress
    past,        \* the recordings that are over
    book         \* book[m]: transcript segments kept for meeting m

vars == <<live, past, book>>

(* A segment is identified by the recording it was cut from and its place. *)
Segments == Meetings \X (1..MaxChunks)

Init ==
    /\ live = {}
    /\ past = {}
    /\ book = [m \in Meetings |-> {}]

Begin(m) ==
    /\ live = {}
    /\ m \notin past
    /\ live' = {m}
    /\ UNCHANGED <<past, book>>

Keep(m, s) ==
    /\ m \in live
    /\ s[1] = m
    /\ book' = [book EXCEPT ![m] = @ \cup {s}]
    /\ UNCHANGED <<live, past>>

End ==
    /\ live # {}
    /\ past' = past \cup live
    /\ live' = {}
    /\ UNCHANGED book

Next ==
    \/ \E m \in Meetings : Begin(m)
    \/ \E m \in Meetings, s \in Segments : Keep(m, s)
    \/ End

Spec == Init /\ [][Next]_vars

=============================================================================
