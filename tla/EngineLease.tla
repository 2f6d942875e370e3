---------------------------- MODULE EngineLease ----------------------------
(***************************************************************************)
(* The live-transcription lease of meetily-core:                           *)
(* whisper_engine/lease.rs.  Consumers of a live recording hold a guard    *)
(* each; a batch job that wants to change the loaded model waits until no  *)
(* guard is left.  The module gives the lease's state and operations, and  *)
(* EngineSharing says who calls them and when.                             *)
(*                                                                         *)
(* tokio's Notify is external: notified() enrols the future at once, and   *)
(* notify_waiters() completes every future enrolled so far.                *)
(***************************************************************************)
EXTENDS Naturals

CONSTANT Waiters     \* batch jobs that may call wait_until_free

VARIABLES
    count,      \* EngineLease.count
    enrolled,   \* waiters whose notified() future exists and is pending
    notified    \* waiters whose future notify_waiters() has completed

leaseVars == <<count, enrolled, notified>>

LeaseInit == count = 0 /\ enrolled = {} /\ notified = {}

LeaseTypeOK ==
    /\ count \in Nat
    /\ enrolled \subseteq Waiters
    /\ notified \subseteq Waiters

(* Mutant: the partial worker's guard is taken for the only one. *)
IsLeasedTwice == count > 1

IsLiveLeased == count > 0

(* Mutant: the guard is handed out without the increment. *)
AcquireNothing == UNCHANGED leaseVars

(* acquire_live: the guard is one increment. *)
AcquireLive == count' = count + 1 /\ UNCHANGED <<enrolled, notified>>

(* Drop: the decrement; the one that finds 1 goes on to NotifyWaiters. *)
DropGuard == count' = count - 1 /\ UNCHANGED <<enrolled, notified>>

(* Mutant: fetch_sub's result is taken for the count after it. *)
LastGuardByNewCount == count = 0

LastGuard == count = 1

NotifyWaiters ==
    /\ notified' = notified \cup enrolled
    /\ enrolled' = {}
    /\ UNCHANGED count

(* wait_until_free, one turn of its loop: the future is made first ... *)
Enrol(j) ==
    /\ enrolled' = enrolled \cup {j}
    /\ notified' = notified \ {j}
    /\ UNCHANGED count

(* ... the lease is read again, and a future no longer needed is dropped. *)
Unenrol(j) ==
    /\ enrolled' = enrolled \ {j}
    /\ notified' = notified \ {j}
    /\ UNCHANGED count
============================================================================
