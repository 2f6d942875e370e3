------------------------ MODULE MCRecordingLifecycle ------------------------
(* Instances of RecordingLifecycle for TLC. *)
EXTENDS RecordingLifecycle, TLC

(* Meeting ids are interchangeable; used where only invariants are checked. *)
MeetingSymmetry == Permutations(Meetings)

=============================================================================
