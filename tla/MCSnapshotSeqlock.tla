------------------------- MODULE MCSnapshotSeqlock -------------------------
EXTENDS SnapshotSeqlock

MCSlots == 1 .. 2
(* One array that is long enough and one that is too short. *)
MCBufferSizes == {-1, 0}
=============================================================================
