----------------------------- MODULE MCSsuSync -----------------------------
(* Instances of SsuSync for TLC. *)
EXTENDS SsuSyncInvariant, TLC

SyncOutcomes == {Successful, 401}
SyncSucceeds == {Successful}
NoOutcome    == {}

JobSymmetry == Permutations(Jobs)
=============================================================================
