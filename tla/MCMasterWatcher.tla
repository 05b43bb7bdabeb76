--------------------------- MODULE MCMasterWatcher ---------------------------
(* Two replicas of the master watcher, as during a deploy overlap.           *)
EXTENDS MasterWatcher, TLC

CONSTANTS r1, r2

TwoReplicas == {r1, r2}
Symmetry    == Permutations(TwoReplicas)
=============================================================================
