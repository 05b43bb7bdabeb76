-------------------------- MODULE MCCopyExecution --------------------------
(***************************************************************************)
(* Small instances of CopyExecution for TLC.                               *)
(***************************************************************************)
EXTENDS CopyExecution, TLC

CONSTANTS w1, w2

TwoWorkers == {w1, w2}
OneWorker  == {w1}
Symmetry   == Permutations(TwoWorkers)

LongShort == {-1, 1}        \* a master that reverses
UpDown    == {0, 1, 2}      \* a master that opens, grows, shrinks and closes
OpenClose == {0, 1}
Deep      == {-2, -1, 0, 1, 2}
=============================================================================
