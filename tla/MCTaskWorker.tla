---------------------------- MODULE MCTaskWorker ----------------------------
(* Small instances of TaskWorker for TLC.                                  *)
EXTENDS TaskWorker, TLC

CONSTANTS w1, w2

OneTask == {1}
TwoTasks == 1..2
LoopSymmetry == Permutations(LoopWorkers)
=============================================================================
