---------------------------- MODULE MCTaskRuntime ---------------------------
(* Small instances of TaskRuntime for TLC.                                 *)
EXTENDS TaskRuntime, TLC

CONSTANTS w1, w2

TwoTasks == 1..2
WorkerSymmetry == Permutations(Workers)
=============================================================================
