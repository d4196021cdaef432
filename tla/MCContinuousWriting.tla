------------------------- MODULE MCContinuousWriting -------------------------
(* Model instances of ContinuousWriting.                                     *)
EXTENDS ContinuousWriting, TLC

FiveTasks == 1..5
SixTasks == 1..6
SevenTasks == 1..7

WorkerSymmetry == Permutations(Workers)
=============================================================================
