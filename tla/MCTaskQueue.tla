---------------------------- MODULE MCTaskQueue ----------------------------
(* Small instances of TaskQueue for TLC. *)
EXTENDS TaskQueue, TLC
TaskSymmetry == Permutations(Tasks)
=============================================================================
