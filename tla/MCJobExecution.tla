--------------------------- MODULE MCJobExecution ---------------------------
(* JobExecution for TLC: the processes are interchangeable. *)
EXTENDS JobExecution, TLC

WorkerSymmetry == Permutations(Workers)
=============================================================================
