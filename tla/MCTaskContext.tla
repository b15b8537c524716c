--------------------------- MODULE MCTaskContext ---------------------------
(* TaskContext on small sets of threads. *)
EXTENDS TaskContext, TLC

ThreadSymmetry == Permutations(Workers) \cup Permutations(Clients)
=============================================================================
