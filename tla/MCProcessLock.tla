--------------------------- MODULE MCProcessLock ---------------------------
(* Two processes, two process_mutex objects and two guards in each.          *)
EXTENDS ProcessLock, TLC

Symmetric ==
  Permutations(Process) \cup Permutations(Object) \cup Permutations(Guard)
=============================================================================
