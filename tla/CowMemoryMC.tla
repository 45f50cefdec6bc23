---------------------------- MODULE CowMemoryMC ----------------------------
(* CowMemory for TLC: processes and frames are interchangeable.            *)
EXTENDS CowMemory, TLC

Symmetry == Permutations(Procs) \cup Permutations(Frames)
============================================================================
