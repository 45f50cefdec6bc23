------------------------------ MODULE FsLogMC ------------------------------
(* FsLog for TLC: processes and blocks are interchangeable.                *)
EXTENDS FsLog, TLC

Symmetry == Permutations(Procs) \cup Permutations(Blocks)
============================================================================
