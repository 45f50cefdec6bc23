--------------------------- MODULE SleepLockMC ---------------------------
(* Instances of SleepLock for TLC. *)
EXTENDS SleepLock, TLC

\* Slots are ordered by the scheduler's scan; CPUs and locks are not.
Symmetry == Permutations(CPUs) \cup Permutations(SLocks)
==========================================================================
