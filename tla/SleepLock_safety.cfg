SPECIFICATION Spec
CONSTANTS
  CPUs = {c1, c2}
  NPROC = 3
  SLocks = {s1, s2}
  PTable = PTable
  NoProc = NoProc
  NoCPU = NoCPU
SYMMETRY Symmetry
INVARIANTS Exclusion NoLostWakeup OneStack NoPanic InterruptsOn
PROPERTY ImplementsMutex
