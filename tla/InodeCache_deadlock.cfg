SPECIFICATION Spec
CONSTANTS
  Procs = {p1, p2}
  p1 = p1
  p2 = p2
  NInodes = 3
  Names = {"a"}
  Paths <- NearPaths
  Files = {f1}
  NoFile = NoFile
  Nobody = Nobody
  RemoveInUse = FALSE
INVARIANT NoDeadlock
CHECK_DEADLOCK FALSE
