SPECIFICATION Spec
CONSTANTS
  NSlots = 4
  MaxPid = 5
  MaxPgdirs = 4
  MaxThreads = 2
INVARIANTS
  ParentAlive
  WaiterAwake
  CreatorAwake
  PgdirsRight
PROPERTY
  ImplementsProcTree
CHECK_DEADLOCK FALSE
