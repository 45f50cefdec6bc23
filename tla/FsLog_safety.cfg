SPECIFICATION Spec
CONSTANTS
  Procs = {p1, p2}
  p1 = p1
  p2 = p2
  Blocks = {b1, b2, b3, b4}
  b1 = b1
  b2 = b2
  b3 = b3
  b4 = b4
  Values = {old, new}
  old = old
  new = new
  Blank = old
  NotCached = NotCached
  NoBlock = NoBlock
  MAXOPBLOCKS = 2
  LOGSIZE = 4
  LogBlocks = 5
INVARIANTS
  LogFits
  QuietIsDurable
  SleeperHasWaker
PROPERTIES
  FirstWritesFit
  ImplementsAtomicDisk
SYMMETRY Symmetry
