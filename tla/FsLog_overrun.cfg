SPECIFICATION Spec
CONSTANTS
  Procs = {p1, p2, p3}
  p1 = p1
  p3 = p3
  p2 = p2
  Blocks = {b1, b2, b3}
  b1 = b1
  b2 = b2
  b3 = b3
  Values = {old, new}
  old = old
  new = new
  Blank = old
  NotCached = NotCached
  NoBlock = NoBlock
  MAXOPBLOCKS = 1
  LOGSIZE = 3
  LogBlocks = 3
INVARIANT LogFits
