SPECIFICATION Spec
CONSTANTS
  p1 = p1
  p2 = p2
  p3 = p3
  f1 = f1
  f2 = f2
  f3 = f3
  f4 = f4
  Zero = Zero
  Junk = Junk
  NoFrame = NoFrame
  Procs = {p1, p2, p3}
  Frames = {f1, f2, f3, f4}
  MaxPages = 2
  Values = {Zero, Junk}
  ShrinkShared = FALSE
INVARIANTS
  TypeOK
  CountsRight
  MappedNotFree
  WritableUnshared
PROPERTY ImplementsPrivateMemory
CHECK_DEADLOCK FALSE
SYMMETRY Symmetry
