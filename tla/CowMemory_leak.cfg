SPECIFICATION Spec
CONSTANTS
  p1 = p1
  p2 = p2
  f1 = f1
  f2 = f2
  f3 = f3
  f4 = f4
  Zero = Zero
  Junk = Junk
  NoFrame = NoFrame
  Procs = {p1, p2}
  Frames = {f1, f2, f3, f4}
  MaxPages = 2
  Values = {Zero, Junk}
  ShrinkShared = FALSE
INVARIANTS
  NoLeak
CHECK_DEADLOCK FALSE
