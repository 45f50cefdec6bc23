SPECIFICATION FairSpec
CONSTANTS
  Procs = {p1, p2}
  Bufs = {b1, b2}
  NBlocks = 3
  Values = {0, 1}
  Blank = 0
  MaxHeld = 2
  MaxPinned = 1
  Nobody = Nobody
  NoBuf = NoBuf
INVARIANTS
  RightBlock
  QueueRight
  OnlyWhenFull
PROPERTIES
  ImplementsBlockStore
  RequestsServed
