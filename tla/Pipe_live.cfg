SPECIFICATION FairSpec
CONSTANTS
  Readers = {r1, r2}
  Writers = {w1}
  PIPESIZE = 1
  WRAP = 2
  MaxCount = 1
  Nobody = Nobody
CHECK_DEADLOCK FALSE
PROPERTIES PipeClosedUnblocks
