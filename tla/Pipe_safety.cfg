SPECIFICATION Spec
CONSTANTS
  Readers = {r1}
  Writers = {w1, w2}
  PIPESIZE = 2
  WRAP = 4
  MaxCount = 2
  Nobody = Nobody
CHECK_DEADLOCK FALSE
INVARIANTS PipeNoLostWakeup NotFreedInUse
PROPERTIES ImplementsChannel
