SPECIFICATION PartsSpec
CONSTANTS
  NSlots = 4
  Cpus = {c1, c2}
  MaxNice = 1
  Idle = Idle
  CPUs = {c1}
  NPROC = 3
  SLocks = {s1}
  PTable = PTable
  NoProc = NoProc
  NoCPU = NoCPU
  Readers = {r1, r2}
  INPUT_BUF = 2
  WRAP = 4
  MaxAsked = 2
  Threads = {t1, t2}
  QMAX = 2
  NULL = NULL
INVARIANTS
  OneCpuEach
  ReaderAwake
  MutexOwned
PROPERTIES
  NicestScheduled
  RunnableRuns
  SleeperWoken
  ImplementsLineQueue
CHECK_DEADLOCK FALSE
