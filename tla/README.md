# Verification of the xv6 coursework kernels

The repository holds seven copies of the xv6 teaching kernel, `project0` (the
base) to `project6`, each with one assignment added: process names (0),
niceness (1), kernel threads (2), threads with mutexes and condition variables
(3), a priority scheduler (4), stack growth on page faults (5), copy on write
(6).  The base files that the models below translate are the same, byte for
byte, in projects 0 and 6; the models cite project 6 for them and the project
that owns an assignment for its code.

## Inventory

| component | code | state | operations | what is hard | what makes it correct |
|---|---|---|---|---|---|
| spin locks | `project6/spinlock.c` | `locked`, `cpu`; per CPU `ncli`, `intena`, IF | acquire, release, holding, pushcli, popcli | interrupts against lock holders, nesting across a context switch | no panic of acquire, release, popcli; interrupts come back on |
| context switch and scheduler | `project6/proc.c`, `trap.c`, `swtch.S` | `state`, `chan`, `cpu->proc`, ptable.lock | scheduler, sched, yield, sleep, wakeup, kill, timer tick | ptable.lock handed over through swtch; sleep against wakeup | one CPU per stack, no lost wakeup, no RUNNABLE process starves |
| sleep locks | `project6/sleeplock.c` | `locked`, `pid` | acquiresleep, releasesleep | several waiters, spurious wakeups | exclusion |
| pipes | `project6/pipe.c`, `file.c` | ring buffer, free-running counters, open ends | pipewrite, piperead, pipeclose | counters wrap, sleepers on both sides, kill, close | FIFO, no lost wakeup, calls return after close |
| processes | `project6/proc.c` | the process table | allocproc, fork, exit, wait, kill | slots recycled while others look at them, orphans | every zombie reaped once, kill hits only its target |
| threads | `project3/proc.c` | `tid`, `tcnt`, shared `pgdir` | thread_create, thread_exit, thread_join | shared page table, ids, join by others | no page table freed in use, ids distinct, join returns |
| user mutexes and conditions | `project3/synch.c` | `lock`, `current`, queues | mutex_lock, mutex_unlock, cond_wait, cond_signal | unlocked accesses in several steps | exclusion, signals not lost |
| nice scheduler | `project4/proc.c` | `nice` | scheduler, yield, setnice | the scan continues after its choice | nicest first, equals take turns |
| stack growth | `project5/trap.c`, `exec.c`, `vm.c` | pages, guard page, counter | page fault, exec, fork | limits, non-present pages in fork | stack never reaches the guard page |
| copy on write, frames | `project6/vm.c`, `kalloc.c` | reference counts, page tables, free list | copyuvm, PF_handler, allocuvm, deallocuvm, freevm, kalloc, kfree | two sharers faulting together, shrinking, failure half way | count = mappings, no mapped frame is free, no leak |
| log | `project6/log.c` | header, outstanding, committing | begin_op, end_op, log_write, commit, recovery | crash at any disk write, group commit | transactions are atomic and ordered across crashes |
| buffer cache, disk | `project6/bio.c`, `ide.c` | buffers, flags, request queue | bread, bwrite, brelse, iderw, ideintr | recycling against waiters, completion order | one buffer per block, requests complete |
| inodes, directories | `project6/fs.c`, `sysfile.c` | inode cache, links, bitmap | iget, iput, ilock, ialloc, dirlink, link, unlink, create | recycling, unlink against lookup, lock order | references and links counted right, no deadlock |
| file table | `project6/file.c` | reference counts | filealloc, filedup, fileclose | last close against dup | freed once |
| console | `project6/console.c` | input ring r, w, e | consoleintr, consoleread | editing against the wrap | committed input is not lost |
| exec, boot, drivers, traps, syscalls, user programs, mkfs, tests | the rest | | | hardware, start-up, programs outside the kernel | not modelled |

Components interact through the locks of the first three rows, which every
other one uses, through sleep and wakeup channels, and by calls: system calls
reach files, files reach pipes and inodes, inodes reach the log, the log the
buffer cache, the cache the disk driver, whose interrupt wakes the caller.


## Plan

Modules are ordered by how much of the system stands on them.

| module | abstract specification | composes | state |
|---|---|---|---|
| `SleepLock` | `Mutex` | spin locks, scheduler, sleep and wakeup, sleep locks in one module | built, safety and refinement proved |
| `Pipe` | `ByteChannel` | takes from `SleepLock` that sleep releases and sleeps at once | built, safety and refinement proved |
| `CowMemory` | `PrivateMemory` | page tables over the frame allocator | built, safety and refinement proved |
| `ProcTable` | `ProcTree` | processes and threads over page tables | built, safety and refinement proved |
| `NiceSched` | none | takes the hand-over of ptable.lock from `SleepLock` | built, safety proved |
| `FsLog` | `AtomicDisk` | the log over the disk, with the cache's pins | built, safety and refinement proved |
| `BufCache` | `BlockStore` | `bio.c` over `ide.c`, takes sleep locks from `SleepLock`, pins as `FsLog` makes them | built, safety and refinement proved |
| `InodeCache` | none | `fs.c`, `sysfile.c` and the file table over sleep locks | built, safety proved |
| `ConsoleInput` | `LineQueue` | the input ring of the console | built, safety and refinement proved |
| `ThreadSync` | none | `synch.c`, with tsleep and twake | built, safety proved |
| `PartsMC` | | the runs of `NiceSched`, `ConsoleInput`, `ThreadSync` and the liveness of `SleepLock`, side by side | built; the proofs about the first three are in `PartsProofs` |

Proofs still worth doing: every safety property and every refinement that a passing
run checks is proved.  What may still be worth a theorem is smaller: in `InodeCache`,
that whoever takes a second inode's lock outside `link` and `iput` has the parent's
(the order of locks that `fs_deadlock` shows to be incomplete), and in `ThreadSync`
what holds of the queue of a condition.

## Modules, and how they correspond to the code

### SleepLock (spinlock.c, sleeplock.c, proc.c, trap.c)

Every variable is a field or a register: `holder` is `locked` and `cpu` of a
spin lock, `ncli`, `intena`, `ie` belong to a CPU, `cproc` is `cpu->proc`,
`state` and `chan` are those of `struct proc`, `saved` is the local variable
`intena` in a frame of `sched`.  `pc[p]` is the point the process is at; a
process that is not on a CPU keeps in it the point `swtch` returns to.
The actions are the steps between which another CPU or an interrupt can come:
acquire is `AcquireEnter` (pushcli and the panic on holding) and `AcquireTake`
(the successful `xchg`), release is one step, a line of `sleep`, `yield`,
`acquiresleep` or `releasesleep` that touches shared state is one step.  The
scans that run under ptable.lock (`wakeup1`, `kill`) are one step each, the
scheduler's loop one per dispatch.  The panics of the code are guards of the
actions, and `NoPanic` says that no guard of a panic ever stops a step.  The
processes do what a kernel path does with a sleep lock: take it, work, return
it; each has one at a time.  `acquire` and `release` on more nested locks are
covered as far as ptable.lock inside the lock of a sleep lock goes.

`kill` in this module is its effect on scheduling only (a sleeper becomes
RUNNABLE although nothing it waits for has happened); the flag is in `Pipe` and
`ProcTable`.

### Pipe (pipe.c, file.c)

The fields of `struct pipe` by name; `lock` is p->lock.  One action per turn of
a loop of `pipewrite` and `piperead`, since the loops sleep in the middle.  Going
to sleep is two steps, because `kill` runs under ptable.lock and not under p->lock,
so it can fall between the test of `killed` and the sleep.  `WRAP` is 2^32, the
width of the counters.  `CloseEnd` is `fileclose`, and `pipeclose` for the last
reference.

### CowMemory (vm.c, kalloc.c, proc.c and exec.c of project 6)

`ref` is `reference_count`, `free` the free list, `pt` and `writable` the pages of
each process with `PTE_W`.  The spin lock around the counts is not a variable:
a section under it is a step.  `PF_handler` is `Fault`, `FaultCopy`, `FaultCount`,
`FaultMap`, since it drops the lock between reading a count and decrementing it;
`copyuvm` is `ForkMap` and `ForkCount` for every page, since it counts a page after
it has mapped it.  `ForkFail` is the failure of `mappages` in the middle.  Running
out of frames is a real case in `Grow`, `Exec` and `FaultCopy`.

### ProcTable (proc.c of project 3)

The fields of `struct proc` by name, `np` and `want` are locals, `live` is the set of
allocated page tables.  fork and thread_create are `CallFork` or
`CallThreadCreate` (allocproc's section), `Build` or `BuildFails` (outside the lock)
and `Publish`.  wait and thread_join are `...Reap`, `...Sleep`, `...Fails`, each one
scan and what follows it up to the sleep; the same actions are the scan after a wakeup.
`Exit` is exit and thread_exit.  `kill` takes the first slot with the pid, UNUSED ones
included, as the code does.  `threaded` is chosen in the initial states and says
whether the programs use threads: what the repository promises of processes alone is
checked where it is FALSE.

### NiceSched (proc.c of project 4)

`pos` is where the outer loop of a CPU's scheduler stands, which is what makes this
scheduler interesting: the inner loop moves it to the slot it chose.  `Scan` is the
rest of the loop up to the next dispatch.  `yielding` is the gap in `setnice` between
the release of ptable.lock and `yield`.

### FsLog (log.c)

`home`, `logdisk` and `head` are on disk; everything else is lost by `Crash`.  Each
disk write is a step: `WriteLog`, `WriteHead`, `InstallTrans`, `Erase`, in the commit
and, but for the first two, in the recovery.  `Write` is the caller's change of a
buffer and log_write's check of the space, `LogWrite` the section under log.lock after
it; between them others run.  An operation writes up to MAXOPBLOCKS different blocks
(`param.h:10`; `wrote` has them), each as often as it likes.  A caller that meets
log_write's panic keeps its buffer and the machine stops (`panicked`); only a crash
follows.  `Evict` is bget's recycling of a clean buffer.

### BufCache (bio.c, ide.c)

The fields of `struct buf` by name; `owner` is the holder of its sleep lock, `lru` the
list behind `bcache.head`, `idequeue` the driver's queue.  A process is at a point `pc`
of `bread`, `bwrite` or `brelse`: `BgetHit`, `BgetMiss` and `BgetPanic` are the section
under bcache.lock, `BreadLock` is acquiresleep with bread's test of B_VALID,
`IderwAppend` and `IderwAwake` are the two halves of `iderw` around its sleep, `Ideintr`
the interrupt with the transfer that `idestart` began.  `BrelseUnlock` and
`BrelseCount` are apart, because `brelse` gives the sleep lock back before it takes
bcache.lock: in between another process has the buffer while it is still counted.
`LogWrite` pins a buffer as `log_write` does.  A caller that holds two buffers takes
them in the order of their numbers, as the log, `bmap` and `balloc` do (`MayRead`).

### InodeCache (fs.c, sysfile.c, file.c)

On disk an inode has `type`, `nlink`, and, for a directory, `entries` and `dotdot`; in
memory `ref`, `valid`, `ctype` and `holder` of its lock.  `iget` makes one cache entry
for an inode at most, so the entry is indexed by the inode's number.  `iput` is
`PutCheck`, `PutTrunc`, `PutInvalid`, `PutDrop`: it takes the inode's lock, looks at
`ref` under icache.lock, truncates and frees, and counts down under icache.lock again,
and anybody may come in between.  `put` is its argument and `after` where it returns
to.  `Step` is one turn of `namex`; the calls on top of it follow `sys_open`, `create`,
`sys_unlink`, `sys_link`, `sys_chdir` line by line wherever they change locks.  The
code between taking and giving back the one lock a call holds is a step; where a call
takes a second lock while it has one (`CreateLink`, `UnlinkEntry`), or puts another
inode with one held, the first lock is visible to the others.  The log is left out:
nothing in these calls waits for it while it holds a lock of an inode except inside
`FsLog`'s begin_op, which is called with none.

### ConsoleInput (console.c)

`buf`, `r`, `w`, `e` by name, counters modulo `WRAP`.  What runs under cons.lock is one
step: one character for `consoleintr` (`Insert`, `Backspace`, `KillLine`), and for
`consoleread` the loop up to where it sleeps or returns (`Take`, `Wait`).

### ThreadSync (synch.c of project 3)

`mutex_t` and `cond_t` have no lock around them, so a step is one access to a shared
field: `LockXchg`, `LockTest`, `LockSet` and so on in the order of the lines, and
`UnlockNext`, `UnlockOpen`, `UnlockClear` for the three assignments of `mutex_unlock`.
A thread that reads `current->tid` through a NULL `current` reads a word of the program,
which may be its own id or not (`LockMatch`); `lost` marks one that got in that way.
A thread in cond_wait sleeps on its own `struct proc`, so a kill, or the exit of a child
or of a thread it created, wakes it too (`Roused`).  `Twake` is twake's unlocked look at
the state, `broken` its panic, `TwakeCall` the wakeup under ptable.lock after it.

### PartsMC

The nice scheduler, the sleep locks on one CPU, the console and the mutexes share no
variable, and belong to different kernels in part.  `PartsMC` runs one of them in each
behaviour, chosen in the initial state (`part`), with the others unchanged: every
property of the run speaks about one part, and a part's reachable states are those of
its module alone.

### Abstract specifications

`Mutex`, `ByteChannel`, `PrivateMemory`, `ProcTree`, `AtomicDisk`, `BlockStore` and
`LineQueue` say in a page each
what the users of a component may rely on.  Each is a PROPERTY of the run of its
component through a refinement mapping written next to the properties there.  They
have no locks, counts, sleepers or retries.

## What the runs show

| run | instance | shows |
|---|---|---|
| `sleeplock_safety` | 2 CPUs, 3 processes, 2 sleep locks | exclusion, no lost wakeup, one CPU per stack, no panic, interrupts restored, `Mutex` implemented |
| `pipe_safety` | 1 reader, 2 writers, 2 bytes of buffer, counters modulo 4, calls of up to 2 bytes | no lost wakeup, not freed in use, `ByteChannel` implemented |
| `pipe_live` | 2 readers, 1 writer, 1 byte of buffer, counters modulo 2 | calls return after the other end is closed |
| `cow_safety` | 3 processes, 4 frames, 2 pages each | counts right, no mapped frame free, no writable page shared, `PrivateMemory` implemented |
| `cow_leak` | 2 processes, 4 frames, 2 pages | a frame can be lost (finding) |
| `proc_safety` | 4 slots, 5 pids, 4 page tables, 2 threads each | zombies have a living parent, waiters and creators are woken; without threads page tables are right and `ProcTree` is implemented |
| `log_safety` | 2 processes, 4 blocks, 2 blocks an operation, LOGSIZE 4 | `AtomicDisk` implemented across crashes, reservations suffice for the first write of each block, sleepers are woken, commits leave nothing behind |
| `log_overrun` | 3 processes, 3 blocks, 1 block an operation, LOGSIZE 3 | the log of mkfs's disk overruns (finding) |
| `buffers` | 2 processes, 2 buffers, 3 blocks, 1 pinned by the log | one buffer per block and its identity kept, the disk's queue right, bget panics only when full, `BlockStore` implemented; under a disk that answers, iderw returns |
| `inodes` | 2 processes, 3 inodes, 1 open file, paths `a`, `../a`, `a/a` | references and links are counted right, nothing named or referenced is freed |
| `fs_deadlock` | the same | create and unlink of one name wait for each other (finding) |
| `parts` | nice: 4 slots, 2 CPUs, 2 nice values; sleep locks: 1 CPU, 3 processes, 1 lock; console: 2 readers, 2 characters, counters modulo 4; mutex: 2 threads | one CPU per process and the nicest gets one; RUNNABLE processes run and sleepers are woken; `LineQueue` implemented and readers woken; one owner of a mutex |

### Bounds, and why they are enough

* `SleepLock`: the third process is the one that takes the lock a woken sleeper was
  promised; two CPUs are needed for every interleaving of sections, and with two sleep
  locks a wakeup of one must not be taken for one of the other.  The safety part is
  also proved for every size, the refinement included.
  Liveness needs no second CPU to be hard: with one, a process waits for the clock.
* `Pipe`: two writers interleave within their writes; calls of as many bytes as the
  buffer holds block in the middle; `WRAP` is the smallest multiple of `PIPESIZE`
  that tells full from empty after a wrap, and the counters wrap many times.  The
  safety part is also proved for every size, the refinement included.
* `CowMemory`: three processes give a count of three, that is a sharer that comes or
  goes while two others fault; four frames let a copy succeed while both pages are
  shared and fail when they are not; two pages let a fork fail after one is shared.
  The safety part is also proved for every size, the refinement included.
* `ProcTable`: init, a parent, a child and a grandchild or a thread; five pids let a
  slot be used again; `MaxThreads` 2 reaches the refusal of a third thread and a
  second thread with the id of another.  Pids are never reused by the code either
  (2^31 of them).  The safety part is also proved for every size, the refinement
  included.
* `NiceSched`: two nice values tell nicer from less nice, and the loop's jump needs a
  slot between two others; four slots and two CPUs leave two processes waiting.  The
  safety part is also proved for every size.
* `FsLog`: two operations in a group, a third that waits for the commit; operations
  of more than one block can leave half of it behind in a crash; two operations of two
  blocks fill the log, and the rewrite that panics then is reached.  The safety part is
  also proved for every size, the refinement included.
* `BufCache`: two buffers for three blocks, so every miss recycles, with one buffer
  pinned none may be left (the panic is reached), and two processes meet in every gap
  of `brelse`, `bget` and `iderw`.  The safety part is also proved for every size,
  the refinement included.
* `InodeCache`: the root, one inode below it and one below that or beside it; two
  processes put, find and lock the same two inodes in either order; a path that goes
  up and one that goes down two levels need a directory each; one open file is shared
  by fork.  A third process would add a waiter for a lock, not a new order of taking
  two.  The safety part is also proved for every size.
* `ConsoleInput`: a ring of two is full with one character and one line end, counters
  wrap twice as late as the ring, two readers compete for a line.  A read asks for up
  to two characters, more than one line.  The safety part is also proved for every
  size, the refinement included.
* `ThreadSync`: two threads; `QMAX` 2 is beyond what two threads queue before one of
  them finds its slot again.  The safety part is also proved for every number of
  threads and every `QMAX`; of the queue of a condition, which has no lock, it says
  only that its counters are natural numbers.
* `CowMemory`, `FsLog` and `SleepLock` are run with symmetry over processes, frames
  or blocks and values that no definition tells apart; runs with a liveness property
  have none.

### What the models assume of their environment

* init does not exit, is not killed and has one thread (`init.c`), and a program
  that was killed makes no further system call (`trap.c` exits it).
* In `cow_safety`, programs do not give back memory they still share
  (`ShrinkShared = FALSE`).  With it the model reaches the panic described below.
* In `log_safety`, the disk has room for LOGSIZE log blocks and the header, one more
  than `mkfs.c` reserves; `log_overrun` uses mkfs's number.
* In `parts`, programs under the nice scheduler give up the CPU after a while: nothing preempts
  them in project 4.
* A process of `SleepLock` has one sleep lock at a time and returns it.
* In `buffers`, the log pins at most `MaxPinned` blocks (begin_op's reservation, which
  `FsLog` is about), a process holds at most `MaxHeld` buffers, and the disk makes no
  read errors.
* In `inodes`, programs do not remove a directory that another process is in or is
  walking through (`RemoveInUse = FALSE`).  With it, `..` of the removed directory names
  an inode that may be freed and used again.  The inode cache has room for all inodes.
* In `parts`, the queues of a mutex and of a condition are not longer than `QMAX`.
* Deadlock is an error in all runs except those of `Pipe` (all ends may be closed), `CowMemory`
  (all processes may have exited, or the model has stopped at a panic), `ProcTable`
  (a thread may join itself, the pids run out), `InodeCache` (`ialloc` may panic, and
  `fs_deadlock` is about the rest) and `parts` (twake may panic, and a thread may
  spin for ever).

### Fairness

* `SleepLock`: a CPU executes (`WF` of its steps).  A tick raised while interrupts are
  off stays pending until they are on (`SF` of the tick).  Ticks are rarer than
  instructions, so a process that returns from an interrupt executes the point it
  was at (`SF` of its own step); spin locks held by others are free again after a few
  steps.  No system call is fair: a program need not make one.
* `Pipe`: a process inside a call goes on (`WF`), gets p->lock after a wakeup (`SF`,
  the lock is free again and again; what `SleepLock` shows of a scheduled process),
  and a process that was killed closes its files in `exit` (`SF`).
* `BufCache`: the disk answers the request at the head of its queue (`WF` of `Ideintr`),
  a process that is about to call iderw does (`WF`), and one that was woken gets idelock
  (`SF`: kills may send it round the loop, but each time it is woken again).
* `NiceSched`: an idle CPU scans (`WF`), a running process gives up at last (`WF` of
  yield or block, the assumption above).

## What is proved

The proofs hold for every value of the constants that satisfies the named
assumption of the module.

* `SleepLockProofs` (from `SleepLockAssumption`).  `TypeOK` is inductive.
  `LockDiscipline` adds, for each point of the code, which spin locks its CPU holds
  there, that a process off all CPUs is parked at a return point of `sched` or at the
  beginning, and that the scheduler's scan holds ptable.lock.  It is needed because
  neither `Exclusion` nor `OneStack` mentions spin locks, which are what keeps two
  processes out of the same section.  From it follow `OneStack`, then `Exclusion`,
  then `NoLostWakeup`: between the test of `lk->locked` and SLEEPING the process holds
  either the lock's spin lock or ptable.lock, so a release is before the test or its
  wakeup after the sleep.  `Bookkeeping` then says what `ncli`, `intena` and the
  interrupt flag of a CPU are at each point of the code (`ncli` is the number of spin
  locks held or being taken there, and `intena` is TRUE at every point where a later
  popcli will look at it); it needs `LockDiscipline`, since a dispatch hands a CPU's
  books to a process that was parked under another's.  `InterruptsOn` and `NoPanic`
  follow.  Last, `ImplementsMutex`: the step that sets `lk->locked` is the grant, and
  `Exclusion` after it says that nobody else had the lock before; clearing it is the
  return; every other step is a stutter of `Mutex`.
* `ProcTableProofs` (from `ProcAssumption`).  The core invariant: types, and a slot
  that is being built is an EMBRYO known to one creator alone.  On it stands
  `ParentAlive` (exit gives its children away in the step that makes it a zombie, and
  a creator's new slot has it as parent before it is published).  Then `WaiterAwake`
  and `CreatorAwake`, with and without threads, and `PgdirsRight`, which needs that
  without threads no two slots have the same page table.  `ImplementsProcTree` needs
  one fact more, `Numbers`: slots in use have pids of their own below `nextpid`, so the
  slot that has a pid is unique and the mapping from pids to statuses and fathers is
  well defined.  Then Publish is the tree's fork (the new pid is init's or the caller's
  child), BuildFails takes the pid away unused, Exit makes its children init's, WaitReap
  is the one reaping of a zombie by its father, and every other step, the kills and the
  allocation of a slot included, leaves the tree as it is.
* `PipeProofs` (from `PipeAssumption`).  `PipeCore`: whoever is at a point under p->lock
  holds it, whoever is inside a call has its end open, and for every sleeper its
  condition holds still or a holder of the lock, or a copy it has still to announce, is
  due to wake it.  `PipeNoLostWakeup` and `NotFreedInUse` follow.  `PipeBounded` is by
  itself and rests on lemmas about counters modulo `WRAP`.  `ImplementsChannel` needs
  it: two positions less than PIPESIZE apart have different slots, across the wrap too
  because PIPESIZE divides `WRAP`, so a byte that is put overwrites none that is unread.
* `FsLogProofs` (from `LogAssumption`).  The first invariant counts: `outstanding` is
  the number of processes in an operation, no operation is open during a commit or a
  recovery.  From it `SleeperHasWaker` and that commits run alone.  The second is the
  reservation: the blocks in the log and the set `Claims` of what each call in progress
  may still add, one element for each block, are at most LOGSIZE together;
  `log_write` exchanges a claim for a block.  It needs `Recorded`: what an operation has
  written is in the log already or in its hands, so that to write it again adds
  nothing.  With `LogBlocks > LOGSIZE` it gives `LogFits` and `FirstWritesFit`; without
  that hypothesis `log_overrun` refutes `LogFits`.
  The third, `Redo`, says what is where at each point of an operation, a commit and a
  recovery: a block that is neither pinned nor about to be recorded is as on disk, the
  pinned blocks are those of the transaction that are not installed, the log blocks
  that write_log has passed hold what readers see, and the home blocks that
  install_trans has passed hold what the log does.  Writing the header is the commit: before it `Recovered`, what a
  recovery would make of the disk, is the old state, after it the new one, and no later
  disk write changes it, which makes recovery idempotent as well.  A caller stuck in
  log_write's panic has changed a block and holds its buffer, so its group is never
  committed and the same invariant covers it.  `QuietIsDurable` and
  `ImplementsAtomicDisk` follow; they are stated under the same hypothesis, because on a
  smaller log the last log block is also a home block, which the model keeps apart.
* `PartsProofs` (from `NiceAssumption` and `PartsAssumption`, which is the assumptions
  of `ConsoleInput` and `ThreadSync`).  The invariants are proved of each part by
  itself and of `PartsSpec`.
  * Nice scheduler: `TypeOK /\ OneCpuEach` is inductive; a lemma about `Scan` says that
    the process it chooses is RUNNABLE in the table it is given and so on no CPU.
  * Console: `ReaderAwake` is inductive with what a reader has still to read
    (`LineInv`): a character that ends a line wakes every sleeper, and a reader moves
    `r` only when it is not `w`.  `ImplementsLineQueue` needs `Ring`: the finished
    characters and the line being typed share the ring without meeting, and the line
    being typed has no line end.  Two positions less than INPUT_BUF apart have
    different slots, across the wrap too because INPUT_BUF divides `WRAP`, so a typed
    character overwrites none that is unread, a backspace or a kill of the line stops
    at `w`, and what `consoleread` takes in one turn is the beginning of the queue up
    to its first line end.  A ^D in the middle of a read is left for the next one, a
    ^D at its beginning is taken and ends it; `Asking` tells the two apart.
  * Mutexes: `MutexOwned`.  Between the xchg that closes the lock and the one that opens
    it a thread is alone, whether it became current, waits in the queue, or came in by
    a NULL `current` (`Alone`, `Clearing`, `Owner`).
* `BufCacheProofs` (from `BufAssumption`).  One inductive invariant, `BufInv`.  `Hands`
  and `Kept` say what a process has in its hands at each point of bread, bwrite and
  brelse: the buffer it waits for keeps its block, the one bread returned its block, its
  lock and valid contents.  `Counted` says that `b->refcnt` is the number of processes
  with a hand on the buffer; it is what bget's test `refcnt == 0` means, so without it a
  buffer could be recycled under a waiter.  `OneBuffer` (no block in two buffers)
  follows from bget's scan in the same section as its choice.  `Queued` says that a
  request is in the disk's queue once, is the request of the process that holds the
  buffer, and is still to be done; `Coherent` where cache and disk may differ.
  `RightBlock`, `QueueRight` and `OnlyWhenFull` follow.  For `ImplementsBlockStore` a
  block's content is that of its valid buffer or else the disk's; `Coherent` makes
  recycling, rereading and the interrupt stutters of the store, `Kept` makes a write
  one by the block's user.
* `InodeCacheProofs` (from `InodeAssumption`).  `RefInv`: what each call has in its
  local variables at each point (`Shape`), `f->ref` counts descriptors (`FilesRight`),
  and `ip->ref` counts the pointers to an inode (`Counted`).  A step moves pointers
  of one process only, one lemma for each action says which, and the counts move along.  It holds whatever programs remove, and gives `RefsRight`.
  `LinkInv` assumes `~RemoveInUse`, as the run `inodes` does: with a current directory
  removed, `..` may name an inode that was freed and used again, and what follows is
  false.  Its parts need each other.  `Locks` says who has which lock, and `Found` that
  what a call saw in the directory it has locked is still there; both because nobody
  else changes a locked directory.  `Live` says that what is referred to is allocated,
  and rests on `Freeing` and the counts: iput frees only what has no link and one
  reference, its own.  `Tree` says that a directory has one name, in the directory that
  is its `..`; `Walkers` that whoever walks is in the tree; `Fresh` that only create
  knows the inode it has allocated.  `LinkCounts` is `nlink` for every inode, calls in
  the middle included, and `CacheRight` that a valid entry agrees with the disk except
  while iput has freed the inode and not yet invalidated the entry.  Each action is shown to be
  within what one process may do (`DiskEffect`: whose inodes it changes; `RefEffect`:
  where its new references come from), and within that the parts about other
  processes are kept.  `LinksRight` and `NothingDangles` follow.
* `CowMemoryProofs` (from `CowAssumption` and `~ShrinkShared`, which says that programs
  do not give back memory they still share; with it `deallocuvm` leads to a panic, see
  below).  `Layout` says where each fork and each page fault is, and that the embryo of
  a fork maps just the pages `copyuvm` has passed.  On it stands the count:
  `copyuvm` maps a page before it counts it, so `RefRight` counts every mapping but such
  a pending one.  The third part, `Sharing`, says that a free frame is nobody's, that
  the frame a fault copies into is nobody else's, and that a writable page is mapped
  once.  The parts need each other: a count that falls to 0 frees a frame, and nobody
  maps it then because a pending mapping is a copy of the parent's, which is counted; a
  fault that finds a count of 1 makes the page writable in place, and is right to
  because its own mapping is the one counted.  `CountsRight`, `MappedNotFree` and
  `WritableUnshared` follow, the first by a bijection between the pending mappings and
  the forks that have still to count them.  `ImplementsPrivateMemory` adds two facts
  that must survive what others do meanwhile: the copy a fault has made is still what
  its page holds when the copy takes its place, and the pages an embryo maps are still
  its parent's when fork returns.  A frame that a page has before and after a step keeps
  its content unless that page is written, so no step changes what another process sees.

Only model-checked: liveness (`RunnableRuns`, `SleeperWoken`, `PipeClosedUnblocks`,
`NicestScheduled`, `RequestsServed`), which the proof system does not do under fairness.
Every other property of a passing run is a theorem; some have a hypothesis, named above,
that the constants of the run satisfy too: `~ShrinkShared` for `CowMemory`,
`LogBlocks > LOGSIZE` for `FsLog`, `~RemoveInUse` for the links of `InodeCache`.

## Disagreements between the code and what it says

With a run that exhibits them:

* `cow_leak`: `PF_handler` decides to copy on a count of 2, drops the lock and
  decrements the count without looking at it again.  If the other sharer has gone, the
  count becomes 0 and the frame is neither mapped nor free (`project6/vm.c:467`).
* `log_overrun`: with the log size of mkfs two operations that pass log_write's test
  together write past the log (`project6/log.c:218`, `mkfs.c:25`); one after the other,
  the second panics.  The operations use all of MAXOPBLOCKS, as `param.h:10` allows;
  those of the repository use less.
* `fs_deadlock`: `create` names the new inode, keeps its lock and calls
  `iunlockput(dp)`, whose iput takes the parent's lock again (`project6/sysfile.c:281`,
  `fs.c:335`); an unlink of the same name has the parent and waits for the child
  (`sysfile.c:209`).  Nine states, two processes; `usertests.c:855` looks for
  deadlocks with just these calls.

Reached in the models, without a run of their own:

* `project6/log.c:218`: log_write tests the space before it looks for absorption
  (`log.c:224-229`), so an operation that writes a block once more when the log is full
  panics ("too big a transaction") although nothing would be added.  In `log_safety`
  two operations fill the log with two blocks each, and one of them writes its block
  again; the invariant `~panicked` shows it.  `FirstWritesFit` is what holds.
* `project6/vm.c:289-292`: deallocuvm keeps the pte of a frame that is still shared.
  After fork, sbrk(-n) leaves the page mapped, and sbrk(n) panics in mappages ("remap").
  Worse, a second deallocuvm over the stale pte counts down again: when a child that
  has shrunk exits or calls exec, freevm takes the count from 1 to 0 and frees a frame
  the parent still maps.  With `ShrinkShared = TRUE` the run `cow_leak` with
  `MappedNotFree` in place of `NoLeak` shows it in ten states (two processes, fork,
  `Shrink`, `Exec`).  No property of `cow_safety` speaks of programs that shrink over
  shared pages.
* `project6/fs.c:336`: two processes put the last two references to an inode without
  links (one closes the file, the other the file or its walk).  Each takes the lock,
  sees `ref` = 2 and gives the lock back; then each counts down.  Nobody has seen 1, so
  the inode stays allocated with neither name nor reference.  `Reclaimed` of `InodeCache`
  as an invariant of the run `inodes` shows it.
* `project3/proc.c:336`: wait frees the page table of the slot it reaps although threads
  run on it: a process that exits before its threads, or a creator that calls wait
  instead of thread_join.  `PgdirsRight` and `ImplementsProcTree` therefore
  have `~threaded` as hypothesis.
* `project4/proc.c:307`: slots 1 and 3 have equally nice processes, slot 2 a less nice
  one, one CPU.  After slot 1 yields the loop goes on at slot 2, the inner loop finds
  something nicer and starts from slot 1 again: slot 3 is never chosen.
  `NiceRoundRobin` of `NiceSched` is the fairness among equals that fails.
* `project3/synch.c:109`: cond_wait registers the thread before it sleeps, so a signal in
  between panics in twake ("twake error"), and two waiters that both find `current`
  NULL overwrite each other; `ThreadSync` reaches both.  A waiter that a kill or a
  child's exit has woken leaves its registration behind, and the next signal may panic
  too.
* `project3/synch.c:45-51`: mutex_unlock hands over to the head of the queue and then
  sets `current` to NULL, so a queued thread spins on a NULL pointer's tid, holding the
  lock; it goes on only if that word of the program happens to be its id.

Seen while modelling:

* `project6/fs.c:560-561`: dirlink, called with the directory locked, puts the inode it
  finds under the name, and iput takes that inode's lock.  For link("x", "d/..") this is
  the parent of `d`, with `d` locked, the other way round than unlink; so locks are not
  taken parent before child everywhere.  For link("x", "/..") and link("x", "d/.") the
  inode found is the locked directory itself: the caller waits for its own lock.
* `project3/proc.c:571`: kill matches UNUSED slots; kill(0) marks one, and the mark is
  still there when the slot is used again, since allocproc does not clear it.
* `project3/proc.c:728`: thread_create overwrites the page table copyuvm has built and
  never frees it.
* `project3/proc.c:738`: thread ids come from a count that joins decrement, so two
  threads of a process can have the same id; and thread_join asks only for pid and
  tid, so thread_join(0) in a thread can reap the main process, for which its
  parent's wait then looks in vain.
* `project3/proc.c:888`: thread_join by another thread than the creator sleeps where
  thread_exit wakes nobody.  `CreatorAwake` is about creators only.
* `project6/pipe.c:86`: a writer that finds itself killed returns without waking the
  reader for what it has already written.  `PipeNoLostWakeup` makes this exception.
* `project6/pipe.c:107`, `proc.c:488`: a kill between the test of `killed` and the sleep
  leaves the process asleep.  `PipeClosedUnblocks` says that a close gets sleepers out;
  that a kill does is not true and not claimed.
* `project6/ide.c:118`: a failed read is marked valid.  `project6/kalloc.c:38`: kinit1
  resets `free_frames` after freerange has counted.
* `project5/trap.c:84-89`: a fault above the guard page maps the page below `esp`, not the
  page of the fault.  A fault elsewhere while `esp` is on a mapped page ends in mappages'
  panic, and allocuvm's failure in one too.

## Not modelled

Stack growth of project 5 is the one assignment without a module.  It has one actor and
one step, and everything it does depends on two addresses of the program; a model would
be the layout of an address space.  Of the modelled components these parts are left
out: the contents of files and the allocation of blocks (`readi`, `writei`, `bmap`,
`balloc`), the kernel's own accesses to user pages, a full inode cache, read errors of
the disk, files' offsets.  For good: the set-up of processors, interrupt controllers and
page tables at boot (straight-line code before there is concurrency), the dispatch of
traps and system calls (a table), exec's parsing of ELF files, the screen, keyboard and serial drivers, user programs, the C library and mkfs.
The tick counter with `sys_sleep` is the pattern of `SleepLock` once more.

The share of the repository's lines that the models stand for is small because the
repository has the kernel seven times, with its user programs, tests and drivers: a
definition is mapped to one copy.
