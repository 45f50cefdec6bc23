------------------------------- MODULE FsLog -------------------------------
(***************************************************************************)
(* The redo log of the file system (log.c): operations of several          *)
(* processes share one transaction, which the last of them commits; a      *)
(* crash may come before any disk write, also during recovery.             *)
(*                                                                         *)
(* Steps are the sections under log.lock and the disk writes, one block    *)
(* each.  The check that opens log_write is made without log.lock.  The    *)
(* buffer cache is the block's cached contents and its pin, B_DIRTY; the   *)
(* buffer's sleep lock keeps two processes off one block.                  *)
(***************************************************************************)
EXTENDS Naturals, Sequences, FiniteSets, Functions

CONSTANTS Procs, Blocks,
          Values, Blank,   \* contents of a block, those of a new disk
          NotCached, NoBlock,
          MAXOPBLOCKS,
          LOGSIZE,         \* MAXOPBLOCKS * 3
          LogBlocks        \* log.size, sb.nlog: the header and the log blocks

ASSUME LogAssumption ==
  /\ IsFiniteSet(Procs)
  /\ MAXOPBLOCKS \in Nat \ {0} /\ LogBlocks \in Nat \ {0}
  /\ LOGSIZE \in Nat /\ LOGSIZE >= MAXOPBLOCKS
  /\ Blank \in Values /\ NotCached \notin Values /\ NoBlock \notin Blocks

VARIABLES
  home, logdisk, head,   \* on disk: the blocks, the log blocks, the header
  cache, dirty,          \* the buffer cache, and the blocks pinned in it
  lh,                    \* log.lh: the blocks of the transaction
  outstanding, committing,
  pc,      \* idle, woken, asleep, op, append, commit
  wrote,   \* the blocks the operation has written
  block,   \* the buffer a caller holds and log_write is about to record
  phase,   \* of commit or recovery: none, log, head, install, erase, done
  tail,
  recovering,
  panicked

onDisk == <<home, logdisk, head>>
buffers == <<cache, dirty>>
counts == <<outstanding, committing>>
callers == <<pc, wrote, block>>
vars == <<onDisk, buffers, lh, counts, callers, phase, tail, recovering, panicked>>

Init ==
  /\ home = [b \in Blocks |-> Blank]
  /\ logdisk = [i \in 1..LOGSIZE |-> Blank]
  /\ head = <<>>
  /\ cache = [b \in Blocks |-> NotCached] /\ dirty = {}
  /\ lh = <<>> /\ outstanding = 0 /\ committing = FALSE
  /\ pc = [p \in Procs |-> "idle"]
  /\ wrote = [p \in Procs |-> {}]
  /\ block = [p \in Procs |-> NoBlock]
  /\ phase = "none" /\ tail = 1
  /\ recovering = FALSE /\ panicked = FALSE

Up == ~recovering /\ ~panicked
Goto(p, point) == pc' = [pc EXCEPT ![p] = point]

\* bread
Bread(b) == IF cache[b] = NotCached THEN home[b] ELSE cache[b]

----------------------------------------------------------------------------
(* Operations *)

\* begin_op waits for a commit that would find the log too small; mutant: it
\* forgets the call's own reservation.
FitsOthers == Len(lh) + outstanding * MAXOPBLOCKS <= LOGSIZE
Fits == Len(lh) + (outstanding + 1) * MAXOPBLOCKS <= LOGSIZE

\* The distinct blocks the callers write in one operation.
OpBlocks == MAXOPBLOCKS

BeginOp(p) ==
  /\ Up /\ pc[p] \in {"idle", "woken"}
  /\ \/ /\ ~committing /\ Fits
        /\ outstanding' = outstanding + 1
        /\ Goto(p, "op")
     \/ /\ committing \/ ~Fits
        /\ Goto(p, "asleep")
        /\ UNCHANGED outstanding
  /\ UNCHANGED <<onDisk, buffers, lh, committing, wrote, block, phase, tail,
                 recovering, panicked>>

\* The caller changes a block it has read; log_write checks the space, before
\* it looks whether the block is in the log already.  A caller may write a
\* block any number of times.
TooBig == Len(lh) >= LOGSIZE \/ Len(lh) >= LogBlocks - 1

Write(p, b, v) ==
  /\ Up /\ pc[p] = "op"
  /\ b \in wrote[p] \/ Cardinality(wrote[p]) < OpBlocks
  /\ \A q \in Procs : block[q] # b
  /\ cache' = [cache EXCEPT ![b] = v]
  /\ Goto(p, "append")
  /\ block' = [block EXCEPT ![p] = b]
  /\ wrote' = [wrote EXCEPT ![p] = @ \cup {b}]
  /\ panicked' = (TooBig \/ outstanding < 1)
  /\ UNCHANGED <<onDisk, dirty, lh, counts, phase, tail, recovering>>

\* B_DIRTY prevents eviction; mutant: the block is not pinned.
Unpinned(b) == dirty
Pinned(b) == dirty \cup {b}

\* A block already in the log is absorbed; mutant: its entry is repeated.
Repeated(b) == Append(lh, b)
Logged(b) == IF b \in Range(lh) THEN lh ELSE Append(lh, b)

LogWrite(p) ==
  /\ Up /\ pc[p] = "append"
  /\ lh' = Logged(block[p])
  /\ dirty' = Pinned(block[p])
  /\ Goto(p, "op")
  /\ block' = [block EXCEPT ![p] = NoBlock]
  /\ UNCHANGED <<onDisk, cache, counts, wrote, phase, tail, recovering, panicked>>

\* wakeup(&log); mutant: nobody.
WokenNone == pc
Woken == [q \in Procs |-> IF pc[q] = "asleep" THEN "woken" ELSE pc[q]]

\* commit does nothing for an empty transaction; mutant: nor for a single
\* block.
SkipSingle == IF Len(lh) <= 1 THEN "done" ELSE "log"
CommitStart == IF lh = <<>> THEN "done" ELSE "log"

EndOp(p) ==
  /\ Up /\ pc[p] = "op"
  /\ outstanding' = outstanding - 1
  /\ wrote' = [wrote EXCEPT ![p] = {}]
  /\ \/ /\ committing
        /\ panicked' = TRUE /\ UNCHANGED <<committing, pc, phase>>
     \/ /\ ~committing /\ outstanding = 1
        /\ committing' = TRUE
        /\ Goto(p, "commit")
        /\ phase' = CommitStart
        /\ UNCHANGED panicked
     \/ /\ ~committing /\ outstanding > 1
        /\ pc' = [Woken EXCEPT ![p] = "idle"]
        /\ UNCHANGED <<committing, phase, panicked>>
  /\ UNCHANGED <<onDisk, buffers, lh, block, tail, recovering>>

----------------------------------------------------------------------------
(* commit and recover_from_log: one disk write per step *)

\* The loop's body runs for tail, and the phase after it follows the last.
Loop(next) ==
  IF tail >= Len(lh) THEN phase' = next /\ tail' = 1
  ELSE tail' = tail + 1 /\ UNCHANGED phase

WriteLog ==
  /\ phase = "log" /\ ~panicked
  /\ logdisk' = [logdisk EXCEPT ![tail] = Bread(lh[tail])]
  /\ Loop("head")
  /\ UNCHANGED <<home, head, buffers, lh, counts, callers, recovering, panicked>>

WriteHead ==
  /\ phase = "head"
  /\ head' = lh
  /\ phase' = "install"
  /\ UNCHANGED <<home, logdisk, buffers, lh, counts, callers, tail,
                 recovering, panicked>>

\* install_trans; the bwrite clears B_DIRTY.
InstallTrans ==
  /\ phase = "install"
  /\ IF lh = <<>>
     THEN UNCHANGED <<home, cache, dirty>>
     ELSE /\ home' = [home EXCEPT ![lh[tail]] = logdisk[tail]]
          /\ cache' = [cache EXCEPT ![lh[tail]] = logdisk[tail]]
          /\ dirty' = dirty \ {lh[tail]}
  /\ Loop("erase")
  /\ UNCHANGED <<logdisk, head, lh, counts, callers, recovering, panicked>>

\* log.lh.n = 0; write_head
Erase ==
  /\ phase = "erase"
  /\ lh' = <<>> /\ head' = <<>>
  /\ phase' = IF recovering THEN "none" ELSE "done"
  /\ recovering' = FALSE
  /\ UNCHANGED <<home, logdisk, buffers, counts, callers, tail, panicked>>

CommitDone(p) ==
  /\ pc[p] = "commit" /\ phase = "done"
  /\ committing' = FALSE
  /\ pc' = [Woken EXCEPT ![p] = "idle"]
  /\ phase' = "none"
  /\ UNCHANGED <<onDisk, buffers, lh, outstanding, wrote, block, tail,
                 recovering, panicked>>

\* bget recycles a buffer that nobody holds and that is not dirty.
Evict(b) ==
  /\ ~panicked
  /\ cache[b] # NotCached /\ b \notin dirty
  /\ \A p \in Procs : block[p] # b
  /\ cache' = [cache EXCEPT ![b] = NotCached]
  /\ UNCHANGED <<onDisk, dirty, lh, counts, callers, phase, tail,
                 recovering, panicked>>

\* The machine stops; the next boot starts with read_head.
Crash ==
  /\ cache' = [b \in Blocks |-> NotCached] /\ dirty' = {}
  /\ lh' = head
  /\ outstanding' = 0 /\ committing' = FALSE
  /\ pc' = [p \in Procs |-> "idle"]
  /\ wrote' = [p \in Procs |-> {}] /\ block' = [p \in Procs |-> NoBlock]
  /\ phase' = "install" /\ tail' = 1
  /\ recovering' = TRUE /\ panicked' = FALSE
  /\ UNCHANGED onDisk

Next ==
  \/ \E p \in Procs :
       \/ BeginOp(p) \/ LogWrite(p) \/ EndOp(p) \/ CommitDone(p)
       \/ \E b \in Blocks, v \in Values : Write(p, b, v)
  \/ WriteLog \/ WriteHead \/ InstallTrans \/ Erase \/ Crash
  \/ \E b \in Blocks : Evict(b)

Spec == Init /\ [][Next]_vars

----------------------------------------------------------------------------
(* Properties *)

TypeOK ==
  /\ home \in [Blocks -> Values]
  /\ logdisk \in [1..LOGSIZE -> Values]
  /\ head \in Seq(Blocks) /\ lh \in Seq(Blocks)
  /\ cache \in [Blocks -> Values \cup {NotCached}]
  /\ dirty \subseteq Blocks
  /\ outstanding \in Nat /\ committing \in BOOLEAN
  /\ pc \in [Procs -> {"idle", "woken", "asleep", "op", "append", "commit"}]
  /\ wrote \in [Procs -> SUBSET Blocks]
  /\ block \in [Procs -> Blocks \cup {NoBlock}]
  /\ phase \in {"none", "log", "head", "install", "erase", "done"}
  /\ tail \in 1..LOGSIZE
  /\ recovering \in BOOLEAN /\ panicked \in BOOLEAN

\* What recovery makes of the disk.
Recovered ==
  [b \in Blocks |->
     IF b \in Range(head)
     THEN logdisk[CHOOSE i \in DOMAIN head : head[i] = b] ELSE home[b]]

Atomic == INSTANCE AtomicDisk WITH
  durable <- Recovered,
  current <- IF recovering THEN Recovered ELSE [b \in Blocks |-> Bread(b)],
  open <- {p \in Procs : pc[p] \in {"op", "append"}}

\* A crash anywhere, in commit and recovery too, leaves the disk as the last
\* committed group of operations made it, and no group holds half an operation
\* (commit's order of writes, begin_op's wait for committing, the pin).
ImplementsAtomicDisk == Atomic!Spec

\* The entries of a transaction are distinct blocks and fit in the log blocks
\* of the disk, which end where the inodes start.
LogFits ==
  /\ IsInjective(lh)
  /\ Len(lh) <= LogBlocks - 1

\* When the last end_op has returned, what was written is durable.
QuietIsDurable ==
  outstanding = 0 /\ ~committing /\ ~recovering
    => \A b \in Blocks : Bread(b) = Recovered[b]

\* Whoever sleeps in begin_op has an operation or a commit still to come that
\* wakes it.
SleeperHasWaker ==
  \A p \in Procs : pc[p] = "asleep" => committing \/ outstanding > 0

\* An operation that was let in finds room for the blocks it writes first, for
\* begin_op waits when "this op might exhaust log space", and end_op never
\* meets a commit.  The panic that is left is of a rewrite: log_write tests the
\* space before it looks for absorption, also when no block will be added.
FirstWritesFit ==
  [][\A p \in Procs :
       /\ EndOp(p) => ~panicked'
       /\ \A b \in Blocks, v \in Values :
            Write(p, b, v) /\ b \notin wrote[p] => ~panicked']_vars
============================================================================
