------------------------------ MODULE BufCache ------------------------------
(***************************************************************************)
(* The buffer cache and the IDE driver (bio.c, ide.c): processes read,     *)
(* change, write and give back blocks; the disk serves the queue of        *)
(* requests and interrupts.                                                *)
(*                                                                         *)
(* What runs under bcache.lock or idelock is one step, as is what happens  *)
(* to a buffer under its sleep lock between two calls (SleepLock has the   *)
(* locks and sleep).  Blocks are numbered in the order in which callers    *)
(* that hold two take them: log, indirect, bitmap.                         *)
(***************************************************************************)
EXTENDS Naturals, Sequences, FiniteSets

CONSTANTS Procs, Bufs,
          NBlocks,     \* blocks 1..NBlocks
          Values, Blank,
          MaxHeld,     \* buffers a process has at a time
          MaxPinned,   \* blocks the log keeps B_DIRTY: begin_op's reservation
          Nobody, NoBuf

ASSUME BufAssumption ==
  /\ IsFiniteSet(Bufs) /\ IsFiniteSet(Procs)
  /\ NBlocks \in Nat /\ MaxHeld \in Nat \ {0} /\ MaxPinned \in Nat
  /\ Blank \in Values /\ Nobody \notin Procs /\ NoBuf \notin Bufs

Blocks == 1..NBlocks
None == 0

VARIABLES
  lru,           \* bcache.head's list, most recently used first
  blk, refcnt, valid, dirty, data, owner,   \* struct buf; lock held by owner
  idequeue,
  disk,
  pc,
  want, b,       \* bread's block, and the buffer in hand
  got,           \* process -> block -> the buffer bread returned, not yet given back
  panicked       \* "bget: no buffers"

bufs == <<blk, refcnt, valid, dirty, data, owner>>
vars == <<lru, bufs, idequeue, disk, pc, want, b, got, panicked>>

Init ==
  /\ lru = CHOOSE s \in [1..Cardinality(Bufs) -> Bufs] : \A c \in Bufs : \E i \in DOMAIN s : s[i] = c
  /\ blk = [c \in Bufs |-> None] /\ refcnt = [c \in Bufs |-> 0]
  /\ valid = [c \in Bufs |-> FALSE] /\ dirty = valid
  /\ data = [c \in Bufs |-> Blank] /\ owner = [c \in Bufs |-> Nobody]
  /\ idequeue = <<>>
  /\ disk = [x \in Blocks |-> Blank]
  /\ pc = [p \in Procs |-> "run"]
  /\ want = [p \in Procs |-> None] /\ b = [p \in Procs |-> NoBuf]
  /\ got = [p \in Procs |-> [x \in Blocks |-> NoBuf]]
  /\ panicked = FALSE

At(p, point) == pc[p] = point /\ ~panicked
Goto(p, point) == pc' = [pc EXCEPT ![p] = point]

Held(p) == {x \in Blocks : got[p][x] # NoBuf}

----------------------------------------------------------------------------
(* bio.c *)

MayRead(p, x) ==
  /\ At(p, "run")
  /\ Cardinality(Held(p)) < MaxHeld /\ \A y \in Held(p) : y < x

Cached(x) == \E c \in Bufs : blk[c] = x

Grab(p, x, c) ==
  /\ want' = [want EXCEPT ![p] = x] /\ b' = [b EXCEPT ![p] = c]
  /\ Goto(p, "lock")

BgetHit(p, x) ==
  /\ MayRead(p, x)
  /\ \E c \in Bufs :
       /\ blk[c] = x
       /\ refcnt' = [refcnt EXCEPT ![c] = @ + 1]
       /\ Grab(p, x, c)
  /\ UNCHANGED <<lru, blk, valid, dirty, data, owner, idequeue, disk, got, panicked>>

\* A buffer in nobody's hands that the log does not pin; mutants: one somebody
\* waits for, or the log pins.
UnlockedBuf(c) == owner[c] = Nobody /\ ~dirty[c]
UnpinnedBuf(c) == refcnt[c] = 0
Unused(c) == refcnt[c] = 0 /\ ~dirty[c]

\* The least recently used of them is recycled.
BgetMiss(p, x) ==
  /\ MayRead(p, x) /\ ~Cached(x)
  /\ \E i \in DOMAIN lru :
       LET c == lru[i] IN
       /\ Unused(c) /\ \A j \in i + 1..Len(lru) : ~Unused(lru[j])
       /\ blk' = [blk EXCEPT ![c] = x] /\ refcnt' = [refcnt EXCEPT ![c] = 1]
       /\ valid' = [valid EXCEPT ![c] = FALSE]
       /\ dirty' = [dirty EXCEPT ![c] = FALSE]
       /\ Grab(p, x, c)
  /\ UNCHANGED <<lru, data, owner, idequeue, disk, got, panicked>>

BgetPanic(p, x) ==
  /\ MayRead(p, x) /\ ~Cached(x) /\ \A c \in Bufs : ~Unused(c)
  /\ panicked' = TRUE
  /\ UNCHANGED <<lru, bufs, idequeue, disk, pc, want, b, got>>

\* bread returns the buffer, or bwrite does.
Returns(p) ==
  /\ got' = [got EXCEPT ![p][want[p]] = b[p]]
  /\ want' = [want EXCEPT ![p] = None] /\ b' = [b EXCEPT ![p] = NoBuf]
  /\ Goto(p, "run")

\* acquiresleep, and bread looks at B_VALID.
BreadLock(p) ==
  /\ At(p, "lock") /\ owner[b[p]] = Nobody
  /\ owner' = [owner EXCEPT ![b[p]] = p]
  /\ IF valid[b[p]] THEN Returns(p) ELSE Goto(p, "rw") /\ UNCHANGED <<want, b, got>>
  /\ UNCHANGED <<lru, blk, refcnt, valid, dirty, data, idequeue, disk, panicked>>

\* The holder changes the block and calls bwrite ...
Bwrite(p, x) ==
  LET c == got[p][x] IN
  /\ At(p, "run") /\ c # NoBuf
  /\ \E v \in Values : data' = [data EXCEPT ![c] = v]
  /\ dirty' = [dirty EXCEPT ![c] = TRUE]
  /\ want' = [want EXCEPT ![p] = x] /\ b' = [b EXCEPT ![p] = c]
  /\ Goto(p, "rw")
  /\ UNCHANGED <<lru, blk, refcnt, valid, owner, idequeue, disk, got, panicked>>

\* ... or log_write.
LogWrite(p, x) ==
  LET c == got[p][x] IN
  /\ At(p, "run") /\ c # NoBuf
  /\ Cardinality({d \in Bufs : dirty[d]} \cup {c}) <= MaxPinned
  /\ \E v \in Values : data' = [data EXCEPT ![c] = v]
  /\ dirty' = [dirty EXCEPT ![c] = TRUE]
  /\ UNCHANGED <<lru, blk, refcnt, valid, owner, idequeue, disk, pc, want, b, got,
                 panicked>>

\* brelse: releasesleep, and then bcache.lock is taken.
BrelseUnlock(p, x) ==
  LET c == got[p][x] IN
  /\ At(p, "run") /\ c # NoBuf
  /\ owner' = [owner EXCEPT ![c] = Nobody]
  /\ got' = [got EXCEPT ![p][x] = NoBuf] /\ b' = [b EXCEPT ![p] = c]
  /\ Goto(p, "release")
  /\ UNCHANGED <<lru, blk, refcnt, valid, dirty, data, idequeue, disk, want, panicked>>

\* b->refcnt--; mutant: only the last user counts itself out.
LastOnly(c) == IF refcnt[c] = 1 THEN 0 ELSE refcnt[c]
Fewer(c) == refcnt[c] - 1

\* b is unlinked and put behind bcache.head.
MoveToHead(c) ==
  LET k == CHOOSE i \in DOMAIN lru : lru[i] = c IN
  [i \in DOMAIN lru |-> IF i = 1 THEN c ELSE IF i <= k THEN lru[i - 1] ELSE lru[i]]

BrelseCount(p) ==
  LET c == b[p] IN
  /\ At(p, "release")
  /\ refcnt' = [refcnt EXCEPT ![c] = Fewer(c)]
  /\ lru' = IF Fewer(c) = 0 THEN MoveToHead(c) ELSE lru
  /\ b' = [b EXCEPT ![p] = NoBuf] /\ Goto(p, "run")
  /\ UNCHANGED <<blk, valid, dirty, data, owner, idequeue, disk, want, got, panicked>>

----------------------------------------------------------------------------
(* ide.c *)

\* iderw: append to the queue, and sleep.
IderwAppend(p) ==
  /\ At(p, "rw")
  /\ idequeue' = Append(idequeue, b[p])
  /\ Goto(p, "asleep")
  /\ UNCHANGED <<lru, bufs, disk, want, b, got, panicked>>

\* wakeup(b); mutant: not for a write.
WokenReader(c) == {p \in Procs : pc[p] = "asleep" /\ b[p] = c /\ ~dirty[c]}
Woken(c) == {p \in Procs : pc[p] = "asleep" /\ b[p] = c}

\* The disk has done the request at the head of the queue.
Ideintr ==
  LET c == Head(idequeue) IN
  /\ idequeue # <<>> /\ ~panicked
  /\ idequeue' = Tail(idequeue)
  /\ IF dirty[c]
     THEN disk' = [disk EXCEPT ![blk[c]] = data[c]] /\ UNCHANGED data
     ELSE data' = [data EXCEPT ![c] = disk[blk[c]]] /\ UNCHANGED disk
  /\ valid' = [valid EXCEPT ![c] = TRUE] /\ dirty' = [dirty EXCEPT ![c] = FALSE]
  /\ pc' = [p \in Procs |-> IF p \in Woken(c) THEN "awake" ELSE pc[p]]
  /\ UNCHANGED <<lru, blk, refcnt, owner, want, b, got, panicked>>

\* The loop's test of B_VALID and B_DIRTY; mutant: if instead of while.
NoLoop(c) == TRUE
Synced(c) == valid[c] /\ ~dirty[c]

IderwAwake(p) ==
  /\ At(p, "awake")
  /\ IF Synced(b[p]) THEN Returns(p)
     ELSE Goto(p, "asleep") /\ UNCHANGED <<want, b, got>>
  /\ UNCHANGED <<lru, bufs, idequeue, disk, panicked>>

\* kill makes a sleeper RUNNABLE.
Kill(p) ==
  /\ At(p, "asleep") /\ Goto(p, "awake")
  /\ UNCHANGED <<lru, bufs, idequeue, disk, want, b, got, panicked>>

----------------------------------------------------------------------------
ProcNext(p) ==
  \/ \E x \in Blocks : \/ BgetHit(p, x) \/ BgetMiss(p, x) \/ BgetPanic(p, x)
                       \/ Bwrite(p, x) \/ LogWrite(p, x) \/ BrelseUnlock(p, x)
  \/ BreadLock(p) \/ BrelseCount(p) \/ IderwAppend(p) \/ IderwAwake(p) \/ Kill(p)

Halted == panicked /\ UNCHANGED vars

Next == Ideintr \/ Halted \/ \E p \in Procs : ProcNext(p)

Spec == Init /\ [][Next]_vars

\* The disk answers, and processes run.
Fairness ==
  /\ WF_vars(Ideintr)
  /\ \A p \in Procs : WF_vars(IderwAppend(p)) /\ SF_vars(IderwAwake(p))

FairSpec == Spec /\ Fairness

----------------------------------------------------------------------------
(* Properties *)

TypeOK ==
  /\ lru \in [1..Cardinality(Bufs) -> Bufs]
  /\ blk \in [Bufs -> Blocks \cup {None}] /\ refcnt \in [Bufs -> Nat]
  /\ valid \in [Bufs -> BOOLEAN] /\ dirty \in [Bufs -> BOOLEAN]
  /\ data \in [Bufs -> Values] /\ owner \in [Bufs -> Procs \cup {Nobody}]
  /\ idequeue \in Seq(Bufs) /\ disk \in [Blocks -> Values]
  /\ pc \in [Procs -> {"run", "lock", "rw", "asleep", "awake", "release"}]
  /\ want \in [Procs -> Blocks \cup {None}] /\ b \in [Procs -> Bufs \cup {NoBuf}]
  /\ got \in [Procs -> [Blocks -> Bufs \cup {NoBuf}]]
  /\ panicked \in BOOLEAN

\* The buffer bread returned keeps its identity, its lock and valid contents
\* until brelse, whoever else asks for a buffer; a buffer someone waits for,
\* with bcache.lock released, keeps its identity too; and no block is in two
\* buffers.
RightBlock ==
  /\ TypeOK
  /\ \A p \in Procs : \A x \in Held(p) :
       LET c == got[p][x] IN blk[c] = x /\ owner[c] = p /\ valid[c]
  /\ \A p \in Procs : want[p] # None => blk[b[p]] = want[p]
  /\ \A c, d \in Bufs : (c # d /\ blk[c] # None) => blk[c] # blk[d]

\* No request is queued twice, none outlives its requester, and none has nothing
\* to do: a buffer in the queue was put there by the process that holds its
\* lock, which still sleeps for it or has just been made RUNNABLE, whether by
\* the disk or by kill (iderw's while loop).
QueueRight ==
  /\ \A i, j \in DOMAIN idequeue : i # j => idequeue[i] # idequeue[j]
  /\ \A i \in DOMAIN idequeue :
       \E p \in Procs : /\ b[p] = idequeue[i] /\ owner[b[p]] = p
                        /\ pc[p] \in {"asleep", "awake"}
  /\ \A p \in Procs : pc[p] = "rw" => (dirty[b[p]] \/ ~valid[b[p]])

\* "bget: no buffers" is reached only when each buffer is pinned by the log, or
\* in the hands of a process that uses or waits for it: no reference outlives
\* its user.
InUse == UNION {{got[p][x] : x \in Blocks} \cup {b[p]} : p \in Procs}
OnlyWhenFull == panicked => \A c \in Bufs : dirty[c] \/ c \in InUse

\* Whoever sleeps for the disk gets its buffer.
RequestsServed ==
  \A p \in Procs : pc[p] = "asleep" ~> (pc[p] = "run" \/ panicked)

\* Cache and disk together implement one store of blocks, each used by one
\* process at a time: nothing written is lost when its buffer is recycled or
\* read again, and no step but the user's changes a block.
Content(x) ==
  IF \E c \in Bufs : blk[c] = x /\ valid[c]
  THEN data[CHOOSE c \in Bufs : blk[c] = x /\ valid[c]] ELSE disk[x]

Store == INSTANCE BlockStore WITH
  content <- [x \in Blocks |-> Content(x)],
  user <- [x \in Blocks |-> IF \E p \in Procs : x \in Held(p)
                            THEN CHOOSE p \in Procs : x \in Held(p) ELSE Nobody]

ImplementsBlockStore == Store!Spec
=============================================================================
