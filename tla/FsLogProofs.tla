----------------------------- MODULE FsLogProofs -----------------------------
(* Proofs about FsLog, for any finite set of processes, any blocks and any  *)
(* log size: who may be asleep in begin_op, what runs next to a commit,     *)
(* that reservations suffice for first writes, what recovery finds on disk,  *)
(* and that groups of operations are atomic (AtomicDisk).                   *)
EXTENDS FsLog, FiniteSetTheorems, SequenceTheorems, TLAPS

USE DEF onDisk, buffers, counts, callers, Up, Goto

\* The operations in progress.
InOp == {p \in Procs : pc[p] \in {"op", "append"}}

Controls ==
  /\ pc \in [Procs -> {"idle", "woken", "asleep", "op", "append", "commit"}]
  /\ outstanding \in Nat
  /\ committing \in BOOLEAN /\ recovering \in BOOLEAN

\* log.outstanding counts them.
Counted == outstanding = Cardinality(InOp)

\* A commit, or a recovery, has the log to itself.
Alone ==
  /\ committing => outstanding = 0
  /\ recovering => outstanding = 0 /\ ~committing
  /\ phase # "none" => committing \/ recovering

\* A transaction is in the log only while somebody is still to commit it.
Emptied ==
  /\ phase = "done" => lh = <<>> /\ committing
  /\ outstanding = 0 /\ ~committing /\ ~recovering => lh = <<>>

LogCore == Controls /\ Counted /\ Alone /\ Emptied /\ SleeperHasWaker

LEMMA InOpFinite == IsFiniteSet(InOp)
BY LogAssumption, FS_Subset DEF InOp

\* The count follows the set: an operation starts, ends, goes on.
LEMMA OneMore ==
  ASSUME NEW p \in Procs, Counted, p \notin InOp, InOp' = InOp \cup {p},
         outstanding' = outstanding + 1
  PROVE  Counted'
BY InOpFinite, FS_AddElement DEF Counted

LEMMA OneLess ==
  ASSUME NEW p \in Procs, Counted, p \in InOp, InOp' = InOp \ {p},
         outstanding' = outstanding - 1
  PROVE  Counted'
BY InOpFinite, FS_RemoveElement DEF Counted

LEMMA SomeOp ==
  ASSUME Controls, Counted, NEW p \in InOp
  PROVE  outstanding > 0
BY InOpFinite, FS_EmptySet, FS_CardinalityType DEF Counted, Controls

LEMMA CoreInit == Init => LogCore
<1> SUFFICES ASSUME Init PROVE LogCore
  OBVIOUS
<1>1. InOp = {}
  BY DEF Init, InOp
<1>2. Counted
  BY <1>1, FS_EmptySet DEF Init, Counted
<1> QED BY <1>2 DEF Init, LogCore, Controls, Alone, Emptied, SleeperHasWaker

LEMMA CoreStep ==
  ASSUME LogCore, [Next]_vars
  PROVE  LogCore'
<1> USE DEF LogCore
<1>1. CASE UNCHANGED vars
  BY <1>1 DEF vars, Controls, Counted, InOp, Alone, Emptied, SleeperHasWaker
<1>2. ASSUME NEW p \in Procs, BeginOp(p) PROVE LogCore'
  <2> USE <1>2 DEF BeginOp
  <2>1. CASE ~committing /\ Fits /\ outstanding' = outstanding + 1 /\ Goto(p, "op")
    <3>1. InOp' = InOp \cup {p} /\ p \notin InOp
      BY <2>1 DEF InOp, Controls
    <3>2. Counted'
      BY <2>1, <3>1, OneMore
    <3> QED BY <2>1, <3>2 DEF Controls, Alone, Emptied, SleeperHasWaker
  <2>2. CASE (committing \/ ~Fits) /\ Goto(p, "asleep") /\ UNCHANGED outstanding
    <3>1. InOp' = InOp
      BY <2>2 DEF InOp, Controls
    <3>2. committing \/ outstanding > 0
      <4>1. CASE outstanding = 0 /\ ~committing
        <5>1. Len(lh) = 0
          BY <4>1 DEF Emptied
        <5>2. (outstanding + 1) * MAXOPBLOCKS = MAXOPBLOCKS
          BY <4>1, LogAssumption
        <5> QED BY <2>2, <4>1, <5>1, <5>2, LogAssumption DEF Fits
      <4> QED BY <4>1 DEF Controls
    <3> QED
      BY <2>2, <3>1, <3>2 DEF Controls, Counted, Alone, Emptied, SleeperHasWaker
  <2> QED BY <2>1, <2>2
<1>3. ASSUME NEW p \in Procs, NEW b \in Blocks, NEW v \in Values, Write(p, b, v)
      PROVE  LogCore'
  <2>1. InOp' = InOp
    BY <1>3 DEF Write, InOp, Controls
  <2> QED
    BY <1>3, <2>1 DEF Write, Controls, Counted, Alone, Emptied, SleeperHasWaker
<1>4. ASSUME NEW p \in Procs, LogWrite(p) PROVE LogCore'
  <2>1. InOp' = InOp /\ p \in InOp
    BY <1>4 DEF LogWrite, InOp, Controls
  <2>2. outstanding > 0
    BY <2>1, SomeOp
  <2> QED
    BY <1>4, <2>1, <2>2
       DEF LogWrite, Controls, Counted, Alone, Emptied, SleeperHasWaker
<1>5. ASSUME NEW p \in Procs, EndOp(p) PROVE LogCore'
  <2>1. p \in InOp /\ outstanding > 0 /\ ~committing /\ ~recovering
    <3>1. p \in InOp
      BY <1>5 DEF EndOp, InOp
    <3> QED BY <1>5, <3>1, SomeOp DEF EndOp, Controls, Alone
  <2>2. outstanding' = outstanding - 1
    BY <1>5 DEF EndOp
  <2>3. CASE /\ outstanding = 1 /\ committing' = TRUE
             /\ Goto(p, "commit") /\ phase' = CommitStart
    <3>1. InOp' = InOp \ {p}
      BY <2>3 DEF InOp, Controls
    <3>2. Counted'
      BY <2>1, <2>2, <3>1, OneLess
    <3> QED
      BY <1>5, <2>1, <2>2, <2>3, <3>2
         DEF EndOp, CommitStart, Controls, Alone, Emptied, SleeperHasWaker
  <2>4. CASE /\ outstanding > 1 /\ UNCHANGED <<committing, phase>>
             /\ pc' = [Woken EXCEPT ![p] = "idle"]
    <3>1. InOp' = InOp \ {p}
      BY <2>4 DEF InOp, Controls, Woken
    <3>2. Counted'
      BY <2>1, <2>2, <3>1, OneLess
    <3> QED
      BY <1>5, <2>1, <2>2, <2>4, <3>2
         DEF EndOp, Woken, Controls, Alone, Emptied, SleeperHasWaker
  <2> QED BY <1>5, <2>1, <2>3, <2>4 DEF EndOp
<1>6. ASSUME NEW p \in Procs, CommitDone(p) PROVE LogCore'
  <2>1. InOp' = InOp
    BY <1>6 DEF CommitDone, InOp, Controls, Woken
  <2> QED
    BY <1>6, <2>1
       DEF CommitDone, Woken, Controls, Counted, Alone, Emptied, SleeperHasWaker
<1>7. CASE WriteLog \/ WriteHead \/ InstallTrans
  <2>1. InOp' = InOp
    BY <1>7 DEF WriteLog, WriteHead, InstallTrans, InOp
  <2> QED
    BY <1>7, <2>1 DEF WriteLog, WriteHead, InstallTrans, Loop,
       Controls, Counted, Alone, Emptied, SleeperHasWaker
<1>8. CASE Erase
  <2>1. InOp' = InOp
    BY <1>8 DEF Erase, InOp
  <2> QED
    BY <1>8, <2>1
       DEF Erase, Controls, Counted, Alone, Emptied, SleeperHasWaker
<1>9. CASE Crash
  <2>1. InOp' = {}
    BY <1>9 DEF Crash, InOp
  <2>2. Counted'
    BY <1>9, <2>1, FS_EmptySet DEF Crash, Counted
  <2> QED
    BY <1>9, <2>2 DEF Crash, Controls, Alone, Emptied, SleeperHasWaker
<1>10. ASSUME NEW b \in Blocks, Evict(b) PROVE LogCore'
  BY <1>10 DEF Evict, Controls, Counted, InOp, Alone, Emptied, SleeperHasWaker
<1> QED
  BY <1>1, <1>2, <1>3, <1>4, <1>5, <1>6, <1>7, <1>8, <1>9, <1>10 DEF Next

\* The core holds in every reachable state, crashes and recoveries included.
THEOREM CoreInvariant == Spec => []LogCore
BY CoreInit, CoreStep, PTL DEF Spec

\* Whoever sleeps in begin_op is woken by a commit or an end_op still to come,
\* for any number of processes and any log size (log.c's two wakeups).
THEOREM SleepersHaveWakers == Spec => []SleeperHasWaker
<1>1. LogCore => SleeperHasWaker
  BY DEF LogCore
<1> QED BY CoreInvariant, <1>1, PTL

\* end_op commits without log.lock, and nobody is inside an operation
\* meanwhile, nor during recovery: no block joins a transaction that is on its
\* way to the disk.
CommitAlone == committing \/ recovering => InOp = {}

THEOREM CommitsRunAlone == Spec => []CommitAlone
<1>1. LogCore => CommitAlone
  BY SomeOp DEF LogCore, CommitAlone, Alone
<1> QED BY CoreInvariant, <1>1, PTL

----------------------------------------------------------------------------
(* Types, and the reservations: the blocks the operations in progress may   *)
(* still add fit in the log together with those it has.                     *)

\* What an operation may still add to the log: the blocks it has not written,
\* and the one it has handed to log_write unless somebody else has it there.
Unrecorded(p) ==
  MAXOPBLOCKS - Cardinality(wrote[p])
    + IF pc[p] = "append" /\ block[p] \notin Range(lh) THEN 1 ELSE 0
Claims ==
  {c \in InOp \X (0..MAXOPBLOCKS - 1) : c[2] < Unrecorded(c[1])}

\* An operation stays in its reservation, and what it has written is in the
\* log: writing it again adds nothing.
Recorded ==
  \A p \in Procs :
    /\ IsFiniteSet(wrote[p]) /\ Cardinality(wrote[p]) <= MAXOPBLOCKS
    /\ pc[p] = "append" => block[p] \in wrote[p]
    /\ p \in InOp =>
         \A b \in wrote[p] : b \in Range(lh) \/ (pc[p] = "append" /\ b = block[p])
    /\ p \notin InOp => wrote[p] = {}

Reserved ==
  /\ Len(lh) + Cardinality(Claims) <= LOGSIZE
  /\ Len(head) <= LOGSIZE

\* The loops of commit and recovery stay in the transaction.
InBounds ==
  /\ phase = "log" => lh # <<>>
  /\ phase \in {"log", "install"} /\ lh # <<>> => tail <= Len(lh)
  /\ phase \notin {"log", "install"} => tail = 1
  /\ phase = "install" /\ lh = <<>> => tail = 1

Distinct == IsInjective(lh) /\ IsInjective(head)

LogRoom == TypeOK /\ Recorded /\ Reserved /\ InBounds /\ Distinct

ClaimsCounted ==
  /\ IsFiniteSet(Claims) /\ Cardinality(Claims) \in Nat
  /\ Cardinality(Claims) <= outstanding * MAXOPBLOCKS

LEMMA ClaimsFinite == LogCore => ClaimsCounted
<1> SUFFICES ASSUME LogCore PROVE ClaimsCounted
  OBVIOUS
<1>1. IsFiniteSet(InOp) /\ outstanding = Cardinality(InOp)
  BY InOpFinite DEF LogCore, Counted
<1>2. IsFiniteSet(0..MAXOPBLOCKS - 1) /\ Cardinality(0..MAXOPBLOCKS - 1) = MAXOPBLOCKS
  BY FS_Interval, LogAssumption
<1>3. /\ IsFiniteSet(InOp \X (0..MAXOPBLOCKS - 1))
      /\ Cardinality(InOp \X (0..MAXOPBLOCKS - 1)) = outstanding * MAXOPBLOCKS
  BY <1>1, <1>2, FS_Product
<1>4. Claims \in SUBSET (InOp \X (0..MAXOPBLOCKS - 1))
  BY DEF Claims
<1> QED BY <1>3, <1>4, FS_Subset, FS_CardinalityType DEF ClaimsCounted

LEMMA UnrecordedType ==
  ASSUME LogRoom, NEW p \in Procs
  PROVE  /\ Unrecorded(p) \in 0..MAXOPBLOCKS
         /\ Cardinality(wrote[p]) \in 0..MAXOPBLOCKS
<1>1. /\ IsFiniteSet(wrote[p]) /\ Cardinality(wrote[p]) <= MAXOPBLOCKS
      /\ pc[p] = "append" => block[p] \in wrote[p]
  BY DEF LogRoom, Recorded
<1>2. Cardinality(wrote[p]) \in Nat
  BY <1>1, FS_CardinalityType
<1>3. pc[p] = "append" => Cardinality(wrote[p]) # 0
  BY <1>1, FS_EmptySet
<1> QED BY <1>1, <1>2, <1>3, LogAssumption DEF Unrecorded

\* An operation with something left to record has a claim, and fewer
\* operations, or fewer blocks, have no more claims.
LEMMA OneClaim ==
  ASSUME LogCore, LogRoom, NEW p \in InOp, Unrecorded(p) > 0
  PROVE  <<p, Unrecorded(p) - 1>> \in Claims /\ Cardinality(Claims) > 0
<1>1. Unrecorded(p) \in 1..MAXOPBLOCKS
  BY UnrecordedType, LogAssumption DEF InOp
<1>2. <<p, Unrecorded(p) - 1>> \in Claims
  BY <1>1, LogAssumption DEF Claims
<1> QED BY <1>2, ClaimsFinite, FS_EmptySet DEF ClaimsCounted

LEMMA ClaimsShrink ==
  ASSUME LogRoom, InOp' \subseteq InOp,
         \A p \in InOp' : Unrecorded(p)' \in Int /\ Unrecorded(p)' <= Unrecorded(p)
  PROVE  Claims' \subseteq Claims
<1>1. ASSUME NEW c \in Claims' PROVE c \in Claims
  <2>1. /\ c \in InOp' \X (0..MAXOPBLOCKS - 1) /\ c[1] \in InOp'
        /\ c[2] < Unrecorded(c[1])'
    BY DEF Claims, Unrecorded
  <2>2. c[1] \in Procs /\ c \in InOp \X (0..MAXOPBLOCKS - 1)
    BY <2>1 DEF InOp
  <2>3. Unrecorded(c[1]) \in Int /\ c[2] \in Int
    BY <2>1, <2>2, UnrecordedType, LogAssumption
  <2> QED BY <2>1, <2>2, <2>3 DEF Claims
<1> QED BY <1>1

LEMMA AppendDistinct ==
  ASSUME NEW s \in Seq(Blocks), IsInjective(s), NEW b \in Blocks, b \notin Range(s)
  PROVE  IsInjective(Append(s, b))
BY AppendProperties DEF IsInjective, Range

LEMMA LoggedIs ==
  ASSUME TypeOK, Distinct, NEW b \in Blocks
  PROVE  /\ Logged(b) \in Seq(Blocks) /\ IsInjective(Logged(b))
         /\ Len(Logged(b)) <= Len(lh) + 1
<1>1. lh \in Seq(Blocks) /\ IsInjective(lh)
  BY DEF TypeOK, Distinct
<1> QED BY <1>1, AppendDistinct, AppendProperties DEF Logged

LEMMA LoggedRange ==
  ASSUME NEW s \in Seq(Blocks), s = lh, NEW b \in Blocks
  PROVE  Range(Logged(b)) = Range(lh) \cup {b}
<1>1. CASE b \in Range(lh)
  BY <1>1 DEF Logged
<1>2. CASE b \notin Range(lh)
  <2>1. Logged(b) = Append(s, b) /\ Len(s) \in Nat
    BY <1>2 DEF Logged
  <2>2. /\ DOMAIN Append(s, b) = 1..Len(s) + 1 /\ DOMAIN s = 1..Len(s)
        /\ \A i \in 1..Len(s) : Append(s, b)[i] = s[i]
        /\ Append(s, b)[Len(s) + 1] = b
    BY <2>1
  <2>3. 1..Len(s) + 1 = (1..Len(s)) \cup {Len(s) + 1}
    BY <2>1
  <2>4. Range(Append(s, b)) = Range(s) \cup {b}
    BY <2>2, <2>3 DEF Range
  <2> QED BY <2>1, <2>4
<1> QED BY <1>1, <1>2

LEMMA BreadType ==
  ASSUME TypeOK, NEW b \in Blocks
  PROVE  Bread(b) \in Values
BY DEF TypeOK, Bread

LEMMA FewerClaims ==
  ASSUME LogCore, Claims' \subseteq Claims
  PROVE  Cardinality(Claims') \in Nat /\ Cardinality(Claims') <= Cardinality(Claims)
BY ClaimsFinite, FS_Subset, FS_CardinalityType DEF ClaimsCounted

LEMMA LogLength ==
  ASSUME TypeOK
  PROVE  Len(lh) \in Nat /\ Len(head) \in Nat
BY DEF TypeOK

LEMMA RoomStep ==
  ASSUME LogCore, LogCore', LogRoom, [Next]_vars
  PROVE  LogRoom'
<1> USE DEF LogRoom
<1>a. /\ LOGSIZE \in Nat /\ LOGSIZE >= 1 /\ MAXOPBLOCKS \in Nat /\ MAXOPBLOCKS >= 1
  BY LogAssumption
<1>p. ClaimsCounted /\ ClaimsCounted'
  BY ClaimsFinite, PTL
<1>n. /\ Len(lh) \in Nat /\ Len(head) \in Nat
      /\ Cardinality(Claims) \in Nat /\ Cardinality(Claims') \in Nat
  BY <1>p, LogLength DEF ClaimsCounted
<1>c. InOp = {p \in Procs : pc[p] \in {"op", "append"}}
  BY DEF InOp
<1>same. ASSUME UNCHANGED <<pc, wrote, block, lh>>
         PROVE  Claims' = Claims /\ Recorded'
  BY <1>same DEF Claims, InOp, Unrecorded, Recorded
<1>u. \A p \in Procs : Unrecorded(p) \in Int /\ Cardinality(wrote[p]) \in Nat
  BY UnrecordedType, <1>a
<1>same2. ASSUME NEW q \in Procs, UNCHANGED <<pc[q], wrote[q], block[q], lh>>
          PROVE  Unrecorded(q)' = Unrecorded(q)
  BY <1>same2 DEF Unrecorded
<1>1. CASE UNCHANGED vars
  <2>1. Claims' = Claims /\ Recorded'
    BY <1>1, <1>same DEF vars
  <2> QED BY <1>1, <2>1 DEF vars, TypeOK, Reserved, InBounds, Distinct
<1>2. ASSUME NEW p \in Procs, BeginOp(p) PROVE LogRoom'
  <2> USE <1>2 DEF BeginOp
  <2>1. TypeOK'
    BY <1>a DEF TypeOK, LogCore, Controls
  <2>2. InBounds' /\ Distinct'
    BY DEF InBounds, Distinct
  <2>3. p \notin InOp /\ wrote[p] = {} /\ UNCHANGED <<wrote, block, lh, head>>
    BY DEF InOp, Recorded
  <2>4. CASE ~committing /\ Fits /\ outstanding' = outstanding + 1 /\ Goto(p, "op")
    <3>1. Recorded'
      BY <2>3, <2>4 DEF Recorded, InOp, TypeOK
    <3>2. Reserved'
      BY <2>4, <1>p, <1>n, <1>a DEF ClaimsCounted, Reserved, Fits, TypeOK
    <3> QED BY <2>1, <2>2, <3>1, <3>2
  <2>5. CASE (committing \/ ~Fits) /\ Goto(p, "asleep") /\ UNCHANGED outstanding
    <3>1. InOp' = InOp /\ Recorded'
      BY <2>3, <2>5 DEF Recorded, InOp, TypeOK
    <3>2. \A q \in InOp' : Unrecorded(q)' = Unrecorded(q)
      BY <2>3, <2>5, <3>1, <1>same2 DEF InOp, TypeOK
    <3>3. Claims' \subseteq Claims
      BY <3>1, <3>2, <1>u, ClaimsShrink DEF InOp
    <3>4. Reserved'
      BY <2>3, <3>3, <1>n, <1>a, FewerClaims DEF Reserved
    <3> QED BY <2>1, <2>2, <3>1, <3>4
  <2> QED BY <2>4, <2>5
<1>3. ASSUME NEW p \in Procs, NEW b \in Blocks, NEW v \in Values, Write(p, b, v)
      PROVE  LogRoom'
  <2> USE <1>3 DEF Write
  <2>1. /\ pc[p] = "op" /\ p \in InOp /\ UNCHANGED <<lh, head>>
        /\ pc' = [pc EXCEPT ![p] = "append"] /\ block' = [block EXCEPT ![p] = b]
        /\ wrote' = [wrote EXCEPT ![p] = wrote[p] \cup {b}]
        /\ \A q \in Procs : q # p => UNCHANGED <<pc[q], wrote[q], block[q]>>
    BY DEF InOp, TypeOK
  <2>2. pc'[p] = "append" /\ block'[p] = b /\ wrote'[p] = wrote[p] \cup {b}
    BY <2>1 DEF TypeOK
  <2>3. InBounds' /\ Distinct'
    BY DEF InBounds, Distinct
  <2>4. TypeOK'
    <3>1. cache' \in [Blocks -> Values \cup {NotCached}] /\ panicked' \in BOOLEAN
      BY DEF TypeOK
    <3>2. /\ wrote' \in [Procs -> SUBSET Blocks]
          /\ block' \in [Procs -> Blocks \cup {NoBlock}]
          /\ pc' \in [Procs -> {"idle", "woken", "asleep", "op", "append", "commit"}]
      BY <2>1 DEF TypeOK
    <3> QED BY <3>1, <3>2 DEF TypeOK
  <2>5. /\ IsFiniteSet(wrote'[p]) /\ Cardinality(wrote'[p]) <= MAXOPBLOCKS
        /\ Unrecorded(p)' \in Int /\ Unrecorded(p)' <= Unrecorded(p)
    <3>1. /\ IsFiniteSet(wrote[p]) /\ Cardinality(wrote[p]) \in Nat
          /\ Cardinality(wrote[p]) <= MAXOPBLOCKS
          /\ Unrecorded(p) = MAXOPBLOCKS - Cardinality(wrote[p])
      BY <2>1, <1>u, <1>a DEF Recorded, Unrecorded
    <3>2. CASE b \in wrote[p]
      <4>1. wrote'[p] = wrote[p] /\ b \in Range(lh)
        BY <2>1, <2>2, <3>2 DEF Recorded
      <4>2. Unrecorded(p)' = MAXOPBLOCKS - Cardinality(wrote[p])
        BY <2>1, <2>2, <3>1, <4>1, <1>a DEF Unrecorded
      <4> QED BY <3>1, <4>1, <4>2, <1>a
    <3>3. CASE b \notin wrote[p]
      <4>1. IsFiniteSet(wrote'[p]) /\ Cardinality(wrote'[p]) = Cardinality(wrote[p]) + 1
        BY <2>2, <3>1, <3>3, FS_AddElement
      <4>2. Cardinality(wrote[p]) < MAXOPBLOCKS
        BY <3>3 DEF OpBlocks
      <4>3. \/ Unrecorded(p)' = MAXOPBLOCKS - Cardinality(wrote'[p]) + 1
            \/ Unrecorded(p)' = MAXOPBLOCKS - Cardinality(wrote'[p]) + 0
        BY DEF Unrecorded
      <4> QED BY <3>1, <4>1, <4>2, <4>3, <1>a
    <3> QED BY <3>2, <3>3
  <2>6. InOp' = InOp
    BY <2>1, <2>2 DEF InOp
  <2>7. Recorded'
    <3>1. ASSUME NEW q \in Procs, q # p
          PROVE  /\ IsFiniteSet(wrote'[q]) /\ Cardinality(wrote'[q]) <= MAXOPBLOCKS
                 /\ pc'[q] = "append" => block'[q] \in wrote'[q]
                 /\ q \in InOp' => \A c \in wrote'[q] : c \in Range(lh')
                                        \/ (pc'[q] = "append" /\ c = block'[q])
                 /\ q \notin InOp' => wrote'[q] = {}
      BY <2>1, <2>6, <3>1 DEF Recorded
    <3>2. \A c \in wrote'[p] : c \in Range(lh') \/ c = b
      BY <2>1, <2>2 DEF Recorded
    <3> QED BY <2>1, <2>2, <2>5, <2>6, <3>1, <3>2 DEF Recorded
  <2>8. \A q \in InOp' : Unrecorded(q)' \in Int /\ Unrecorded(q)' <= Unrecorded(q)
    <3>1. ASSUME NEW q \in Procs, q # p PROVE Unrecorded(q)' = Unrecorded(q)
      BY <2>1, <3>1, <1>same2
    <3> QED BY <2>5, <2>6, <3>1, <1>u DEF InOp
  <2>9. Claims' \subseteq Claims
    BY <2>6, <2>8, ClaimsShrink
  <2>10. Reserved'
    BY <2>1, <2>9, <1>n, <1>a, FewerClaims DEF Reserved
  <2> QED BY <2>3, <2>4, <2>7, <2>10
<1>4. ASSUME NEW p \in Procs, LogWrite(p) PROVE LogRoom'
  <2> USE <1>4 DEF LogWrite
  <2> DEFINE b == block[p]
             w == Cardinality(wrote[p])
  <2>0. /\ p \in InOp /\ pc[p] = "append" /\ b \in wrote[p] /\ b \in Blocks
        /\ lh' = Logged(b) /\ pc' = [pc EXCEPT ![p] = "op"]
        /\ block' = [block EXCEPT ![p] = NoBlock] /\ UNCHANGED <<wrote, head>>
        /\ phase = "none" /\ phase' = phase /\ tail' = tail
    <3>1. p \in InOp
      BY DEF InOp
    <3>2. phase = "none"
      BY <3>1, SomeOp DEF LogCore, Alone
    <3>3. b \in wrote[p] /\ b \in Blocks
      BY DEF Recorded, TypeOK
    <3> QED BY <3>1, <3>2, <3>3
  <2>1. /\ lh' \in Seq(Blocks) /\ IsInjective(lh') /\ Len(lh') <= Len(lh) + 1
        /\ Range(lh') = Range(lh) \cup {b} /\ Len(lh') \in Nat
    <3>1. Range(Logged(b)) = Range(lh) \cup {b}
      BY <2>0, LoggedRange DEF TypeOK
    <3> QED BY <2>0, <3>1, LoggedIs
  <2>2. TypeOK'
    BY <2>0, <2>1 DEF TypeOK, Pinned, LogCore, Controls
  <2>3. InBounds' /\ Distinct'
    BY <2>0, <2>1 DEF InBounds, Distinct
  <2>4. /\ pc'[p] = "op" /\ InOp' = InOp
        /\ \A q \in Procs : q # p => pc'[q] = pc[q] /\ block'[q] = block[q]
    BY <2>0 DEF InOp, TypeOK
  <2>5. Recorded'
    <3>1. ASSUME NEW q \in Procs, q # p
          PROVE  /\ IsFiniteSet(wrote'[q]) /\ Cardinality(wrote'[q]) <= MAXOPBLOCKS
                 /\ pc'[q] = "append" => block'[q] \in wrote'[q]
                 /\ q \in InOp' => \A c \in wrote'[q] : c \in Range(lh')
                                        \/ (pc'[q] = "append" /\ c = block'[q])
                 /\ q \notin InOp' => wrote'[q] = {}
      BY <2>0, <2>1, <2>4, <3>1 DEF Recorded
    <3>2. \A c \in wrote'[p] : c \in Range(lh')
      BY <2>0, <2>1 DEF Recorded
    <3>3. IsFiniteSet(wrote'[p]) /\ Cardinality(wrote'[p]) <= MAXOPBLOCKS
      BY <2>0 DEF Recorded
    <3> QED BY <2>0, <2>4, <3>1, <3>2, <3>3 DEF Recorded
  <2>6. Unrecorded(p)' = MAXOPBLOCKS - w /\ w \in Nat
    BY <2>0, <2>4, <1>u, <1>a DEF Unrecorded
  <2>7. Unrecorded(p) = MAXOPBLOCKS - w + IF b \in Range(lh) THEN 0 ELSE 1
    BY <2>0 DEF Unrecorded
  <2>8. \A q \in InOp' : Unrecorded(q)' \in Int /\ Unrecorded(q)' <= Unrecorded(q)
    <3>1. ASSUME NEW q \in InOp', q # p
          PROVE  Unrecorded(q)' \in Int /\ Unrecorded(q)' <= Unrecorded(q)
      <4>1. q \in Procs /\ Cardinality(wrote[q]) \in Nat
        BY <1>u DEF InOp
      <4>2. /\ pc'[q] = pc[q] /\ block'[q] = block[q] /\ wrote'[q] = wrote[q]
            /\ Range(lh) \subseteq Range(lh')
        BY <2>0, <2>1, <2>4, <3>1, <4>1
      <4> QED BY <4>1, <4>2, <1>a DEF Unrecorded
    <3>2. Unrecorded(p)' \in Int /\ Unrecorded(p)' <= Unrecorded(p)
      BY <2>6, <2>7, <1>a
    <3> QED BY <3>1, <3>2
  <2>9. Claims' \subseteq Claims
    BY <2>4, <2>8, ClaimsShrink
  <2>10. Len(lh') + Cardinality(Claims') <= LOGSIZE
    <3>1. CASE b \in Range(lh)
      <4>1. lh' = lh
        BY <2>0, <3>1 DEF Logged
      <4> QED BY <2>9, <4>1, <1>n, <1>a, FewerClaims DEF Reserved
    <3>2. CASE b \notin Range(lh)
      <4> DEFINE c == <<p, Unrecorded(p) - 1>>
      <4>1. Unrecorded(p) = MAXOPBLOCKS - w + 1 /\ Unrecorded(p) > 0
        <5>1. w <= MAXOPBLOCKS
          BY DEF Recorded
        <5> QED BY <2>6, <2>7, <3>2, <5>1, <1>a
      <4>2. c \in Claims
        BY <2>0, <4>1, OneClaim
      <4>3. c \notin Claims'
        <5>1. c[1] = p /\ c[2] = MAXOPBLOCKS - w
          BY <4>1, <2>6, <1>a
        <5>2. ~(c[2] < Unrecorded(p)')
          BY <2>6, <5>1, <1>a
        <5> QED BY <5>1, <5>2 DEF Claims
      <4>4. /\ IsFiniteSet(Claims \ {c})
            /\ Cardinality(Claims \ {c}) = Cardinality(Claims) - 1
        BY <4>2, ClaimsFinite, FS_RemoveElement DEF ClaimsCounted
      <4>5. Claims' \in SUBSET (Claims \ {c})
        BY <2>9, <4>3
      <4>6. Cardinality(Claims') <= Cardinality(Claims) - 1
        BY <4>4, <4>5, FS_Subset
      <4> QED BY <2>1, <4>6, <1>n, <1>a DEF Reserved
    <3> QED BY <3>1, <3>2
  <2> QED BY <2>0, <2>2, <2>3, <2>5, <2>10 DEF Reserved
<1>5. ASSUME NEW p \in Procs, EndOp(p) PROVE LogRoom'
  <2> USE <1>5 DEF EndOp
  <2>0. /\ p \in InOp /\ ~committing /\ phase = "none"
        /\ wrote' = [wrote EXCEPT ![p] = {}] /\ lh' = lh /\ head' = head
        /\ block' = block /\ tail' = tail
    <3>1. p \in InOp
      BY DEF InOp
    <3> QED BY <3>1, SomeOp DEF LogCore, Alone
  <2>1. /\ pc' \in [Procs -> {"idle", "woken", "asleep", "op", "append", "commit"}]
        /\ \A q \in Procs : pc'[q] \in {"op", "append"} => q # p /\ pc'[q] = pc[q]
    BY <2>0 DEF TypeOK, Woken
  <2>2. InOp' \subseteq InOp /\ p \notin InOp' /\ wrote'[p] = {}
    BY <2>0, <2>1 DEF InOp, TypeOK
  <2>7. ASSUME NEW q \in Procs, q \in InOp'
        PROVE  /\ q # p /\ q \in InOp
               /\ UNCHANGED <<pc[q], wrote[q], block[q], lh>>
    <3>1. pc'[q] \in {"op", "append"}
      BY <2>7 DEF InOp
    <3> QED BY <2>0, <2>1, <2>2, <2>7, <3>1 DEF TypeOK
  <2>8. \A q \in InOp' : Unrecorded(q)' = Unrecorded(q)
    BY <2>2, <2>7, <1>same2 DEF InOp
  <2>9. Claims' \subseteq Claims
    BY <2>2, <2>8, <1>u, ClaimsShrink DEF InOp
  <2>10. ASSUME NEW q \in Procs, q \notin InOp' PROVE wrote'[q] = {}
    <3>1. CASE q = p
      BY <3>1, <2>2
    <3>2. CASE q # p
      <4>1. pc[q] = pc'[q] \/ pc[q] = "asleep"
        BY <2>0, <3>2 DEF Woken, TypeOK
      <4>2. q \notin InOp
        BY <2>10, <4>1 DEF InOp
      <4> QED BY <2>0, <3>2, <4>2 DEF Recorded, TypeOK
    <3> QED BY <3>1, <3>2
  <2>11. ASSUME NEW q \in Procs, pc'[q] = "append" PROVE q \in InOp'
    BY <2>11 DEF InOp
  <2>12. Recorded'
    BY <2>7, <2>10, <2>11, FS_EmptySet, <1>a DEF Recorded
  <2>3. phase' \in {"none", "log", "done"} /\ (phase' = "log" => lh # <<>>)
    BY <2>0 DEF CommitStart
  <2>4. TypeOK'
    BY <2>0, <2>1, <2>3, <1>a DEF TypeOK, LogCore, Controls
  <2>5. InBounds' /\ Distinct'
    BY <2>0, <2>3, <1>n DEF InBounds, Distinct, TypeOK
  <2>6. Reserved'
    BY <2>0, <2>9, <1>n, <1>a, FewerClaims DEF Reserved
  <2> QED BY <2>4, <2>5, <2>6, <2>12
<1>6. ASSUME NEW p \in Procs, CommitDone(p) PROVE LogRoom'
  <2> USE <1>6 DEF CommitDone
  <2>1. /\ pc' \in [Procs -> {"idle", "woken", "asleep", "op", "append", "commit"}]
        /\ \A q \in Procs : pc'[q] \in {"op", "append"} => pc'[q] = pc[q]
    BY DEF TypeOK, Woken
  <2>2. InOp' = InOp /\ UNCHANGED <<wrote, block, lh, head>>
    BY <2>1 DEF InOp, TypeOK, Woken
  <2>6. \A q \in InOp' : Unrecorded(q)' = Unrecorded(q)
    BY <2>1, <2>2, <1>same2 DEF InOp
  <2>7. Claims' \subseteq Claims
    BY <2>2, <2>6, <1>u, ClaimsShrink DEF InOp
  <2>8. Recorded'
    BY <2>1, <2>2 DEF Recorded, InOp
  <2>3. TypeOK'
    BY <2>1 DEF TypeOK, LogCore, Controls
  <2>4. InBounds' /\ Distinct'
    BY DEF InBounds, Distinct
  <2>5. Reserved'
    BY <2>2, <2>7, <1>n, <1>a, FewerClaims DEF Reserved
  <2> QED BY <2>3, <2>4, <2>5, <2>8
<1>7. ASSUME NEW q, Loop(q), phase \in {"log", "install"}, lh' = lh, q \in {"head", "erase"}
      PROVE  /\ tail' \in 1..LOGSIZE /\ phase' \in {phase, q}
             /\ phase' = phase /\ lh # <<>> => tail' <= Len(lh)
             /\ phase' # phase => tail' = 1
             /\ phase' = phase => lh # <<>>
  BY <1>7, <1>a, <1>n DEF Loop, InBounds, TypeOK, Reserved
<1>8. CASE WriteLog
  <2> USE <1>8 DEF WriteLog
  <2>1. tail \in 1..Len(lh)
    BY DEF InBounds, TypeOK
  <2>2. Bread(lh[tail]) \in Values
    BY <2>1, BreadType DEF TypeOK
  <2>3. logdisk' \in [1..LOGSIZE -> Values]
    BY <2>2 DEF TypeOK
  <2>4. TypeOK'
    BY <2>3, <1>7 DEF TypeOK, LogCore, Controls
  <2>5. InBounds' /\ Distinct'
    BY <1>7 DEF InBounds, Distinct
  <2> QED BY <2>4, <2>5, <1>same DEF Reserved
<1>9. CASE WriteHead
  <2> USE <1>9 DEF WriteHead
  <2>1. tail = 1
    BY DEF InBounds
  <2>2. TypeOK'
    BY DEF TypeOK
  <2>3. InBounds' /\ Distinct'
    BY <2>1, <1>n DEF InBounds, Distinct, TypeOK
  <2>4. Len(lh) <= LOGSIZE
    BY <1>n, <1>a DEF Reserved
  <2> QED BY <2>2, <2>3, <2>4, <1>same DEF Reserved
<1>10. CASE InstallTrans
  <2> USE <1>10 DEF InstallTrans
  <2>1. home' \in [Blocks -> Values] /\ cache' \in [Blocks -> Values \cup {NotCached}]
        /\ dirty' \subseteq Blocks
    <3>1. CASE lh = <<>>
      BY <3>1 DEF TypeOK
    <3>2. CASE lh # <<>>
      <4>1. tail \in 1..Len(lh) /\ tail \in 1..LOGSIZE
        BY <3>2 DEF InBounds, TypeOK
      <4>2. lh[tail] \in Blocks /\ logdisk[tail] \in Values
        BY <4>1 DEF TypeOK
      <4> QED BY <3>2, <4>2 DEF TypeOK
    <3> QED BY <3>1, <3>2
  <2>2. TypeOK'
    BY <2>1, <1>7 DEF TypeOK, LogCore, Controls
  <2>3. InBounds' /\ Distinct'
    BY <1>7 DEF InBounds, Distinct
  <2> QED BY <2>2, <2>3, <1>same DEF Reserved
<1>11. CASE Erase
  <2> USE <1>11 DEF Erase
  <2>0. <<>> \in Seq(Blocks)
    OBVIOUS
  <2>1. TypeOK'
    BY <2>0 DEF TypeOK
  <2>2. InBounds' /\ Distinct'
    BY DEF InBounds, Distinct, IsInjective
  <2>3. Len(<<>>) = 0
    OBVIOUS
  <2>4. InOp' = {} /\ InOp = {}
    BY SomeOp DEF LogCore, Alone, InOp
  <2>5. Claims' = {} /\ Recorded'
    BY <2>4 DEF Claims, Recorded, InOp
  <2> QED BY <2>1, <2>2, <2>3, <2>5, <1>n, <1>a, FS_EmptySet DEF Reserved
<1>12. CASE Crash
  <2> USE <1>12 DEF Crash
  <2>0. 1 \in 1..LOGSIZE
    BY <1>a
  <2>1. TypeOK'
    BY <2>0 DEF TypeOK
  <2>2. InBounds' /\ Distinct'
    BY <1>n DEF InBounds, Distinct, TypeOK
  <2>3. Claims' = {}
    BY DEF Claims, InOp
  <2>4. Recorded'
    BY FS_EmptySet, <1>a DEF Recorded, InOp
  <2> QED BY <2>1, <2>2, <2>3, <2>4, <1>n, <1>a, FS_EmptySet DEF Reserved
<1>13. ASSUME NEW b \in Blocks, Evict(b) PROVE LogRoom'
  BY <1>13, <1>same DEF Evict, TypeOK, Reserved, InBounds, Distinct
<1> QED
  BY <1>1, <1>2, <1>3, <1>4, <1>5, <1>6, <1>8, <1>9, <1>10, <1>11, <1>12, <1>13
     DEF Next

LEMMA RoomInit == Init => LogRoom
<1> SUFFICES ASSUME Init PROVE LogRoom
  OBVIOUS
<1>1. 1 \in 1..LOGSIZE /\ <<>> \in Seq(Blocks) /\ Len(<<>>) = 0
  BY LogAssumption
<1>2. Claims = {}
  BY DEF Init, Claims, InOp
<1>3. Cardinality(Claims) = 0
  BY <1>2, FS_EmptySet
<1>4. TypeOK
  BY <1>1, LogAssumption DEF Init, TypeOK
<1>5. Recorded
  BY FS_EmptySet, LogAssumption DEF Init, Recorded, InOp
<1> QED
  BY <1>1, <1>3, <1>4, <1>5, LogAssumption
     DEF Init, LogRoom, Reserved, InBounds, Distinct, IsInjective

THEOREM RoomInvariant == Spec => []LogRoom
<1>1. LogCore /\ LogCore' /\ LogRoom /\ [Next]_vars => LogRoom'
  BY RoomStep
<1> QED BY <1>1, RoomInit, CoreInvariant, PTL DEF Spec

\* Every reachable state of the log is well typed: the loops of commit and of
\* recovery stay in the transaction, crashes included.
THEOREM TypeInvariant == Spec => []TypeOK
<1>1. LogRoom => TypeOK
  BY DEF LogRoom
<1> QED BY <1>1, RoomInvariant, PTL

\* On a disk with a log block for each of LOGSIZE blocks begin_op's reservation
\* suffices, for any number of processes: the transaction never outgrows the
\* log, whoever passes log_write's unlocked test together.
THEOREM TransactionsFit == LogBlocks > LOGSIZE => (Spec => []LogFits)
<1>1. LogBlocks > LOGSIZE /\ LogCore /\ LogRoom => LogFits
  <2> SUFFICES ASSUME LogBlocks > LOGSIZE, LogCore, LogRoom PROVE LogFits
    OBVIOUS
  <2>1. Len(lh) \in Nat /\ Cardinality(Claims) \in Nat
    BY ClaimsFinite, LogLength DEF ClaimsCounted, LogRoom
  <2> QED BY <2>1, LogAssumption DEF LogRoom, Reserved, Distinct, LogFits
<1>2. SUFFICES ASSUME LogBlocks > LOGSIZE PROVE Spec => []LogFits
  OBVIOUS
<1>3. LogCore /\ LogRoom => LogFits
  BY <1>1, <1>2
<1> QED BY <1>3, CoreInvariant, RoomInvariant, PTL

\* ... and on such a disk the first write of each block finds room in the log,
\* whatever the operations around it write and rewrite, and no end_op meets a
\* commit.
THEOREM FirstWritesNeverPanic == LogBlocks > LOGSIZE => (Spec => FirstWritesFit)
<1>1. SUFFICES ASSUME LogBlocks > LOGSIZE PROVE Spec => FirstWritesFit
  OBVIOUS
<1> DEFINE Fit ==
      \A p \in Procs :
        /\ EndOp(p) => ~panicked'
        /\ \A b \in Blocks, v \in Values :
             Write(p, b, v) /\ b \notin wrote[p] => ~panicked'
<1>2. LogCore /\ LogRoom => Fit
  <2> SUFFICES ASSUME LogCore, LogRoom, NEW p \in Procs
               PROVE  /\ EndOp(p) => ~panicked'
                      /\ \A b \in Blocks, v \in Values :
                           Write(p, b, v) /\ b \notin wrote[p] => ~panicked'
    OBVIOUS
  <2>1. ASSUME NEW b \in Blocks, NEW v \in Values, Write(p, b, v), b \notin wrote[p]
        PROVE  ~panicked'
    <3>1. p \in InOp /\ pc[p] = "op" /\ Cardinality(wrote[p]) < MAXOPBLOCKS
      BY <2>1 DEF Write, InOp, OpBlocks
    <3>2. Unrecorded(p) > 0
      BY <3>1, UnrecordedType, LogAssumption DEF Unrecorded
    <3>3. /\ Cardinality(Claims) > 0 /\ Cardinality(Claims) \in Nat
          /\ Len(lh) \in Nat /\ LOGSIZE \in Nat /\ LogBlocks \in Nat
      BY <3>1, <3>2, OneClaim, ClaimsFinite, LogLength, LogAssumption
         DEF ClaimsCounted, LogRoom
    <3>4. Len(lh) < LOGSIZE
      BY <3>3 DEF LogRoom, Reserved
    <3>5. ~TooBig
      BY <1>1, <3>3, <3>4 DEF TooBig
    <3>6. outstanding > 0 /\ outstanding \in Nat
      BY <3>1, SomeOp DEF LogCore, Controls
    <3>7. ~(outstanding < 1)
      BY <3>6
    <3>8. panicked' = (TooBig \/ outstanding < 1)
      BY <2>1, Zenon DEF Write
    <3> QED BY <3>5, <3>7, <3>8
  <2>2. ASSUME EndOp(p) PROVE ~panicked'
    <3>1. p \in InOp
      BY <2>2 DEF EndOp, InOp
    <3>2. ~committing
      BY <3>1, SomeOp DEF LogCore, Alone
    <3> QED BY <2>2, <3>2 DEF EndOp
  <2> QED BY <2>1, <2>2
<1>3. Spec => [][Fit]_vars
  BY <1>2, CoreInvariant, RoomInvariant, PTL
<1> QED BY <1>3 DEF FirstWritesFit

----------------------------------------------------------------------------
(* What the cache, the log and the home blocks have of a transaction at     *)
(* each point of its commit, and so what a crash leaves.                    *)

\* A block a caller has changed and log_write has not recorded.
Writing(b) == \E p \in Procs : block[p] = b

Held == \A p \in Procs : block[p] # NoBlock <=> pc[p] = "append"

\* What is neither in the log nor about to be is as on disk.
Clean == \A b \in Blocks : b \notin dirty /\ ~Writing(b) => Bread(b) = home[b]

\* The pinned blocks are those of the transaction that are not installed.
Pins ==
  dirty = IF recovering \/ phase = "erase" THEN {}
          ELSE IF phase = "install" THEN {lh[i] : i \in tail..Len(lh)}
          ELSE Range(lh)

\* The header on disk has the transaction from write_head to the next one.
Headed ==
  /\ head = IF phase \in {"install", "erase"} THEN lh ELSE <<>>
  /\ recovering => phase \in {"install", "erase"}

\* The log has what readers see of the transaction, ...
Copied ==
  /\ phase = "log" => \A i \in 1..(tail - 1) : logdisk[i] = Bread(lh[i])
  /\ phase \in {"head", "install", "erase"} /\ ~recovering =>
       \A i \in 1..Len(lh) : logdisk[i] = Bread(lh[i])

\* ... and the home blocks have what install_trans has written.
Installed ==
  /\ phase = "install" => \A i \in 1..(tail - 1) : home[lh[i]] = logdisk[i]
  /\ phase = "erase" => \A i \in 1..Len(lh) : home[lh[i]] = logdisk[i]

Redo == Held /\ Clean /\ Pins /\ Headed /\ Copied /\ Installed

\* Only a clean buffer is recycled, so readers see the same.
LEMMA EvictKeeps ==
  ASSUME LogRoom, Clean, NEW b \in Blocks, Evict(b)
  PROVE  \A c \in Blocks : Bread(c)' = Bread(c)
<1>1. Bread(b) = home[b]
  BY DEF Evict, Clean, Writing
<1>2. Bread(b)' = home[b]
  BY DEF Evict, Bread, LogRoom, TypeOK
<1>3. \A c \in Blocks : c # b => Bread(c)' = Bread(c)
  BY DEF Evict, Bread, LogRoom, TypeOK
<1> QED BY <1>1, <1>2, <1>3

\* Nobody is about to write while the log is on its way to the disk.
LEMMA NobodyWrites ==
  ASSUME LogCore, LogRoom, Held, committing \/ recovering
  PROVE  InOp = {} /\ \A b \in Blocks : ~Writing(b)
<1>1. InOp = {}
  BY SomeOp DEF LogCore, Alone
<1>2. \A p \in Procs : block[p] = NoBlock
  BY <1>1 DEF Held, InOp
<1> QED BY <1>1, <1>2, LogAssumption DEF Writing

LEMMA RedoInit == Init => Redo
<1> SUFFICES ASSUME Init PROVE Redo
  OBVIOUS
<1>1. Range(lh) = {}
  BY DEF Init, Range
<1>2. Clean
  BY DEF Init, Clean, Bread
<1> QED BY <1>1, <1>2 DEF Init, Redo, Held, Pins, Headed, Copied, Installed

LEMMA RedoStep ==
  ASSUME LogCore, LogRoom, Redo, [Next]_vars
  PROVE  Redo'
<1> USE DEF Redo
<1>a. /\ lh \in Seq(Blocks) /\ Len(lh) \in Nat /\ tail \in Nat /\ tail >= 1
      /\ \A i \in 1..Len(lh) : lh[i] \in Blocks
      /\ Range(lh) = {lh[i] : i \in 1..Len(lh)}
      /\ NoBlock \notin Blocks /\ Len(lh) <= LOGSIZE /\ LOGSIZE \in Nat
  <2>1. lh \in Seq(Blocks) /\ tail \in 1..LOGSIZE /\ Len(lh) \in Nat
    BY LogLength DEF LogRoom, TypeOK
  <2>2. Len(lh) <= LOGSIZE
    BY <2>1, ClaimsFinite, LogAssumption DEF LogRoom, Reserved, ClaimsCounted
  <2>3. DOMAIN lh = 1..Len(lh)
    BY <2>1
  <2>4. Range(lh) = {lh[i] : i \in 1..Len(lh)}
    BY <2>3 DEF Range
  <2>5. \A i \in 1..Len(lh) : lh[i] \in Blocks
    BY <2>1
  <2> QED BY <2>1, <2>2, <2>4, <2>5, LogAssumption
<1>b. \A i, j \in 1..Len(lh) : lh[i] = lh[j] => i = j
  BY <1>a DEF LogRoom, Distinct, IsInjective
<1>1. CASE UNCHANGED vars
  BY <1>1 DEF vars, Held, Clean, Writing, Bread, Pins, Headed, Copied, Installed
<1>2. ASSUME NEW p \in Procs, BeginOp(p) PROVE Redo'
  <2>1. UNCHANGED <<onDisk, buffers, lh, block, phase, tail, recovering>>
    BY <1>2 DEF BeginOp
  <2>2. \A q \in Procs : pc'[q] = "append" <=> pc[q] = "append"
    BY <1>2 DEF BeginOp, LogRoom, TypeOK
  <2> QED
    BY <2>1, <2>2 DEF Held, Clean, Writing, Bread, Pins, Headed, Copied, Installed
<1>3. ASSUME NEW p \in Procs, NEW b \in Blocks, NEW v \in Values, Write(p, b, v)
      PROVE  Redo'
  <2> USE <1>3 DEF Write
  <2>1. /\ pc' = [pc EXCEPT ![p] = "append"] /\ block' = [block EXCEPT ![p] = b]
        /\ cache' = [cache EXCEPT ![b] = v]
        /\ UNCHANGED <<onDisk, dirty, lh, phase, tail, recovering>>
    OBVIOUS
  <2>2. phase = "none"
    <3>1. p \in InOp
      BY DEF InOp
    <3> QED BY <3>1, SomeOp DEF LogCore, Alone
  <2>3. Held'
    BY <2>1, <1>a DEF Held, LogRoom, TypeOK
  <2>4. Clean'
    <3>1. Writing(b)'
      BY <2>1 DEF Writing, LogRoom, TypeOK
    <3>2. ASSUME NEW c \in Blocks, c # b, Writing(c)
          PROVE  Writing(c)'
      <4>1. PICK q \in Procs : block[q] = c
        BY <3>2 DEF Writing
      <4>2. q # p
        BY <4>1, <1>a DEF Held
      <4> QED BY <2>1, <4>1, <4>2 DEF Writing, LogRoom, TypeOK
    <3>3. \A c \in Blocks : c # b => Bread(c)' = Bread(c)
      BY <2>1 DEF Bread, LogRoom, TypeOK
    <3> QED BY <2>1, <3>1, <3>2, <3>3 DEF Clean
  <2>5. Pins' /\ Headed' /\ Copied' /\ Installed'
    BY <2>1, <2>2 DEF Pins, Headed, Copied, Installed
  <2> QED BY <2>3, <2>4, <2>5
<1>4. ASSUME NEW p \in Procs, LogWrite(p) PROVE Redo'
  <2> DEFINE b == block[p]
  <2>1. /\ b \in Blocks /\ lh' = Logged(b) /\ dirty' = dirty \cup {b}
        /\ pc' = [pc EXCEPT ![p] = "op"] /\ block' = [block EXCEPT ![p] = NoBlock]
        /\ UNCHANGED <<onDisk, cache, phase, tail, recovering>>
    BY <1>4 DEF LogWrite, Pinned, LogRoom, Recorded, TypeOK
  <2>2. phase = "none" /\ ~recovering
    <3>1. p \in InOp
      BY <1>4 DEF LogWrite, InOp
    <3> QED BY <3>1, SomeOp DEF LogCore, Alone
  <2>3. Held'
    BY <2>1, <1>a DEF Held, LogRoom, TypeOK
  <2>4. Clean'
    <3>1. ASSUME NEW c \in Blocks, c # b, Writing(c)
          PROVE  Writing(c)'
      <4>1. PICK q \in Procs : block[q] = c
        BY <3>1 DEF Writing
      <4>2. q # p
        BY <4>1, <3>1
      <4> QED BY <2>1, <4>1, <4>2 DEF Writing, LogRoom, TypeOK
    <3> QED BY <2>1, <3>1 DEF Clean, Bread
  <2>5. Range(lh') = Range(lh) \cup {b}
    BY <2>1, <1>a, LoggedRange
  <2>6. Pins' /\ Headed' /\ Copied' /\ Installed'
    BY <2>1, <2>2, <2>5 DEF Pins, Headed, Copied, Installed
  <2> QED BY <2>3, <2>4, <2>6
<1>5. ASSUME NEW p \in Procs, EndOp(p) PROVE Redo'
  <2>1. /\ UNCHANGED <<onDisk, buffers, lh, block, tail, recovering>>
        /\ phase = "none" /\ ~recovering /\ tail = 1
    <3>1. p \in InOp
      BY <1>5 DEF EndOp, InOp
    <3> QED BY <1>5, <3>1, SomeOp DEF EndOp, LogCore, Alone, LogRoom, InBounds
  <2>2. \A q \in Procs : pc'[q] = "append" <=> pc[q] = "append"
    BY <1>5, <2>1 DEF EndOp, Woken, LogRoom, TypeOK
  <2>3. phase' \in {"none", "log", "done"}
    BY <1>5, <2>1 DEF EndOp, CommitStart
  <2> QED
    BY <2>1, <2>2, <2>3
       DEF Held, Clean, Writing, Bread, Pins, Headed, Copied, Installed
<1>6. ASSUME NEW p \in Procs, CommitDone(p) PROVE Redo'
  <2>1. /\ UNCHANGED <<onDisk, buffers, lh, block, tail, recovering>>
        /\ phase = "done" /\ phase' = "none" /\ ~recovering
    BY <1>6 DEF CommitDone, Headed
  <2>2. \A q \in Procs : pc'[q] = "append" <=> pc[q] = "append"
    BY <1>6 DEF CommitDone, Woken, LogRoom, TypeOK
  <2> QED
    BY <2>1, <2>2
       DEF Held, Clean, Writing, Bread, Pins, Headed, Copied, Installed
<1>7. CASE WriteLog
  <2> USE <1>7 DEF WriteLog
  <2>1. /\ phase = "log" /\ ~recovering /\ tail \in 1..Len(lh)
        /\ logdisk' = [logdisk EXCEPT ![tail] = Bread(lh[tail])]
        /\ UNCHANGED <<home, head, buffers, lh, pc, block, recovering>>
    BY <1>a DEF Headed, LogRoom, InBounds
  <2>2. \/ phase' = "log" /\ tail' = tail + 1
        \/ phase' = "head" /\ tail' = 1 /\ tail = Len(lh)
    BY <2>1, <1>a DEF Loop
  <2>3. \A i \in 1..tail : logdisk'[i] = Bread(lh[i])
    BY <2>1, <1>a DEF Copied, LogRoom, TypeOK
  <2>4. \A b : Bread(b)' = Bread(b)
    BY <2>1 DEF Bread
  <2>5. Copied'
    BY <2>1, <2>2, <2>3, <2>4, <1>a DEF Copied
  <2>6. Held' /\ Clean' /\ Pins' /\ Headed' /\ Installed'
    BY <2>1, <2>2, <2>4 DEF Held, Clean, Writing, Pins, Headed, Installed
  <2> QED BY <2>5, <2>6
<1>8. CASE WriteHead
  <2>1. /\ phase = "head" /\ phase' = "install" /\ ~recovering /\ tail = 1
        /\ head' = lh
        /\ UNCHANGED <<home, logdisk, buffers, lh, pc, block, tail, recovering>>
    BY <1>8 DEF WriteHead, Headed, LogRoom, InBounds
  <2>2. Pins'
    BY <2>1, <1>a DEF Pins
  <2>3. Copied' /\ Installed'
    BY <2>1, <1>a DEF Copied, Installed, Bread
  <2>4. Held' /\ Clean' /\ Headed'
    BY <2>1 DEF Held, Clean, Writing, Bread, Headed
  <2> QED BY <2>2, <2>3, <2>4
<1>9. CASE InstallTrans
  <2> USE <1>9 DEF InstallTrans
  <2>0. /\ phase = "install" /\ head = lh
        /\ UNCHANGED <<logdisk, head, lh, pc, block, recovering>>
    BY DEF Headed
  <2>1. CASE lh = <<>>
    <3>1. Len(lh) = 0 /\ tail = 1 /\ phase' = "erase" /\ tail' = 1
      BY <2>0, <2>1, <1>a DEF LogRoom, InBounds, Loop
    <3>2. dirty = {} /\ UNCHANGED <<home, cache, dirty>>
      BY <2>0, <2>1, <3>1 DEF Pins
    <3> QED
      BY <2>0, <3>1, <3>2
         DEF Held, Clean, Writing, Bread, Pins, Headed, Copied, Installed
  <2>2. CASE lh # <<>>
    <3>1. PICK b \in Blocks : b = lh[tail] /\ tail \in 1..Len(lh)
      BY <2>0, <2>2, <1>a DEF LogRoom, InBounds
    <3>2. /\ home' = [home EXCEPT ![b] = logdisk[tail]]
          /\ cache' = [cache EXCEPT ![b] = logdisk[tail]]
          /\ dirty' = dirty \ {b}
      BY <2>2, <3>1
    <3>3. \/ phase' = "install" /\ tail' = tail + 1 /\ tail < Len(lh)
          \/ phase' = "erase" /\ tail' = 1 /\ tail = Len(lh)
      BY <2>0, <3>1, <1>a DEF Loop
    <3>0. logdisk[tail] \in Values /\ logdisk[tail] # NotCached
      BY <3>1, <1>a, LogAssumption DEF LogRoom, TypeOK
    <3>4. /\ home'[b] = logdisk[tail] /\ Bread(b)' = logdisk[tail]
          /\ \A c \in Blocks : c # b => home'[c] = home[c] /\ Bread(c)' = Bread(c)
      BY <2>0, <3>0, <3>1, <3>2 DEF Bread, LogRoom, TypeOK
    <3>5. Clean'
      BY <2>0, <3>2, <3>4 DEF Clean, Writing
    <3>6. Pins'
      <4>1. CASE recovering
        BY <2>0, <3>2, <3>3, <4>1 DEF Pins
      <4>2. CASE ~recovering
        <5>1. dirty = {lh[i] : i \in tail..Len(lh)}
          BY <2>0, <4>2 DEF Pins
        <5>2. dirty' = {lh[i] : i \in (tail + 1)..Len(lh)}
          <6>1. tail..Len(lh) = {tail} \cup ((tail + 1)..Len(lh))
            BY <3>1, <1>a
          <6>2. \A i \in (tail + 1)..Len(lh) : lh[i] # b
            BY <3>1, <1>a, <1>b
          <6> QED BY <3>1, <3>2, <5>1, <6>1, <6>2
        <5>3. tail = Len(lh) => dirty' = {}
          BY <5>2, <1>a
        <5> QED BY <2>0, <3>3, <4>2, <5>2, <5>3 DEF Pins
      <4> QED BY <4>1, <4>2
    <3>7. Copied'
      <4>1. CASE recovering
        BY <2>0, <3>3, <4>1 DEF Copied
      <4>2. CASE ~recovering
        <5>1. \A i \in 1..Len(lh) : logdisk[i] = Bread(lh[i])
          BY <2>0, <4>2 DEF Copied
        <5>2. \A c \in Blocks : Bread(c)' = Bread(c)
          BY <3>1, <3>4, <5>1
        <5>3. \A i \in 1..Len(lh) : Bread(lh[i])' = Bread(lh[i])
          BY <2>0, <5>2, <1>a DEF Bread
        <5> QED BY <2>0, <3>3, <5>1, <5>3 DEF Copied
      <4> QED BY <4>1, <4>2
    <3>8. Installed'
      <4>1. \A i \in 1..tail : home'[lh[i]] = logdisk[i]
        <5>1. \A i \in 1..(tail - 1) : home[lh[i]] = logdisk[i]
          BY <2>0 DEF Installed
        <5>2. \A i \in 1..(tail - 1) : lh[i] \in Blocks /\ lh[i] # b
          BY <3>1, <1>a, <1>b
        <5> QED BY <3>1, <3>4, <5>1, <5>2
      <4> QED BY <2>0, <3>1, <3>3, <4>1, <1>a DEF Installed
    <3>9. Held' /\ Headed'
      BY <2>0, <3>3 DEF Held, Headed
    <3> QED BY <3>5, <3>6, <3>7, <3>8, <3>9
  <2> QED BY <2>1, <2>2
<1>10. CASE Erase
  <2>1. /\ phase = "erase" /\ dirty = {} /\ lh' = <<>> /\ head' = <<>>
        /\ phase' \in {"none", "done"} /\ recovering' = FALSE
        /\ UNCHANGED <<home, logdisk, buffers, pc, block>>
    BY <1>10 DEF Erase, Pins
  <2>2. Range(lh') = {}
    BY <2>1 DEF Range
  <2> QED
    BY <2>1, <2>2
       DEF Held, Clean, Writing, Bread, Pins, Headed, Copied, Installed
<1>11. CASE Crash
  <2>1. \A b \in Blocks : Bread(b)' = home'[b]
    BY <1>11 DEF Crash, Bread
  <2> QED
    BY <1>11, <2>1 DEF Crash, Held, Clean, Pins, Headed, Copied, Installed
<1>12. ASSUME NEW b \in Blocks, Evict(b) PROVE Redo'
  <2>1. /\ cache' = [cache EXCEPT ![b] = NotCached]
        /\ UNCHANGED <<onDisk, dirty, lh, pc, block, phase, tail, recovering>>
    BY <1>12 DEF Evict
  <2>2. \A c \in Blocks : Bread(c)' = Bread(c)
    BY <1>12, <2>1, EvictKeeps
  <2>3. \A i \in 1..Len(lh) : Bread(lh[i])' = Bread(lh[i])
    BY <2>1, <2>2, <1>a DEF Bread
  <2>4. Copied'
    <3>1. phase = "log" => tail <= Len(lh)
      BY DEF LogRoom, InBounds
    <3> QED BY <2>1, <2>3, <3>1, <1>a DEF Copied
  <2> QED BY <2>1, <2>2, <2>4 DEF Held, Clean, Writing, Pins, Headed, Installed
<1> QED
  BY <1>1, <1>2, <1>3, <1>4, <1>5, <1>6, <1>7, <1>8, <1>9, <1>10, <1>11, <1>12
     DEF Next

\* What is pinned, in the log and at home is at every point of a transaction
\* what recovery needs, also while an operation is stuck in log_write's panic.
\* The disk's log has room (TransactionsFit): on a smaller one the last log
\* block is also a home block, which logdisk and home keep apart.
THEOREM RedoInvariant == LogBlocks > LOGSIZE => (Spec => []Redo)
<1>1. LogCore /\ LogRoom /\ Redo /\ [Next]_vars => Redo'
  BY RedoStep
<1> QED BY <1>1, RedoInit, CoreInvariant, RoomInvariant, PTL DEF Spec

\* What recovery makes of the disk, block by block.
Recovers ==
  /\ \A i \in 1..Len(head) : head[i] \in Blocks /\ Recovered[head[i]] = logdisk[i]
  /\ \A b \in Blocks : b \notin Range(head) => Recovered[b] = home[b]
  /\ \A b \in Range(head) : \E i \in 1..Len(head) : head[i] = b

LEMMA RecoveredIs == LogRoom => Recovers
<1> SUFFICES ASSUME LogRoom PROVE Recovers
  OBVIOUS
<1>1. head \in Seq(Blocks) /\ DOMAIN head = 1..Len(head) /\ IsInjective(head)
  BY DEF LogRoom, TypeOK, Distinct
<1>2. \A b \in Range(head) : \E i \in 1..Len(head) : head[i] = b
  BY <1>1 DEF Range
<1>3. ASSUME NEW i \in 1..Len(head)
      PROVE  head[i] \in Blocks /\ Recovered[head[i]] = logdisk[i]
  <2> DEFINE j == CHOOSE k \in DOMAIN head : head[k] = head[i]
  <2>1. j \in DOMAIN head /\ head[j] = head[i]
    BY <1>1
  <2>2. j = i
    BY <1>1, <2>1 DEF IsInjective
  <2>3. head[i] \in Blocks /\ head[i] \in Range(head)
    BY <1>1 DEF Range
  <2> QED BY <2>2, <2>3 DEF Recovered
<1>4. \A b \in Blocks : b \notin Range(head) => Recovered[b] = home[b]
  BY DEF Recovered
<1> QED BY <1>2, <1>3, <1>4 DEF Recovers

\* When no operation, commit or recovery is in progress, the disk has what
\* readers see, for any number of processes and blocks.
THEOREM QuietDiskIsDurable == LogBlocks > LOGSIZE => (Spec => []QuietIsDurable)
<1>0. SUFFICES ASSUME LogBlocks > LOGSIZE PROVE Spec => []QuietIsDurable
  OBVIOUS
<1>1. LogCore /\ LogRoom /\ Redo => QuietIsDurable
  <2> SUFFICES ASSUME LogCore, LogRoom, Redo,
                      outstanding = 0, ~committing, ~recovering,
                      NEW b \in Blocks
               PROVE  Bread(b) = Recovered[b]
    BY DEF QuietIsDurable
  <2>1. phase = "none" /\ lh = <<>>
    BY DEF LogCore, Alone, Emptied
  <2>2. head = <<>> /\ dirty = {}
    BY <2>1 DEF Redo, Headed, Pins, Range
  <2>3. InOp = {}
    BY SomeOp DEF LogCore
  <2>4. ~Writing(b)
    BY <2>3, LogAssumption DEF Writing, Redo, Held, InOp
  <2>5. Range(head) = {}
    BY <2>2 DEF Range
  <2>6. Bread(b) = home[b]
    BY <2>2, <2>4 DEF Redo, Clean
  <2> QED BY <2>5, <2>6, RecoveredIs DEF Recovers
<1>2. Spec => []Redo
  BY <1>0, RedoInvariant
<1> QED BY <1>1, <1>2, CoreInvariant, RoomInvariant, PTL

----------------------------------------------------------------------------
(* The refinement: a group of operations becomes durable in the step that   *)
(* writes the header.                                                       *)

\* What a crash leaves, what readers see, and who may write, as AtomicDisk
\* has them.
Current == IF recovering THEN Recovered ELSE [b \in Blocks |-> Bread(b)]

LEMMA AtomicInit == Init => Atomic!Init
<1> SUFFICES ASSUME Init PROVE Atomic!Init
  OBVIOUS
<1>1. Range(head) = {}
  BY DEF Init, Range
<1>2. Recovered = [b \in Blocks |-> Blank]
  BY <1>1 DEF Init, Recovered
<1>3. [b \in Blocks |-> Bread(b)] = [b \in Blocks |-> Blank]
  BY DEF Init, Bread
<1> QED BY <1>2, <1>3 DEF Init, Atomic!Init

\* What readers see, and what a crash leaves, when neither changes.
LEMMA SameDisk ==
  ASSUME \A b \in Blocks : Recovered'[b] = Recovered[b],
         UNCHANGED recovering,
         ~recovering => \A b \in Blocks : Bread(b)' = Bread(b)
  PROVE  Recovered' = Recovered /\ Current' = Current
<1>1. Recovered' = Recovered
  BY DEF Recovered
<1>2. ~recovering => [b \in Blocks |-> Bread(b)]' = [b \in Blocks |-> Bread(b)]
  OBVIOUS
<1> QED BY <1>1, <1>2 DEF Current

LEMMA AtomicStep ==
  LogCore /\ LogRoom /\ LogRoom' /\ Redo /\ Redo' /\ [Next]_vars
    => [Atomic!Next]_(Atomic!disk)
<1> SUFFICES ASSUME LogCore, LogRoom, LogRoom', Redo, Redo', [Next]_vars
             PROVE  [Atomic!Next]_(Atomic!disk)
  OBVIOUS
<1> USE DEF Redo
<1>a. /\ lh \in Seq(Blocks) /\ Len(lh) \in Nat
      /\ \A i \in 1..Len(lh) : lh[i] \in Blocks
  BY DEF LogRoom, TypeOK
<1>r. Recovers /\ Recovers'
  BY RecoveredIs, PTL
<1>e. UNCHANGED onDisk => UNCHANGED Recovered
  BY DEF Recovered
<1>s. ASSUME Recovered' = Recovered, Current' = Current, InOp' = InOp
      PROVE  UNCHANGED Atomic!disk
  BY <1>s DEF Atomic!disk, Current, InOp
<1>1. CASE UNCHANGED vars
  <2>1. Current' = Current /\ InOp' = InOp
    BY <1>1, <1>e DEF vars, Current, Bread, InOp
  <2> QED BY <1>1, <1>e, <1>s, <2>1 DEF vars
<1>2. ASSUME NEW p \in Procs, BeginOp(p) PROVE [Atomic!Next]_(Atomic!disk)
  <2>1. Recovered' = Recovered /\ Current' = Current
    BY <1>2, <1>e DEF BeginOp, Current, Bread
  <2>2. InOp' = InOp \/ InOp' = InOp \cup {p}
    BY <1>2 DEF BeginOp, InOp, LogRoom, TypeOK
  <2> QED BY <2>1, <2>2, <1>s DEF Atomic!Next, Atomic!Begin, Current, InOp
<1>3. ASSUME NEW p \in Procs, NEW b \in Blocks, NEW v \in Values, Write(p, b, v)
      PROVE  [Atomic!Next]_(Atomic!disk)
  <2>1. /\ pc' = [pc EXCEPT ![p] = "append"] /\ cache' = [cache EXCEPT ![b] = v]
        /\ UNCHANGED onDisk /\ ~recovering /\ ~recovering' /\ pc[p] = "op"
    BY <1>3 DEF Write
  <2>2. InOp' = InOp /\ p \in InOp
    BY <2>1 DEF InOp, LogRoom, TypeOK
  <2>3. [c \in Blocks |-> Bread(c)]' = [[c \in Blocks |-> Bread(c)] EXCEPT ![b] = v]
    BY <2>1, LogAssumption DEF Bread, LogRoom, TypeOK
  <2>4. Current' = [Current EXCEPT ![b] = v]
    BY <2>1, <2>3 DEF Current
  <2> QED BY <2>1, <2>2, <2>4, <1>e DEF Atomic!Next, Atomic!Write, Current, InOp
<1>4. ASSUME NEW p \in Procs, LogWrite(p) PROVE UNCHANGED Atomic!disk
  <2>1. InOp' = InOp
    BY <1>4 DEF LogWrite, InOp, LogRoom, TypeOK
  <2>2. Recovered' = Recovered /\ Current' = Current
    BY <1>4, <1>e DEF LogWrite, Current, Bread
  <2> QED BY <2>1, <2>2, <1>s
<1>5. ASSUME NEW p \in Procs, EndOp(p) PROVE [Atomic!Next]_(Atomic!disk)
  <2>1. Recovered' = Recovered /\ Current' = Current
    BY <1>5, <1>e DEF EndOp, Current, Bread
  <2>2. InOp' = InOp \ {p}
    <3>1. p \in InOp
      BY <1>5 DEF EndOp, InOp
    <3>2. ~committing
      BY <3>1, SomeOp DEF LogCore, Alone
    <3> QED BY <1>5, <3>2 DEF EndOp, Woken, InOp, LogRoom, TypeOK
  <2> QED BY <2>1, <2>2 DEF Atomic!Next, Atomic!End, Current, InOp
<1>6. ASSUME NEW p \in Procs, CommitDone(p) PROVE UNCHANGED Atomic!disk
  <2>1. InOp' = InOp
    BY <1>6 DEF CommitDone, Woken, InOp, LogRoom, TypeOK
  <2>2. Recovered' = Recovered /\ Current' = Current
    BY <1>6, <1>e DEF CommitDone, Current, Bread
  <2> QED BY <2>1, <2>2, <1>s
<1>7. CASE WriteLog
  <2>1. head = <<>> /\ UNCHANGED <<home, head, cache, recovering, pc>>
    BY <1>7 DEF WriteLog, Headed
  <2>2. Range(head) = {} /\ Range(head') = {}
    BY <2>1 DEF Range
  <2>3. Recovered' = Recovered
    BY <2>1, <2>2 DEF Recovered
  <2> QED BY <2>1, <2>3, <1>s DEF Current, Bread, InOp
<1>8. CASE WriteHead
  <2>1. /\ phase = "head" /\ ~recovering /\ ~recovering' /\ head' = lh /\ committing
        /\ UNCHANGED <<home, logdisk, cache, pc>> /\ dirty = Range(lh)
    BY <1>8 DEF WriteHead, Headed, Pins, LogCore, Alone
  <2>2. InOp = {} /\ \A b \in Blocks : ~Writing(b)
    BY <2>1, NobodyWrites
  <2>3. \A i \in 1..Len(lh) : logdisk[i] = Bread(lh[i])
    BY <2>1 DEF Copied
  <2>4. ASSUME NEW b \in Blocks PROVE Recovered'[b] = Bread(b)
    <3>1. CASE b \in Range(lh)
      BY <1>r, <2>1, <2>3, <3>1 DEF Recovers
    <3>2. CASE b \notin Range(lh)
      BY <1>r, <2>1, <2>2, <3>2 DEF Recovers, Clean
    <3> QED BY <3>1, <3>2
  <2>5. Recovered' = [b \in Blocks |-> Bread(b)]
    BY <2>4 DEF Recovered
  <2>6. Current' = Current /\ InOp' = InOp
    BY <2>1 DEF Current, Bread, InOp
  <2> QED BY <2>1, <2>2, <2>5, <2>6 DEF Atomic!Next, Atomic!Commit, Current, InOp
<1>9. CASE InstallTrans
  <2>1. /\ head = lh /\ UNCHANGED <<head, logdisk, recovering, pc>>
        /\ phase = "install"
    BY <1>9 DEF InstallTrans, Headed
  <2>2. CASE lh = <<>>
    <3>1. UNCHANGED onDisk /\ UNCHANGED cache
      BY <1>9, <2>1, <2>2 DEF InstallTrans
    <3> QED BY <2>1, <3>1, <1>e, <1>s DEF Current, Bread, InOp
  <2>3. CASE lh # <<>>
    <3>1. PICK b \in Blocks : /\ tail \in 1..Len(lh) /\ b = lh[tail] /\ b \in Range(head)
                              /\ logdisk[tail] \in Values /\ logdisk[tail] # NotCached
      <4>1. tail \in 1..Len(lh) /\ tail \in 1..LOGSIZE
        BY <2>1, <2>3, <1>a DEF LogRoom, InBounds, TypeOK
      <4>2. lh[tail] \in Range(head)
        BY <2>1, <4>1, <1>a DEF Range
      <4>3. lh[tail] \in Blocks
        BY <4>1, <1>a
      <4>4. logdisk[tail] \in Values /\ NotCached \notin Values
        BY <4>1, LogAssumption DEF LogRoom, TypeOK
      <4> QED BY <4>1, <4>2, <4>3, <4>4
    <3>2. /\ home' = [home EXCEPT ![b] = logdisk[tail]]
          /\ cache' = [cache EXCEPT ![b] = logdisk[tail]]
      BY <1>9, <2>3, <3>1 DEF InstallTrans
    <3>3. ASSUME NEW c \in Blocks PROVE Recovered'[c] = Recovered[c]
      <4>1. CASE c \in Range(head)
        BY <1>r, <2>1, <4>1 DEF Recovers
      <4>2. CASE c \notin Range(head)
        <5>1. c # b /\ home'[c] = home[c]
          BY <3>1, <3>2, <4>2 DEF LogRoom, TypeOK
        <5> QED BY <1>r, <2>1, <4>2, <5>1 DEF Recovers
      <4> QED BY <4>1, <4>2
    <3>4. ~recovering => \A c \in Blocks : Bread(c)' = Bread(c)
      <4>1. ~recovering => Bread(b) = logdisk[tail]
        BY <2>1, <3>1 DEF Copied
      <4>2. Bread(b)' = logdisk[tail]
        BY <3>1, <3>2 DEF Bread, LogRoom, TypeOK
      <4>3. \A c \in Blocks : c # b => Bread(c)' = Bread(c)
        BY <3>1, <3>2 DEF Bread, LogRoom, TypeOK
      <4> QED BY <4>1, <4>2, <4>3
    <3>5. Recovered' = Recovered /\ Current' = Current
      BY <2>1, <3>3, <3>4, SameDisk
    <3> QED BY <2>1, <3>5, <1>s DEF InOp
  <2> QED BY <2>2, <2>3
<1>10. CASE Erase
  <2>1. /\ phase = "erase" /\ head = lh /\ head' = <<>> /\ ~recovering' /\ dirty = {}
        /\ UNCHANGED <<home, logdisk, cache, pc>> /\ (committing \/ recovering)
    BY <1>10 DEF Erase, Headed, Pins, LogCore, Alone
  <2>2. \A b \in Blocks : ~Writing(b)
    BY <2>1, NobodyWrites
  <2>3. \A b \in Blocks : Bread(b) = home[b]
    BY <2>1, <2>2 DEF Clean
  <2>4. ASSUME NEW b \in Blocks PROVE Recovered[b] = home[b]
    <3>1. CASE b \in Range(head)
      <4>1. PICK i \in 1..Len(head) : head[i] = b
        BY <1>r, <3>1 DEF Recovers
      <4> QED BY <1>r, <2>1, <4>1 DEF Recovers, Installed
    <3>2. CASE b \notin Range(head)
      BY <1>r, <3>2 DEF Recovers
    <3> QED BY <3>1, <3>2
  <2>5. \A b \in Blocks : Recovered'[b] = home[b]
    <3>1. Range(head') = {}
      BY <2>1 DEF Range
    <3> QED BY <1>r, <2>1, <3>1 DEF Recovers
  <2>6. /\ Recovered = [b \in Blocks |-> home[b]]
        /\ Recovered' = [b \in Blocks |-> home[b]]
    BY <2>4, <2>5 DEF Recovered
  <2>7. [b \in Blocks |-> Bread(b)] = [b \in Blocks |-> home[b]]
    BY <2>3
  <2>8. [b \in Blocks |-> Bread(b)]' = [b \in Blocks |-> Bread(b)]
    BY <2>1 DEF Bread
  <2>9. Current' = Current
    BY <2>1, <2>6, <2>7, <2>8 DEF Current
  <2> QED BY <2>1, <2>6, <2>9, <1>s DEF InOp
<1>11. CASE Crash
  <2>1. UNCHANGED onDisk /\ recovering' /\ InOp' = {}
    BY <1>11 DEF Crash, InOp
  <2>2. Recovered' = Recovered /\ Current' = Recovered
    BY <2>1, <1>e DEF Current
  <2> QED BY <2>1, <2>2 DEF Atomic!Next, Atomic!Crash, Current, InOp
<1>12. ASSUME NEW b \in Blocks, Evict(b) PROVE UNCHANGED Atomic!disk
  <2>1. UNCHANGED <<onDisk, pc, recovering>>
    BY <1>12 DEF Evict
  <2>2. \A c \in Blocks : Bread(c)' = Bread(c)
    BY <1>12, EvictKeeps
  <2>3. Recovered' = Recovered /\ Current' = Current
    BY <2>1, <2>2, <1>e, SameDisk
  <2> QED BY <2>1, <2>3, <1>s DEF InOp
<1> QED
  BY <1>1, <1>2, <1>3, <1>4, <1>5, <1>6, <1>7, <1>8, <1>9, <1>10, <1>11, <1>12
     DEF Next

\* On a disk whose log has room, groups of operations reach the disk all at
\* once and a crash at any step of any commit or recovery leaves the last
\* group, for any number of processes and blocks, whatever panics.
THEOREM LogIsAtomic == LogBlocks > LOGSIZE => (Spec => ImplementsAtomicDisk)
<1>1. SUFFICES ASSUME LogBlocks > LOGSIZE PROVE Spec => ImplementsAtomicDisk
  OBVIOUS
<1>2. Spec => []Redo
  BY <1>1, RedoInvariant
<1> QED
  BY <1>2, AtomicInit, AtomicStep, CoreInvariant, RoomInvariant, PTL
     DEF Spec, ImplementsAtomicDisk, Atomic!Spec
=============================================================================
