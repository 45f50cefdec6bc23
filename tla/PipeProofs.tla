----------------------------- MODULE PipeProofs -----------------------------
(* Proofs about Pipe, for any sets of readers and writers, any PIPESIZE and *)
(* any width of the counters: the lock discipline, the ring's bound across  *)
(* the wrap, who may be asleep, who is inside when the pipe is freed, and   *)
(* that the ring is a queue of bytes (ByteChannel).                         *)
EXTENDS Pipe, SequenceTheorems, TLAPS

USE DEF pipeVars, callVars, Procs

----------------------------------------------------------------------------
(* Arithmetic of counters that wrap *)

LEMMA WrapSum ==
  ASSUME NEW W \in Nat, NEW k \in 0..W - 1, NEW d \in 0..W - 1
  PROVE  (k + d) % W = IF k + d < W THEN k + d ELSE k + d - W
OBVIOUS

LEMMA WrapDifference ==
  ASSUME NEW W \in Nat, NEW a \in 0..W - 1, NEW b \in 0..W - 1
  PROVE  (a - b) % W = IF b <= a THEN a - b ELSE a - b + W
OBVIOUS

LEMMA SuccType ==
  ASSUME NEW k \in Counter
  PROVE  Succ(k) \in Counter /\ Succ(k) = IF k + 1 = WRAP THEN 0 ELSE k + 1
<1>1. 1 \in 0..WRAP - 1 /\ WRAP \in Nat /\ k \in 0..WRAP - 1
  BY PipeAssumption DEF Counter
<1>2. (k + 1) % WRAP = IF k + 1 < WRAP THEN k + 1 ELSE k + 1 - WRAP
  BY <1>1, WrapSum
<1>3. Succ(k) = IF k + 1 = WRAP THEN 0 ELSE k + 1
  BY <1>1, <1>2 DEF Succ
<1> QED BY <1>1, <1>3 DEF Counter

LEMMA RingSlot ==
  ASSUME NEW k \in Counter
  PROVE  k % PIPESIZE \in 0..PIPESIZE - 1
BY PipeAssumption DEF Counter

----------------------------------------------------------------------------
(* Types *)

LEMMA TypeStep ==
  ASSUME TypeOK, [Next]_vars
  PROVE  TypeOK'
<1> USE DEF TypeOK
<1>0. CASE UNCHANGED vars
  BY <1>0 DEF vars
<1>1. ASSUME NEW p \in Procs, NEW count \in 0..MaxCount, Enter(p, count)
      PROVE  TypeOK'
  <2>1. 0 \in 0..MaxCount /\ <<>> \in Seq(Bytes)
    BY PipeAssumption
  <2> QED BY <1>1, <2>1 DEF Enter, Goto
<1>2. ASSUME NEW p \in Procs, Sleep(p) PROVE TypeOK'
  BY <1>2 DEF Sleep, Goto
<1>3. ASSUME NEW p \in Procs, Resume(p) PROVE TypeOK'
  BY <1>3 DEF Resume, Goto
<1>4. ASSUME NEW p \in Procs, Return(p) PROVE /\ lock' \in Procs \cup {Nobody}
                                             /\ pc' \in [Procs -> {"user", "loop", "copy", "sleep", "wait"}]
                                             /\ n' \in [Procs -> 0..MaxCount]
                                             /\ i' \in [Procs -> 0..MaxCount]
  BY <1>4, PipeAssumption DEF Return, Goto
<1>5. ASSUME NEW w \in Writers, WriteByte(w) PROVE TypeOK'
  <2>1. i[w] + 1 \in 0..MaxCount /\ i[w] \in 0..MaxCount - 1
    BY <1>5, PipeAssumption DEF WriteByte
  <2>2. <<w, i[w]>> \in Bytes
    BY <2>1 DEF Bytes
  <2>3. data' \in [0..PIPESIZE - 1 -> Bytes]
    BY <1>5, <2>2 DEF WriteByte
  <2> QED BY <1>5, <2>1, <2>3, SuccType DEF WriteByte
<1>6. ASSUME NEW w \in Writers, WriteFull(w) PROVE TypeOK'
  BY <1>4, <1>6 DEF WriteFull, Wakeup, Goto
<1>7. ASSUME NEW w \in Writers, WriteDone(w) PROVE TypeOK'
  BY <1>4, <1>7 DEF WriteDone, Wakeup
<1>8. ASSUME NEW r \in Readers, ReadEmpty(r) PROVE TypeOK'
  BY <1>4, <1>8 DEF ReadEmpty, Goto
<1>9. ASSUME NEW r \in Readers, ReadReady(r) PROVE TypeOK'
  BY <1>9 DEF ReadReady, Goto
<1>10. ASSUME NEW r \in Readers, ReadByte(r) PROVE TypeOK'
  <2>1. i[r] + 1 \in 0..MaxCount
    BY <1>10, PipeAssumption DEF ReadByte
  <2>2. data[ReadSlot] \in Bytes
    BY RingSlot DEF ReadSlot
  <2>3. Append(got[r], data[ReadSlot]) \in Seq(Bytes)
    BY <2>2
  <2> QED BY <1>10, <2>1, <2>3, SuccType DEF ReadByte
<1>11. ASSUME NEW r \in Readers, ReadDone(r) PROVE TypeOK'
  BY <1>4, <1>11 DEF ReadDone, Wakeup
<1>12. ASSUME NEW p \in Procs, NEW side, NEW other, Close(p, side, other)
       PROVE  TypeOK'
  BY <1>12 DEF Close, Wakeup
<1>13. ASSUME NEW p \in Procs, Kill(p) PROVE TypeOK'
  BY <1>13 DEF Kill
<1> QED
  BY <1>0, <1>1, <1>2, <1>3, <1>5, <1>6, <1>7, <1>8, <1>9, <1>10, <1>11, <1>12,
     <1>13 DEF Next, Step, Writing, Reading, CloseEnd

\* Every reachable state of the pipe is well typed: the counters stay uints,
\* the ring's indices in the ring, and no call copies more than it was asked
\* (pipe.c's loops).
THEOREM TypeInvariant == Spec => []TypeOK
<1>1. Init => TypeOK
  <2> SUFFICES ASSUME Init PROVE TypeOK
    OBVIOUS
  <2>1. 0 \in Counter /\ 0 \in 0..MaxCount /\ <<>> \in Seq(Bytes)
    BY PipeAssumption DEF Counter
  <2> QED BY <2>1 DEF Init, TypeOK
<1> QED BY <1>1, TypeStep, PTL DEF Spec

----------------------------------------------------------------------------
(* The ring's bound *)

LEMMA CountIs ==
  ASSUME TypeOK
  PROVE  Count = IF nread <= nwrite THEN nwrite - nread ELSE nwrite - nread + WRAP
BY WrapDifference, PipeAssumption DEF Count, TypeOK, Counter

LEMMA FullIs ==
  ASSUME TypeOK
  PROVE  /\ Full <=> Count = PIPESIZE
         /\ Empty <=> Count = 0
<1>1. PIPESIZE \in 0..WRAP - 1 /\ WRAP \in Nat /\ PIPESIZE \in Nat \ {0}
  BY PipeAssumption
<1>2. nread \in 0..WRAP - 1 /\ nwrite \in 0..WRAP - 1
  BY DEF TypeOK, Counter
<1>3. Full <=> nwrite = IF nread + PIPESIZE < WRAP THEN nread + PIPESIZE
                        ELSE nread + PIPESIZE - WRAP
  BY <1>1, <1>2, WrapSum DEF Full
<1> QED BY <1>1, <1>2, <1>3, CountIs DEF Empty

LEMMA BoundedStep ==
  ASSUME TypeOK, PipeBounded, [Next]_vars
  PROVE  PipeBounded'
<1>t. TypeOK'
  BY TypeStep
<1>n. /\ nread \in Counter /\ nwrite \in Counter /\ WRAP \in Nat
      /\ PIPESIZE \in Nat /\ PIPESIZE < WRAP
  BY PipeAssumption DEF TypeOK
<1>c. Count' = IF nread' <= nwrite' THEN nwrite' - nread'
               ELSE nwrite' - nread' + WRAP
  <2>1. nread' \in 0..WRAP - 1 /\ nwrite' \in 0..WRAP - 1 /\ WRAP \in Nat
    BY <1>t, PipeAssumption DEF TypeOK, Counter
  <2>2. Count' = (nwrite' - nread') % WRAP
    BY DEF Count
  <2> QED BY <2>1, <2>2, WrapDifference
<1>1. ASSUME NEW w \in Writers, WriteByte(w) PROVE PipeBounded'
  <2>1. nwrite' = (IF nwrite + 1 = WRAP THEN 0 ELSE nwrite + 1) /\ nread' = nread
    BY <1>1, <1>n, SuccType DEF WriteByte
  <2>2. Count # PIPESIZE
    BY <1>1, FullIs DEF WriteByte
  <2> QED BY <2>1, <2>2, <1>n, <1>c, CountIs DEF PipeBounded, Counter
<1>2. ASSUME NEW r \in Readers, ReadByte(r) PROVE PipeBounded'
  <2>1. nread' = (IF nread + 1 = WRAP THEN 0 ELSE nread + 1) /\ nwrite' = nwrite
    BY <1>2, <1>n, SuccType DEF ReadByte
  <2>2. Count # 0
    BY <1>2, FullIs DEF ReadByte
  <2> QED BY <2>1, <2>2, <1>n, <1>c, CountIs DEF PipeBounded, Counter
<1>3. CASE UNCHANGED <<nread, nwrite>>
  BY <1>3 DEF PipeBounded, Count
<1>4. \/ UNCHANGED <<nread, nwrite>>
      \/ \E w \in Writers : WriteByte(w)
      \/ \E r \in Readers : ReadByte(r)
  BY DEF Next, Step, Writing, Reading, CloseEnd, Enter, Sleep, Resume, WriteFull,
     WriteDone, ReadEmpty, ReadReady, ReadDone, Close, Kill, vars
<1> QED BY <1>1, <1>2, <1>3, <1>4

\* The counters never run apart by more than the buffer, whatever the width at
\* which they wrap (pipe.c's comparison nwrite == nread + PIPESIZE on uints).
THEOREM RingIsBounded == Spec => []PipeBounded
<1>1. Init => PipeBounded
  BY PipeAssumption DEF Init, PipeBounded, Count
<1> QED BY <1>1, BoundedStep, TypeInvariant, PTL DEF Spec

----------------------------------------------------------------------------
(* The lock, the open ends and who is asleep *)

\* p->lock is held by the process that is between acquire and release; who is
\* in a call has its end open, and an end is open while somebody has it open.
LockHeld ==
  \A p \in Procs : lock = p <=> pc[p] \in {"loop", "copy", "sleep"}
InCall ==
  /\ \A p \in Procs : pc[p] # "user" => isopen[p]
  /\ \A p \in Procs : asleep[p] => pc[p] = "wait"
  /\ \A w \in Writers : pc[w] # "copy"
EndsOpen ==
  /\ readopen <=> \E r \in Readers : isopen[r]
  /\ writeopen <=> \E w \in Writers : isopen[w]

\* What holds from the decision to sleep to the moment of being SLEEPING, when
\* only kill can come between.
Deciding ==
  /\ \A w \in Writers : pc[w] = "sleep" => readopen /\ Full /\ \A r \in Readers : ~asleep[r]
  /\ \A r \in Readers : pc[r] = "sleep" => writeopen /\ Empty

\* A sleeper's condition is false, or has just been made true by a process that
\* still holds the lock and will wake it.
Awaited ==
  /\ \A w \in Writers : asleep[w] =>
       readopen /\ (Full \/ \E r \in Readers : pc[r] = "copy")
  /\ \A r \in Readers : asleep[r] =>
       writeopen /\ (Empty \/ \E w \in Writers : pc[w] = "loop" \/ killed[w])

PipeCore == TypeOK /\ LockHeld /\ InCall /\ EndsOpen /\ Deciding /\ Awaited

LEMMA CoreStep ==
  ASSUME PipeCore, [Next]_vars
  PROVE  PipeCore'
<1> USE DEF PipeCore, LockHeld, InCall, EndsOpen, Deciding, Awaited
<1>t. TypeOK'
  BY TypeStep
<1>s. /\ Readers \cap Writers = {} /\ Nobody \notin Procs
      /\ pc \in [Procs -> {"user", "loop", "copy", "sleep", "wait"}]
      /\ asleep \in [Procs -> BOOLEAN] /\ killed \in [Procs -> BOOLEAN]
      /\ isopen \in [Procs -> BOOLEAN]
      /\ readopen \in BOOLEAN /\ writeopen \in BOOLEAN
  BY PipeAssumption DEF TypeOK
<1>0. CASE UNCHANGED vars
  BY <1>0, <1>t DEF vars, Full, Empty
<1>1. ASSUME NEW p \in Procs, NEW count \in 0..MaxCount, Enter(p, count)
      PROVE  PipeCore'
  BY <1>1, <1>t, <1>s DEF Enter, Goto, Full, Empty
<1>2. ASSUME NEW p \in Procs, Sleep(p) PROVE PipeCore'
  BY <1>2, <1>t, <1>s DEF Sleep, At, Goto, Full, Empty
<1>3. ASSUME NEW p \in Procs, Resume(p) PROVE PipeCore'
  BY <1>3, <1>t, <1>s DEF Resume, Goto, Full, Empty
<1>5. ASSUME NEW w \in Writers, WriteByte(w) PROVE PipeCore'
  BY <1>5, <1>t, <1>s DEF WriteByte, At
<1>6. ASSUME NEW w \in Writers, WriteFull(w) PROVE PipeCore'
  BY <1>6, <1>t, <1>s DEF WriteFull, At, Return, Wakeup, Goto, Full, Empty
<1>7. ASSUME NEW w \in Writers, WriteDone(w) PROVE PipeCore'
  BY <1>7, <1>t, <1>s DEF WriteDone, At, Return, Wakeup, Goto, Full, Empty
<1>8. ASSUME NEW r \in Readers, ReadEmpty(r) PROVE PipeCore'
  BY <1>8, <1>t, <1>s DEF ReadEmpty, At, Return, Goto, Full, Empty
<1>9. ASSUME NEW r \in Readers, ReadReady(r) PROVE PipeCore'
  BY <1>9, <1>t, <1>s DEF ReadReady, At, Goto, Full, Empty
<1>10. ASSUME NEW r \in Readers, ReadByte(r) PROVE PipeCore'
  BY <1>10, <1>t, <1>s DEF ReadByte, At
<1>11. ASSUME NEW r \in Readers, ReadDone(r) PROVE PipeCore'
  BY <1>11, <1>t, <1>s DEF ReadDone, ReadWakes, At, Return, Wakeup, Goto, Full, Empty
<1>12. ASSUME NEW p \in Procs, CloseEnd(p) PROVE PipeCore'
  BY <1>12, <1>t, <1>s DEF CloseEnd, Close, LastOpen, Wakeup, Full, Empty
<1>13. ASSUME NEW p \in Procs, Kill(p) PROVE PipeCore'
  BY <1>13, <1>t, <1>s DEF Kill, Full, Empty
<1> QED
  BY <1>0, <1>1, <1>2, <1>3, <1>5, <1>6, <1>7, <1>8, <1>9, <1>10, <1>11, <1>12,
     <1>13 DEF Next, Step, Writing, Reading

LEMMA CoreInit == Init => PipeCore
<1> SUFFICES ASSUME Init PROVE PipeCore
  OBVIOUS
<1>1. TypeOK
  <2>1. 0 \in Counter /\ 0 \in 0..MaxCount /\ <<>> \in Seq(Bytes)
    BY PipeAssumption DEF Counter
  <2> QED BY <2>1 DEF Init, TypeOK
<1> QED
  BY <1>1, PipeAssumption
     DEF Init, PipeCore, LockHeld, InCall, EndsOpen, Deciding, Awaited

\* The lock discipline, with what it protects, is inductive.
THEOREM CoreInvariant == Spec => []PipeCore
BY CoreInit, CoreStep, PTL DEF Spec

\* Nobody sleeps on a condition that has come true, for any number of readers
\* and writers in the middle of their loops, with kills and closes at any time.
THEOREM NoWakeupIsLost == Spec => []PipeNoLostWakeup
<1>1. PipeCore => PipeNoLostWakeup
  <2> SUFFICES ASSUME PipeCore PROVE PipeNoLostWakeup
    OBVIOUS
  <2>1. \A p \in Procs : pc[p] \in {"loop", "copy"} => lock = p
    BY DEF PipeCore, LockHeld
  <2> QED BY <2>1 DEF PipeCore, Awaited, PipeNoLostWakeup
<1> QED BY <1>1, CoreInvariant, PTL

\* pipeclose frees the pipe only when nobody is inside one of its operations.
THEOREM FreedUnused == Spec => []NotFreedInUse
<1>1. PipeCore => NotFreedInUse
  BY DEF PipeCore, InCall, EndsOpen, NotFreedInUse
<1> QED BY <1>1, CoreInvariant, PTL
----------------------------------------------------------------------------
(* The refinement: the ring is a queue *)

LEMMA NoMultiple ==
  ASSUME NEW P \in Nat \ {0}, NEW m \in Int
  PROVE  ~(0 < m * P /\ m * P < P)
<1>1. CASE m <= 0
  BY <1>1
<1>2. CASE m >= 1
  BY <1>2
<1> QED BY <1>1, <1>2

LEMMA Quotient ==
  ASSUME NEW P \in Nat \ {0}, NEW x \in Int
  PROVE  \E d \in Int : x % P = x - P * d
<1>1. x \div P \in Int
  OBVIOUS
<1>2. x % P = x - P * (x \div P)
  BY SMT
<1> QED BY <1>1, <1>2

LEMMA SameRemainder ==
  ASSUME NEW P \in Nat \ {0}, NEW a \in Int, NEW b \in Int, a % P = b % P
  PROVE  \E m \in Int : b - a = m * P
<1>1. PICK c \in Int : a % P = a - P * c
  BY Quotient
<1>2. PICK d \in Int : b % P = b - P * d
  BY Quotient
<1>3. (d - c) * P = P * d - P * c /\ P * d \in Int /\ P * c \in Int
  OBVIOUS
<1> DEFINE e == P * d
           f == P * c
<1>4. a - f = b - e /\ e \in Int /\ f \in Int
  BY <1>1, <1>2, <1>3
<1>5. b - a = e - f
  <2> HIDE DEF e, f
  <2> QED BY <1>4
<1>6. b - a = (d - c) * P
  BY <1>3, <1>5
<1>7. d - c \in Int
  OBVIOUS
<1> QED BY <1>6, <1>7

\* Two positions less than PIPESIZE apart are not in the same slot, on either
\* side of the wrap of the counters.
LEMMA SlotsDiffer ==
  ASSUME NEW x \in 0..2 * WRAP - 1, NEW y \in 0..2 * WRAP - 1,
         x < y, y < x + PIPESIZE
  PROVE  (x % WRAP) % PIPESIZE # (y % WRAP) % PIPESIZE
<1> DEFINE a == x % WRAP
           b == y % WRAP
<1>0. /\ PIPESIZE \in Nat \ {0} /\ WRAP \in Nat \ {0} /\ WRAP > PIPESIZE
      /\ WRAP % PIPESIZE = 0
  BY PipeAssumption
<1>1. /\ a = IF x < WRAP THEN x ELSE x - WRAP
      /\ b = IF y < WRAP THEN y ELSE y - WRAP
  BY <1>0
<1>2. a \in Int /\ b \in Int
  BY <1>0, <1>1
<1>3. PICK q \in Int : WRAP = q * PIPESIZE
  <2>1. 0 \in Int /\ WRAP \in Int /\ 0 % PIPESIZE = WRAP % PIPESIZE
    BY <1>0
  <2>2. \E q \in Int : WRAP - 0 = q * PIPESIZE
    BY <1>0, <2>1, SameRemainder
  <2>3. WRAP - 0 = WRAP
    BY <1>0
  <2> QED BY <2>2, <2>3
<1> SUFFICES ASSUME a % PIPESIZE = b % PIPESIZE PROVE FALSE
  OBVIOUS
<1>4. PICK m \in Int : b - a = m * PIPESIZE
  BY <1>0, <1>2, SameRemainder
<1> HIDE DEF a, b
<1>8. y - x = b - a \/ y - x = b - a + WRAP
  BY <1>0, <1>1
<1>9. CASE y - x = b - a
  BY <1>0, <1>4, <1>9, NoMultiple
<1>10. CASE y - x = b - a + WRAP
  <2>1. (m + q) * PIPESIZE = m * PIPESIZE + q * PIPESIZE
    BY <1>0
  <2>2. y - x = (m + q) * PIPESIZE
    BY <1>3, <1>4, <1>10, <2>1
  <2> QED BY <1>0, <2>2, NoMultiple
<1> QED BY <1>8, <1>9, <1>10

LEMMA SeqIs ==
  ASSUME NEW S, NEW s \in Seq(S)
  PROVE  s = [k \in 1..Len(s) |-> s[k]]
OBVIOUS

\* The slot of the k-th byte that will be read.
Slot(k) == ((nread + k - 1) % WRAP) % PIPESIZE

LEMMA SlotType ==
  ASSUME TypeOK, NEW k \in Int
  PROVE  Slot(k) \in 0..PIPESIZE - 1
<1>1. nread + k - 1 \in Int /\ WRAP \in Nat \ {0} /\ PIPESIZE \in Nat \ {0}
  BY PipeAssumption DEF TypeOK, Counter
<1>2. (nread + k - 1) % WRAP \in Int
  BY <1>1
<1> HIDE DEF Slot
<1> QED BY <1>1, <1>2 DEF Slot

LEMMA InPipeIs ==
  ASSUME TypeOK
  PROVE  /\ Count \in Nat
         /\ InPipe \in Seq(Bytes) /\ Len(InPipe) = Count
         /\ \A k \in 1..Count : InPipe[k] = data[Slot(k)] /\ data[Slot(k)] \in Bytes
<1>1. Count \in Nat
  BY CountIs, PipeAssumption DEF TypeOK, Counter
<1>2. \A k \in 1..Count : data[Slot(k)] \in Bytes
  BY <1>1, SlotType DEF TypeOK
<1>3. InPipe = [k \in 1..Count |-> data[Slot(k)]]
  BY DEF InPipe, Slot
<1> QED BY <1>1, <1>2, <1>3

LEMMA ChannelInit == Init => C!Init
<1> SUFFICES ASSUME Init PROVE C!Init
  OBVIOUS
<1>1. Count = 0
  BY PipeAssumption DEF Init, Count
<1>2. InPipe = <<>>
  BY <1>1 DEF InPipe
<1> QED BY <1>2 DEF Init, C!Init

LEMMA WriteByteIsPut ==
  ASSUME TypeOK, TypeOK', PipeBounded, PipeBounded', NEW w \in Writers, WriteByte(w)
  PROVE  \E b \in Bytes : C!Put(b)
<1> DEFINE b == <<w, i[w]>>
<1>n. /\ nread \in 0..WRAP - 1 /\ nwrite \in 0..WRAP - 1 /\ WRAP \in Nat
      /\ PIPESIZE \in Nat \ {0} /\ PIPESIZE < WRAP
  BY PipeAssumption DEF TypeOK, Counter
<1>1. /\ data' = [data EXCEPT ![nwrite % PIPESIZE] = <<w, i[w]>>]
      /\ nread' = nread /\ got' = got
      /\ nwrite' = IF nwrite + 1 = WRAP THEN 0 ELSE nwrite + 1
  BY SuccType DEF WriteByte, TypeOK
<1>2. Count < PIPESIZE /\ Count \in Nat
  BY <1>n, FullIs, InPipeIs DEF WriteByte, PipeBounded
<1>3. Count' = Count + 1
  <2>1. Count' = (nwrite' - nread') % WRAP
    BY DEF Count
  <2>2. nwrite' \in 0..WRAP - 1
    BY <1>n, <1>1
  <2>3. Count' = IF nread' <= nwrite' THEN nwrite' - nread' ELSE nwrite' - nread' + WRAP
    BY <1>n, <1>1, <2>1, <2>2, WrapDifference
  <2> QED BY <1>n, <1>1, <1>2, <2>3, CountIs
<1>4. b \in Bytes
  BY PipeAssumption DEF WriteByte, TypeOK, Bytes
<1>5. (nread + Count) % WRAP = nwrite
  <2>1. Count \in 0..WRAP - 1
    BY <1>n, <1>2
  <2> QED BY <1>n, <2>1, WrapSum, CountIs
<1>6. Slot(Count + 1) = nwrite % PIPESIZE
  BY <1>n, <1>2, <1>5 DEF Slot
<1>7. \A k \in 1..Count : Slot(k) # nwrite % PIPESIZE
  <2> SUFFICES ASSUME NEW k \in 1..Count PROVE Slot(k) # nwrite % PIPESIZE
    OBVIOUS
  <2>1. /\ nread + k - 1 \in 0..2 * WRAP - 1 /\ nread + Count \in 0..2 * WRAP - 1
        /\ nread + k - 1 < nread + Count /\ nread + Count < nread + k - 1 + PIPESIZE
    BY <1>n, <1>2
  <2>2. ((nread + k - 1) % WRAP) % PIPESIZE # ((nread + Count) % WRAP) % PIPESIZE
    BY <2>1, SlotsDiffer
  <2> QED BY <2>2, <1>5 DEF Slot
<1>8. \A k \in 1..(Count + 1) :
        data'[Slot(k)] = IF k = Count + 1 THEN b ELSE data[Slot(k)]
  <2> SUFFICES ASSUME NEW k \in 1..(Count + 1)
               PROVE  data'[Slot(k)] = IF k = Count + 1 THEN b ELSE data[Slot(k)]
    OBVIOUS
  <2>1. Slot(k) \in 0..PIPESIZE - 1
    BY <1>2, SlotType
  <2>2. CASE k = Count + 1
    BY <1>1, <1>6, <2>1, <2>2 DEF TypeOK
  <2>3. CASE k # Count + 1
    <3>1. k \in 1..Count
      BY <1>2, <2>3
    <3> QED BY <1>1, <1>7, <2>1, <2>3, <3>1 DEF TypeOK
  <2> QED BY <2>2, <2>3
<1>9. InPipe' = [k \in 1..(Count + 1) |-> data'[Slot(k)]]
  <2>1. \A k : Slot(k)' = Slot(k)
    BY <1>1 DEF Slot
  <2>2. InPipe' = [k \in 1..Count' |-> data'[((nread' + k - 1) % WRAP) % PIPESIZE]]
    BY DEF InPipe
  <2> QED BY <1>1, <1>3, <2>2 DEF Slot
<1>10. InPipe' = Append(InPipe, b)
  <2> DEFINE s == InPipe
             t == InPipe'
  <2>1. t \in Seq(Bytes) /\ Len(t) = Count + 1
    <3>1. t = [k \in 1..(Count + 1) |-> IF k = Count + 1 THEN b ELSE data[Slot(k)]]
      BY <1>8, <1>9
    <3>2. \A k \in 1..(Count + 1) :
            (IF k = Count + 1 THEN b ELSE data[Slot(k)]) \in Bytes
      BY <1>2, <1>4, InPipeIs
    <3> HIDE DEF t, b
    <3> QED BY <1>2, <3>1, <3>2
  <2>2. /\ s \in Seq(Bytes) /\ Len(s) = Count
        /\ \A k \in 1..Count : s[k] = data[Slot(k)]
    BY InPipeIs
  <2>3. \A k \in 1..(Count + 1) : t[k] = IF k = Count + 1 THEN b ELSE data[Slot(k)]
    BY <1>8, <1>9
  <2> HIDE DEF s, t, b
  <2>4. /\ Append(s, b) \in Seq(Bytes) /\ Len(Append(s, b)) = Count + 1
        /\ \A k \in 1..Count : Append(s, b)[k] = s[k]
        /\ Append(s, b)[Count + 1] = b
    BY <1>4, <2>2, AppendProperties
  <2>5. \A k \in 1..(Count + 1) : t[k] = Append(s, b)[k]
    BY <1>2, <2>2, <2>3, <2>4
  <2>6. t = Append(s, b)
    BY <2>1, <2>4, <2>5, SeqEqual
  <2> QED BY <2>6 DEF s, t, b
<1>11. Len(InPipe) < PIPESIZE
  BY <1>2, InPipeIs
<1> QED BY <1>1, <1>4, <1>10, <1>11 DEF C!Put

LEMMA ReadByteIsGet ==
  ASSUME TypeOK, TypeOK', NEW r \in Readers, ReadByte(r)
  PROVE  C!Get(r)
<1>n. /\ nread \in 0..WRAP - 1 /\ nwrite \in 0..WRAP - 1 /\ WRAP \in Nat
      /\ PIPESIZE \in Nat \ {0} /\ PIPESIZE < WRAP
  BY PipeAssumption DEF TypeOK, Counter
<1>1. /\ data' = data /\ nwrite' = nwrite
      /\ nread' = IF nread + 1 = WRAP THEN 0 ELSE nread + 1
      /\ got' = [got EXCEPT ![r] = Append(@, data[nread % PIPESIZE])]
  BY SuccType DEF ReadByte, ReadSlot, TypeOK
<1>2. Count > 0 /\ Count \in Nat
  BY FullIs, InPipeIs DEF ReadByte
<1>3. Count' = Count - 1
  <2>1. Count' = (nwrite' - nread') % WRAP
    BY DEF Count
  <2>2. nread' \in 0..WRAP - 1
    BY <1>n, <1>1
  <2>3. Count' = IF nread' <= nwrite' THEN nwrite' - nread' ELSE nwrite' - nread' + WRAP
    BY <1>n, <1>1, <2>1, <2>2, WrapDifference
  <2> QED BY <1>n, <1>1, <1>2, <2>3, CountIs
<1>4. Slot(1) = nread % PIPESIZE
  <2>1. nread + 1 - 1 = nread /\ nread % WRAP = nread
    BY <1>n
  <2> QED BY <2>1 DEF Slot
<1>5. \A k \in 1..(Count - 1) :
        ((nread' + k - 1) % WRAP) % PIPESIZE = Slot(k + 1)
  <2> SUFFICES ASSUME NEW k \in 1..(Count - 1)
               PROVE  (nread' + k - 1) % WRAP = (nread + (k + 1) - 1) % WRAP
    BY DEF Slot
  <2>1. k \in 0..WRAP - 1 /\ k - 1 \in 0..WRAP - 1 /\ nread' \in 0..WRAP - 1
    BY <1>n, <1>1, <1>2, CountIs
  <2>2. nread' + k - 1 = nread' + (k - 1) /\ nread + (k + 1) - 1 = nread + k
    BY <1>n, <2>1
  <2>3. (nread' + (k - 1)) % WRAP =
          IF nread' + (k - 1) < WRAP THEN nread' + (k - 1) ELSE nread' + (k - 1) - WRAP
    BY <1>n, <2>1, WrapSum
  <2>4. (nread + k) % WRAP = IF nread + k < WRAP THEN nread + k ELSE nread + k - WRAP
    BY <1>n, <2>1, WrapSum
  <2> QED BY <1>n, <1>1, <2>1, <2>2, <2>3, <2>4
<1>6. InPipe' = [k \in 1..(Count - 1) |-> data[Slot(k + 1)]]
  <2>1. InPipe' = [k \in 1..Count' |-> data'[((nread' + k - 1) % WRAP) % PIPESIZE]]
    BY DEF InPipe
  <2> QED BY <1>1, <1>3, <1>5, <2>1
<1>7. InPipe # <<>> /\ Head(InPipe) = data[nread % PIPESIZE]
  <2> DEFINE s == InPipe
  <2>1. s \in Seq(Bytes) /\ Len(s) = Count /\ s[1] = data[Slot(1)]
    BY <1>2, InPipeIs
  <2> HIDE DEF s
  <2>2. s # <<>> /\ Head(s) = data[Slot(1)]
    BY <1>2, <2>1
  <2> QED BY <1>4, <2>2 DEF s
<1>8. InPipe' = Tail(InPipe)
  <2> DEFINE s == InPipe
  <2>1. /\ s \in Seq(Bytes) /\ Len(s) = Count /\ s # <<>>
        /\ \A k \in 1..Count : s[k] = data[Slot(k)]
    BY <1>7, InPipeIs
  <2> HIDE DEF s
  <2>2. /\ Tail(s) \in Seq(Bytes) /\ Len(Tail(s)) = Count - 1
        /\ \A k \in 1..(Count - 1) : Tail(s)[k] = s[k + 1]
    BY <1>2, <2>1, HeadTailProperties
  <2>3. \A k \in 1..(Count - 1) : Tail(s)[k] = data[Slot(k + 1)]
    BY <1>2, <2>1, <2>2
  <2>4. Tail(s) = [k \in 1..(Count - 1) |-> data[Slot(k + 1)]]
    <3>1. Tail(s) = [k \in 1..(Count - 1) |-> Tail(s)[k]]
      BY <2>2, SeqIs
    <3> QED BY <2>3, <3>1
  <2> QED BY <1>6, <2>4 DEF s
<1> QED BY <1>1, <1>7, <1>8 DEF C!Get

LEMMA ChannelStep ==
  TypeOK /\ TypeOK' /\ PipeBounded /\ PipeBounded' /\ [Next]_vars
    => [C!Next]_(C!chanVars)
<1> SUFFICES ASSUME TypeOK, TypeOK', PipeBounded, PipeBounded', [Next]_vars
             PROVE  [C!Next]_(C!chanVars)
  OBVIOUS
<1>1. UNCHANGED <<data, nread, nwrite>> => UNCHANGED InPipe
  BY DEF InPipe, Count
<1>2. ASSUME NEW w \in Writers, WriteByte(w) PROVE C!Next
  BY <1>2, WriteByteIsPut DEF C!Next
<1>3. ASSUME NEW r \in Readers, ReadByte(r) PROVE C!Next
  BY <1>3, ReadByteIsGet DEF C!Next
<1>4. ASSUME NEW p \in Procs, NEW count \in 0..MaxCount, Enter(p, count)
      PROVE  [C!Next]_(C!chanVars)
  BY <1>1, <1>4 DEF Enter, C!Next, C!Start, C!chanVars
<1>5. CASE UNCHANGED <<data, nread, nwrite, got>>
  BY <1>1, <1>5 DEF C!chanVars
<1>6. \/ UNCHANGED <<data, nread, nwrite, got>>
      \/ \E w \in Writers : WriteByte(w)
      \/ \E r \in Readers : ReadByte(r)
      \/ \E p \in Procs, count \in 0..MaxCount : Enter(p, count)
  BY DEF Next, Step, Writing, Reading, CloseEnd, Sleep, Resume, WriteFull,
     WriteDone, ReadEmpty, ReadReady, ReadDone, Close, Kill, vars
<1> QED BY <1>2, <1>3, <1>4, <1>5, <1>6

\* The ring and its wrapping counters are a first-in first-out queue of at most
\* PIPESIZE bytes, for any number of readers and writers, any size of the ring
\* and any width of the counters that it divides.
THEOREM PipeIsChannel == Spec => ImplementsChannel
BY ChannelInit, ChannelStep, TypeInvariant, RingIsBounded, PTL
   DEF Spec, ImplementsChannel, C!Spec
=============================================================================
