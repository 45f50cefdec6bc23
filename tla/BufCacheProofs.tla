---------------------------- MODULE BufCacheProofs ----------------------------
(***************************************************************************)
(* Proofs about BufCache, for any finite sets of processes and buffers and *)
(* any number of blocks: which buffer a process has in its hands at each   *)
(* point of bread, bwrite and brelse, the reference counts, the disk's     *)
(* queue, and that cache and disk together are one store of blocks.        *)
(***************************************************************************)
EXTENDS BufCache, FiniteSetTheorems, SequenceTheorems, TLAPS

InRead == {"lock", "rw", "asleep", "awake"}
InIderw == {"rw", "asleep", "awake"}

\* What a process has in its hands at each point.
Hands == \A p \in Procs :
  /\ pc[p] = "run" <=> b[p] = NoBuf
  /\ want[p] = None <=> pc[p] \notin InRead
  /\ pc[p] \in InRead => /\ blk[b[p]] = want[p]
                         /\ got[p][want[p]] \in {NoBuf, b[p]}
  /\ pc[p] = "lock" => got[p][want[p]] = NoBuf
  /\ pc[p] \in InIderw => owner[b[p]] = p
  /\ pc[p] = "release" => \A x \in Blocks : got[p][x] # b[p]

\* The buffer bread returned is p's until brelse.
Kept == \A p \in Procs, x \in Blocks : got[p][x] # NoBuf =>
  /\ blk[got[p][x]] = x /\ owner[got[p][x]] = p /\ valid[got[p][x]]

OneBuffer == \A c, d \in Bufs : (c # d /\ blk[c] # None) => blk[c] # blk[d]

\* The processes that use c or wait for it, and b->refcnt.
Users(c) == {p \in Procs : b[p] = c \/ \E x \in Blocks : got[p][x] = c}
Counted == \A c \in Bufs : refcnt[c] = Cardinality(Users(c))

\* Whoever calls iderw has something to do for the disk, and so has every
\* request until it is done.
Pending(c) == dirty[c] \/ ~valid[c]
Queued ==
  /\ \A p \in Procs : pc[p] = "rw" => Pending(b[p])
  /\ \A i, j \in DOMAIN idequeue : i # j => idequeue[i] # idequeue[j]
  /\ \A i \in DOMAIN idequeue :
       /\ Pending(idequeue[i])
       /\ \E p \in Procs : /\ b[p] = idequeue[i] /\ owner[b[p]] = p
                           /\ pc[p] \in {"asleep", "awake"}

\* Cache and disk agree, but for what is still to be written.
Coherent == \A c \in Bufs :
  /\ dirty[c] => valid[c]
  /\ valid[c] => blk[c] # None
  /\ valid[c] /\ ~dirty[c] => data[c] = disk[blk[c]]

BufInv == TypeOK /\ Hands /\ Kept /\ OneBuffer /\ Counted /\ Queued /\ Coherent

----------------------------------------------------------------------------
(* Hands and counts *)

LEMMA InHand ==
  ASSUME TypeOK, Hands, NEW p \in Procs
  PROVE  /\ pc[p] # "run" => b[p] \in Bufs
         /\ pc[p] \in InRead => want[p] \in Blocks
         /\ \A x \in Blocks : got[p][x] \in Bufs \cup {NoBuf}
BY DEF TypeOK, Hands, InRead

LEMMA UsersFinite ==
  ASSUME NEW c
  PROVE  IsFiniteSet(Users(c)) /\ Cardinality(Users(c)) \in Nat
         /\ (Cardinality(Users(c)) = 0 <=> Users(c) = {})
<1>1. Users(c) \in SUBSET Procs
  BY DEF Users
<1>2. IsFiniteSet(Users(c))
  BY <1>1, FS_Subset, BufAssumption
<1> QED BY <1>2, FS_CardinalityType, FS_EmptySet

\* A buffer with users is not recycled.
LEMMA UsedNotRecycled ==
  ASSUME Counted, NEW c \in Bufs
  PROVE  refcnt[c] = 0 <=> \A p \in Procs : p \notin Users(c)
<1>1. refcnt[c] = 0 <=> Users(c) = {}
  BY UsersFinite DEF Counted
<1> QED BY <1>1 DEF Users

LEMMA SameUsers ==
  ASSUME Counted, refcnt' = refcnt, \A c \in Bufs : Users(c)' = Users(c)
  PROVE  Counted'
BY DEF Counted

LEMMA OneMoreUser ==
  ASSUME Counted, NEW p \in Procs, NEW c \in Bufs, refcnt \in [Bufs -> Nat],
         p \notin Users(c), Users(c)' = Users(c) \cup {p},
         \A d \in Bufs : d # c => Users(d)' = Users(d),
         refcnt' = [refcnt EXCEPT ![c] = refcnt[c] + 1]
  PROVE  Counted'
<1>1. Cardinality(Users(c)') = Cardinality(Users(c)) + 1
  BY UsersFinite, FS_AddElement
<1> QED BY <1>1 DEF Counted

LEMMA OneUserLess ==
  ASSUME Counted, NEW p \in Procs, NEW c \in Bufs, refcnt \in [Bufs -> Nat],
         p \in Users(c), Users(c)' = Users(c) \ {p},
         \A d \in Bufs : d # c => Users(d)' = Users(d),
         refcnt' = [refcnt EXCEPT ![c] = refcnt[c] - 1]
  PROVE  Counted' /\ refcnt[c] - 1 \in Nat
<1>1. Cardinality(Users(c)') = Cardinality(Users(c)) - 1
  BY UsersFinite, FS_RemoveElement
<1>2. refcnt[c] \in Nat /\ refcnt[c] # 0
  BY UsedNotRecycled
<1>3. Counted'
  BY <1>1 DEF Counted
<1> QED BY <1>2, <1>3

----------------------------------------------------------------------------
LEMMA BufInit == Init => BufInv
<1> SUFFICES ASSUME Init PROVE BufInv
  OBVIOUS
<1>1. TypeOK
  <2>1. lru \in [1..Cardinality(Bufs) -> Bufs]
    <3>1. \E s \in [1..Cardinality(Bufs) -> Bufs] :
            \A c \in Bufs : \E i \in DOMAIN s : s[i] = c
      <4>1. PICK s \in Bijection(1..Cardinality(Bufs), Bufs) : TRUE
        BY BufAssumption, FS_CardinalityType DEF ExistsBijection
      <4>2. s \in [1..Cardinality(Bufs) -> Bufs]
            /\ \A c \in Bufs : \E i \in 1..Cardinality(Bufs) : s[i] = c
        BY DEF Bijection, Injection, Surjection
      <4> QED BY <4>2
    <3> QED BY <3>1 DEF Init
  <2>2. idequeue \in Seq(Bufs)
    BY EmptySeq DEF Init
  <2>3. disk \in [Blocks -> Values] /\ data \in [Bufs -> Values]
    BY BufAssumption DEF Init
  <2>4. got \in [Procs -> [Blocks -> Bufs \cup {NoBuf}]]
    BY DEF Init
  <2>5. /\ refcnt \in [Bufs -> Nat] /\ blk \in [Bufs -> Blocks \cup {None}]
        /\ valid \in [Bufs -> BOOLEAN] /\ dirty \in [Bufs -> BOOLEAN]
        /\ owner \in [Bufs -> Procs \cup {Nobody}]
    BY DEF Init
  <2>6. /\ pc \in [Procs -> {"run", "lock", "rw", "asleep", "awake", "release"}]
        /\ want \in [Procs -> Blocks \cup {None}]
        /\ b \in [Procs -> Bufs \cup {NoBuf}] /\ panicked \in BOOLEAN
    BY DEF Init
  <2> QED BY <2>1, <2>2, <2>3, <2>4, <2>5, <2>6 DEF TypeOK
<1>2. Hands /\ Kept /\ OneBuffer /\ Coherent
  BY DEF Init, Hands, Kept, OneBuffer, Coherent, InRead, InIderw
<1>3. Counted
  <2>1. \A c \in Bufs : Users(c) = {}
    BY BufAssumption DEF Init, Users
  <2> QED BY <2>1, FS_EmptySet DEF Init, Counted
<1>4. Queued
  BY DEF Init, Queued
<1> QED BY <1>1, <1>2, <1>3, <1>4 DEF BufInv

----------------------------------------------------------------------------
(* bio.c *)

\* A step of p that changes no buffer in the queue leaves the requests alone.
LEMMA RequestsKeep ==
  ASSUME TypeOK, Queued, idequeue' = idequeue, NEW p \in Procs, NEW c \in Bufs,
         pc[p] \notin {"asleep", "awake"},
         \A i \in DOMAIN idequeue : idequeue[i] # c,
         \A q \in Procs : q # p => pc'[q] = pc[q] /\ b'[q] = b[q],
         \A d \in Bufs : d # c =>
           owner'[d] = owner[d] /\ valid'[d] = valid[d] /\ dirty'[d] = dirty[d],
         \A q \in Procs : pc'[q] = "rw" => Pending(b[q])'
  PROVE  Queued'
<1>1. \A i \in DOMAIN idequeue : idequeue[i] \in Bufs \ {c}
  BY DEF TypeOK
<1>2. ASSUME NEW i \in DOMAIN idequeue
      PROVE  /\ Pending(idequeue[i])'
             /\ \E q \in Procs : /\ b'[q] = idequeue[i] /\ owner'[b'[q]] = q
                                 /\ pc'[q] \in {"asleep", "awake"}
  <2>1. PICK q \in Procs : /\ b[q] = idequeue[i] /\ owner[b[q]] = q
                           /\ pc[q] \in {"asleep", "awake"}
    BY DEF Queued
  <2>2. q # p /\ b'[q] = idequeue[i] /\ owner'[b'[q]] = q /\ pc'[q] = pc[q]
    BY <1>1, <2>1
  <2>3. Pending(idequeue[i])
    BY DEF Queued
  <2>4. Pending(idequeue[i])'
    BY <1>1, <2>3 DEF Pending
  <2> QED BY <2>1, <2>2, <2>4
<1> QED BY <1>2 DEF Queued

LEMMA HitKeeps ==
  ASSUME BufInv, NEW p \in Procs, NEW x \in Blocks, BgetHit(p, x)
  PROVE  BufInv'
<1> USE DEF BufInv
<1>1. PICK c \in Bufs :
        /\ blk[c] = x /\ refcnt' = [refcnt EXCEPT ![c] = @ + 1]
        /\ want' = [want EXCEPT ![p] = x] /\ b' = [b EXCEPT ![p] = c]
        /\ pc' = [pc EXCEPT ![p] = "lock"]
  BY DEF BgetHit, Grab, Goto
<1>2. /\ pc[p] = "run" /\ b[p] = NoBuf
      /\ \A y \in Blocks : got[p][y] # NoBuf => y < x
      /\ UNCHANGED <<lru, blk, valid, dirty, data, owner, idequeue, disk, got, panicked>>
  BY DEF BgetHit, MayRead, At, Held, Hands
<1>3. got[p][x] = NoBuf /\ \A y \in Blocks : got[p][y] # c
  <2>1. got[p][x] = NoBuf
    BY <1>2, BufAssumption DEF Blocks
  <2> QED BY <1>1, <2>1, BufAssumption DEF Kept
<1>4. TypeOK'
  BY <1>1, <1>2 DEF TypeOK
<1>5. Hands'
  BY <1>1, <1>2, <1>3, BufAssumption DEF Hands, TypeOK, InRead, InIderw, Blocks, None
<1>6. Kept' /\ OneBuffer' /\ Coherent'
  BY <1>2 DEF Kept, OneBuffer, Coherent
<1>7. Counted'
  <2>1. Users(c)' = Users(c) \cup {p} /\ p \notin Users(c)
    BY <1>1, <1>2, <1>3, BufAssumption DEF Users, TypeOK
  <2>2. \A d \in Bufs : d # c => Users(d)' = Users(d)
    BY <1>1, <1>2, BufAssumption DEF Users, TypeOK
  <2> QED BY <1>1, <2>1, <2>2, OneMoreUser DEF TypeOK
<1>8. Queued'
  BY <1>1, <1>2 DEF Queued, Pending, TypeOK
<1> QED BY <1>4, <1>5, <1>6, <1>7, <1>8

LEMMA MissKeeps ==
  ASSUME BufInv, NEW p \in Procs, NEW x \in Blocks, BgetMiss(p, x)
  PROVE  BufInv'
<1> USE DEF BufInv
<1>1. PICK i \in DOMAIN lru :
        /\ Unused(lru[i])
        /\ blk' = [blk EXCEPT ![lru[i]] = x] /\ refcnt' = [refcnt EXCEPT ![lru[i]] = 1]
        /\ valid' = [valid EXCEPT ![lru[i]] = FALSE]
        /\ dirty' = [dirty EXCEPT ![lru[i]] = FALSE]
        /\ Grab(p, x, lru[i])
  BY DEF BgetMiss
<1>2. PICK c \in Bufs : c = lru[i]
  BY DEF TypeOK
<1>3. /\ pc[p] = "run" /\ b[p] = NoBuf
      /\ \A y \in Blocks : got[p][y] # NoBuf => y < x
      /\ \A d \in Bufs : blk[d] # x
      /\ UNCHANGED <<lru, data, owner, idequeue, disk, got, panicked>>
  BY DEF BgetMiss, MayRead, At, Held, Hands, Cached
<1>4. /\ blk' = [blk EXCEPT ![c] = x] /\ refcnt' = [refcnt EXCEPT ![c] = 1]
      /\ valid' = [valid EXCEPT ![c] = FALSE] /\ dirty' = [dirty EXCEPT ![c] = FALSE]
      /\ want' = [want EXCEPT ![p] = x] /\ b' = [b EXCEPT ![p] = c]
      /\ pc' = [pc EXCEPT ![p] = "lock"]
      /\ refcnt[c] = 0
  BY <1>1, <1>2 DEF Grab, Goto, Unused
<1>5. Users(c) = {} /\ \A q \in Procs : b[q] # c /\ \A y \in Blocks : got[q][y] # c
  BY <1>4, UsedNotRecycled DEF Users
<1>6. got[p][x] = NoBuf
  BY <1>3 DEF Blocks
<1>7. TypeOK'
  BY <1>3, <1>4 DEF TypeOK
<1>8. Hands'
  BY <1>3, <1>4, <1>5, <1>6, BufAssumption DEF Hands, TypeOK, InRead, InIderw, Blocks, None
<1>9. Kept' /\ OneBuffer' /\ Coherent'
  BY <1>3, <1>4, <1>5, BufAssumption DEF Kept, OneBuffer, Coherent, TypeOK, Blocks, None
<1>10. Counted'
  <2>1. Users(c)' = Users(c) \cup {p} /\ p \notin Users(c)
    BY <1>3, <1>4, <1>5, BufAssumption DEF Users, TypeOK
  <2>2. \A d \in Bufs : d # c => Users(d)' = Users(d)
    BY <1>3, <1>4, BufAssumption DEF Users, TypeOK
  <2>3. refcnt' = [refcnt EXCEPT ![c] = refcnt[c] + 1]
    BY <1>4
  <2> QED BY <2>1, <2>2, <2>3, OneMoreUser DEF TypeOK
<1>11. Queued'
  <2>1. \A j \in DOMAIN idequeue : idequeue[j] # c
    BY <1>5 DEF Queued
  <2>2. \A q \in Procs : q # p => pc'[q] = pc[q] /\ b'[q] = b[q]
    BY <1>4 DEF TypeOK
  <2>3. \A d \in Bufs : d # c =>
          owner'[d] = owner[d] /\ valid'[d] = valid[d] /\ dirty'[d] = dirty[d]
    BY <1>3, <1>4 DEF TypeOK
  <2>4. \A q \in Procs : pc'[q] = "rw" => Pending(b[q])'
    <3> SUFFICES ASSUME NEW q \in Procs, pc'[q] = "rw" PROVE Pending(b[q])'
      OBVIOUS
    <3>1. q # p /\ pc[q] = "rw" /\ b'[q] = b[q]
      BY <1>4, <2>2 DEF TypeOK
    <3>2. b[q] \in Bufs /\ b[q] # c /\ Pending(b[q])
      BY <1>5, <3>1, InHand DEF Queued
    <3> QED BY <1>3, <2>3, <3>1, <3>2 DEF Pending
  <2> QED BY <1>3, <2>1, <2>2, <2>3, <2>4, RequestsKeep
<1> QED BY <1>7, <1>8, <1>9, <1>10, <1>11

LEMMA LockKeeps ==
  ASSUME BufInv, NEW p \in Procs, BreadLock(p)
  PROVE  BufInv'
<1> USE DEF BufInv
<1>1. PICK c \in Bufs, x \in Blocks : c = b[p] /\ x = want[p]
  BY InHand DEF BreadLock, At, InRead
<1>2. /\ pc[p] = "lock" /\ owner[c] = Nobody /\ blk[c] = x /\ got[p][x] = NoBuf
      /\ owner' = [owner EXCEPT ![c] = p]
      /\ UNCHANGED <<lru, blk, refcnt, valid, dirty, data, idequeue, disk, panicked>>
  BY <1>1 DEF BreadLock, At, Hands, InRead
<1>3. \/ /\ valid[c]
         /\ got' = [got EXCEPT ![p][x] = c] /\ want' = [want EXCEPT ![p] = None]
         /\ b' = [b EXCEPT ![p] = NoBuf] /\ pc' = [pc EXCEPT ![p] = "run"]
      \/ /\ ~valid[c] /\ pc' = [pc EXCEPT ![p] = "rw"] /\ UNCHANGED <<want, b, got>>
  BY <1>1 DEF BreadLock, Returns, Goto
<1>4. TypeOK'
  <2>1. CASE UNCHANGED <<want, b, got>>
    BY <1>2, <1>3, <2>1 DEF TypeOK
  <2>2. CASE got' = [got EXCEPT ![p][x] = c]
    BY <1>2, <1>3, <2>2 DEF TypeOK
  <2> QED BY <1>3, <2>1, <2>2
<1>5. Hands'
  BY <1>1, <1>2, <1>3, BufAssumption DEF Hands, TypeOK, InRead, InIderw, Blocks, None
<1>6. Kept'
  <2>1. \A q \in Procs, y \in Blocks : got[q][y] # c
    BY <1>2, BufAssumption DEF Kept
  <2>2. CASE UNCHANGED got
    BY <1>2, <2>1, <2>2 DEF Kept, TypeOK
  <2>3. CASE valid[c] /\ got' = [got EXCEPT ![p][x] = c]
    <3>1. \A q \in Procs, y \in Blocks :
            got'[q][y] = IF q = p /\ y = x THEN c ELSE got[q][y]
      BY <2>3 DEF TypeOK
    <3> QED BY <1>2, <2>1, <2>3, <3>1 DEF Kept, TypeOK
  <2> QED BY <1>3, <2>2, <2>3
<1>7. OneBuffer' /\ Coherent'
  BY <1>2 DEF OneBuffer, Coherent
<1>8. Counted'
  <2>1. \A d \in Bufs : Users(d)' = Users(d)
    BY <1>1, <1>2, <1>3, BufAssumption DEF Users, TypeOK
  <2> QED BY <1>2, <2>1, SameUsers
<1>9. Queued'
  <2>1. \A i \in DOMAIN idequeue : idequeue[i] # c
    BY <1>2, BufAssumption DEF Queued
  <2>2. \A q \in Procs : q # p => pc'[q] = pc[q] /\ b'[q] = b[q]
    BY <1>3 DEF TypeOK
  <2>3. \A d \in Bufs : d # c => owner'[d] = owner[d]
    BY <1>2 DEF TypeOK
  <2>4. pc'[p] = "rw" => Pending(b[p])'
    BY <1>1, <1>2, <1>3 DEF Pending, TypeOK
  <2>5. \A q \in Procs : q # p /\ pc'[q] = "rw" => Pending(b[q])'
    BY <1>2, <2>2 DEF Queued, Pending
  <2> QED BY <1>2, <2>1, <2>2, <2>3, <2>4, <2>5, RequestsKeep
<1> QED BY <1>4, <1>5, <1>6, <1>7, <1>8, <1>9

LEMMA BwriteKeeps ==
  ASSUME BufInv, NEW p \in Procs, NEW x \in Blocks, Bwrite(p, x)
  PROVE  BufInv'
<1> USE DEF BufInv
<1>1. PICK c \in Bufs : c = got[p][x]
  BY InHand DEF Bwrite
<1>2. /\ pc[p] = "run" /\ blk[c] = x /\ owner[c] = p /\ valid[c]
      /\ dirty' = [dirty EXCEPT ![c] = TRUE]
      /\ want' = [want EXCEPT ![p] = x] /\ b' = [b EXCEPT ![p] = c]
      /\ pc' = [pc EXCEPT ![p] = "rw"]
      /\ UNCHANGED <<lru, blk, refcnt, valid, owner, idequeue, disk, got, panicked>>
  BY <1>1, BufAssumption DEF Bwrite, At, Goto, Kept
<1>3. PICK v \in Values : data' = [data EXCEPT ![c] = v]
  BY <1>1 DEF Bwrite
<1>4. TypeOK'
  BY <1>2, <1>3 DEF TypeOK
<1>5. Hands'
  BY <1>1, <1>2, BufAssumption DEF Hands, TypeOK, InRead, InIderw, Blocks, None
<1>6. Kept' /\ OneBuffer' /\ Coherent'
  BY <1>2, <1>3, BufAssumption DEF Kept, OneBuffer, Coherent, TypeOK, Blocks, None
<1>7. Counted'
  <2>1. \A d \in Bufs : Users(d)' = Users(d)
    BY <1>1, <1>2, BufAssumption DEF Users, TypeOK, Hands
  <2> QED BY <1>2, <2>1, SameUsers
<1>8. Queued'
  BY <1>1, <1>2 DEF Queued, Pending, TypeOK, Hands
<1> QED BY <1>4, <1>5, <1>6, <1>7, <1>8

LEMMA LogWriteKeeps ==
  ASSUME BufInv, NEW p \in Procs, NEW x \in Blocks, LogWrite(p, x)
  PROVE  BufInv'
<1> USE DEF BufInv
<1>1. PICK c \in Bufs : c = got[p][x]
  BY InHand DEF LogWrite
<1>2. /\ blk[c] = x /\ owner[c] = p /\ valid[c]
      /\ dirty' = [dirty EXCEPT ![c] = TRUE]
      /\ UNCHANGED <<lru, blk, refcnt, valid, owner, idequeue, disk, pc, want, b, got, panicked>>
  BY <1>1, BufAssumption DEF LogWrite, Kept
<1>3. PICK v \in Values : data' = [data EXCEPT ![c] = v]
  BY <1>1 DEF LogWrite
<1>4. TypeOK'
  BY <1>2, <1>3 DEF TypeOK
<1>5. Hands' /\ Kept' /\ OneBuffer' /\ Coherent'
  BY <1>2, <1>3, BufAssumption DEF Hands, Kept, OneBuffer, Coherent, TypeOK, Blocks, None
<1>6. Counted'
  <2>1. \A d \in Bufs : Users(d)' = Users(d)
    BY <1>2 DEF Users
  <2> QED BY <1>2, <2>1, SameUsers
<1>7. Queued'
  BY <1>2 DEF Queued, Pending, TypeOK
<1> QED BY <1>4, <1>5, <1>6, <1>7

LEMMA UnlockKeeps ==
  ASSUME BufInv, NEW p \in Procs, NEW x \in Blocks, BrelseUnlock(p, x)
  PROVE  BufInv'
<1> USE DEF BufInv
<1>1. PICK c \in Bufs : c = got[p][x]
  BY InHand DEF BrelseUnlock
<1>2. /\ pc[p] = "run" /\ b[p] = NoBuf /\ blk[c] = x /\ owner[c] = p
      /\ owner' = [owner EXCEPT ![c] = Nobody]
      /\ got' = [got EXCEPT ![p][x] = NoBuf] /\ b' = [b EXCEPT ![p] = c]
      /\ pc' = [pc EXCEPT ![p] = "release"]
      /\ UNCHANGED <<lru, blk, refcnt, valid, dirty, data, idequeue, disk, want, panicked>>
  BY <1>1, BufAssumption DEF BrelseUnlock, At, Goto, Kept, Hands
<1>3. \A y \in Blocks : got[p][y] = c => y = x
  BY <1>2, BufAssumption DEF Kept
<1>4. \A q \in Procs : (q # p /\ pc[q] \in InIderw) => b[q] # c
  BY <1>2 DEF Hands
<1>5. TypeOK'
  BY <1>2 DEF TypeOK
<1>6. Hands'
  BY <1>1, <1>2, <1>3, <1>4, BufAssumption DEF Hands, TypeOK, InRead, InIderw, Blocks, None
<1>7. Kept'
  BY <1>2, <1>3, BufAssumption DEF Kept, TypeOK
<1>8. OneBuffer' /\ Coherent'
  BY <1>2 DEF OneBuffer, Coherent
<1>9. Counted'
  <2>1. \A d \in Bufs : Users(d)' = Users(d)
    BY <1>1, <1>2, <1>3, BufAssumption DEF Users, TypeOK
  <2> QED BY <1>2, <2>1, SameUsers
<1>10. Queued'
  <2>1. \A i \in DOMAIN idequeue : idequeue[i] # c
    BY <1>2, <1>4 DEF Queued, InIderw
  <2>2. \A q \in Procs : q # p => pc'[q] = pc[q] /\ b'[q] = b[q]
    BY <1>2 DEF TypeOK
  <2>3. \A d \in Bufs : d # c => owner'[d] = owner[d]
    BY <1>2 DEF TypeOK
  <2>4. \A q \in Procs : pc'[q] = "rw" => Pending(b[q])'
    BY <1>2, <2>2 DEF Queued, Pending, TypeOK
  <2> QED BY <1>2, <2>1, <2>2, <2>3, <2>4, RequestsKeep
<1> QED BY <1>5, <1>6, <1>7, <1>8, <1>9, <1>10

LEMMA ReleaseKeeps ==
  ASSUME BufInv, NEW p \in Procs, BrelseCount(p)
  PROVE  BufInv'
<1> USE DEF BufInv
<1>1. PICK c \in Bufs : c = b[p]
  BY InHand DEF BrelseCount, At
<1>2. /\ pc[p] = "release" /\ refcnt' = [refcnt EXCEPT ![c] = refcnt[c] - 1]
      /\ b' = [b EXCEPT ![p] = NoBuf] /\ pc' = [pc EXCEPT ![p] = "run"]
      /\ lru' \in {lru, MoveToHead(c)}
      /\ UNCHANGED <<blk, valid, dirty, data, owner, idequeue, disk, want, got, panicked>>
  BY <1>1 DEF BrelseCount, At, Goto, Fewer
<1>3. \A y \in Blocks : got[p][y] # c
  BY <1>1, <1>2 DEF Hands
<1>4. Counted' /\ refcnt[c] - 1 \in Nat
  <2>1. p \in Users(c) /\ Users(c)' = Users(c) \ {p}
    BY <1>1, <1>2, <1>3, BufAssumption DEF Users, TypeOK
  <2>2. \A d \in Bufs : d # c => Users(d)' = Users(d)
    BY <1>1, <1>2, BufAssumption DEF Users, TypeOK
  <2> QED BY <1>2, <2>1, <2>2, OneUserLess DEF TypeOK
<1>5. lru' \in [1..Cardinality(Bufs) -> Bufs]
  <2>1. MoveToHead(c) \in [1..Cardinality(Bufs) -> Bufs]
    <3> DEFINE n == Cardinality(Bufs)
               k == CHOOSE i \in DOMAIN lru : lru[i] = c
    <3>1. n \in Nat
      BY FS_CardinalityType, BufAssumption
    <3>2. \A i \in 1..n : i # 1 => i - 1 \in 1..n
      BY <3>1
    <3>3. MoveToHead(c) = [i \in 1..n |-> IF i = 1 THEN c
                             ELSE IF i <= k THEN lru[i - 1] ELSE lru[i]]
      BY DEF MoveToHead, TypeOK
    <3>4. \A i \in 1..n : lru[i] \in Bufs
      BY DEF TypeOK
    <3> QED BY <3>2, <3>3, <3>4
  <2> QED BY <1>2, <2>1 DEF TypeOK
<1>6. TypeOK'
  BY <1>2, <1>4, <1>5 DEF TypeOK
<1>7. Hands'
  BY <1>1, <1>2, BufAssumption DEF Hands, TypeOK, InRead, InIderw, Blocks, None
<1>8. Kept' /\ OneBuffer' /\ Coherent'
  BY <1>2 DEF Kept, OneBuffer, Coherent
<1>9. Queued'
  BY <1>1, <1>2 DEF Queued, Pending, TypeOK
<1> QED BY <1>4, <1>6, <1>7, <1>8, <1>9

----------------------------------------------------------------------------
(* ide.c *)

LEMMA AppendKeeps ==
  ASSUME BufInv, NEW p \in Procs, IderwAppend(p)
  PROVE  BufInv'
<1> USE DEF BufInv
<1>1. PICK c \in Bufs : c = b[p]
  BY InHand DEF IderwAppend, At
<1>2. /\ pc[p] = "rw" /\ owner[c] = p /\ pc' = [pc EXCEPT ![p] = "asleep"]
      /\ idequeue' = Append(idequeue, c)
      /\ UNCHANGED <<lru, blk, refcnt, valid, dirty, data, owner, disk, want, b, got,
                     panicked>>
  BY <1>1 DEF IderwAppend, At, Goto, bufs, Hands, InIderw
<1>3. /\ idequeue \in Seq(Bufs) /\ idequeue' \in Seq(Bufs) /\ Len(idequeue) \in Nat
      /\ DOMAIN idequeue = 1..Len(idequeue)
      /\ DOMAIN idequeue' = 1..Len(idequeue) + 1
      /\ idequeue'[Len(idequeue) + 1] = c
      /\ \A i \in 1..Len(idequeue) : idequeue'[i] = idequeue[i]
  BY <1>2, AppendProperties, LenProperties DEF TypeOK
<1>4. TypeOK'
  BY <1>2, <1>3 DEF TypeOK
<1>5. Hands'
  BY <1>2 DEF Hands, TypeOK, InRead, InIderw
<1>6. Kept' /\ OneBuffer' /\ Coherent'
  BY <1>2 DEF Kept, OneBuffer, Coherent
<1>7. Counted'
  <2>1. \A d \in Bufs : Users(d)' = Users(d)
    BY <1>2 DEF Users
  <2> QED BY <1>2, <2>1, SameUsers
<1>8. Queued'
  <2>1. \A i \in 1..Len(idequeue) : idequeue[i] # c
    <3> SUFFICES ASSUME NEW i \in 1..Len(idequeue), idequeue[i] = c PROVE FALSE
      OBVIOUS
    <3>1. PICK q \in Procs : owner[c] = q /\ pc[q] \in {"asleep", "awake"}
      BY <1>3 DEF Queued
    <3> QED BY <1>2, <3>1
  <2>2. \A q \in Procs : pc'[q] = "rw" => Pending(b[q])'
    BY <1>2 DEF Queued, Pending, TypeOK
  <2>3. ASSUME NEW i \in DOMAIN idequeue', NEW j \in DOMAIN idequeue', i # j
        PROVE  idequeue'[i] # idequeue'[j]
    <3>1. i \in 1..Len(idequeue) \/ i = Len(idequeue) + 1
      BY <1>3
    <3>2. j \in 1..Len(idequeue) \/ j = Len(idequeue) + 1
      BY <1>3
    <3>3. i \in 1..Len(idequeue) /\ j \in 1..Len(idequeue) => idequeue[i] # idequeue[j]
      BY <1>3, <2>3 DEF Queued
    <3> QED BY <1>3, <2>1, <2>3, <3>1, <3>2, <3>3
  <2>4. ASSUME NEW i \in DOMAIN idequeue'
        PROVE  /\ dirty'[idequeue'[i]] \/ ~valid'[idequeue'[i]]
               /\ \E q \in Procs : /\ b'[q] = idequeue'[i] /\ owner'[b'[q]] = q
                                   /\ pc'[q] \in {"asleep", "awake"}
    <3>1. CASE i = Len(idequeue) + 1
      <4>1. dirty'[c] \/ ~valid'[c]
        BY <1>1, <1>2 DEF Queued, Pending
      <4>2. b'[p] = c /\ owner'[c] = p /\ pc'[p] = "asleep"
        BY <1>1, <1>2 DEF TypeOK
      <4> QED BY <1>3, <3>1, <4>1, <4>2
    <3>2. CASE i \in 1..Len(idequeue)
      <4>1. PICK q \in Procs : /\ b[q] = idequeue[i] /\ owner[b[q]] = q
                               /\ pc[q] \in {"asleep", "awake"}
        BY <1>3, <3>2 DEF Queued
      <4>2. dirty'[idequeue[i]] \/ ~valid'[idequeue[i]]
        BY <1>2, <1>3, <3>2 DEF Queued, Pending
      <4>3. b'[q] = idequeue[i] /\ owner'[b'[q]] = q /\ pc'[q] \in {"asleep", "awake"}
        BY <1>2, <4>1 DEF TypeOK
      <4> QED BY <1>3, <3>2, <4>2, <4>3
    <3> QED BY <1>3, <3>1, <3>2
  <2> QED BY <2>2, <2>3, <2>4 DEF Queued, Pending
<1> QED BY <1>4, <1>5, <1>6, <1>7, <1>8

\* The request at the head of the queue, and what the disk's interrupt does.
LEMMA Served ==
  ASSUME BufInv, Ideintr
  PROVE  \E c \in Bufs, q \in Procs :
           /\ c = Head(idequeue) /\ Pending(c) /\ blk[c] \in Blocks
           /\ b[q] = c /\ owner[c] = q /\ pc[q] \in {"asleep", "awake"}
           /\ idequeue' = Tail(idequeue) /\ Len(idequeue) \in Nat \ {0}
           /\ c = idequeue[1]
           /\ \/ dirty[c] /\ disk' = [disk EXCEPT ![blk[c]] = data[c]] /\ data' = data
              \/ /\ ~dirty[c] /\ data' = [data EXCEPT ![c] = disk[blk[c]]]
                 /\ disk' = disk
           /\ valid' = [valid EXCEPT ![c] = TRUE] /\ dirty' = [dirty EXCEPT ![c] = FALSE]
           /\ \A p \in Procs : pc'[p] = IF pc[p] = "asleep" /\ b[p] = c THEN "awake"
                                        ELSE pc[p]
           /\ pc' = [p \in Procs |-> IF p \in Woken(c) THEN "awake" ELSE pc[p]]
           /\ UNCHANGED <<lru, blk, refcnt, owner, want, b, got, panicked>>
<1> USE DEF BufInv
<1>1. /\ Len(idequeue) \in Nat \ {0} /\ Head(idequeue) = idequeue[1]
      /\ 1 \in DOMAIN idequeue /\ idequeue[1] \in Bufs
  BY EmptySeq, HeadTailProperties, LenProperties DEF Ideintr, TypeOK
<1>2. PICK c \in Bufs : c = Head(idequeue) /\ c = idequeue[1]
  BY <1>1
<1>3. PICK q \in Procs : b[q] = c /\ owner[c] = q /\ pc[q] \in {"asleep", "awake"}
  BY <1>1, <1>2 DEF Queued
<1>4. Pending(c)
  BY <1>1, <1>2 DEF Queued
<1>5. blk[c] \in Blocks
  BY <1>3, InHand DEF Hands, InRead
<1>6. \A p \in Procs : pc'[p] = IF pc[p] = "asleep" /\ b[p] = c THEN "awake" ELSE pc[p]
  BY <1>2 DEF Ideintr, Woken
<1> QED BY <1>1, <1>2, <1>3, <1>4, <1>5, <1>6 DEF Ideintr

LEMMA IntrKeeps ==
  ASSUME BufInv, Ideintr
  PROVE  BufInv'
<1> USE DEF BufInv
<1>1. PICK c \in Bufs, q \in Procs :
           /\ Pending(c) /\ blk[c] \in Blocks
           /\ b[q] = c /\ owner[c] = q /\ pc[q] \in {"asleep", "awake"}
           /\ idequeue' = Tail(idequeue) /\ Len(idequeue) \in Nat \ {0}
           /\ c = idequeue[1]
           /\ \/ dirty[c] /\ disk' = [disk EXCEPT ![blk[c]] = data[c]] /\ data' = data
              \/ /\ ~dirty[c] /\ data' = [data EXCEPT ![c] = disk[blk[c]]]
                 /\ disk' = disk
           /\ valid' = [valid EXCEPT ![c] = TRUE] /\ dirty' = [dirty EXCEPT ![c] = FALSE]
           /\ \A p \in Procs : pc'[p] = IF pc[p] = "asleep" /\ b[p] = c THEN "awake"
                                        ELSE pc[p]
           /\ pc' = [p \in Procs |-> IF p \in Woken(c) THEN "awake" ELSE pc[p]]
           /\ UNCHANGED <<lru, blk, refcnt, owner, want, b, got, panicked>>
  BY Served
<1>2. /\ idequeue \in Seq(Bufs) /\ idequeue' \in Seq(Bufs)
      /\ DOMAIN idequeue = 1..Len(idequeue)
      /\ DOMAIN idequeue' = 1..Len(idequeue) - 1
      /\ \A i \in 1..Len(idequeue) - 1 : idequeue'[i] = idequeue[i + 1]
  <2>1. idequeue # <<>>
    BY DEF Ideintr
  <2> QED BY <1>1, <2>1, HeadTailProperties, LenProperties DEF TypeOK
<1>3. TypeOK'
  <2>1. pc' \in [Procs -> {"run", "lock", "rw", "asleep", "awake", "release"}]
    BY <1>1 DEF TypeOK
  <2>2. data' \in [Bufs -> Values] /\ disk' \in [Blocks -> Values]
    <3>1. \/ disk' = [disk EXCEPT ![blk[c]] = data[c]] /\ data' = data
          \/ data' = [data EXCEPT ![c] = disk[blk[c]]] /\ disk' = disk
      BY <1>1
    <3>2. data[c] \in Values /\ blk[c] \in Blocks /\ disk[blk[c]] \in Values
      BY <1>1 DEF TypeOK
    <3> QED BY <3>1, <3>2 DEF TypeOK
  <2>3. valid' \in [Bufs -> BOOLEAN] /\ dirty' \in [Bufs -> BOOLEAN]
    BY <1>1 DEF TypeOK
  <2> QED BY <1>1, <1>2, <2>1, <2>2, <2>3 DEF TypeOK
<1>4. Hands'
  <2>1. \A p \in Procs : /\ pc'[p] \in InRead <=> pc[p] \in InRead
                         /\ pc'[p] \in InIderw <=> pc[p] \in InIderw
                         /\ pc'[p] = "run" <=> pc[p] = "run"
                         /\ pc'[p] = "lock" <=> pc[p] = "lock"
                         /\ pc'[p] = "release" <=> pc[p] = "release"
    BY <1>1 DEF InRead, InIderw
  <2> QED BY <1>1, <2>1 DEF Hands
<1>5. Kept' /\ OneBuffer'
  BY <1>1 DEF Kept, OneBuffer, TypeOK
<1>6. Coherent'
  <2>1. \A d \in Bufs : d # c => /\ dirty'[d] = dirty[d] /\ valid'[d] = valid[d]
                                 /\ data'[d] = data[d]
    BY <1>1 DEF TypeOK
  <2>2. valid'[c] /\ ~dirty'[c] /\ blk[c] # None
    BY <1>1, BufAssumption DEF TypeOK, Blocks, None
  <2>3. data'[c] = disk'[blk[c]]
    BY <1>1 DEF TypeOK
  <2>4. \A d \in Bufs : d # c => blk[d] # blk[c]
    BY <2>2 DEF OneBuffer
  <2>5. \A d \in Bufs : d # c /\ blk[d] # None => disk'[blk[d]] = disk[blk[d]]
    <3>1. \/ disk' = [disk EXCEPT ![blk[c]] = data[c]] /\ data' = data
          \/ data' = [data EXCEPT ![c] = disk[blk[c]]] /\ disk' = disk
      BY <1>1
    <3> QED BY <2>4, <3>1 DEF TypeOK
  <2> QED BY <1>1, <2>1, <2>2, <2>3, <2>5 DEF Coherent
<1>7. Counted'
  <2>1. \A d \in Bufs : Users(d)' = Users(d)
    BY <1>1 DEF Users
  <2> QED BY <1>1, <2>1, SameUsers
<1>8. Queued'
  <2>1. \A d \in Bufs : d # c => (Pending(d)' <=> Pending(d))
    BY <1>1 DEF Pending, TypeOK
  <2>2. ASSUME NEW p \in Procs, pc'[p] = "rw" PROVE Pending(b[p])'
    <3>1. pc[p] = "rw" /\ b[p] \in Bufs /\ owner[b[p]] = p
      BY <1>1, <2>2, InHand DEF Hands, InIderw
    <3>2. b[p] # c
      BY <1>1, <3>1
    <3> QED BY <1>1, <2>1, <3>1, <3>2 DEF Queued, Pending
  <2>3. ASSUME NEW i \in DOMAIN idequeue', NEW j \in DOMAIN idequeue', i # j
        PROVE  idequeue'[i] # idequeue'[j]
    <3>1. i + 1 \in DOMAIN idequeue /\ j + 1 \in DOMAIN idequeue /\ i + 1 # j + 1
      BY <1>1, <1>2, <2>3
    <3>2. idequeue[i + 1] # idequeue[j + 1]
      BY <3>1 DEF Queued
    <3> QED BY <1>2, <3>2
  <2>4. ASSUME NEW i \in DOMAIN idequeue'
        PROVE  /\ dirty'[idequeue'[i]] \/ ~valid'[idequeue'[i]]
               /\ \E p \in Procs : /\ b'[p] = idequeue'[i] /\ owner'[b'[p]] = p
                                   /\ pc'[p] \in {"asleep", "awake"}
    <3>1. i + 1 \in DOMAIN idequeue /\ 1 \in DOMAIN idequeue /\ i + 1 # 1
      BY <1>1, <1>2
    <3>2. PICK d \in Bufs : d = idequeue[i + 1] /\ d = idequeue'[i]
      BY <1>2, <3>1
    <3>3. d # c
      BY <1>1, <3>1, <3>2 DEF Queued
    <3>4. Pending(d)
      BY <3>1, <3>2 DEF Queued
    <3>5. PICK p \in Procs : b[p] = d /\ owner[d] = p /\ pc[p] \in {"asleep", "awake"}
      <4>1. PICK p \in Procs : /\ b[p] = idequeue[i + 1] /\ owner[b[p]] = p
                               /\ pc[p] \in {"asleep", "awake"}
        BY <3>1 DEF Queued
      <4> QED BY <3>2, <4>1
    <3>6. dirty'[d] \/ ~valid'[d]
      BY <2>1, <3>3, <3>4 DEF Pending
    <3>7. b'[p] = d /\ owner'[d] = p /\ pc'[p] \in {"asleep", "awake"}
      BY <1>1, <3>5
    <3> QED BY <3>2, <3>6, <3>7
  <2> QED BY <2>2, <2>3, <2>4 DEF Queued, Pending
<1> QED BY <1>3, <1>4, <1>5, <1>6, <1>7, <1>8

LEMMA AwakeKeeps ==
  ASSUME BufInv, NEW p \in Procs, IderwAwake(p)
  PROVE  BufInv'
<1> USE DEF BufInv
<1>1. PICK c \in Bufs, x \in Blocks : c = b[p] /\ x = want[p]
  BY InHand DEF IderwAwake, At, InRead
<1>2. /\ pc[p] = "awake" /\ owner[c] = p /\ blk[c] = x /\ got[p][x] \in {NoBuf, c}
      /\ UNCHANGED <<lru, blk, refcnt, valid, dirty, data, owner, idequeue, disk, panicked>>
  BY <1>1 DEF IderwAwake, At, Hands, InRead, InIderw, bufs
<1>3. \/ /\ valid[c] /\ ~dirty[c]
         /\ got' = [got EXCEPT ![p][x] = c] /\ want' = [want EXCEPT ![p] = None]
         /\ b' = [b EXCEPT ![p] = NoBuf] /\ pc' = [pc EXCEPT ![p] = "run"]
      \/ pc' = [pc EXCEPT ![p] = "asleep"] /\ UNCHANGED <<want, b, got>>
  BY <1>1 DEF IderwAwake, Returns, Goto, Synced
<1>4. CASE pc' = [pc EXCEPT ![p] = "asleep"] /\ UNCHANGED <<want, b, got>>
  <2>1. \A d \in Bufs : Users(d)' = Users(d)
    BY <1>4 DEF Users
  <2>2. Counted'
    BY <1>2, <2>1, SameUsers
  <2>3. TypeOK' /\ Hands' /\ Kept' /\ OneBuffer' /\ Coherent'
    BY <1>2, <1>4 DEF TypeOK, Hands, InRead, InIderw, Kept, OneBuffer, Coherent
  <2>4. \A q \in Procs : /\ pc[q] \in {"asleep", "awake"} => pc'[q] \in {"asleep", "awake"}
                         /\ pc'[q] = "rw" => pc[q] = "rw"
    BY <1>2, <1>4 DEF TypeOK
  <2>5. Queued'
    BY <1>2, <1>4, <2>4 DEF Queued, Pending
  <2> QED BY <2>2, <2>3, <2>5
<1>5. CASE /\ valid[c] /\ ~dirty[c]
           /\ got' = [got EXCEPT ![p][x] = c] /\ want' = [want EXCEPT ![p] = None]
           /\ b' = [b EXCEPT ![p] = NoBuf] /\ pc' = [pc EXCEPT ![p] = "run"]
  <2>1. \A q \in Procs, y \in Blocks :
          got'[q][y] = IF q = p /\ y = x THEN c ELSE got[q][y]
    BY <1>5 DEF TypeOK
  <2>2. TypeOK'
    BY <1>2, <1>5 DEF TypeOK
  <2>3. Hands'
    BY <1>1, <1>2, <1>5, BufAssumption DEF Hands, TypeOK, InRead, InIderw, Blocks, None
  <2>4. Kept' /\ OneBuffer' /\ Coherent'
    BY <1>2, <1>5, <2>1 DEF Kept, OneBuffer, Coherent, TypeOK
  <2>5. Counted'
    <3>1. \A d \in Bufs : Users(d)' = Users(d)
      BY <1>1, <1>2, <1>5, <2>1, BufAssumption DEF Users, TypeOK
    <3> QED BY <1>2, <3>1, SameUsers
  <2>6. Queued'
    <3>1. \A i \in DOMAIN idequeue : idequeue[i] # c
      BY <1>5 DEF Queued, Pending
    <3>2. \A i \in DOMAIN idequeue : idequeue[i] \in Bufs
      BY DEF TypeOK
    <3>3. \A q \in Procs : q # p => pc'[q] = pc[q] /\ b'[q] = b[q]
      BY <1>5 DEF TypeOK
    <3>4. \A q \in Procs : pc'[q] = "rw" => q # p
      BY <1>5 DEF TypeOK
    <3>5. ASSUME NEW i \in DOMAIN idequeue
          PROVE  \E q \in Procs : /\ b'[q] = idequeue[i] /\ owner'[b'[q]] = q
                                  /\ pc'[q] \in {"asleep", "awake"}
      <4>1. PICK q \in Procs : /\ b[q] = idequeue[i] /\ owner[b[q]] = q
                               /\ pc[q] \in {"asleep", "awake"}
        BY DEF Queued
      <4>2. q # p
        BY <1>1, <3>1, <4>1
      <4> QED BY <1>2, <3>3, <4>1, <4>2
    <3> QED BY <1>2, <3>3, <3>4, <3>5 DEF Queued, Pending
  <2> QED BY <2>2, <2>3, <2>4, <2>5, <2>6
<1> QED BY <1>3, <1>4, <1>5

LEMMA KillKeeps ==
  ASSUME BufInv, NEW p \in Procs, Kill(p)
  PROVE  BufInv'
<1> USE DEF BufInv
<1>1. /\ pc[p] = "asleep" /\ pc' = [pc EXCEPT ![p] = "awake"]
      /\ UNCHANGED <<lru, blk, refcnt, valid, dirty, data, owner, idequeue, disk,
                     want, b, got, panicked>>
  BY DEF Kill, At, Goto, bufs
<1>2. \A d \in Bufs : Users(d)' = Users(d)
  BY <1>1 DEF Users
<1>3. Counted'
  BY <1>1, <1>2, SameUsers
<1>4. TypeOK' /\ Hands' /\ Kept' /\ OneBuffer' /\ Coherent'
  BY <1>1 DEF TypeOK, Hands, InRead, InIderw, Kept, OneBuffer, Coherent
<1>5. \A q \in Procs : /\ pc[q] \in {"asleep", "awake"} => pc'[q] \in {"asleep", "awake"}
                       /\ pc'[q] = "rw" => pc[q] = "rw"
  BY <1>1 DEF TypeOK
<1>6. Queued'
  BY <1>1, <1>5 DEF Queued, Pending
<1> QED BY <1>3, <1>4, <1>6

\* Nothing but the flag of the panic changes.
LEMMA StutterKeeps ==
  ASSUME BufInv, panicked' \in BOOLEAN,
         UNCHANGED <<lru, bufs, idequeue, disk, pc, want, b, got>>
  PROVE  BufInv'
<1> USE DEF BufInv, bufs
<1>1. \A d \in Bufs : Users(d)' = Users(d)
  BY DEF Users
<1>2. Counted'
  BY <1>1, SameUsers
<1>3. TypeOK' /\ Hands' /\ Kept' /\ OneBuffer' /\ Coherent' /\ Queued'
  BY DEF TypeOK, Hands, Kept, OneBuffer, Coherent, Queued, Pending
<1> QED BY <1>2, <1>3

----------------------------------------------------------------------------
LEMMA BufStep == BufInv /\ [Next]_vars => BufInv'
<1> SUFFICES ASSUME BufInv, [Next]_vars PROVE BufInv'
  OBVIOUS
<1>1. CASE UNCHANGED vars
  BY <1>1, StutterKeeps DEF vars, BufInv, TypeOK
<1>2. ASSUME NEW p \in Procs, NEW x \in Blocks, BgetPanic(p, x) PROVE BufInv'
  BY <1>2, StutterKeeps DEF BgetPanic
<1>3. ASSUME NEW p \in Procs, NEW x \in Blocks,
             \/ BgetHit(p, x) \/ BgetMiss(p, x)
             \/ Bwrite(p, x) \/ LogWrite(p, x) \/ BrelseUnlock(p, x)
      PROVE  BufInv'
  BY <1>3, HitKeeps, MissKeeps, BwriteKeeps, LogWriteKeeps, UnlockKeeps
<1>4. ASSUME NEW p \in Procs,
             \/ BreadLock(p) \/ BrelseCount(p) \/ IderwAppend(p) \/ IderwAwake(p)
             \/ Kill(p)
      PROVE  BufInv'
  BY <1>4, LockKeeps, ReleaseKeeps, AppendKeeps, AwakeKeeps, KillKeeps
<1> QED BY <1>1, <1>2, <1>3, <1>4, IntrKeeps DEF Next, ProcNext, Halted

\* The inductive invariant: what each process has in its hands at each point of
\* bread, bwrite and brelse, that b->refcnt counts these hands, what the disk's
\* queue holds and where cache and disk may differ.
THEOREM BufInvariant == Spec => []BufInv
BY BufInit, BufStep, PTL DEF Spec

\* The buffer bread returned, or that someone waits for, keeps its identity, and
\* no block is in two buffers, although bget lets go of bcache.lock before it
\* has the buffer's lock and brelse gives that lock back before it counts.
THEOREM BuffersAreRight == Spec => []RightBlock
<1>1. BufInv => RightBlock
  BY DEF BufInv, RightBlock, Hands, Kept, OneBuffer, Held
<1> QED BY <1>1, BufInvariant, PTL

\* Every request in the disk's queue belongs to the process that holds the
\* buffer, is there once, and is still to be done.
THEOREM RequestsAreRight == Spec => []QueueRight
<1>1. BufInv => QueueRight
  BY DEF BufInv, QueueRight, Queued, Pending
<1> QED BY <1>1, BufInvariant, PTL

\* bget finds no buffer only when each is pinned or in somebody's hands.
THEOREM PanicsOnlyWhenFull == Spec => []OnlyWhenFull
<1> DEFINE Full == \A c \in Bufs : dirty[c] \/ c \in InUse
<1>1. BufInv /\ OnlyWhenFull /\ [Next]_vars => OnlyWhenFull'
  <2> SUFFICES ASSUME BufInv, OnlyWhenFull, [Next]_vars, panicked' PROVE Full'
    BY DEF OnlyWhenFull
  <2>1. ASSUME NEW p \in Procs, NEW x \in Blocks, BgetPanic(p, x) PROVE Full'
    <3>1. ASSUME NEW c \in Bufs PROVE dirty[c] \/ c \in InUse
      <4>1. refcnt[c] # 0 \/ dirty[c]
        BY <2>1 DEF BgetPanic, Unused
      <4>2. refcnt[c] # 0 => \E q \in Procs : q \in Users(c)
        BY UsedNotRecycled DEF BufInv
      <4> QED BY <4>1, <4>2 DEF Users, InUse
    <3>2. Full' <=> Full
      BY <2>1 DEF BgetPanic, bufs, InUse
    <3> QED BY <3>1, <3>2
  <2>2. CASE panicked /\ UNCHANGED vars
    <3>1. Full' <=> Full
      BY <2>2 DEF vars, bufs, InUse
    <3> QED BY <2>2, <3>1 DEF OnlyWhenFull
  <2>3. ASSUME NEW p \in Procs, NEW x \in Blocks,
               \/ BgetHit(p, x) \/ BgetMiss(p, x)
               \/ Bwrite(p, x) \/ LogWrite(p, x) \/ BrelseUnlock(p, x)
        PROVE  FALSE
    BY <2>3 DEF BgetHit, BgetMiss, Bwrite, LogWrite, BrelseUnlock, MayRead, At
  <2>4. ASSUME NEW p \in Procs,
               \/ BreadLock(p) \/ BrelseCount(p) \/ IderwAppend(p) \/ IderwAwake(p)
               \/ Kill(p)
        PROVE  FALSE
    BY <2>4 DEF BreadLock, BrelseCount, IderwAppend, IderwAwake, Kill, At
  <2>5. ~Ideintr
    BY DEF Ideintr
  <2>6. UNCHANGED vars => panicked
    BY DEF vars
  <2> QED BY <2>1, <2>2, <2>3, <2>4, <2>5, <2>6 DEF Next, ProcNext, Halted
<1>2. Init => OnlyWhenFull
  BY DEF Init, OnlyWhenFull
<1> QED BY <1>1, <1>2, BufInvariant, PTL DEF Spec

----------------------------------------------------------------------------
(* Cache and disk are one store of blocks *)

User(x) == IF \E p \in Procs : x \in Held(p)
           THEN CHOOSE p \in Procs : x \in Held(p) ELSE Nobody

\* A block's contents are those of its valid buffer, now and after a step ...
LEMMA ContentOf ==
  ASSUME NEW c \in Bufs, NEW x \in Blocks
  PROVE  /\ OneBuffer /\ blk[c] = x /\ valid[c] => Content(x) = data[c]
         /\ OneBuffer' /\ blk'[c] = x /\ valid'[c] => Content(x)' = data'[c]
<1>1. x # None
  BY DEF Blocks, None
<1>2. ASSUME OneBuffer, blk[c] = x, valid[c] PROVE Content(x) = data[c]
  <2>1. \A d \in Bufs : blk[d] = x /\ valid[d] <=> d = c
    BY <1>1, <1>2 DEF OneBuffer
  <2> QED BY <2>1 DEF Content
<1>3. ASSUME OneBuffer', blk'[c] = x, valid'[c] PROVE Content(x)' = data'[c]
  <2>1. \A d \in Bufs : blk'[d] = x /\ valid'[d] <=> d = c
    BY <1>1, <1>3 DEF OneBuffer
  <2> QED BY <2>1 DEF Content
<1> QED BY <1>2, <1>3

\* ... or, when it has none, what the disk has.
LEMMA ContentOnDisk ==
  ASSUME NEW x \in Blocks
  PROVE  /\ (\A c \in Bufs : blk[c] = x => ~valid[c]) => Content(x) = disk[x]
         /\ (\A c \in Bufs : blk'[c] = x => ~valid'[c]) => Content(x)' = disk'[x]
BY DEF Content

LEMMA SameContent ==
  ASSUME UNCHANGED <<blk, valid, data, disk>>
  PROVE  \A x \in Blocks : Content(x)' = Content(x)
BY DEF Content

\* Only one process has a block, so it is the block's user.
LEMMA UserIs ==
  ASSUME NEW p \in Procs, NEW x \in Blocks
  PROVE  /\ OneBuffer /\ Kept /\ TypeOK /\ got[p][x] # NoBuf => User(x) = p
         /\ OneBuffer' /\ Kept' /\ TypeOK' /\ got'[p][x] # NoBuf => User(x)' = p
<1>1. x # None
  BY DEF Blocks, None
<1>2. ASSUME OneBuffer, Kept, TypeOK, got[p][x] # NoBuf PROVE User(x) = p
  <2>1. \A q \in Procs : got[q][x] # NoBuf => got[q][x] = got[p][x]
    BY <1>1, <1>2 DEF OneBuffer, Kept, TypeOK
  <2>2. \A q \in Procs : x \in Held(q) <=> q = p
    BY <1>2, <2>1 DEF Kept, Held
  <2> QED BY <2>2 DEF User
<1>3. ASSUME OneBuffer', Kept', TypeOK', got'[p][x] # NoBuf PROVE User(x)' = p
  <2>1. \A q \in Procs : got'[q][x] # NoBuf => got'[q][x] = got'[p][x]
    BY <1>1, <1>3 DEF OneBuffer, Kept, TypeOK
  <2>2. \A q \in Procs : (x \in Held(q))' <=> q = p
    BY <1>3, <2>1 DEF Kept, Held
  <2> QED BY <2>2 DEF User
<1> QED BY <1>2, <1>3

LEMMA NoUser ==
  ASSUME NEW x \in Blocks
  PROVE  /\ (\A q \in Procs : got[q][x] = NoBuf) => User(x) = Nobody
         /\ (\A q \in Procs : got'[q][x] = NoBuf) => User(x)' = Nobody
BY DEF User, Held

\* A step that changes what no process has keeps the users.
LEMMA SameUser ==
  ASSUME NEW x \in Blocks, \A q \in Procs : got'[q][x] = got[q][x]
  PROVE  User(x)' = User(x)
<1>1. \A q \in Procs : (x \in Held(q))' <=> x \in Held(q)
  BY DEF Held
<1> QED BY <1>1 DEF User

----------------------------------------------------------------------------
Steps == [Store!Next]_(Store!blockstore)

LEMMA Stutters ==
  ASSUME \A x \in Blocks : Content(x)' = Content(x),
         \A x \in Blocks : User(x)' = User(x)
  PROVE  Steps
BY DEF Steps, Store!blockstore, User

\* A miss forgets a buffer that is clean: the disk has the same.
LEMMA MissStutters ==
  ASSUME BufInv, BufInv', NEW p \in Procs, NEW x \in Blocks, BgetMiss(p, x)
  PROVE  Steps
<1> USE DEF BufInv
<1>1. PICK c \in Bufs :
        /\ ~dirty[c] /\ blk' = [blk EXCEPT ![c] = x] /\ valid' = [valid EXCEPT ![c] = FALSE]
  BY DEF BgetMiss, Unused, TypeOK
<1>2. UNCHANGED <<data, disk, got>>
  BY DEF BgetMiss
<1>3. \A d \in Bufs : d # c => blk'[d] = blk[d] /\ valid'[d] = valid[d]
  BY <1>1 DEF TypeOK
<1>4. ~valid'[c]
  BY <1>1 DEF TypeOK
<1>5. ASSUME NEW y \in Blocks PROVE Content(y)' = Content(y)
  <2>1. CASE \E d \in Bufs \ {c} : blk[d] = y /\ valid[d]
    BY <1>2, <1>3, <2>1, ContentOf
  <2>2. CASE \A d \in Bufs \ {c} : blk[d] = y => ~valid[d]
    <3>1. Content(y)' = disk'[y]
      BY <1>3, <1>4, <2>2, ContentOnDisk
    <3>2. Content(y) = disk[y]
      <4>1. CASE blk[c] = y /\ valid[c]
        BY <1>1, <4>1, ContentOf DEF Coherent
      <4>2. CASE ~(blk[c] = y /\ valid[c])
        BY <2>2, <4>2, ContentOnDisk
      <4> QED BY <4>1, <4>2
    <3> QED BY <1>2, <3>1, <3>2
  <2> QED BY <2>1, <2>2
<1> QED BY <1>2, <1>5, SameUser, Stutters

\* bread, or the write, returns: the block had no user, or p has it already.
LEMMA ReturnTakes ==
  ASSUME BufInv, BufInv', NEW p \in Procs, NEW c \in Bufs, NEW x \in Blocks,
         c = b[p], x = want[p], blk[c] = x,
         owner[c] \in {Nobody, p}, got[p][x] \in {NoBuf, c},
         got' = [got EXCEPT ![p][x] = c],
         UNCHANGED <<blk, valid, data, disk>>
  PROVE  Steps
<1> USE DEF BufInv
<1>1. x # None /\ c # NoBuf
  BY BufAssumption DEF Blocks, None
<1>2. \A q \in Procs, y \in Blocks : got'[q][y] = IF q = p /\ y = x THEN c ELSE got[q][y]
  BY DEF TypeOK
<1>3. \A y \in Blocks : y # x => User(y)' = User(y)
  BY <1>2, SameUser
<1>4. User(x)' = p
  BY <1>1, <1>2, UserIs
<1>5. CASE got[p][x] = c
  <2>1. User(x) = p
    BY <1>1, <1>5, UserIs
  <2>2. \A y \in Blocks : User(y)' = User(y)
    BY <1>3, <1>4, <2>1
  <2> QED BY <2>2, SameContent, Stutters
<1>6. CASE got[p][x] = NoBuf
  <2>1. ASSUME NEW q \in Procs, got[q][x] # NoBuf PROVE FALSE
    <3>1. got[q][x] = c
      BY <1>1, <2>1 DEF Kept, OneBuffer, TypeOK
    <3>2. owner[c] = q /\ q # p
      BY <1>1, <1>6, <2>1, <3>1 DEF Kept
    <3> QED BY <3>2, BufAssumption
  <2>2. User(x) = Nobody
    BY <2>1, NoUser
  <2>3. [y \in Blocks |-> User(y)]' = [[y \in Blocks |-> User(y)] EXCEPT ![x] = p]
    BY <1>3, <1>4
  <2>4. [y \in Blocks |-> Content(y)]' = [y \in Blocks |-> Content(y)]
    BY SameContent
  <2>5. Store!Take(p, x)
    BY <2>2, <2>3, <2>4 DEF Store!Take, User
  <2> QED BY <2>5 DEF Steps, Store!Next
<1> QED BY <1>5, <1>6

LEMMA HolderChanges ==
  ASSUME BufInv, BufInv', NEW p \in Procs, NEW x \in Blocks, NEW c \in Bufs,
         c = got[p][x], NEW v \in Values, data' = [data EXCEPT ![c] = v],
         UNCHANGED <<blk, valid, disk, got>>
  PROVE  Steps
<1> USE DEF BufInv
<1>1. blk[c] = x /\ valid[c]
  BY BufAssumption DEF Kept
<1>2. Content(x)' = v
  BY <1>1, ContentOf DEF TypeOK
<1>3. ASSUME NEW y \in Blocks, y # x PROVE Content(y)' = Content(y)
  <2>1. CASE \E d \in Bufs : blk[d] = y /\ valid[d]
    <3>1. PICK d \in Bufs : blk[d] = y /\ valid[d]
      BY <2>1
    <3>2. d # c /\ data'[d] = data[d]
      BY <1>1, <1>3, <3>1 DEF TypeOK
    <3> QED BY <3>1, <3>2, ContentOf
  <2>2. CASE \A d \in Bufs : blk[d] = y => ~valid[d]
    BY <2>2, ContentOnDisk
  <2> QED BY <2>1, <2>2
<1>4. User(x) = p /\ \A y \in Blocks : User(y)' = User(y)
  BY UserIs, SameUser, BufAssumption
<1>5. Store!Change(p, x)
  BY <1>2, <1>3, <1>4 DEF Store!Change, User
<1> QED BY <1>5 DEF Steps, Store!Next

LEMMA UnlockGives ==
  ASSUME BufInv, BufInv', NEW p \in Procs, NEW x \in Blocks, BrelseUnlock(p, x)
  PROVE  Steps
<1> USE DEF BufInv
<1>1. /\ got[p][x] # NoBuf /\ got' = [got EXCEPT ![p][x] = NoBuf]
      /\ UNCHANGED <<blk, valid, data, disk>>
  BY DEF BrelseUnlock
<1>2. \A q \in Procs, y \in Blocks : got'[q][y] = IF q = p /\ y = x THEN NoBuf ELSE got[q][y]
  BY <1>1 DEF TypeOK
<1>3. User(x) = p /\ \A y \in Blocks : y # x => User(y)' = User(y)
  BY <1>1, <1>2, UserIs, SameUser
<1>4. ASSUME NEW q \in Procs, q # p PROVE got[q][x] = NoBuf
  <2>1. got[q][x] # NoBuf => User(x) = q
    BY UserIs
  <2> QED BY <1>3, <1>4, <2>1
<1>5. User(x)' = Nobody
  BY <1>2, <1>4, NoUser
<1>6. [y \in Blocks |-> User(y)]' = [[y \in Blocks |-> User(y)] EXCEPT ![x] = Nobody]
  BY <1>3, <1>5
<1>7. [y \in Blocks |-> Content(y)]' = [y \in Blocks |-> Content(y)]
  BY <1>1, SameContent
<1>8. Store!Give(p, x)
  BY <1>3, <1>6, <1>7 DEF Store!Give, User
<1> QED BY <1>8 DEF Steps, Store!Next

\* A write puts on the disk what the buffer had; a read brings into it what the
\* disk has.
LEMMA IntrStutters ==
  ASSUME BufInv, BufInv', Ideintr
  PROVE  Steps
<1> USE DEF BufInv
<1>1. PICK c \in Bufs :
        /\ Pending(c) /\ blk[c] \in Blocks
        /\ \/ dirty[c] /\ disk' = [disk EXCEPT ![blk[c]] = data[c]] /\ data' = data
           \/ /\ ~dirty[c] /\ data' = [data EXCEPT ![c] = disk[blk[c]]]
              /\ disk' = disk
        /\ valid' = [valid EXCEPT ![c] = TRUE]
        /\ UNCHANGED <<blk, got>>
  BY Served
<1>2. PICK x \in Blocks : x = blk[c]
  BY <1>1
<1>3. valid'[c] /\ \A d \in Bufs : d # c => valid'[d] = valid[d] /\ blk[d] # x
  BY <1>1, <1>2 DEF OneBuffer, TypeOK, Blocks, None
<1>4. \A d \in Bufs : d # c => data'[d] = data[d]
  BY <1>1 DEF TypeOK
<1>5. \A y \in Blocks : y # x => disk'[y] = disk[y]
  BY <1>1, <1>2 DEF TypeOK
<1>6. Content(x)' = data'[c]
  BY <1>1, <1>2, <1>3, ContentOf
<1>7. Content(x) = data'[c]
  <2>1. CASE dirty[c]
    BY <1>1, <1>2, <2>1, ContentOf DEF Coherent
  <2>2. CASE ~dirty[c]
    <3>1. data'[c] = disk[x] /\ ~valid[c]
      BY <1>1, <1>2, <2>2 DEF Pending, TypeOK
    <3>2. Content(x) = disk[x]
      BY <1>3, <3>1, ContentOnDisk
    <3> QED BY <3>1, <3>2
  <2> QED BY <2>1, <2>2
<1>8. ASSUME NEW y \in Blocks, y # x PROVE Content(y)' = Content(y)
  <2>1. CASE \E d \in Bufs : blk[d] = y /\ valid[d]
    <3>1. PICK d \in Bufs : blk[d] = y /\ valid[d]
      BY <2>1
    <3>2. blk'[d] = y /\ valid'[d] /\ data'[d] = data[d]
      BY <1>1, <1>2, <1>3, <1>4, <1>8, <3>1
    <3> QED BY <3>1, <3>2, ContentOf
  <2>2. CASE \A d \in Bufs : blk[d] = y => ~valid[d]
    <3>1. \A d \in Bufs : blk'[d] = y => ~valid'[d]
      BY <1>1, <1>2, <1>3, <1>8, <2>2
    <3> QED BY <1>5, <1>8, <2>2, <3>1, ContentOnDisk
  <2> QED BY <2>1, <2>2
<1> QED BY <1>1, <1>6, <1>7, <1>8, SameUser, Stutters

LEMMA StoreStep ==
  ASSUME BufInv, BufInv', [Next]_vars
  PROVE  Steps
<1> USE DEF BufInv
<1>1. CASE UNCHANGED <<blk, valid, data, disk, got>>
  BY <1>1, SameContent, SameUser, Stutters
<1>2. ASSUME NEW p \in Procs, NEW x \in Blocks, BgetHit(p, x) \/ BgetPanic(p, x)
      PROVE  Steps
  BY <1>1, <1>2 DEF BgetHit, BgetPanic, bufs
<1>3. ASSUME NEW p \in Procs, NEW x \in Blocks, Bwrite(p, x) \/ LogWrite(p, x)
      PROVE  Steps
  BY <1>3, HolderChanges, InHand DEF Bwrite, LogWrite
<1>4. ASSUME NEW p \in Procs, BreadLock(p) PROVE Steps
  <2>1. PICK c \in Bufs, x \in Blocks : c = b[p] /\ x = want[p]
    BY <1>4, InHand DEF BreadLock, At, InRead
  <2>2. pc[p] = "lock" /\ owner[c] = Nobody /\ UNCHANGED <<blk, valid, data, disk>>
    BY <1>4, <2>1 DEF BreadLock, At
  <2>3. blk[c] = x /\ got[p][x] = NoBuf
    BY <2>1, <2>2 DEF Hands, InRead
  <2>4. got' = got \/ got' = [got EXCEPT ![p][x] = c]
    BY <1>4, <2>1 DEF BreadLock, Returns
  <2> QED BY <1>1, <2>1, <2>2, <2>3, <2>4, ReturnTakes
<1>5. ASSUME NEW p \in Procs, IderwAwake(p) PROVE Steps
  <2>1. PICK c \in Bufs, x \in Blocks : c = b[p] /\ x = want[p]
    BY <1>5, InHand DEF IderwAwake, At, InRead
  <2>2. pc[p] = "awake" /\ UNCHANGED <<blk, valid, data, disk>>
    BY <1>5, <2>1 DEF IderwAwake, At, bufs
  <2>3. blk[c] = x /\ got[p][x] \in {NoBuf, c} /\ owner[c] = p
    BY <2>1, <2>2 DEF Hands, InRead, InIderw
  <2>4. got' = got \/ got' = [got EXCEPT ![p][x] = c]
    BY <1>5, <2>1 DEF IderwAwake, Returns
  <2> QED BY <1>1, <2>1, <2>2, <2>3, <2>4, ReturnTakes
<1>6. ASSUME NEW p \in Procs, BrelseCount(p) \/ IderwAppend(p) \/ Kill(p) PROVE Steps
  BY <1>1, <1>6 DEF BrelseCount, IderwAppend, Kill, bufs
<1>7. CASE UNCHANGED vars
  BY <1>1, <1>7 DEF vars, bufs
<1> QED BY <1>2, <1>3, <1>4, <1>5, <1>6, <1>7, MissStutters, UnlockGives, IntrStutters
        DEF Next, ProcNext, Halted

\* Cache and disk together implement one store of blocks, each used by one
\* process at a time: whatever is recycled, read again, written at once or
\* pinned for the log, no write is lost and only a block's user changes it.
THEOREM StoreImplemented == Spec => ImplementsBlockStore
<1>1. Init => Store!Init
  <2> SUFFICES ASSUME Init PROVE Store!Init
    OBVIOUS
  <2>1. \A x \in Blocks : User(x) = Nobody
    BY NoUser DEF Init
  <2>2. \A x \in Blocks : Content(x) = Blank
    BY ContentOnDisk DEF Init
  <2> QED BY <2>1, <2>2 DEF Store!Init, User
<1>2. BufInv /\ BufInv' /\ [Next]_vars => [Store!Next]_(Store!blockstore)
  BY StoreStep DEF Steps
<1> QED BY <1>1, <1>2, BufInvariant, PTL DEF Spec, ImplementsBlockStore, Store!Spec

=============================================================================
